------------------------- MODULE GuardScopesProofs -------------------------
(***************************************************************************)
(* The properties of several Guard scopes in one process, for every set of *)
(* scopes and workers and every program: whatever threads do, a call is    *)
(* booked once and usage is settled exactly; scopes that nest compose, and *)
(* an Abort in one of them stops the calls of all.                         *)
(*                                                                         *)
(* Four layers: how far a scope has come with its patches, and on that who *)
(* may still book a call, what brackets leave in place, and what the hooks *)
(* have read of a model's counter.                                         *)
(***************************************************************************)
EXTENDS GuardScopes, SequenceTheorems, WellFoundedInduction, TLAPS

Busy(w) == doing[w] # Nil

\* The wrapper of s has been stored at point i.
Placed(s, i) ==
  phase[s] \in {"live", "leaving", "ended"} \/ (phase[s] = "entering" /\ i <= put[s])

\* It stands there unless another scope interfered.
Patches(s, i) ==
  \/ phase[s] = "live"
  \/ phase[s] = "entering" /\ i <= put[s]
  \/ phase[s] = "leaving" /\ put[s] < i

\* How far s has come.
ScopeAgrees(s) ==
  /\ phase[s] = "idle" => put[s] = 0 /\ saved[s] = <<>>
  /\ phase[s] = "entering" => Len(saved[s]) = IF put[s] < 3 THEN put[s] + 1 ELSE 3
  /\ phase[s] \in {"live", "leaving", "ended"} => Len(saved[s]) = 3
  /\ phase[s] \in {"live", "ended"} => put[s] = 0
  /\ phase[s] = "leaving" => put[s] < 3
  /\ s \in Range(begun) <=> phase[s] \in {"entering", "live", "leaving"}
  /\ s \in Range(hooks) <=> phase[s] \in {"live", "leaving"}
  /\ s \in Range(litellm_scopes) <=> Patches(s, 2)

\* A wrapper that has not been stored is nowhere.
Unseen(s, i) ==
  /\ installed[Points[i]] # s
  /\ \A t \in Scope : i \in DOMAIN saved[t] => saved[t][i] # s
  /\ \A w \in Worker : Busy(w) /\ doing[w].at = "down" /\ doing[w].point = i => doing[w].fn # s

PatchInv ==
  /\ \A s \in Scope : ScopeAgrees(s)
  /\ \A s \in Scope, i \in DOMAIN Points : ~Placed(s, i) => Unseen(s, i)

-----------------------------------------------------------------------------
\* f is fn or stands under it at point i: it is in every set that holds fn and
\* what its members wrap.
Closed(S, i) ==
  \A r \in S \cap Scope : i \in DOMAIN saved[r] => saved[r][i] \in S

Under(f, fn, i) ==
  \A S \in SUBSET Fn : fn \in S /\ Closed(S, i) => f \in S

\* No wrapper stands under what it wraps.
Acyclic == \A s \in Scope : 1 \in DOMAIN saved[s] => ~Under(s, saved[s][1], 1)

\* What kind of call is where.
Placement(c) ==
  /\ c.kind \in {"bypass", "tool"} => c.at = "down" /\ c.point # 1
  /\ c.at = "hooks" => c.kind \in Llm /\ c.stack = <<>> /\ (c.hook = "before_llm" => c.point = 1)
  /\ c.at = "down" /\ c.point = 2 /\ c.fn # Original => c.stack = <<>>

\* What kind of call is where, at every worker.
Placements == \A w \in Worker : Busy(w) => Placement(doing[w])

\* The wrappers a call went through are distinct, and it meets none of them again.
Descends(c) ==
  /\ IsInjective(c.stack)
  /\ c.at = "down" /\ c.point = 1 => \A j \in DOMAIN c.stack : ~Under(c.stack[j], c.fn, 1)

\* Who has booked a call that is under way.
BooksBy(c) ==
  /\ c.at = "down" \/ (c.at = "hooks" /\ c.hook = "before_llm") => booked[c.id] = <<>>
  /\ c.at = "up" /\ c.stack # <<>> =>
       \A j \in DOMAIN booked[c.id] :
         booked[c.id][j][1] \notin Range(c.stack) /\ booked[c.id][j][2] = "wrapper"

\* A call that no wrapper will book, and one that litellm's callbacks may know.
Free(c) == c.stack = <<>> /\ ~(c.at = "down" /\ c.point = 1) /\ ~(c.at = "hooks" /\ c.hook = "before_llm")
Told(c) == Free(c) /\ c.at # "down"

Marked(id) == \E s \in Scope : id \in bypass_call_ids[s]

Identified(w) ==
  /\ doing[w].id \in due => Told(doing[w])
  /\ \A v \in Worker : Busy(v) /\ v # w => doing[v].id # doing[w].id
  /\ Marked(doing[w].id) => Free(doing[w])

BooksOnce(w) == Descends(doing[w]) /\ BooksBy(doing[w]) /\ Identified(w)

BookInv ==
  /\ Acyclic
  /\ \A w \in Worker : Busy(w) => BooksOnce(w)
  /\ \A id \in 1..program.calls : id > calls \/ id \in due => booked[id] = <<>>
  /\ BookedOnce

-----------------------------------------------------------------------------
\* What the k-th of the scopes that began, and have not ended, found.
Below(k) == IF k = 1 THEN Original ELSE begun[k - 1]

\* Brackets: only the scope that began last is on its way in or out.
NestInv ==
  nested =>
    /\ \A k \in 1..Len(begun)-1 : phase[begun[k]] = "live"
    /\ \A k \in DOMAIN begun : \A i \in DOMAIN saved[begun[k]] : saved[begun[k]][i] = Below(k)
    /\ begun = <<>> =>
         /\ \A i \in DOMAIN Points : installed[Points[i]] = Original
         /\ hooks = <<>> /\ litellm_scopes = <<>>
    /\ begun # <<>> =>
         /\ \A i \in DOMAIN Points :
              installed[Points[i]] = IF Patches(Last(begun), i) THEN Last(begun) ELSE Below(Len(begun))
         /\ hooks = IF phase[Last(begun)] = "entering" THEN Front(begun) ELSE begun
         /\ litellm_scopes = IF Patches(Last(begun), 2) THEN begun ELSE Front(begun)

\* A live scope that was latched when the call began is still ahead of it.
Ahead(c, s) ==
  /\ pending_interrupt[s]
  /\ c.at # "up"
  /\ c.at = "down" => Under(s, c.fn, c.point)
  /\ c.at = "hooks" /\ c.hook = "before_llm" => s \in Range(c.todo) /\ (c.step # "latch" => s # Head(c.todo))

After(c) == c.at = "hooks" /\ c.hook # "before_llm"

StopsAt(c) ==
  \A s \in c.stopped :
    /\ phase[s] \in {"live", "leaving", "ended"}
    /\ nested /\ phase[s] = "live" /\ ~After(c) => Ahead(c, s)

StopInv == \A w \in Worker : Busy(w) => StopsAt(doing[w])

-----------------------------------------------------------------------------
\* A call in the _settle of scope s for a native model.
Settling(c, s) == c.at = "hooks" /\ c.kind = "native" /\ c.todo # <<>> /\ Head(c.todo) = s

\* What it has read covers what is settled, and what was settled covers what it read.
ReadsAgree(c, s) ==
  /\ c.step = "store" /\ c.prev # Nil /\ ~pending_interrupt[s] => c.prev <= base[s] + settled[s]
  /\ c.step \in {"prev", "store"} => c.snap <= counter["native"] /\ (~raced => settled[s] <= c.snap)
  /\ ~raced /\ c.step = "store" /\ c.prev # Nil => settled[s] <= c.prev

ScopeSettles(s) ==
  LET u == last_usage[s]["native"] IN
    u # Nil => u <= counter["native"] /\ (~raced => settled[s] <= u)

ReadInv == \A w \in Worker : Busy(w) => \A s \in Scope : Settling(doing[w], s) => ReadsAgree(doing[w], s)

SettleInv ==
  /\ SettledIsBooked /\ SettledOnce
  /\ \A s \in Scope : ScopeSettles(s)
  /\ ReadInv

IInv == TypeOK /\ PatchInv /\ Placements /\ BookInv /\ NestInv /\ StopInv /\ SettleInv

-----------------------------------------------------------------------------
(***************************************************************************)
(* Sequences without repetitions, and the least element of a set.          *)
(***************************************************************************)
\* Induction over the naturals, for a set.
LEMMA NatsAreIn ==
  ASSUME NEW T, 0 \in T, \A n \in Nat : n \in T => n + 1 \in T
  PROVE  Nat \subseteq T
<1> DEFINE Rest == Nat \ T
<1> SUFFICES ASSUME Rest # {} PROVE FALSE
  OBVIOUS
<1>1. PICK n \in Rest : \A k \in Rest : <<k, n>> \notin OpToRel(<, Nat)
  BY WFMin, NatLessThanWellFounded, Zenon
<1>2. \A k \in Rest : ~(k < n)
  BY <1>1, Zenon DEF OpToRel
<1>3. QED
  BY <1>2

\* A scope that is not registered yet is added at the end.
LEMMA AppendOnce ==
  ASSUME NEW S, NEW seq \in Seq(S), NEW x \in S, IsInjective(seq), x \notin Range(seq)
  PROVE  /\ Append(seq, x) \in Seq(S) /\ IsInjective(Append(seq, x))
         /\ Range(Append(seq, x)) = Range(seq) \cup {x}
<1>1. /\ Len(Append(seq, x)) = Len(seq) + 1 /\ Append(seq, x) \in Seq(S)
      /\ \A i \in 1..Len(seq) : Append(seq, x)[i] = seq[i]
      /\ Append(seq, x)[Len(seq) + 1] = x
      /\ DOMAIN seq = 1..Len(seq) /\ DOMAIN Append(seq, x) = 1..(Len(seq) + 1) /\ Len(seq) \in Nat
  OBVIOUS
<1>2. IsInjective(Append(seq, x))
  BY <1>1 DEF IsInjective, Range
<1>3. Range(Append(seq, x)) = Range(seq) \cup {x}
  BY <1>1 DEF Range
<1>4. QED
  BY <1>1, <1>2, <1>3

\* Without takes out exactly the one entry, wherever it stands.
LEMMA WithoutOne ==
  ASSUME NEW S, NEW seq \in Seq(S), NEW x \in Range(seq), IsInjective(seq)
  PROVE  /\ Without(seq, x) \in Seq(S) /\ IsInjective(Without(seq, x))
         /\ Range(Without(seq, x)) = Range(seq) \ {x}
         /\ Last(seq) = x => Without(seq, x) = Front(seq)
<1> DEFINE k == CHOOSE i \in DOMAIN seq : seq[i] = x
           rest == Without(seq, x)
<1>1. k \in 1..Len(seq) /\ seq[k] = x /\ Len(seq) \in Nat /\ DOMAIN seq = 1..Len(seq)
  BY DEF Range
<1>2. rest = SubSeq(seq, 1, k - 1) \o SubSeq(seq, k + 1, Len(seq))
  BY DEF Without, RemoveAt
<1> HIDE DEF k
<1> DEFINE a == SubSeq(seq, 1, k - 1)
           b == SubSeq(seq, k + 1, Len(seq))
<1>3. /\ a \in Seq(S) /\ Len(a) = k - 1 /\ \A i \in 1..(k - 1) : a[i] = seq[i]
      /\ b \in Seq(S) /\ Len(b) = Len(seq) - k /\ \A i \in 1..(Len(seq) - k) : b[i] = seq[i + k]
  <2>1. \A i \in 1..Len(seq) : seq[i] \in S
    BY <1>1
  <2>2. k - 1 \in Int /\ k + 1 \in Int /\ Len(seq) \in Int /\ 1 \in Int
    BY <1>1
  <2>3. a \in Seq(S) /\ Len(a) = k - 1 /\ \A i \in 1..(k - 1) : a[i] = seq[i]
    <3>1. \A i \in 1..(k - 1) : seq[i] \in S
      BY <1>1, <2>1
    <3>2. /\ a \in Seq(S) /\ Len(a) = IF 1 <= k - 1 THEN k - 1 - 1 + 1 ELSE 0
          /\ \A i \in 1..(k - 1 - 1 + 1) : a[i] = seq[1 + i - 1]
      BY <2>2, <3>1, SubSeqProperties
    <3>3. QED
      BY <1>1, <3>2
  <2>4. b \in Seq(S) /\ Len(b) = Len(seq) - k /\ \A i \in 1..(Len(seq) - k) : b[i] = seq[i + k]
    <3>1. \A i \in (k + 1)..Len(seq) : seq[i] \in S
      BY <1>1, <2>1
    <3>2. /\ b \in Seq(S) /\ Len(b) = IF k + 1 <= Len(seq) THEN Len(seq) - (k + 1) + 1 ELSE 0
          /\ \A i \in 1..(Len(seq) - (k + 1) + 1) : b[i] = seq[k + 1 + i - 1]
      BY <2>2, <3>1, SubSeqProperties
    <3>3. \A i \in 1..(Len(seq) - k) : i \in 1..(Len(seq) - (k + 1) + 1) /\ k + 1 + i - 1 = i + k
      BY <1>1
    <3>4. \A i \in 1..(Len(seq) - k) : b[i] = seq[i + k]
      BY <3>2, <3>3
    <3>5. Len(b) = Len(seq) - k
      <4>1. ASSUME NEW n \in Nat, n = Len(seq) PROVE Len(b) = n - k
        <5>1. k \in 1..n /\ Len(b) = IF k + 1 <= n THEN n - (k + 1) + 1 ELSE 0
          BY <1>1, <3>2, <4>1
        <5>2. QED
          BY <5>1
      <4>2. QED
        BY <1>1, <4>1
    <3>6. QED
      BY <3>2, <3>4, <3>5
  <2>5. QED
    BY <2>3, <2>4
<1>4. /\ rest \in Seq(S) /\ Len(rest) = Len(seq) - 1
      /\ \A i \in 1..(Len(seq) - 1) : rest[i] = IF i < k THEN seq[i] ELSE seq[i + 1]
      /\ DOMAIN rest = 1..(Len(seq) - 1)
  <2>1. rest = a \o b
    BY <1>2
  <2> HIDE DEF a, b, rest
  <2>2. /\ rest \in Seq(S) /\ Len(rest) = Len(a) + Len(b)
        /\ \A i \in 1..(Len(a) + Len(b)) : rest[i] = IF i <= Len(a) THEN a[i] ELSE b[i - Len(a)]
    BY <1>3, <2>1, ConcatProperties
  <2>3. ASSUME NEW i \in 1..(Len(seq) - 1) PROVE rest[i] = IF i < k THEN seq[i] ELSE seq[i + 1]
    <3>1. CASE i < k
      <4>1. i \in 1..(Len(a) + Len(b)) /\ i <= Len(a) /\ i \in 1..(k - 1)
        BY <1>1, <1>3, <3>1
      <4>2. rest[i] = a[i] /\ a[i] = seq[i]
        BY <1>3, <2>2, <4>1
      <4>3. QED
        BY <3>1, <4>2
    <3>2. CASE i >= k
      <4>1. i - (k - 1) \in 1..(Len(seq) - k) /\ (i - (k - 1)) + k = i + 1
        BY <1>1, <3>2
      <4>2. rest[i] = b[i - (k - 1)]
        BY <1>1, <1>3, <2>2, <3>2
      <4>3. QED
        BY <1>1, <1>3, <3>2, <4>1, <4>2
    <3>3. QED
      BY <1>1, <3>1, <3>2
  <2>4. QED
    BY <1>1, <1>3, <2>2, <2>3
<1> HIDE DEF rest
<1>5. /\ \A i, j \in 1..Len(seq) : seq[i] = seq[j] => i = j
      /\ Range(seq) = {seq[i] : i \in 1..Len(seq)}
      /\ Range(rest) = {rest[i] : i \in 1..(Len(seq) - 1)}
  BY <1>1, <1>4 DEF IsInjective, Range
<1>6. IsInjective(rest)
  BY <1>1, <1>4, <1>5 DEF IsInjective
<1>7. \A i \in 1..(Len(seq) - 1) : rest[i] \in Range(seq) \ {x}
  BY <1>1, <1>4, <1>5
<1>8. ASSUME NEW j \in 1..Len(seq), j # k PROVE seq[j] \in Range(rest)
  <2>1. CASE j < k
    BY <1>1, <1>4, <1>5, <2>1
  <2>2. CASE j > k
    <3>1. j - 1 \in 1..(Len(seq) - 1) /\ rest[j - 1] = seq[j]
      BY <1>1, <1>4, <2>2
    <3>2. QED
      BY <1>5, <3>1
  <2>3. QED
    BY <1>1, <1>8, <2>1, <2>2
<1>9. Range(rest) = Range(seq) \ {x}
  <2>1. Range(rest) \subseteq Range(seq) \ {x}
    BY <1>5, <1>7
  <2>2. \A y \in Range(seq) \ {x} : \E j \in 1..Len(seq) : y = seq[j] /\ j # k
    BY <1>1, <1>5
  <2>3. QED
    BY <1>8, <2>1, <2>2
<1>10. ASSUME Last(seq) = x PROVE rest = Front(seq)
  <2>1. Len(seq) \in 1..Len(seq)
    BY <1>1
  <2>2. k = Len(seq)
    BY <1>1, <1>5, <1>10, <2>1 DEF Last
  <2>3. a = Front(seq) /\ b = <<>>
    BY <1>1, <1>3, <2>2, EmptySeq DEF Front
  <2>4. rest = a \o b
    BY <1>2 DEF rest
  <2>5. QED
    BY <1>3, <2>3, <2>4, ConcatEmptySeq
<1>11. QED
  BY <1>4, <1>6, <1>9, <1>10 DEF rest

\* What is known of the last of a sequence, and of the others.
LEMMA FrontAndLast ==
  ASSUME NEW S, NEW seq \in Seq(S), seq # <<>>
  PROVE  /\ Front(seq) \in Seq(S) /\ Last(seq) \in S /\ Len(Front(seq)) = Len(seq) - 1
         /\ Len(seq) \in Nat \ {0} /\ Last(seq) = seq[Len(seq)]
         /\ \A i \in 1..Len(seq)-1 : Front(seq)[i] = seq[i]
         /\ Last(seq) \in Range(seq) /\ Range(Front(seq)) \subseteq Range(seq)
         /\ IsInjective(seq) => IsInjective(Front(seq)) /\ Range(Front(seq)) = Range(seq) \ {Last(seq)}
<1>1. /\ Front(seq) \in Seq(S) /\ Len(Front(seq)) = Len(seq) - 1 /\ Len(seq) \in Nat \ {0}
      /\ \A i \in 1..Len(seq)-1 : Front(seq)[i] = seq[i]
      /\ DOMAIN seq = 1..Len(seq) /\ DOMAIN Front(seq) = 1..Len(seq)-1
  <2>1. Len(seq) \in Nat \ {0} /\ DOMAIN seq = 1..Len(seq) /\ \A i \in 1..Len(seq) : seq[i] \in S
    BY LenProperties, EmptySeq
  <2>2. 1 \in Int /\ Len(seq) - 1 \in Int /\ \A i \in 1..(Len(seq)-1) : seq[i] \in S
    BY <2>1
  <2>3. /\ Front(seq) \in Seq(S) /\ Len(Front(seq)) = IF 1 <= Len(seq) - 1 THEN Len(seq) - 1 - 1 + 1 ELSE 0
        /\ \A i \in 1..(Len(seq) - 1 - 1 + 1) : Front(seq)[i] = seq[1 + i - 1]
    BY <2>2, SubSeqProperties DEF Front
  <2>4. \A i \in 1..Len(seq)-1 : i \in 1..(Len(seq) - 1 - 1 + 1) /\ 1 + i - 1 = i
    BY <2>1
  <2>5. \A i \in 1..Len(seq)-1 : Front(seq)[i] = seq[i]
    BY <2>3, <2>4
  <2>6. Len(Front(seq)) = Len(seq) - 1
    <3>1. ASSUME NEW n \in Nat \ {0}, n = Len(seq) PROVE Len(Front(seq)) = n - 1
      BY <2>3, <3>1
    <3>2. QED
      BY <2>1, <3>1
  <2>7. DOMAIN Front(seq) = 1..Len(seq)-1
    BY <2>3, <2>6, LenProperties
  <2>8. QED
    BY <2>1, <2>3, <2>5, <2>6, <2>7
<1>2. Last(seq) = seq[Len(seq)] /\ Len(seq) \in 1..Len(seq) /\ Last(seq) \in S
  BY <1>1 DEF Last
<1>3. /\ Range(seq) = {seq[i] : i \in 1..Len(seq)}
      /\ Range(Front(seq)) = {seq[i] : i \in 1..Len(seq)-1}
  BY <1>1 DEF Range
<1>4. ASSUME IsInjective(seq)
      PROVE  IsInjective(Front(seq)) /\ Range(Front(seq)) = Range(seq) \ {Last(seq)}
  <2>1. \A i, j \in 1..Len(seq) : seq[i] = seq[j] => i = j
    BY <1>1, <1>4 DEF IsInjective
  <2>2. IsInjective(Front(seq))
    BY <1>1, <2>1 DEF IsInjective
  <2>3. QED
    BY <1>1, <1>2, <1>3, <2>1, <2>2
<1>5. Last(seq) \in Range(seq) /\ Range(Front(seq)) \subseteq Range(seq)
  BY <1>1, <1>2, <1>3
<1>6. QED
  BY <1>1, <1>2, <1>4, <1>5

\* The three points.
LEMMA PointFacts ==
  /\ DOMAIN Points = 1..3 /\ Len(Points) = 3
  /\ Points[1] = "litellm" /\ Points[2] = "gate" /\ Points[3] = "tool"
  /\ Range(Points) = {"litellm", "gate", "tool"}
BY DEF Points, Range

-----------------------------------------------------------------------------
(***************************************************************************)
(* Layer 1: types, and how far each scope has come with its patches.       *)
(***************************************************************************)
PatchTypes ==
  /\ installed \in [Range(Points) -> Fn]
  /\ saved \in [Scope -> Seq(Fn)]
  /\ \A s \in Scope : Len(saved[s]) <= Len(Points) /\ Range(saved[s]) \subseteq Fn \ {s}
  /\ put \in [Scope -> 0..Len(Points)]
  /\ phase \in [Scope -> {"idle", "entering", "live", "leaving", "ended"}]
  /\ hooks \in Seq(Scope) /\ IsInjective(hooks)
  /\ litellm_scopes \in Seq(Scope) /\ IsInjective(litellm_scopes)
  /\ begun \in Seq(Scope) /\ IsInjective(begun)
  /\ nested \in BOOLEAN

CallTypes ==
  /\ total_cost \in [Scope -> 0..program.budget]
  /\ pending_interrupt \in [Scope -> BOOLEAN]
  /\ bypass_call_ids \in [Scope -> SUBSET (1..calls)]
  /\ doing \in [Worker -> {Nil} \cup CallRecord]
  /\ calls \in 0..program.calls /\ due \subseteq 1..calls
  /\ counter \in [Llm -> Nat] /\ last_usage \in [Scope -> [Llm -> Nat \cup {Nil}]]
  /\ raced \in BOOLEAN
  /\ booked \in [1..program.calls -> Seq(Scope \X {"wrapper", "callback"})]
  /\ base \in [Scope -> Nat] /\ settled \in [Scope -> Nat]

LEMMA TypeParts ==
  TypeOK <=> program \in Programs /\ PatchTypes /\ CallTypes
BY DEF TypeOK, PatchTypes, CallTypes

\* The functions that are to be found at point i.
Known(i) ==
  {installed[Points[i]], Original} \cup {saved[t][i] : t \in {u \in Scope : i \in DOMAIN saved[u]}}

\* What a step may do to the patches: a scope stores what it found or itself, what
\* it saved stays as it was, and it saves only at points where it is not placed.
Follows ==
  /\ \A t \in Scope, i \in DOMAIN Points : Placed(t, i) => Placed(t, i)'
  /\ \A i \in DOMAIN Points : \/ installed'[Points[i]] \in Known(i)
                              \/ \E t \in Scope : installed'[Points[i]] = t /\ Placed(t, i)'
  /\ \A t \in Scope : \A i \in DOMAIN saved[t] : i \in DOMAIN saved'[t] /\ saved'[t][i] = saved[t][i]
  /\ \A t \in Scope : \A i \in DOMAIN saved'[t] \ DOMAIN saved[t] :
       ~Placed(t, i) /\ saved'[t][i] = installed[Points[i]]

\* And where a call may go next.
Meeting ==
  \A w \in Worker : Busy(w)' /\ doing'[w].at = "down" =>
    \/ Busy(w) /\ doing[w].at = "down" /\ doing'[w].point = doing[w].point /\ doing'[w].fn = doing[w].fn
    \/ doing'[w].fn \in Known(doing'[w].point)

\* What has been stored nowhere yet is still nowhere after a step.
LEMMA UnseenStays ==
  ASSUME PatchTypes, PatchTypes', PatchInv, Follows, Meeting
  PROVE  \A s \in Scope, i \in DOMAIN Points : ~Placed(s, i)' => Unseen(s, i)'
<1> SUFFICES ASSUME NEW s \in Scope, NEW i \in DOMAIN Points, ~Placed(s, i)' PROVE Unseen(s, i)'
  OBVIOUS
<1>1. ~Placed(s, i) /\ Unseen(s, i)
  BY DEF PatchInv, Follows
<1>2. s \notin Known(i)
  BY <1>1, ScopesAssumption DEF Known, Unseen
<1>3. installed'[Points[i]] # s
  BY <1>2 DEF Follows
<1>4. ASSUME NEW t \in Scope, i \in DOMAIN saved'[t] PROVE saved'[t][i] # s
  <2>1. CASE i \in DOMAIN saved[t]
    BY <1>1, <2>1 DEF Follows, Unseen
  <2>2. CASE i \notin DOMAIN saved[t]
    BY <1>1, <1>4, <2>2 DEF Follows, Unseen
  <2>3. QED
    BY <2>1, <2>2
<1>5. ASSUME NEW w \in Worker, Busy(w)', doing'[w].at = "down", doing'[w].point = i PROVE doing'[w].fn # s
  BY <1>1, <1>2, <1>5 DEF Meeting, Unseen
<1>6. QED
  BY <1>3, <1>4, <1>5 DEF Unseen, Busy

\* A step that concerns another scope.
LEMMA OthersStay ==
  ASSUME NEW s \in Scope, ScopeAgrees(s),
         phase'[s] = phase[s], put'[s] = put[s], saved'[s] = saved[s],
         s \in Range(begun') <=> s \in Range(begun),
         s \in Range(hooks') <=> s \in Range(hooks),
         s \in Range(litellm_scopes') <=> s \in Range(litellm_scopes)
  PROVE  ScopeAgrees(s)'
BY DEF ScopeAgrees, Patches

\* What a scope finds at a point it is about to patch is not itself.
LEMMA FoundIsTyped ==
  ASSUME PatchTypes, PatchInv, NEW s \in Scope, NEW i \in DOMAIN Points, ~Placed(s, i), Len(saved[s]) = i - 1
  PROVE  /\ Found(s, i) \in Seq(Fn) /\ Len(Found(s, i)) = i /\ Range(Found(s, i)) \subseteq Fn \ {s}
         /\ \A k \in DOMAIN saved[s] : Found(s, i)[k] = saved[s][k]
         /\ DOMAIN Found(s, i) = 1..i /\ DOMAIN saved[s] = 1..i-1 /\ Found(s, i)[i] = installed[Points[i]]
<1> DEFINE f == installed[Points[i]]
<1>1. i \in 1..3 /\ Points[i] \in Range(Points)
  BY PointFacts
<1>2. f \in Fn \ {s} /\ saved[s] \in Seq(Fn) /\ Range(saved[s]) \subseteq Fn \ {s}
  BY <1>1 DEF PatchTypes, PatchInv, Unseen
<1>3. Found(s, i) = Append(saved[s], f)
  BY <1>1, PointFacts DEF Found
<1> HIDE DEF f
<1>4. /\ Append(saved[s], f) \in Seq(Fn) /\ Len(Append(saved[s], f)) = i
      /\ \A k \in 1..i-1 : Append(saved[s], f)[k] = saved[s][k]
      /\ Append(saved[s], f)[i] = f
      /\ DOMAIN saved[s] = 1..i-1
  <2>1. Len(saved[s]) + 1 = i
    BY <1>1
  <2>2. QED
    BY <1>2, <2>1, AppendProperties, LenProperties
<1>5. DOMAIN Append(saved[s], f) = 1..i
  BY <1>4, LenProperties
<1>6. Range(Append(saved[s], f)) \subseteq Fn \ {s}
  BY <1>1, <1>2, <1>4, <1>5 DEF Range
<1>7. QED
  BY <1>3, <1>4, <1>5, <1>6 DEF f

\* The actions that move a scope, one by one.
Moves == PatchTypes' /\ (\A r \in Scope : ScopeAgrees(r)') /\ Follows

LEMMA BeginMoves ==
  ASSUME PatchTypes, PatchInv, NEW s \in Scope, Begin(s)
  PROVE  Moves
<1> USE DEF Begin
<1>1. /\ put[s] = 0 /\ saved[s] = <<>> /\ Len(saved[s]) = 0
      /\ s \notin Range(begun) /\ s \notin Range(hooks) /\ s \notin Range(litellm_scopes)
      /\ ~Placed(s, 1) /\ ScopeAgrees(s)
  BY EmptySeq DEF PatchInv, ScopeAgrees, Placed, Patches
<1>2. /\ Found(s, 1) \in Seq(Fn) /\ Len(Found(s, 1)) = 1 /\ Range(Found(s, 1)) \subseteq Fn \ {s}
      /\ DOMAIN Found(s, 1) = 1..1 /\ DOMAIN saved[s] = 1..1-1 /\ Found(s, 1)[1] = installed[Points[1]]
  BY <1>1, PointFacts, FoundIsTyped
<1>3. begun' \in Seq(Scope) /\ IsInjective(begun') /\ Range(begun') = Range(begun) \cup {s}
  BY <1>1, AppendOnce DEF PatchTypes
<1>4. /\ saved' \in [Scope -> Seq(Fn)] /\ saved'[s] = Found(s, 1) /\ \A r \in Scope \ {s} : saved'[r] = saved[r]
      /\ phase'[s] = "entering" /\ \A r \in Scope \ {s} : phase'[r] = phase[r]
  BY <1>2 DEF PatchTypes
<1>5. PatchTypes'
  <2>1. \A r \in Scope : Len(saved'[r]) <= Len(Points) /\ Range(saved'[r]) \subseteq Fn \ {r}
    <3> TAKE r \in Scope
    <3>1. CASE r = s
      <4>1. 1 <= Len(Points)
        BY PointFacts
      <4>2. QED
        BY <1>2, <1>4, <3>1, <4>1
    <3>2. CASE r # s
      BY <1>4, <3>2 DEF PatchTypes
    <3>3. QED
      BY <3>1, <3>2
  <2>2. QED
    BY <1>3, <1>4, <2>1 DEF PatchTypes
<1>6. ASSUME NEW r \in Scope PROVE ScopeAgrees(r)'
  <2>1. CASE r = s
    <3>1. phase'[s] = "entering" /\ put'[s] = 0 /\ Len(saved'[s]) = 1
      BY <1>1, <1>2, <1>4
    <3>2. s \in Range(begun') /\ s \notin Range(hooks') /\ s \notin Range(litellm_scopes')
      BY <1>1, <1>3
    <3>3. QED
      BY <2>1, <3>1, <3>2 DEF ScopeAgrees, Patches
  <2>2. CASE r # s
    BY <1>3, <1>4, <2>2, OthersStay DEF PatchInv
  <2>3. QED
    BY <2>1, <2>2
<1>7. Follows
  <2>1. \A t \in Scope, i \in DOMAIN Points : Placed(t, i) => Placed(t, i)'
    BY <1>1, <1>4 DEF Placed
  <2>2. \A t \in Scope : \A i \in DOMAIN saved[t] : i \in DOMAIN saved'[t] /\ saved'[t][i] = saved[t][i]
    BY <1>1, <1>2, <1>4
  <2>3. ASSUME NEW t \in Scope, NEW i \in DOMAIN saved'[t] \ DOMAIN saved[t]
        PROVE  ~Placed(t, i) /\ saved'[t][i] = installed[Points[i]]
    <3>1. t = s /\ i = 1
      BY <1>2, <1>4
    <3>2. QED
      BY <1>1, <1>2, <1>4, <3>1
  <2>4. QED
    BY <2>1, <2>2, <2>3 DEF Follows, Known
<1>8. QED
  BY <1>5, <1>6, <1>7 DEF Moves

LEMMA InstallMoves ==
  ASSUME PatchTypes, PatchInv, NEW s \in Scope, Install(s)
  PROVE  Moves
<1> USE DEF Install
<1> DEFINE n == put[s] + 1
           f == Found(s, put[s] + 2)
<1>1. /\ put[s] \in 0..2 /\ n \in 1..3 /\ phase[s] = "entering" /\ Len(saved[s]) = n
      /\ s \notin Range(hooks) /\ s \in Range(begun) /\ (s \in Range(litellm_scopes) <=> 2 <= put[s])
      /\ ScopeAgrees(s) /\ Points[n] \in Range(Points)
  BY PointFacts DEF PatchTypes, PatchInv, ScopeAgrees, Patches
<1>2. /\ installed' = [installed EXCEPT ![Points[n]] = s]
      /\ put'[s] = n /\ put' \in [Scope -> 0..3] /\ \A r \in Scope \ {s} : put'[r] = put[r]
      /\ litellm_scopes' = IF Points[n] = "gate" THEN Append(litellm_scopes, s) ELSE litellm_scopes
  BY <1>1, PointFacts DEF PatchTypes
<1>3. /\ f \in Seq(Fn) /\ Range(f) \subseteq Fn \ {s}
      /\ Len(f) = IF n < 3 THEN n + 1 ELSE 3
      /\ \A k \in DOMAIN saved[s] : k \in DOMAIN f /\ f[k] = saved[s][k]
      /\ \A k \in DOMAIN f \ DOMAIN saved[s] : k = n + 1 /\ k \in DOMAIN Points /\ f[k] = installed[Points[k]]
  <2>1. CASE n < 3
    <3>1. n + 1 \in DOMAIN Points /\ ~Placed(s, n + 1) /\ put[s] + 2 = n + 1 /\ Len(saved[s]) = (n + 1) - 1
      BY <1>1, <2>1, PointFacts DEF Placed
    <3>2. /\ f \in Seq(Fn) /\ Len(f) = n + 1 /\ Range(f) \subseteq Fn \ {s}
          /\ \A k \in DOMAIN saved[s] : f[k] = saved[s][k]
          /\ DOMAIN f = 1..n+1 /\ DOMAIN saved[s] = 1..(n+1)-1 /\ f[n+1] = installed[Points[n+1]]
      <4>1. Found(s, n + 1) = f
        BY <3>1
      <4> HIDE DEF f, n
      <4>2. QED
        BY <3>1, <4>1, FoundIsTyped
    <3>3. \A k \in DOMAIN f \ DOMAIN saved[s] : k = n + 1
      BY <1>1, <3>2
    <3>4. \A k \in DOMAIN saved[s] : k \in DOMAIN f
      BY <1>1, <3>2
    <3> HIDE DEF f, n
    <3>5. QED
      BY <2>1, <3>1, <3>2, <3>3, <3>4
  <2>2. CASE n = 3
    <3>1. f = saved[s]
      BY <1>1, <2>2, PointFacts DEF Found
    <3>2. QED
      BY <1>1, <2>2, <3>1 DEF PatchTypes
  <2>3. QED
    BY <1>1, <2>1, <2>2
<1>4. /\ saved' \in [Scope -> Seq(Fn)] /\ saved'[s] = f /\ \A r \in Scope \ {s} : saved'[r] = saved[r]
  BY <1>3 DEF PatchTypes
<1>5. /\ litellm_scopes' \in Seq(Scope) /\ IsInjective(litellm_scopes')
      /\ \A r \in Scope \ {s} : r \in Range(litellm_scopes') <=> r \in Range(litellm_scopes)
      /\ s \in Range(litellm_scopes') <=> 2 <= n
  <2>1. CASE n = 2
    BY <1>1, <1>2, <2>1, PointFacts, AppendOnce DEF PatchTypes
  <2>2. CASE n # 2
    BY <1>1, <1>2, <2>2, PointFacts DEF PatchTypes
  <2>3. QED
    BY <2>1, <2>2
<1> HIDE DEF f
<1>6. \A r \in Scope : Len(saved'[r]) <= Len(Points) /\ Range(saved'[r]) \subseteq Fn \ {r}
  <2> TAKE r \in Scope
  <2>2. CASE r = s
    <3>1. Len(f) <= 3
      BY <1>1, <1>3
    <3>2. QED
      BY <1>3, <1>4, <2>2, <3>1, PointFacts
  <2>3. CASE r # s
    BY <1>4, <2>3 DEF PatchTypes
  <2>4. QED
    BY <2>2, <2>3
<1>7. PatchTypes'
  BY <1>1, <1>2, <1>4, <1>5, <1>6, PointFacts DEF PatchTypes, Fn
<1>8. ASSUME NEW r \in Scope PROVE ScopeAgrees(r)'
  <2>1. CASE r = s
    BY <1>1, <1>2, <1>3, <1>4, <1>5, <2>1, PointFacts DEF ScopeAgrees, Patches
  <2>2. CASE r # s
    BY <1>2, <1>4, <1>5, <2>2, OthersStay DEF PatchInv
  <2>3. QED
    BY <2>1, <2>2
<1>9. Follows
  <2>1. \A t \in Scope, i \in DOMAIN Points : Placed(t, i) => Placed(t, i)'
    BY <1>1, <1>2, PointFacts DEF Placed
  <2>2. ASSUME NEW i \in DOMAIN Points
        PROVE  \/ installed'[Points[i]] = installed[Points[i]]
               \/ installed'[Points[i]] = s /\ Placed(s, i)'
    BY <1>1, <1>2, PointFacts DEF Placed, PatchTypes
  <2>3. \A t \in Scope : \A i \in DOMAIN saved[t] : i \in DOMAIN saved'[t] /\ saved'[t][i] = saved[t][i]
    BY <1>3, <1>4
  <2>4. ASSUME NEW t \in Scope, NEW i \in DOMAIN saved'[t] \ DOMAIN saved[t]
        PROVE  ~Placed(t, i) /\ saved'[t][i] = installed[Points[i]]
    <3>1. t = s /\ i = n + 1
      BY <1>3, <1>4, <2>4
    <3>2. QED
      BY <1>1, <1>3, <1>4, <2>4, <3>1 DEF Placed
  <2>5. QED
    BY <2>1, <2>2, <2>3, <2>4 DEF Follows, Known
<1>10. QED
  BY <1>7, <1>8, <1>9 DEF Moves

\* A step that leaves what the scopes saved and what is installed.
LEMMA NothingStored ==
  ASSUME UNCHANGED <<installed, saved>>,
         \A t \in Scope, i \in DOMAIN Points : Placed(t, i) => Placed(t, i)'
  PROVE  Follows
BY DEF Follows, Known

LEMMA ArmMoves ==
  ASSUME PatchTypes, PatchInv, NEW s \in Scope, Arm(s)
  PROVE  Moves
<1> USE DEF Arm
<1>1. /\ phase[s] = "entering" /\ put[s] = 3 /\ Len(saved[s]) = 3
      /\ s \notin Range(hooks) /\ s \in Range(begun) /\ s \in Range(litellm_scopes)
      /\ ScopeAgrees(s)
  <2>1. phase[s] = "entering" /\ put[s] = 3 /\ ScopeAgrees(s)
    BY PointFacts DEF PatchInv
  <2>2. QED
    BY <2>1 DEF ScopeAgrees, Patches
<1>2. /\ phase'[s] \in {"live", "leaving"} /\ \A r \in Scope \ {s} : phase'[r] = phase[r]
      /\ phase' \in [Scope -> {"idle", "entering", "live", "leaving", "ended"}]
      /\ put'[s] = 0 /\ put' \in [Scope -> 0..3] /\ \A r \in Scope \ {s} : put'[r] = put[r]
  BY PointFacts DEF PatchTypes
<1>3. hooks' \in Seq(Scope) /\ IsInjective(hooks') /\ Range(hooks') = Range(hooks) \cup {s}
  BY <1>1, AppendOnce DEF PatchTypes
<1>4. PatchTypes'
  BY <1>2, <1>3, PointFacts DEF PatchTypes
<1>5. ASSUME NEW r \in Scope PROVE ScopeAgrees(r)'
  <2>1. CASE r = s
    BY <1>1, <1>2, <1>3, <2>1 DEF ScopeAgrees, Patches
  <2>2. CASE r # s
    BY <1>2, <1>3, <2>2, OthersStay DEF PatchInv
  <2>3. QED
    BY <2>1, <2>2
<1>6. Follows
  BY <1>2, NothingStored DEF Placed
<1>7. QED
  BY <1>4, <1>5, <1>6 DEF Moves

LEMMA ReturnMoves ==
  ASSUME PatchTypes, PatchInv, NEW s \in Scope, Return(s)
  PROVE  Moves
<1> USE DEF Return
<1>1. phase'[s] = "leaving" /\ \A r \in Scope \ {s} : phase'[r] = phase[r]
  BY DEF PatchTypes
<1>2. PatchTypes'
  BY DEF PatchTypes, InOrder
<1>3. ASSUME NEW r \in Scope PROVE ScopeAgrees(r)'
  <2>1. CASE r = s
    BY <1>1, <2>1 DEF PatchInv, ScopeAgrees, Patches
  <2>2. CASE r # s
    BY <1>1, <2>2, OthersStay DEF PatchInv
  <2>3. QED
    BY <2>1, <2>2
<1>4. Follows
  BY <1>1, NothingStored DEF Placed
<1>5. QED
  BY <1>2, <1>3, <1>4 DEF Moves

LEMMA RestoreMoves ==
  ASSUME PatchTypes, PatchInv, NEW s \in Scope, Restore(s)
  PROVE  Moves
<1> USE DEF Restore
<1> DEFINE n == put[s] + 1
<1>1. /\ put[s] \in 0..2 /\ n \in 1..3 /\ phase[s] = "leaving" /\ Len(saved[s]) = 3 /\ DOMAIN saved[s] = 1..3
      /\ s \in Range(hooks) /\ s \in Range(begun) /\ (s \in Range(litellm_scopes) <=> n <= 2)
      /\ ScopeAgrees(s) /\ Points[n] \in Range(Points)
  BY PointFacts DEF PatchTypes, PatchInv, ScopeAgrees, Patches
<1>2. saved[s][n] \in Fn
  <2>1. saved[s] \in Seq(Fn)
    BY DEF PatchTypes
  <2>2. QED
    BY <1>1, <2>1, ElementOfSeq
<1>3. /\ installed' = [installed EXCEPT ![Points[n]] = saved[s][n]]
      /\ put'[s] = IF n = 3 THEN 0 ELSE n
      /\ put' \in [Scope -> 0..3] /\ \A r \in Scope \ {s} : put'[r] = put[r]
      /\ litellm_scopes' = IF Points[n] = "gate" THEN Without(litellm_scopes, s) ELSE litellm_scopes
      /\ hooks' = IF n = 3 THEN Without(hooks, s) ELSE hooks
      /\ phase'[s] = IF n = 3 THEN "ended" ELSE "leaving"
      /\ phase' \in [Scope -> {"idle", "entering", "live", "leaving", "ended"}]
      /\ \A r \in Scope \ {s} : phase'[r] = phase[r]
      /\ begun' = IF n = 3 THEN Without(begun, s) ELSE begun
  <2>1. /\ put \in [Scope -> 0..3] /\ phase \in [Scope -> {"idle", "entering", "live", "leaving", "ended"}]
        /\ put' = [put EXCEPT ![s] = IF n = 3 THEN 0 ELSE n]
        /\ phase' = IF n = 3 THEN [phase EXCEPT ![s] = "ended"] ELSE phase
    BY PointFacts DEF PatchTypes
  <2>2. put'[s] = (IF n = 3 THEN 0 ELSE n) /\ \A r \in Scope \ {s} : put'[r] = put[r]
    BY <2>1
  <2>3. put' \in [Scope -> 0..3]
    BY <1>1, <2>1
  <2>4. QED
    BY <1>1, <2>1, <2>2, <2>3, PointFacts DEF Restored
<1>4. /\ litellm_scopes' \in Seq(Scope) /\ IsInjective(litellm_scopes')
      /\ \A r \in Scope \ {s} : r \in Range(litellm_scopes') <=> r \in Range(litellm_scopes)
      /\ s \in Range(litellm_scopes') <=> n < 2
  BY <1>1, <1>3, PointFacts, WithoutOne DEF PatchTypes
<1>5. /\ hooks' \in Seq(Scope) /\ IsInjective(hooks')
      /\ \A r \in Scope \ {s} : r \in Range(hooks') <=> r \in Range(hooks)
      /\ s \in Range(hooks') <=> n # 3
  BY <1>1, <1>3, WithoutOne DEF PatchTypes
<1>6. /\ begun' \in Seq(Scope) /\ IsInjective(begun')
      /\ \A r \in Scope \ {s} : r \in Range(begun') <=> r \in Range(begun)
      /\ s \in Range(begun') <=> n # 3
  BY <1>1, <1>3, WithoutOne DEF PatchTypes
<1>7. PatchTypes'
  BY <1>1, <1>2, <1>3, <1>4, <1>5, <1>6, PointFacts DEF PatchTypes
<1>8. ASSUME NEW r \in Scope PROVE ScopeAgrees(r)'
  <2>1. CASE r = s
    BY <1>1, <1>3, <1>4, <1>5, <1>6, <2>1 DEF ScopeAgrees, Patches
  <2>2. CASE r # s
    BY <1>3, <1>4, <1>5, <1>6, <2>2, OthersStay DEF PatchInv
  <2>3. QED
    BY <2>1, <2>2
<1>9. Follows
  <2>1. \A t \in Scope, i \in DOMAIN Points : Placed(t, i) => Placed(t, i)'
    BY <1>1, <1>3 DEF Placed
  <2>2. ASSUME NEW i \in DOMAIN Points PROVE installed'[Points[i]] \in Known(i)
    <3>1. installed'[Points[i]] = installed[Points[i]] \/ (i = n /\ installed'[Points[i]] = saved[s][n])
      BY <1>1, <1>3, PointFacts DEF PatchTypes
    <3>2. QED
      BY <1>1, <3>1 DEF Known
  <2>3. QED
    BY <2>1, <2>2 DEF Follows
<1>10. QED
  BY <1>7, <1>8, <1>9 DEF Moves

-----------------------------------------------------------------------------
(***************************************************************************)
(* The actions of calls leave the patches alone.                           *)
(***************************************************************************)
\* A wrapper that is stored knows what it wraps.
LEMMA PlacedHasSaved ==
  ASSUME PatchTypes, PatchInv, NEW s \in Scope, NEW i \in DOMAIN Points, Placed(s, i)
  PROVE  i \in DOMAIN saved[s] /\ saved[s][i] \in Fn
<1>1. ScopeAgrees(s) /\ saved[s] \in Seq(Fn) /\ put[s] \in 0..3 /\ i \in 1..3
  BY PointFacts DEF PatchInv, PatchTypes
<1>2. i <= Len(saved[s])
  <2>1. CASE phase[s] = "entering"
    <3>1. i <= put[s] /\ Len(saved[s]) = IF put[s] < 3 THEN put[s] + 1 ELSE 3
      BY <1>1, <2>1 DEF ScopeAgrees, Placed
    <3>2. put[s] <= Len(saved[s])
      <4>1. ASSUME NEW n, n = Len(saved[s]) PROVE put[s] <= n
        BY <1>1, <3>1, <4>1
      <4>2. QED
        BY <4>1
    <3>3. QED
      BY <1>1, <3>1, <3>2, LenProperties
  <2>2. CASE phase[s] # "entering"
    <3>1. phase[s] \in {"live", "leaving", "ended"}
      BY <2>2 DEF Placed
    <3>2. Len(saved[s]) = 3
      BY <1>1, <3>1 DEF ScopeAgrees
    <3>3. QED
      BY <1>1, <3>2
  <2>3. QED
    BY <2>1, <2>2
<1>3. QED
  BY <1>1, <1>2, ElementOfSeq, LenProperties

\* What is known of a call that is under way.
LEMMA BusyRecord ==
  ASSUME CallTypes, NEW w \in Worker, Busy(w)
  PROVE  doing[w] \in CallRecord
BY DEF CallTypes, Busy

\* One worker's call moves on, or ends.
Moved(w, c) == doing' = [doing EXCEPT ![w] = c]

LEMMA MovedTypes ==
  ASSUME CallTypes, NEW w \in Worker, NEW c, Moved(w, c)
  PROVE  /\ doing'[w] = c /\ \A v \in Worker \ {w} : doing'[v] = doing[v]
         /\ c \in {Nil} \cup CallRecord => doing' \in [Worker -> {Nil} \cup CallRecord]
BY DEF CallTypes, Moved

LEMMA MovedMeets ==
  ASSUME CallTypes, NEW w \in Worker, NEW c, Moved(w, c),
         c # Nil /\ c.at = "down" =>
           \/ Busy(w) /\ doing[w].at = "down" /\ c.point = doing[w].point /\ c.fn = doing[w].fn
           \/ c.fn \in Known(c.point)
  PROVE  Meeting
<1>1. doing'[w] = c /\ \A v \in Worker \ {w} : doing'[v] = doing[v]
  BY MovedTypes
<1>2. QED
  BY <1>1 DEF Meeting, Busy

\* What a step of a call keeps, whatever else it does.
Calls == CallTypes' /\ Meeting

LEMMA KnownIsTyped ==
  ASSUME PatchTypes, NEW i \in DOMAIN Points
  PROVE  installed[Points[i]] \in Known(i) \cap Fn /\ Original \in Known(i) \cap Fn
BY PointFacts DEF Known, PatchTypes, Fn

LEMMA CallCalls ==
  ASSUME program \in Programs, PatchTypes, CallTypes, NEW w \in Worker, NEW k \in Kind, Call(w, k)
  PROVE  Calls
<1> DEFINE c == [id |-> calls + 1, kind |-> k, at |-> "down", point |-> At(k),
                 fn |-> Original, stack |-> <<>>, stopped |-> Stopped,
                 hook |-> "before_llm", todo |-> <<>>, step |-> "latch", snap |-> 0, prev |-> Nil]
           d == IF k \in Llm THEN Hooks(c, "before_llm") ELSE [c EXCEPT !.fn = installed[Points[At(k)]]]
<1>1. calls' = calls + 1 /\ Moved(w, d) /\ calls < program.calls /\ program.calls \in Nat
  BY ProgramsAssumption DEF Call, Moved
<1>2. At(k) \in DOMAIN Points /\ installed[Points[At(k)]] \in Known(At(k)) \cap Fn
  <2>1. At(k) \in DOMAIN Points
    BY PointFacts DEF At
  <2>2. QED
    BY <2>1, KnownIsTyped
<1>3. c \in CallRecord' /\ CallRecord \subseteq CallRecord'
  <2>1. calls' \in 0..program.calls /\ calls + 1 \in 1..calls' /\ 1..calls \subseteq 1..calls'
    BY <1>1 DEF CallTypes
  <2>2. <<>> \in Seq(Scope) /\ Stopped \in SUBSET Scope /\ Original \in Fn /\ "before_llm" \in Hook
    BY DEF Stopped, Fn, Hook
  <2>3. QED
    BY <1>2, <2>1, <2>2 DEF CallRecord
<1>4. hooks \in Seq(Scope)
  BY DEF PatchTypes
<1>5. d \in CallRecord'
  <2>1. CASE k \in Llm
    BY <1>3, <1>4, <2>1 DEF CallRecord, Hooks, Fn, Hook
  <2>2. CASE k \notin Llm
    BY <1>2, <1>3, <2>2 DEF CallRecord
  <2>3. QED
    BY <2>1, <2>2
<1>6. d.at = "down" => d.fn \in Known(d.point)
  BY <1>2 DEF Hooks
<1> HIDE DEF c, d
<1>7. Meeting
  BY <1>1, <1>6, MovedMeets
<1>8. doing' \in [Worker -> {Nil} \cup CallRecord']
  BY <1>1, <1>3, <1>5 DEF CallTypes, Moved
<1>9. CallTypes'
  <2>1. calls' \in 0..program.calls /\ 1..calls \subseteq 1..calls'
    BY <1>1 DEF CallTypes
  <2>2. QED
    BY <1>8, <2>1 DEF CallTypes, Call, states, usage
<1>10. QED
  BY <1>7, <1>9 DEF Calls

\* A call in one of its places: what it keeps of the call it was.
LEMMA EnterCalls ==
  ASSUME program \in Programs, PatchTypes, CallTypes, PatchInv, NEW w \in Worker, Enter(w)
  PROVE  Calls
<1> DEFINE c == doing[w]
           s == c.fn
           d == [c EXCEPT !.fn = saved[s][c.point], !.stack = IF c.point = 1 THEN Append(@, s) ELSE @]
<1>1. Busy(w) /\ c \in CallRecord /\ s \in Scope /\ c.point \in DOMAIN Points
  BY BusyRecord DEF Enter, Busy, CallRecord
<1>2. c.point \in DOMAIN saved[s] /\ saved[s][c.point] \in Fn
  <2>1. Placed(s, c.point)
    BY <1>1 DEF PatchInv, Unseen, Enter
  <2>2. QED
    BY <1>1, <2>1, PlacedHasSaved
<1>3. Moved(w, Nil) \/ Moved(w, d)
  BY DEF Enter, Moved, Leave
<1>4. d \in CallRecord
  <2>1. saved[s][c.point] \in Fn /\ Append(c.stack, s) \in Seq(Scope)
    BY <1>1, <1>2 DEF CallRecord
  <2> HIDE DEF s
  <2>2. QED
    BY <1>1, <2>1 DEF CallRecord
<1>5. d.fn \in Known(d.point) /\ d.point = c.point
  <2>1. d.fn = saved[s][c.point] /\ d.point = c.point
    BY <1>1 DEF CallRecord
  <2>2. QED
    BY <1>1, <1>2, <2>1 DEF Known
<1> HIDE DEF d
<1>6. Meeting
  BY <1>3, <1>1, <1>5, MovedMeets
<1>7. doing' \in [Worker -> {Nil} \cup CallRecord]
  BY <1>1, <1>3, <1>4, MovedTypes
<1>8. /\ total_cost' = total_cost /\ calls' = calls /\ due' = due /\ UNCHANGED usage /\ booked' = booked
      /\ program' = program
      /\ pending_interrupt' \in [Scope -> BOOLEAN]
      /\ bypass_call_ids' \in [Scope -> SUBSET (1..calls)]
  <2>1. c.id \in 1..calls
    BY <1>1 DEF CallRecord
  <2>2. /\ total_cost' = total_cost /\ calls' = calls /\ due' = due /\ UNCHANGED usage /\ booked' = booked
        /\ program' = program
    BY DEF Enter, Latch, states
  <2>3. \/ pending_interrupt' = pending_interrupt
        \/ pending_interrupt' = [pending_interrupt EXCEPT ![s] = TRUE]
    BY DEF Enter, Latch, states
  <2>4. \/ bypass_call_ids' = bypass_call_ids
        \/ bypass_call_ids' = [bypass_call_ids EXCEPT ![s] = @ \cup {c.id}]
    BY DEF Enter, Latch, states
  <2>5. pending_interrupt' \in [Scope -> BOOLEAN]
    BY <2>3 DEF CallTypes
  <2>6. bypass_call_ids' \in [Scope -> SUBSET (1..calls)]
    <3>1. bypass_call_ids \in [Scope -> SUBSET (1..calls)]
      BY DEF CallTypes
    <3>2. bypass_call_ids[s] \cup {c.id} \in SUBSET (1..calls)
      BY <1>1, <2>1, <3>1
    <3> HIDE DEF s, c
    <3>3. QED
      BY <2>4, <3>1, <3>2
  <2>7. QED
    BY <2>2, <2>5, <2>6
<1>9. CallRecord' = CallRecord
  BY <1>8 DEF CallRecord
<1>10. CallTypes'
  BY <1>7, <1>8, <1>9 DEF CallTypes, usage
<1>11. QED
  BY <1>6, <1>10 DEF Calls

\* Steps of a call after which it is Nil or a call with as many fields, and which
\* add no call.
LEMMA MoveCalls ==
  ASSUME CallTypes, NEW w \in Worker, NEW c \in {Nil} \cup CallRecord, Moved(w, c),
         program' = program, calls' = calls,
         c # Nil /\ c.at = "down" => c.fn \in Known(c.point)
  PROVE  Meeting /\ CallRecord' = CallRecord /\ doing' \in [Worker -> {Nil} \cup CallRecord']
<1>1. Meeting
  BY MovedMeets
<1>2. CallRecord' = CallRecord
  BY DEF CallRecord
<1>3. QED
  BY <1>1, <1>2, MovedTypes

\* The first scope that admitted a call, if one did.
LEMMA FirstIs ==
  ASSUME PatchTypes, NEW id, Claimant(id) # {}
  PROVE  First(id) \in Scope /\ id \in bypass_call_ids[First(id)]
<1>1. litellm_scopes \in Seq(Scope) /\ DOMAIN litellm_scopes = 1..Len(litellm_scopes) /\ Claimant(id) \subseteq Nat
  BY DEF PatchTypes, Claimant
<1>2. \E i \in Claimant(id) : \A j \in Claimant(id) : i <= j
  <2>1. PICK n \in Claimant(id) : \A k \in Claimant(id) : <<k, n>> \notin OpToRel(<, Nat)
    BY <1>1, WFMin, NatLessThanWellFounded, Zenon
  <2>2. \A k \in Claimant(id) : ~(k < n)
    BY <1>1, <2>1, Zenon DEF OpToRel
  <2>3. QED
    BY <1>1, <2>2
<1> DEFINE i == CHOOSE i \in Claimant(id) : \A j \in Claimant(id) : i <= j
<1>3. i \in Claimant(id) /\ First(id) = litellm_scopes[i]
  BY <1>2, Zenon DEF First
<1> HIDE DEF i
<1>4. QED
  BY <1>1, <1>3, ElementOfSeq DEF Claimant

\* Claim takes the mark of one call off one scope.
LEMMA ClaimTypes ==
  ASSUME PatchTypes, CallTypes, NEW id, Claim(id)
  PROVE  bypass_call_ids' \in [Scope -> SUBSET (1..calls)] /\ \A s \in Scope : bypass_call_ids'[s] \subseteq bypass_call_ids[s]
<1>1. bypass_call_ids \in [Scope -> SUBSET (1..calls)]
  BY DEF CallTypes
<1>2. CASE Claimant(id) = {}
  BY <1>1, <1>2 DEF Claim
<1>3. CASE Claimant(id) # {}
  <2> DEFINE s == First(id)
  <2>1. s \in Scope /\ bypass_call_ids' = [bypass_call_ids EXCEPT ![s] = @ \ {id}]
    BY <1>3, FirstIs DEF Claim
  <2> HIDE DEF s
  <2>2. bypass_call_ids[s] \ {id} \in SUBSET (1..calls)
    BY <1>1, <2>1
  <2>3. QED
    BY <1>1, <2>1, <2>2
<1>4. QED
  BY <1>2, <1>3

\* Account books one call to one scope, within the budget, or latches.
LEMMA AccountTypes ==
  ASSUME program \in Programs, CallTypes, NEW s \in Scope, NEW id \in 1..calls, NEW from \in {"wrapper", "callback"},
         Account(s, id, from)
  PROVE  /\ total_cost' \in [Scope -> 0..program.budget] /\ pending_interrupt' \in [Scope -> BOOLEAN]
         /\ booked' \in [1..program.calls -> Seq(Scope \X {"wrapper", "callback"})]
         /\ booked' = booked \/ booked' = [booked EXCEPT ![id] = Append(@, <<s, from>>)]
         /\ \A t \in Scope : pending_interrupt[t] => pending_interrupt'[t]
<1>1. /\ total_cost \in [Scope -> 0..program.budget] /\ pending_interrupt \in [Scope -> BOOLEAN]
      /\ booked \in [1..program.calls -> Seq(Scope \X {"wrapper", "callback"})]
      /\ id \in 1..program.calls /\ program.budget \in Nat /\ program.calls \in Nat
  BY ProgramsAssumption DEF CallTypes
<1>2. CASE Overruns(s, 1)
  BY <1>1, <1>2 DEF Account, Latch
<1>3. CASE ~Overruns(s, 1)
  <2>1. total_cost[s] + 1 \in 0..program.budget
    BY <1>1, <1>3 DEF Overruns
  <2>2. total_cost' = [total_cost EXCEPT ![s] = total_cost[s] + 1]
    BY <1>3 DEF Account, Book
  <2>3. Append(booked[id], <<s, from>>) \in Seq(Scope \X {"wrapper", "callback"})
    <3>1. booked[id] \in Seq(Scope \X {"wrapper", "callback"}) /\ <<s, from>> \in Scope \X {"wrapper", "callback"}
      BY <1>1
    <3>2. QED
      BY <3>1, AppendProperties
  <2>4. booked' = [booked EXCEPT ![id] = Append(booked[id], <<s, from>>)] /\ pending_interrupt' = pending_interrupt
    BY <1>3 DEF Account
  <2>5. total_cost' \in [Scope -> 0..program.budget]
    BY <1>1, <2>1, <2>2
  <2>6. booked' \in [1..program.calls -> Seq(Scope \X {"wrapper", "callback"})]
    BY <1>1, <2>3, <2>4
  <2>7. QED
    BY <1>1, <2>4, <2>5, <2>6
<1>4. QED
  BY <1>2, <1>3

LEMMA ArriveCalls ==
  ASSUME PatchTypes, CallTypes, NEW w \in Worker, Arrive(w)
  PROVE  Calls
<1> DEFINE c == doing[w]
           d == [c EXCEPT !.point = 2, !.fn = IF Gated(c) THEN installed["gate"] ELSE Original]
<1>1. Busy(w) /\ c \in CallRecord /\ Moved(w, d)
  BY BusyRecord DEF Arrive, Busy, Moved
<1>2. installed["gate"] \in Known(2) \cap Fn /\ Original \in Known(2) \cap Fn /\ 2 \in DOMAIN Points
  BY KnownIsTyped, PointFacts
<1>3. d \in CallRecord /\ d.fn \in Known(d.point)
  BY <1>1, <1>2 DEF CallRecord
<1> HIDE DEF c, d
<1>4. Meeting /\ CallRecord' = CallRecord /\ doing' \in [Worker -> {Nil} \cup CallRecord']
  BY <1>1, <1>3, MoveCalls DEF Arrive
<1>5. QED
  BY <1>4 DEF Calls, CallTypes, Arrive, states, usage

LEMMA OutCalls ==
  ASSUME PatchTypes, CallTypes, NEW w \in Worker, Out(w)
  PROVE  Calls
<1> DEFINE c == doing[w]
           d == IF c.kind \in {"bypass", "tool"} THEN Nil ELSE [c EXCEPT !.at = "up"]
<1>1. Busy(w) /\ c \in CallRecord /\ Moved(w, d)
  BY BusyRecord DEF Out, Busy, Moved
<1>2. d \in {Nil} \cup CallRecord /\ (d # Nil => d.at = "up") /\ c.id \in 1..calls
  BY <1>1 DEF CallRecord
<1>3. due' \subseteq 1..calls
  BY <1>1, <1>2 DEF Out, CallTypes
<1> HIDE DEF c, d
<1>4. Meeting /\ CallRecord' = CallRecord /\ doing' \in [Worker -> {Nil} \cup CallRecord']
  BY <1>1, <1>2, MoveCalls DEF Out
<1>5. QED
  BY <1>3, <1>4 DEF Calls, CallTypes, Out, states, usage

LEMMA FailCalls ==
  ASSUME PatchTypes, CallTypes, NEW w \in Worker, Fail(w)
  PROVE  Calls
<1>1. Moved(w, Nil) /\ Claim(doing[w].id) /\ UNCHANGED <<program, total_cost, pending_interrupt, calls, due, usage, booked>>
  BY DEF Fail, Leave, Moved
<1>2. Meeting /\ CallRecord' = CallRecord /\ doing' \in [Worker -> {Nil} \cup CallRecord']
  BY <1>1, MoveCalls
<1>3. QED
  BY <1>1, <1>2, ClaimTypes DEF Calls, CallTypes, usage

LEMMA UnwindCalls ==
  ASSUME program \in Programs, PatchTypes, CallTypes, NEW w \in Worker, Unwind(w)
  PROVE  Calls
<1> DEFINE c == doing[w]
           s == Last(c.stack)
           d == IF Overruns(s, 1) THEN Nil ELSE [c EXCEPT !.stack = Front(@)]
<1>1. Busy(w) /\ c \in CallRecord /\ c.stack # <<>> /\ c.stack \in Seq(Scope) /\ c.at = "up" /\ Account(s, c.id, "wrapper")
  BY BusyRecord DEF Unwind, Busy, CallRecord
<1>2. Moved(w, d) /\ UNCHANGED <<program, bypass_call_ids, calls, due, usage>>
  BY DEF Unwind, Leave, Moved
<1>3. s \in Scope /\ Front(c.stack) \in Seq(Scope) /\ c.id \in 1..calls
  BY <1>1, FrontAndLast DEF CallRecord
<1>4. d \in {Nil} \cup CallRecord /\ (d # Nil => d.at = "up")
  BY <1>1, <1>3 DEF CallRecord
<1> HIDE DEF c, d, s
<1>5. Meeting /\ CallRecord' = CallRecord /\ doing' \in [Worker -> {Nil} \cup CallRecord']
  BY <1>2, <1>4, MoveCalls
<1>6. QED
  BY <1>1, <1>2, <1>3, <1>5, AccountTypes DEF Calls, CallTypes, usage

LEMMA CallbackCalls ==
  ASSUME program \in Programs, PatchTypes, CallTypes, NEW id \in due, Callback(id)
  PROVE  Calls
<1>1. Claim(id) /\ due' = due \ {id} /\ UNCHANGED <<program, doing, calls, usage>> /\ id \in 1..calls
  BY DEF Callback, CallTypes
<1>2. Meeting /\ CallRecord' = CallRecord
  BY <1>1 DEF Meeting, Busy, CallRecord
<1>3. /\ total_cost' \in [Scope -> 0..program.budget] /\ pending_interrupt' \in [Scope -> BOOLEAN]
      /\ booked' \in [1..program.calls -> Seq(Scope \X {"wrapper", "callback"})]
  <2>1. CASE Claimant(id) = {}
    BY <2>1 DEF Callback, CallTypes
  <2>2. CASE Claimant(id) # {}
    BY <1>1, <2>2, FirstIs, AccountTypes DEF Callback
  <2>3. QED
    BY <2>1, <2>2
<1>4. QED
  BY <1>1, <1>2, <1>3, ClaimTypes DEF Calls, CallTypes, usage

LEMMA MovedPlaces ==
  ASSUME CallTypes, Placements, NEW w \in Worker, NEW c, Moved(w, c), c # Nil => Placement(c)
  PROVE  Placements'
BY MovedTypes DEF Placements, Busy, Placement

\* The actions of one worker.
Works(w) ==
  \/ \E k \in Kind : Call(w, k)
  \/ Enter(w) \/ Arrive(w) \/ Out(w) \/ Fail(w) \/ Unwind(w)
  \/ HookEnter(w) \/ HookBaseline(w) \/ HookSnap(w) \/ HookPrev(w) \/ HookSettle(w) \/ HookError(w)
  \/ Ask(w) \/ Reply(w) \/ Done(w)

\* Those of the hooks that come before the booking, and what a hook may change of a call.
HookChange(c, d) ==
  /\ d.id = c.id /\ d.kind = c.kind /\ d.at = "hooks" /\ c.at = "hooks" /\ d.point = c.point /\ d.fn = c.fn
  /\ d.stack = c.stack /\ d.stopped = c.stopped /\ d.hook = c.hook

\* A step within the hooks ends the turn or leaves the call in them.
LEMMA HookMoves ==
  ASSUME NEW w \in Worker, doing[w] \in CallRecord,
         HookEnter(w) \/ HookBaseline(w) \/ HookSnap(w) \/ HookPrev(w) \/ HookSettle(w)
  PROVE  doing[w].at = "hooks" /\ (Moved(w, Nil) \/ \E d : Moved(w, d) /\ HookChange(doing[w], d))
<1> DEFINE c == doing[w]
<1>1. c.at = "hooks"
  BY DEF HookEnter, HookBaseline, HookSnap, HookPrev, HookSettle, InHook
<1>2. CASE HookEnter(w) \/ HookBaseline(w)
  <2>1. Moved(w, Nil) \/ \E x : Moved(w, [c EXCEPT !.step = x])
    BY <1>2 DEF HookEnter, HookBaseline, Leave, To, Moved
  <2>2. \A x : HookChange(c, [c EXCEPT !.step = x])
    BY <1>1 DEF HookChange, CallRecord
  <2>3. QED
    BY <1>1, <2>1, <2>2
<1>3. CASE HookSnap(w)
  <2> DEFINE d == [c EXCEPT !.snap = counter[c.kind], !.step = "prev"]
  <2>1. Moved(w, d) /\ HookChange(c, d)
    BY <1>1, <1>3 DEF HookSnap, HookChange, CallRecord, Moved
  <2>2. QED
    BY <1>1, <2>1
<1>4. CASE HookPrev(w)
  <2> DEFINE d == [c EXCEPT !.prev = last_usage[Head(c.todo)][c.kind], !.step = "store"]
  <2>1. Moved(w, d) /\ HookChange(c, d)
    BY <1>1, <1>4 DEF HookPrev, HookChange, CallRecord, Moved
  <2>2. QED
    BY <1>1, <2>1
<1>5. CASE HookSettle(w)
  <2> DEFINE d == [c EXCEPT !.todo = Tail(@), !.step = "latch", !.snap = 0, !.prev = Nil]
  <2>1. Moved(w, Nil) \/ Moved(w, d)
    BY <1>5 DEF HookSettle, Leave, Moved
  <2>2. HookChange(c, d)
    BY <1>1 DEF HookChange, CallRecord
  <2>3. QED
    BY <1>1, <2>1, <2>2
<1>6. QED
  BY <1>2, <1>3, <1>4, <1>5

LEMMA PlacementsStay ==
  ASSUME CallTypes, Placements, NEW w \in Worker, Works(w)
  PROVE  Placements'
<1> DEFINE c == doing[w]
<1>1. ASSUME NEW k \in Kind, Call(w, k) PROVE Placements'
  <2> DEFINE e == [id |-> calls + 1, kind |-> k, at |-> "down", point |-> At(k),
                   fn |-> Original, stack |-> <<>>, stopped |-> Stopped,
                   hook |-> "before_llm", todo |-> <<>>, step |-> "latch", snap |-> 0, prev |-> Nil]
             d == IF k \in Llm THEN Hooks(e, "before_llm") ELSE [e EXCEPT !.fn = installed[Points[At(k)]]]
  <2>1. Moved(w, d)
    BY <1>1 DEF Call, Moved
  <2>2. Placement(d)
    BY DEF Placement, Hooks, At, Llm, Kind
  <2> HIDE DEF d
  <2>3. QED
    BY <2>1, <2>2, MovedPlaces
<1>2. ASSUME ~\E k \in Kind : Call(w, k) PROVE Busy(w) /\ c \in CallRecord /\ Placement(c)
  <2>1. Busy(w)
    BY <1>2 DEF Works, Enter, Arrive, Out, Fail, Unwind, HookEnter, HookBaseline, HookSnap, HookPrev, HookSettle,
                HookError, InHook, Ask, Reply, Done, Busy
  <2>2. QED
    BY <2>1, BusyRecord DEF Placements
<1>3. CASE Fail(w) \/ HookError(w) \/ Done(w)
  BY <1>3, MovedPlaces DEF Fail, HookError, Done, Leave, Moved
<1>4. ASSUME ~\E k \in Kind : Call(w, k), NEW d, Moved(w, d), d = Nil \/ Placement(d) PROVE Placements'
  BY <1>4, MovedPlaces
<1>5. CASE ~(\E k \in Kind : Call(w, k)) /\ Enter(w)
  <2> DEFINE d == [c EXCEPT !.fn = saved[c.fn][c.point], !.stack = IF c.point = 1 THEN Append(@, c.fn) ELSE @]
  <2>1. Moved(w, Nil) \/ Moved(w, d)
    BY <1>5 DEF Enter, Moved, Leave
  <2>2. Placement(d)
    BY <1>2, <1>5, ScopesAssumption DEF Placement, CallRecord, Enter
  <2>3. QED
    BY <1>4, <1>5, <2>1, <2>2
<1>6. CASE ~(\E k \in Kind : Call(w, k)) /\ Arrive(w)
  <2> DEFINE d == [c EXCEPT !.point = 2, !.fn = IF Gated(c) THEN installed["gate"] ELSE Original]
  <2>1. Moved(w, d)
    BY <1>6 DEF Arrive, Moved
  <2>2. Placement(d)
    BY <1>2, <1>6 DEF Placement, CallRecord, Arrive, Gated
  <2>3. QED
    BY <1>4, <1>6, <2>1, <2>2
<1>7. CASE ~(\E k \in Kind : Call(w, k)) /\ Out(w)
  <2> DEFINE d == IF c.kind \in {"bypass", "tool"} THEN Nil ELSE [c EXCEPT !.at = "up"]
  <2>1. Moved(w, d)
    BY <1>7 DEF Out, Moved
  <2>2. d = Nil \/ Placement(d)
    BY <1>2, <1>7 DEF Placement, CallRecord, Out
  <2>3. QED
    BY <1>4, <1>7, <2>1, <2>2
<1>8. CASE ~(\E k \in Kind : Call(w, k)) /\ Unwind(w)
  <2> DEFINE d == [c EXCEPT !.stack = Front(@)]
  <2>1. Moved(w, Nil) \/ Moved(w, d)
    BY <1>8 DEF Unwind, Moved, Leave
  <2>2. Placement(d)
    BY <1>2, <1>8 DEF Placement, CallRecord, Unwind
  <2>3. QED
    BY <1>4, <1>8, <2>1, <2>2
<1>9. CASE ~(\E k \in Kind : Call(w, k)) /\ (HookEnter(w) \/ HookBaseline(w) \/ HookSnap(w) \/ HookPrev(w) \/ HookSettle(w))
  <2>1. Moved(w, Nil) \/ \E d : Moved(w, d) /\ HookChange(c, d)
    BY <1>2, <1>9, HookMoves
  <2>2. \A d : HookChange(c, d) => Placement(d)
    BY <1>2, <1>9 DEF Placement, HookChange
  <2>3. QED
    BY <1>4, <1>9, <2>1, <2>2
<1>10. CASE ~(\E k \in Kind : Call(w, k)) /\ Ask(w)
  <2> DEFINE d == IF c.kind = "routed" THEN [c EXCEPT !.at = "down", !.fn = installed["litellm"]] ELSE [c EXCEPT !.at = "up"]
  <2>1. Moved(w, d)
    BY <1>10 DEF Ask, Moved
  <2>2. Placement(d)
    BY <1>2, <1>10 DEF Placement, CallRecord, Ask, Llm
  <2>3. QED
    BY <1>4, <1>10, <2>1, <2>2
<1>11. CASE ~(\E k \in Kind : Call(w, k)) /\ Reply(w)
  <2>1. Moved(w, Nil) \/ (c.kind \in Llm /\ \E h \in {"after_llm", "before_tool"} : Moved(w, Hooks(c, h)))
    BY <1>11 DEF Reply, Leave, Moved
  <2>2. ASSUME c.kind \in Llm, NEW h \in {"after_llm", "before_tool"} PROVE Placement(Hooks(c, h))
    BY <1>2, <1>11, <2>2 DEF Placement, CallRecord, Reply, Hooks, Llm
  <2>3. QED
    BY <1>4, <1>11, <2>1, <2>2
<1>12. QED
  BY <1>1, <1>3, <1>5, <1>6, <1>7, <1>8, <1>9, <1>10, <1>11 DEF Works

\* A worker that is in the hooks, and the scope whose hook is next.
LEMMA InHookFacts ==
  ASSUME CallTypes, Placements, NEW w \in Worker, Busy(w), doing[w].at = "hooks", doing[w].todo # <<>>
  PROVE  /\ doing[w] \in CallRecord /\ doing[w].kind \in Llm
         /\ Head(doing[w].todo) \in Range(doing[w].todo) \cap Scope /\ Tail(doing[w].todo) \in Seq(Scope)
         /\ Range(doing[w].todo) \subseteq Range(Tail(doing[w].todo)) \cup {Head(doing[w].todo)}
<1> DEFINE t == doing[w].todo
<1>1. doing[w] \in CallRecord /\ t \in Seq(Scope) /\ t # <<>> /\ doing[w].kind \in Llm
  BY BusyRecord DEF CallRecord, Placements, Placement
<1>2. /\ Head(t) \in Scope /\ Tail(t) \in Seq(Scope) /\ Len(Tail(t)) = Len(t) - 1
      /\ \A i \in 1..Len(Tail(t)) : Tail(t)[i] = t[i + 1]
      /\ Head(t) = t[1] /\ 1 \in DOMAIN t
  BY <1>1, HeadTailProperties
<1> HIDE DEF t
<1>3. \A i \in DOMAIN t : t[i] \in Range(Tail(t)) \cup {Head(t)}
  <2> TAKE i \in DOMAIN t
  <2>1. i \in 1..Len(t) /\ Len(t) \in Nat /\ DOMAIN Tail(t) = 1..Len(Tail(t))
    BY <1>1, <1>2, LenProperties
  <2>2. CASE i = 1
    BY <1>2, <2>2
  <2>3. CASE i # 1
    <3>1. i - 1 \in 1..Len(Tail(t)) /\ (i - 1) + 1 = i
      BY <1>2, <2>1, <2>3
    <3>2. Tail(t)[i - 1] = t[i]
      BY <1>2, <3>1
    <3>3. QED
      BY <2>1, <3>1, <3>2 DEF Range
  <2>4. QED
    BY <2>2, <2>3
<1>4. QED
  BY <1>1, <1>2, <1>3 DEF Range, t

\* What the booking of a hook adds up to.
Delta(c) == IF Settles(c) THEN Grown(c) ELSE Estimated(c)
Spent(c) == total_cost[Head(c.todo)] + (IF Overruns(Head(c.todo), Delta(c)) THEN 0 ELSE Delta(c))

LEMMA SpentIs ==
  ASSUME program \in Programs, CallTypes, NEW c \in CallRecord, Head(c.todo) \in Scope
  PROVE  /\ Grown(c) \in Nat /\ Delta(c) \in Nat /\ Spent(c) \in 0..program.budget
         /\ Spent(c) = total_cost[Head(c.todo)] + Delta(c)
              \/ (Delta(c) > 0 /\ Overruns(Head(c.todo), Delta(c)) /\ Spent(c) = total_cost[Head(c.todo)])
         /\ total_cost[Head(c.todo)] \in Nat
<1> DEFINE s == Head(c.todo)
<1>1. c.snap \in Nat /\ c.prev \in Nat \cup {Nil} /\ total_cost[s] \in 0..program.budget /\ program.budget \in Nat
  BY ProgramsAssumption DEF CallRecord, CallTypes
<1>2. Grown(c) \in Nat
  BY <1>1 DEF Grown
<1>3. Delta(c) \in Nat
  BY <1>2 DEF Delta, Estimated
<1>4. CASE Overruns(s, Delta(c))
  BY <1>1, <1>2, <1>3, <1>4 DEF Spent, Overruns
<1>5. CASE ~Overruns(s, Delta(c))
  BY <1>1, <1>2, <1>3, <1>5 DEF Spent, Overruns
<1>6. QED
  BY <1>4, <1>5

LEMMA HookCalls ==
  ASSUME program \in Programs, CallTypes, Placements, NEW w \in Worker,
         HookEnter(w) \/ HookBaseline(w) \/ HookSnap(w) \/ HookPrev(w) \/ HookSettle(w) \/ HookError(w)
  PROVE  Calls
<1> DEFINE c == doing[w]
           s == Head(c.todo)
<1>1. Busy(w) /\ c.at = "hooks" /\ c.todo # <<>>
  BY DEF HookEnter, HookBaseline, HookSnap, HookPrev, HookSettle, HookError, InHook, Busy
<1>2. /\ c \in CallRecord /\ c.kind \in Llm /\ s \in Scope /\ Tail(c.todo) \in Seq(Scope)
      /\ counter[c.kind] \in Nat /\ last_usage[s][c.kind] \in Nat \cup {Nil}
      /\ c.snap \in Nat /\ base[s] \in Nat
  <2>1. c \in CallRecord /\ c.kind \in Llm /\ s \in Scope /\ Tail(c.todo) \in Seq(Scope)
    BY <1>1, InHookFacts
  <2>2. c.snap \in Nat
    BY <2>1 DEF CallRecord
  <2> HIDE DEF c, s
  <2>3. counter[c.kind] \in Nat /\ base[s] \in Nat
    BY <2>1 DEF CallTypes
  <2>4. last_usage[s][c.kind] \in Nat \cup {Nil}
    BY <2>1 DEF CallTypes
  <2>5. QED
    BY <2>1, <2>2, <2>3, <2>4
<1>3. program' = program /\ calls' = calls
  BY DEF HookEnter, HookBaseline, HookSnap, HookPrev, HookSettle, HookError
<1>4. ASSUME NEW d \in {Nil} \cup CallRecord, Moved(w, d), d # Nil => d.at = "hooks"
      PROVE  Meeting /\ CallRecord' = CallRecord /\ doing' \in [Worker -> {Nil} \cup CallRecord']
  BY <1>3, <1>4, MoveCalls
<1>5. CASE HookEnter(w)
  <2>1. \A x \in {"baseline", "snap", "store"} : [c EXCEPT !.step = x] \in CallRecord /\ [c EXCEPT !.step = x].at = "hooks"
    BY <1>1, <1>2 DEF CallRecord
  <2>2. Moved(w, Nil) \/ \E x \in {"baseline", "snap", "store"} : Moved(w, [c EXCEPT !.step = x])
    BY <1>5 DEF HookEnter, Leave, To, Moved
  <2>3. QED
    BY <1>4, <1>5, <2>1, <2>2 DEF HookEnter, Calls, CallTypes, states, usage
<1>6. CASE HookSnap(w)
  <2> DEFINE d == [c EXCEPT !.snap = counter[c.kind], !.step = "prev"]
  <2>1. Moved(w, d) /\ d \in CallRecord /\ d.at = "hooks"
    BY <1>1, <1>2, <1>6 DEF HookSnap, Moved, CallRecord
  <2> HIDE DEF d
  <2>2. QED
    BY <1>4, <1>6, <2>1 DEF HookSnap, Calls, CallTypes, states, usage
<1>7. CASE HookPrev(w)
  <2> DEFINE d == [c EXCEPT !.prev = last_usage[s][c.kind], !.step = "store"]
  <2>1. Moved(w, d) /\ d \in CallRecord /\ d.at = "hooks"
    BY <1>1, <1>2, <1>7 DEF HookPrev, Moved, CallRecord
  <2> HIDE DEF d
  <2>2. QED
    BY <1>4, <1>7, <2>1 DEF HookPrev, Calls, CallTypes, states, usage
<1>8. CASE HookError(w)
  <2>1. Moved(w, Nil) /\ pending_interrupt' \in [Scope -> BOOLEAN]
    BY <1>8 DEF HookError, Leave, Moved, Latch, CallTypes
  <2>2. QED
    BY <1>4, <1>8, <2>1 DEF HookError, Calls, CallTypes, usage
<1>9. CASE HookBaseline(w)
  <2> DEFINE d == [c EXCEPT !.step = "snap"]
  <2>1. Moved(w, d) /\ d \in CallRecord /\ d.at = "hooks"
    BY <1>1, <1>2, <1>9 DEF HookBaseline, To, Moved, CallRecord
  <2>2. last_usage' \in [Scope -> [Llm -> Nat \cup {Nil}]]
    <3>1. last_usage' = [last_usage EXCEPT ![s][c.kind] = counter[c.kind]]
      BY <1>9 DEF HookBaseline
    <3> HIDE DEF c, s
    <3>2. QED
      BY <1>2, <3>1 DEF CallTypes
  <2>3. base' \in [Scope -> Nat]
    <3> DEFINE e == [c EXCEPT !.snap = counter[c.kind]]
    <3>1. e.snap \in Nat
      BY <1>2 DEF CallRecord
    <3>2. base' = Rebased(s, e)
      BY <1>9 DEF HookBaseline
    <3> HIDE DEF e
    <3>3. QED
      BY <1>2, <3>1, <3>2 DEF CallTypes, Rebased
  <2> HIDE DEF d
  <2>4. QED
    BY <1>4, <1>9, <2>1, <2>2, <2>3 DEF HookBaseline, Calls, CallTypes, states
<1>10. CASE HookSettle(w)
  <2> DEFINE d == [c EXCEPT !.todo = Tail(@), !.step = "latch", !.snap = 0, !.prev = Nil]
  <2>1. (Moved(w, Nil) \/ Moved(w, d)) /\ d \in CallRecord /\ d.at = "hooks"
    BY <1>1, <1>2, <1>10 DEF HookSettle, Leave, Moved, CallRecord
  <2>2. /\ total_cost' = [total_cost EXCEPT ![s] = Spent(c)]
        /\ settled' = [settled EXCEPT ![s] = @ + IF Settles(c) THEN Spent(c) - total_cost[s] ELSE 0]
        /\ last_usage' = last_usage \/ last_usage' = [last_usage EXCEPT ![s][c.kind] = c.snap]
        /\ base' = base \/ base' = Rebased(s, c)
        /\ pending_interrupt' = pending_interrupt \/ pending_interrupt' = [pending_interrupt EXCEPT ![s] = TRUE]
        /\ raced' \in BOOLEAN
    BY <1>10 DEF HookSettle, Spent, Delta, Latch, CallTypes
  <2>3. Spent(c) \in 0..program.budget /\ Spent(c) >= total_cost[s] /\ total_cost[s] \in Nat
    BY <1>2, SpentIs
  <2> HIDE DEF c, d, s
  <2>4. total_cost' \in [Scope -> 0..program.budget] /\ settled' \in [Scope -> Nat]
    <3>1. settled[s] \in Nat
      BY <1>2 DEF CallTypes
    <3>2. Spent(c) \in Nat
      BY <2>3
    <3>3. settled[s] + (IF Settles(c) THEN Spent(c) - total_cost[s] ELSE 0) \in Nat
      BY <2>3, <3>1, <3>2
    <3>4. total_cost' \in [Scope -> 0..program.budget]
      BY <1>2, <2>2, <2>3 DEF CallTypes
    <3>5. settled' \in [Scope -> Nat]
      BY <1>2, <2>2, <3>3 DEF CallTypes
    <3>6. QED
      BY <3>4, <3>5
  <2>5. last_usage' \in [Scope -> [Llm -> Nat \cup {Nil}]] /\ base' \in [Scope -> Nat]
    <3>1. last_usage \in [Scope -> [Llm -> Nat \cup {Nil}]] /\ base \in [Scope -> Nat]
      BY DEF CallTypes
    <3>2. base' \in [Scope -> Nat]
      BY <1>2, <2>2, <3>1 DEF Rebased
    <3>3. last_usage' \in [Scope -> [Llm -> Nat \cup {Nil}]]
      <4>1. ASSUME NEW l \in Llm, NEW n \in Nat, last_usage' = [last_usage EXCEPT ![s][l] = n]
            PROVE  last_usage' \in [Scope -> [Llm -> Nat \cup {Nil}]]
        <5>1. [last_usage[s] EXCEPT ![l] = n] \in [Llm -> Nat \cup {Nil}]
          BY <1>2, <3>1
        <5>2. last_usage' = [last_usage EXCEPT ![s] = [last_usage[s] EXCEPT ![l] = n]]
          BY <4>1
        <5>3. QED
          BY <1>2, <3>1, <5>1, <5>2
      <4>2. QED
        BY <1>2, <2>2, <3>1, <4>1
    <3>4. QED
      BY <3>2, <3>3
  <2>6. pending_interrupt' \in [Scope -> BOOLEAN]
    BY <2>2 DEF CallTypes
  <2>7. QED
    BY <1>4, <1>10, <2>1, <2>2, <2>4, <2>5, <2>6 DEF HookSettle, Calls, CallTypes
<1>11. QED
  BY <1>5, <1>6, <1>7, <1>8, <1>9, <1>10

LEMMA TurnCalls ==
  ASSUME PatchTypes, CallTypes, Placements, NEW w \in Worker, Ask(w) \/ Reply(w) \/ Done(w)
  PROVE  Calls
<1> DEFINE c == doing[w]
<1>1. Busy(w) /\ c \in CallRecord /\ Placement(c)
  BY BusyRecord DEF Ask, Reply, Done, Busy, Placements
<1>2. program' = program /\ calls' = calls
  BY DEF Ask, Reply, Done
<1>3. CASE Ask(w)
  <2> DEFINE d == IF c.kind = "routed" THEN [c EXCEPT !.at = "down", !.fn = installed["litellm"]] ELSE [c EXCEPT !.at = "up"]
  <2>1. Moved(w, d)
    BY <1>3 DEF Ask, Moved
  <2>2. installed["litellm"] \in Known(1) \cap Fn /\ c.point = 1
    BY <1>1, <1>3, KnownIsTyped, PointFacts DEF Placement, Ask
  <2>3. d \in CallRecord /\ (d.at = "down" => d.fn \in Known(d.point))
    BY <1>1, <2>2 DEF CallRecord
  <2> HIDE DEF d
  <2>4. QED
    BY <1>2, <1>3, <2>1, <2>3, MoveCalls DEF Ask, Calls, CallTypes, states, usage
<1>4. CASE Done(w)
  <2>1. Moved(w, Nil)
    BY <1>4 DEF Done, Leave, Moved
  <2>2. QED
    BY <1>2, <1>4, <2>1, MoveCalls DEF Done, Calls, CallTypes, states, usage
<1>5. CASE Reply(w)
  <2>1. \/ Moved(w, Nil) /\ counter' = counter
        \/ c.kind \in Llm /\ counter' = [counter EXCEPT ![c.kind] = @ + 1]
             /\ \E h \in {"after_llm", "before_tool"} : Moved(w, Hooks(c, h))
    BY <1>5 DEF Reply, Leave, Moved
  <2>2. \A h \in {"after_llm", "before_tool"} : Hooks(c, h) \in CallRecord /\ Hooks(c, h).at = "hooks"
    BY <1>1 DEF CallRecord, Hooks, PatchTypes, Fn, Hook
  <2>3. counter' \in [Llm -> Nat]
    <3>1. counter' = counter \/ (c.kind \in Llm /\ counter' = [counter EXCEPT ![c.kind] = @ + 1])
      BY <2>1
    <3>2. counter \in [Llm -> Nat]
      BY DEF CallTypes
    <3>3. ASSUME NEW l \in Llm, counter' = [counter EXCEPT ![l] = @ + 1] PROVE counter' \in [Llm -> Nat]
      BY <3>2, <3>3
    <3>4. QED
      BY <3>1, <3>2, <3>3
  <2> HIDE DEF c
  <2>4. Meeting /\ CallRecord' = CallRecord /\ doing' \in [Worker -> {Nil} \cup CallRecord']
    BY <1>2, <2>1, <2>2, MoveCalls
  <2>5. QED
    BY <1>5, <2>3, <2>4 DEF Reply, Calls, CallTypes, states
<1>6. QED
  BY <1>3, <1>4, <1>5

\* Every step is a step of one scope, of one worker or of the accountant.
LEMMA NextCases ==
  ASSUME [Next]_vars
  PROVE  \/ \E s \in Scope : Begin(s) \/ Install(s) \/ Arm(s) \/ Return(s) \/ Restore(s)
         \/ \E w \in Worker : Works(w)
         \/ \E id \in due : Callback(id)
         \/ UNCHANGED vars
BY Zenon DEF Next, Works

\* What an action of a scope leaves alone, and what the others leave alone.
LEMMA ScopesKeepCalls ==
  ASSUME NEW s \in Scope, Begin(s) \/ Install(s) \/ Arm(s) \/ Return(s) \/ Restore(s)
  PROVE  UNCHANGED <<program, states, doing, calls, due, usage, booked>>
BY DEF Begin, Install, Arm, Return, Restore

LEMMA WorkersKeepPatches ==
  ASSUME (\E w \in Worker : Works(w)) \/ (\E id \in due : Callback(id))
  PROVE  UNCHANGED <<patches, program>>
<1>1. CASE \E id \in due : Callback(id)
  BY <1>1 DEF Callback
<1>2. CASE \E w \in Worker : Works(w)
  <2>1. PICK w \in Worker : Works(w)
    BY <1>2
  <2>2. CASE (\E k \in Kind : Call(w, k)) \/ Enter(w) \/ Arrive(w) \/ Out(w) \/ Fail(w) \/ Unwind(w)
    BY <2>2 DEF Call, Enter, Arrive, Out, Fail, Unwind
  <2>3. CASE HookEnter(w) \/ HookBaseline(w) \/ HookSnap(w) \/ HookPrev(w)
    BY <2>3 DEF HookEnter, HookBaseline, HookSnap, HookPrev
  <2>4. CASE HookSettle(w) \/ HookError(w) \/ Ask(w) \/ Reply(w) \/ Done(w)
    BY <2>4 DEF HookSettle, HookError, Ask, Reply, Done
  <2>5. QED
    BY <2>1, <2>2, <2>3, <2>4 DEF Works
<1>3. QED
  BY <1>1, <1>2

\* With the patches as they are, the scopes are where they were.
LEMMA PatchesKept ==
  ASSUME UNCHANGED patches, PatchTypes, PatchInv
  PROVE  PatchTypes' /\ (\A s \in Scope : ScopeAgrees(s)') /\ Follows
<1>1. PatchTypes'
  BY DEF patches, PatchTypes
<1>2. \A s \in Scope : ScopeAgrees(s)'
  BY DEF patches, PatchInv, ScopeAgrees, Patches
<1>3. Follows
  BY NothingStored DEF patches, Placed
<1>4. QED
  BY <1>1, <1>2, <1>3

Layer1 == TypeOK /\ PatchInv /\ Placements

LEMMA Layer1Init == Init => Layer1
<1> SUFFICES ASSUME Init PROVE Layer1
  OBVIOUS
<1>1. <<>> \in Seq(Scope \X {"wrapper", "callback"})
  BY EmptySeq
<1>2. <<>> \in Seq(Scope) /\ Len(<<>>) = 0 /\ Range(<<>>) = {} /\ IsInjective(<<>>) /\ <<>> \in Seq(Fn)
  BY EmptySeq DEF Range, IsInjective
<1>3. program.budget \in Nat /\ program.calls \in Nat
  BY ProgramsAssumption DEF Init
<1>4. PatchTypes
  BY <1>2, PointFacts DEF Init, PatchTypes, Fn
<1>5. CallTypes
  <2>1. 0 \in 0..program.budget /\ 0 \in 0..program.calls
    BY <1>3
  <2>2. booked \in [1..program.calls -> Seq(Scope \X {"wrapper", "callback"})]
    BY <1>1 DEF Init
  <2>3. QED
    BY <2>1, <2>2 DEF Init, CallTypes
<1>6. PatchInv
  <2>1. \A s \in Scope : ScopeAgrees(s)
    BY <1>2 DEF Init, ScopeAgrees, Patches
  <2>2. \A s \in Scope, i \in DOMAIN Points : Unseen(s, i)
    BY PointFacts, ScopesAssumption DEF Init, Unseen, Busy
  <2>3. QED
    BY <2>1, <2>2 DEF PatchInv
<1>7. Placements
  BY DEF Init, Placements, Busy
<1>8. QED
  BY <1>4, <1>5, <1>6, <1>7, TypeParts DEF Layer1, Init

LEMMA Layer1Step ==
  ASSUME Layer1, [Next]_vars
  PROVE  Layer1' /\ Follows /\ Meeting
<1>1. program \in Programs /\ PatchTypes /\ CallTypes /\ PatchInv /\ Placements
  BY TypeParts DEF Layer1
<1>2. PatchTypes' /\ (\A s \in Scope : ScopeAgrees(s)') /\ Follows /\ CallTypes' /\ Meeting /\ Placements'
      /\ program' = program
  <2>1. ASSUME UNCHANGED <<program, states, doing, calls, due, usage, booked>>
        PROVE  CallTypes' /\ Meeting /\ Placements' /\ program' = program
    BY <1>1, <2>1 DEF states, usage, CallTypes, CallRecord, Meeting, Placements, Placement, Busy
  <2>2. CASE \E s \in Scope : Begin(s) \/ Install(s) \/ Arm(s) \/ Return(s) \/ Restore(s)
    <3>1. PICK s \in Scope : Begin(s) \/ Install(s) \/ Arm(s) \/ Return(s) \/ Restore(s)
      BY <2>2
    <3>2. Moves
      BY <1>1, <3>1, BeginMoves, InstallMoves, ArmMoves, ReturnMoves, RestoreMoves
    <3>3. QED
      BY <2>1, <3>1, <3>2, ScopesKeepCalls DEF Moves
  <2>3. CASE \E w \in Worker : Works(w)
    <3>1. PICK w \in Worker : Works(w)
      BY <2>3
    <3>2. Calls
      BY <1>1, <3>1, CallCalls, EnterCalls, ArriveCalls, OutCalls, FailCalls, UnwindCalls, HookCalls, TurnCalls
         DEF Works
    <3>3. UNCHANGED <<patches, program>>
      BY <2>3, WorkersKeepPatches
    <3>4. QED
      BY <1>1, <3>1, <3>2, <3>3, PatchesKept, PlacementsStay DEF Calls
  <2>4. CASE \E id \in due : Callback(id)
    <3>1. Calls /\ doing' = doing
      BY <1>1, <2>4, CallbackCalls DEF Callback
    <3>2. UNCHANGED <<patches, program>>
      BY <2>4, WorkersKeepPatches
    <3>3. Placements'
      BY <1>1, <3>1 DEF Placements, Placement, Busy
    <3>4. QED
      BY <1>1, <3>1, <3>2, <3>3, PatchesKept DEF Calls
  <2>5. CASE UNCHANGED vars
    BY <1>1, <2>1, <2>5, PatchesKept DEF vars
  <2>6. QED
    BY <2>2, <2>3, <2>4, <2>5, NextCases
<1>3. PatchInv'
  BY <1>1, <1>2, UnseenStays DEF PatchInv
<1>4. TypeOK'
  <2>1. TypeOK' <=> program' \in Programs /\ PatchTypes' /\ CallTypes'
    BY DEF TypeOK, PatchTypes, CallTypes
  <2>2. QED
    BY <1>1, <1>2, <2>1
<1>5. QED
  BY <1>2, <1>3, <1>4 DEF Layer1

-----------------------------------------------------------------------------
(***************************************************************************)
(* What stands under a wrapper.                                            *)
(***************************************************************************)
LEMMA UnderItself ==
  ASSUME NEW f \in Fn, NEW i
  PROVE  Under(f, f, i)
BY DEF Under

\* What stands under what r wraps stands under r.
LEMMA UnderWhatWraps ==
  ASSUME NEW r \in Scope, NEW i \in DOMAIN saved[r], NEW f, Under(f, saved[r][i], i)
  PROVE  Under(f, r, i)
BY DEF Under, Closed

\* And the other way round, but for r itself.
LEMMA UnderWhatIsWrapped ==
  ASSUME NEW r \in Scope, NEW i \in DOMAIN saved[r], NEW f, f # r, Under(f, r, i)
  PROVE  Under(f, saved[r][i], i)
<1> SUFFICES ASSUME NEW S \in SUBSET Fn, saved[r][i] \in S, Closed(S, i) PROVE f \in S
  BY DEF Under
<1>1. S \cup {r} \in SUBSET Fn /\ Closed(S \cup {r}, i)
  BY DEF Closed, Fn
<1>2. f \in S \cup {r}
  BY <1>1 DEF Under
<1>3. QED
  BY <1>2

\* Nothing stands under the original function.
LEMMA NothingUnderOriginal ==
  ASSUME NEW s \in Scope, NEW i
  PROVE  ~Under(s, Original, i)
<1>1. {Original} \in SUBSET Fn /\ Closed({Original}, i) /\ s \notin {Original}
  BY ScopesAssumption DEF Fn, Closed
<1>2. QED
  BY <1>1 DEF Under

\* Whatever a step stores, what stood under a wrapper still does.
LEMMA UnderStays ==
  ASSUME Follows, NEW f, NEW g, NEW i, Under(f, g, i)
  PROVE  Under(f, g, i)'
<1> SUFFICES ASSUME NEW S \in SUBSET Fn, g \in S, Closed(S, i)' PROVE f \in S
  BY DEF Under, Fn
<1>1. Closed(S, i)
  BY DEF Closed, Follows
<1>2. QED
  BY <1>1 DEF Under

\* Nothing new stands under a wrapper a scope has not just taken up.
LEMMA UnderWas ==
  ASSUME PatchInv, Follows, NEW f, NEW g, NEW i \in DOMAIN Points, Under(f, g, i)',
         \A t \in Scope : ~Placed(t, i) => g # t
  PROVE  Under(f, g, i)
<1> SUFFICES ASSUME NEW S \in SUBSET Fn, g \in S, Closed(S, i) PROVE f \in S
  BY DEF Under
<1> PICK T : T = S \ {t \in Scope : i \in DOMAIN saved'[t] \ DOMAIN saved[t]}
  OBVIOUS
<1>1. \A t \in Scope : i \in DOMAIN saved'[t] \ DOMAIN saved[t] => ~Placed(t, i) /\ Unseen(t, i)
  BY DEF Follows, PatchInv
<1>2. g \in T /\ T \in SUBSET Fn
  BY <1>1
<1>3. ASSUME NEW r \in T \cap Scope, i \in DOMAIN saved'[r] PROVE saved'[r][i] \in T
  <2>1. i \in DOMAIN saved[r] /\ saved'[r][i] = saved[r][i] /\ saved[r][i] \in S
    BY <1>3 DEF Closed, Follows
  <2>2. QED
    BY <1>1, <2>1 DEF Unseen
<1>4. Closed(T, i)'
  BY <1>3 DEF Closed
<1>5. f \in T
  BY <1>2, <1>4 DEF Under, Fn
<1>6. QED
  BY <1>5

\* No step makes a wrapper stand under what it wraps.
LEMMA AcyclicStays ==
  ASSUME PatchTypes, PatchInv, Follows, Acyclic
  PROVE  Acyclic'
<1> SUFFICES ASSUME NEW s \in Scope, 1 \in DOMAIN saved'[s], Under(s, saved[s][1], 1)' PROVE FALSE
  BY DEF Acyclic
<1>1. 1 \in DOMAIN Points /\ Points[1] \in Range(Points)
  BY PointFacts
<1>2. CASE 1 \in DOMAIN saved[s]
  <2>1. saved'[s][1] = saved[s][1] /\ \A t \in Scope : ~Placed(t, 1) => saved[s][1] # t
    BY <1>1, <1>2 DEF Follows, PatchInv, Unseen
  <2>2. PICK g : g = saved'[s][1]
    OBVIOUS
  <2>3. Under(s, g, 1)'
    BY <2>2 DEF Under
  <2>4. Under(s, g, 1)
    BY <1>1, <2>1, <2>2, <2>3, UnderWas
  <2>5. QED
    BY <1>2, <2>1, <2>2, <2>4 DEF Acyclic
<1>3. CASE 1 \notin DOMAIN saved[s]
  <2>1. ~Placed(s, 1) /\ Unseen(s, 1) /\ saved'[s][1] = installed[Points[1]]
    BY <1>1, <1>3 DEF Follows, PatchInv
  <2>2. saved'[s][1] \in Fn \ {s}
    BY <1>1, <2>1 DEF Unseen, PatchTypes
  <2>3. ASSUME NEW r \in Scope, 1 \in DOMAIN saved'[r] PROVE saved'[r][1] \in Fn \ {s}
    <3>1. CASE 1 \in DOMAIN saved[r]
      <4>1. saved[r] \in Seq(Fn) /\ DOMAIN saved[r] = 1..Len(saved[r])
        BY LenProperties DEF PatchTypes
      <4>2. saved[r][1] \in Fn
        BY <3>1, <4>1, ElementOfSeq
      <4>3. QED
        BY <2>1, <3>1, <4>2 DEF Follows, Unseen
    <3>2. CASE 1 \notin DOMAIN saved[r]
      BY <1>1, <2>1, <2>3, <3>2 DEF Follows, Unseen, PatchTypes
    <3>3. QED
      BY <3>1, <3>2
  <2>4. Closed(Fn \ {s}, 1)'
    BY <2>3 DEF Closed, Fn
  <2>5. QED
    BY <2>2, <2>4 DEF Under, Fn
<1>4. QED
  BY <1>2, <1>3

-----------------------------------------------------------------------------
(***************************************************************************)
(* Layer 2: who may still book a call.                                     *)
(***************************************************************************)
\* A call that does not move meets the wrappers it would have met.
LEMMA DescendsStays ==
  ASSUME PatchInv, Follows, NEW w \in Worker, Busy(w), doing[w] \in CallRecord, doing'[w] = doing[w], Descends(doing[w])
  PROVE  Descends(doing[w])'
<1> PICK c : c = doing[w]
  OBVIOUS
<1>1. IsInjective(c.stack)
  BY DEF Descends
<1>2. ASSUME c.at = "down", c.point = 1, NEW j \in DOMAIN c.stack, Under(c.stack[j], c.fn, 1)' PROVE FALSE
  <2>1. ~Under(c.stack[j], c.fn, 1)
    BY <1>2 DEF Descends
  <2>2. \A t \in Scope : ~Placed(t, 1) => c.fn # t
    BY <1>2, PointFacts DEF PatchInv, Unseen
  <2>3. QED
    BY <1>2, <2>1, <2>2, UnderWas, PointFacts
<1>3. Descends(c)'
  BY <1>1, <1>2 DEF Descends
<1>4. QED
  BY <1>3 DEF Descends

\* A step of worker w that changes nothing but its own call's bookings and marks.
OwnBooks(w) ==
  /\ UNCHANGED <<patches, program, calls>>
  /\ \A v \in Worker \ {w} : doing'[v] = doing[v]
  /\ due' \subseteq due \cup {doing[w].id}
  /\ \A id \in 1..program.calls : id # doing[w].id => booked'[id] = booked[id]
  /\ \A s \in Scope : bypass_call_ids'[s] \subseteq bypass_call_ids[s] \cup {doing[w].id}

\* Such a step is about this call only.
LEMMA OwnBooksOnly ==
  ASSUME Layer1, Layer1', Follows, BookInv, NEW w \in Worker, Busy(w), OwnBooks(w),
         Busy(w)' => doing'[w].id = doing[w].id /\ BooksOnce(w)',
         doing[w].id \in due' => booked'[doing[w].id] = <<>>,
         /\ \A i, j \in DOMAIN booked'[doing[w].id] :
              booked'[doing[w].id][i][1] = booked'[doing[w].id][j][1] => i = j
         /\ (\E i \in DOMAIN booked'[doing[w].id] : booked'[doing[w].id][i][2] = "callback")
              => Len(booked'[doing[w].id]) = 1
  PROVE  BookInv'
<1> PICK c : c = doing[w]
  OBVIOUS
<1>1. PatchTypes /\ CallTypes /\ PatchInv /\ c \in CallRecord /\ Identified(w)
  BY TypeParts, BusyRecord DEF Layer1, BookInv, BooksOnce
<1>2. c.id \in 1..calls /\ calls \in Nat /\ program.calls \in Nat /\ calls <= program.calls /\ due \subseteq 1..calls
      /\ program' = program /\ calls' = calls
  BY <1>1, ProgramsAssumption, TypeParts DEF CallRecord, CallTypes, OwnBooks, Layer1
<1>3. Acyclic'
  BY <1>1, AcyclicStays DEF BookInv
<1>4. ASSUME NEW v \in Worker, v # w, Busy(v)' PROVE BooksOnce(v)'
  <2>1. doing'[v] = doing[v] /\ Busy(v) /\ BooksOnce(v)
    BY <1>4 DEF OwnBooks, BookInv, Busy
  <2>2. doing[v].id # c.id /\ doing[v] \in CallRecord /\ doing[v].id \in 1..program.calls
    BY <1>1, <1>2, <1>4, <2>1, BusyRecord DEF Identified, CallRecord
  <2>3. Descends(doing[v])'
    BY <1>1, <2>1, <2>2, DescendsStays DEF BooksOnce
  <2>4. booked'[doing[v].id] = booked[doing[v].id] /\ (doing[v].id \in due' => Told(doing[v]))
    BY <2>1, <2>2 DEF OwnBooks, BooksOnce, Identified
  <2>5. BooksBy(doing[v])'
    BY <2>1, <2>4 DEF BooksOnce, BooksBy
  <2>6. Identified(v)'
    <3>1. \A u \in Worker : Busy(u)' /\ u # v => doing'[u].id # doing[v].id
      <4> TAKE u \in Worker
      <4>1. CASE u = w
        BY <2>2, <4>1 DEF BookInv
      <4>2. CASE u # w
        BY <2>1, <4>2 DEF OwnBooks, BooksOnce, Identified, Busy
      <4>3. QED
        BY <4>1, <4>2
    <3>2. \A s \in Scope : doing[v].id \in bypass_call_ids'[s] => Free(doing[v])
      BY <2>1, <2>2 DEF OwnBooks, BooksOnce, Identified, Marked
    <3>3. QED
      BY <2>1, <2>4, <3>1, <3>2 DEF Identified, Marked
  <2>7. QED
    BY <2>3, <2>5, <2>6 DEF BooksOnce
<1>5. ASSUME NEW id \in 1..program.calls, id > calls \/ id \in due' PROVE booked'[id] = <<>>
  BY <1>2, <1>5 DEF OwnBooks, BookInv
<1>6. BookedOnce'
  <2> SUFFICES ASSUME NEW id \in 1..calls
               PROVE  /\ \A i, j \in DOMAIN booked'[id] : booked'[id][i][1] = booked'[id][j][1] => i = j
                      /\ (\E i \in DOMAIN booked'[id] : booked'[id][i][2] = "callback") => Len(booked'[id]) = 1
    BY <1>2 DEF BookedOnce
  <2>1. CASE id = c.id
    BY <2>1
  <2>2. CASE id # c.id
    <3>1. booked'[id] = booked[id]
      BY <1>2, <2>2 DEF OwnBooks
    <3>2. QED
      BY <3>1 DEF BookInv, BookedOnce
  <2>3. QED
    BY <2>1, <2>2
<1>7. \A v \in Worker : Busy(v)' => BooksOnce(v)'
  BY <1>4
<1>8. QED
  BY <1>2, <1>3, <1>5, <1>6, <1>7 DEF BookInv

\* The identity of a call that goes on, and is told of and marked only when it may be.
LEMMA IdentityKept ==
  ASSUME NEW w \in Worker, Busy(w), Identified(w), OwnBooks(w), Busy(w)',
         NEW c, NEW d, c = doing[w], d = doing'[w], d.id = c.id, Free(c) => Free(d), Told(c) => Told(d),
         c.id \in due' => c.id \in due \/ Told(d),
         \A s \in Scope : c.id \in bypass_call_ids'[s] => c.id \in bypass_call_ids[s] \/ Free(c)
  PROVE  Identified(w)'
<1>1. \A v \in Worker : Busy(v)' /\ v # w => doing'[v].id # d.id
  BY DEF Identified, OwnBooks, Busy
<1>2. (d.id \in due' => Told(d)) /\ \A s \in Scope : d.id \in bypass_call_ids'[s] => Free(d)
  BY DEF Identified, Marked
<1>3. QED
  BY <1>1, <1>2 DEF Identified, Marked, Told, Free

\* With the patches as they are, under is under.
LEMMA UnderKept ==
  ASSUME UNCHANGED patches, NEW f, NEW g, NEW i
  PROVE  Under(f, g, i)' <=> Under(f, g, i)
BY DEF patches, Under, Closed, Fn

LEMMA DescendsKept ==
  ASSUME UNCHANGED patches, NEW w, NEW c, doing'[w] = c, Descends(c)
  PROVE  Descends(doing[w])'
<1>1. Descends(c)'
  BY UnderKept DEF Descends
<1>2. QED
  BY <1>1 DEF Descends

\* What is known of a worker in a call.
LEMMA BusyBooks ==
  ASSUME Layer1, BookInv, NEW w \in Worker, Busy(w)
  PROVE  /\ doing[w] \in CallRecord /\ Placement(doing[w]) /\ BooksOnce(w)
         /\ doing[w].id \in 1..calls /\ doing[w].id \in 1..program.calls
         /\ booked[doing[w].id] \in Seq(Scope \X {"wrapper", "callback"})
         /\ \A i, j \in DOMAIN booked[doing[w].id] :
              booked[doing[w].id][i][1] = booked[doing[w].id][j][1] => i = j
         /\ (\E i \in DOMAIN booked[doing[w].id] : booked[doing[w].id][i][2] = "callback")
              => Len(booked[doing[w].id]) = 1
<1>1. /\ doing[w] \in CallRecord /\ Placement(doing[w]) /\ BooksOnce(w) /\ CallTypes
      /\ doing[w].id \in 1..calls
  BY TypeParts, BusyRecord DEF Layer1, Placements, BookInv, CallRecord
<1>2. calls \in 0..program.calls /\ program.calls \in Nat
  BY TypeParts, ProgramsAssumption, <1>1 DEF Layer1, CallTypes
<1>3. doing[w].id \in 1..program.calls
  BY <1>1, <1>2
<1>4. booked[doing[w].id] \in Seq(Scope \X {"wrapper", "callback"})
  BY <1>1, <1>3 DEF CallTypes
<1>5. QED
  BY <1>1, <1>3, <1>4 DEF BookInv, BookedOnce

\* A step that books nothing, and after which the call is over or as it was to be.
LEMMA NothingBooked ==
  ASSUME Layer1, Layer1', Follows, BookInv, NEW w \in Worker, Busy(w),
         UNCHANGED <<patches, program, calls, booked>>, NEW d, Moved(w, d),
         d = Nil \/ (d.id = doing[w].id /\ Descends(d) /\ BooksBy(d)
                      /\ (Free(doing[w]) => Free(d)) /\ (Told(doing[w]) => Told(d))),
         due' = due \/ ((d = Nil \/ Told(d)) /\ booked[doing[w].id] = <<>> /\ due' = due \cup {doing[w].id}),
         \A s \in Scope : bypass_call_ids'[s] \subseteq bypass_call_ids[s]
                            \cup (IF Free(doing[w]) THEN {doing[w].id} ELSE {})
  PROVE  BookInv'
<1>1. doing'[w] = d /\ (\A v \in Worker \ {w} : doing'[v] = doing[v]) /\ CallTypes
  BY MovedTypes, TypeParts DEF Layer1
<1>2. OwnBooks(w)
  BY <1>1 DEF OwnBooks
<1>3. Identified(w)
  BY BusyBooks DEF BooksOnce
<1>4. ASSUME Busy(w)' PROVE doing'[w].id = doing[w].id /\ BooksOnce(w)'
  <2>1. /\ d.id = doing[w].id /\ Descends(d) /\ BooksBy(d)
        /\ (Free(doing[w]) => Free(d)) /\ (Told(doing[w]) => Told(d))
        /\ (doing[w].id \in due' => doing[w].id \in due \/ Told(d))
    BY <1>1, <1>4 DEF Busy
  <2>2. Descends(doing[w])'
    BY <1>1, <2>1, DescendsKept
  <2>3. BooksBy(doing[w])'
    BY <1>1, <2>1 DEF BooksBy
  <2>4. \A s \in Scope : doing[w].id \in bypass_call_ids'[s] => doing[w].id \in bypass_call_ids[s] \/ Free(doing[w])
    OBVIOUS
  <2>5. Identified(w)'
    BY <1>1, <1>2, <1>3, <1>4, <2>1, <2>4, IdentityKept
  <2>6. QED
    BY <1>1, <2>1, <2>2, <2>3, <2>5 DEF BooksOnce
<1>5. doing[w].id \in due' => booked'[doing[w].id] = <<>>
  BY BusyBooks DEF BookInv
<1>6. QED
  BY <1>2, <1>4, <1>5, BusyBooks, OwnBooksOnly

LEMMA EnterBooks ==
  ASSUME Layer1, Layer1', Follows, BookInv, NEW w \in Worker, Enter(w)
  PROVE  BookInv'
<1> DEFINE c == doing[w]
           s == c.fn
           d == [c EXCEPT !.fn = saved[s][c.point], !.stack = IF c.point = 1 THEN Append(@, s) ELSE @]
<1>1. Busy(w) /\ c \in CallRecord /\ Placement(c) /\ BooksOnce(w) /\ s \in Scope /\ c.at = "down"
      /\ c.stack \in Seq(Scope) /\ c.point \in DOMAIN Points
  BY BusyBooks DEF Enter, Busy, CallRecord
<1>2. (Moved(w, Nil) \/ Moved(w, d)) /\ UNCHANGED <<patches, program, calls, booked, due>>
  BY DEF Enter, Moved, Leave
<1>3. \A t \in Scope : bypass_call_ids'[t] \subseteq bypass_call_ids[t] \cup (IF Free(c) THEN {c.id} ELSE {})
  <2>1. \/ bypass_call_ids' = bypass_call_ids
        \/ c.point = 2 /\ bypass_call_ids' = [bypass_call_ids EXCEPT ![s] = @ \cup {c.id}]
    BY DEF Enter, states
  <2>2. c.point = 2 => Free(c)
    BY <1>1, ScopesAssumption DEF Placement, Free
  <2>3. bypass_call_ids \in [Scope -> SUBSET (1..calls)]
    BY TypeParts DEF Layer1, CallTypes
  <2> HIDE DEF c, s
  <2>4. QED
    BY <2>1, <2>2, <2>3
<1>4. Descends(d)
  <2>1. d.stack = (IF c.point = 1 THEN Append(c.stack, s) ELSE c.stack) /\ d.fn = saved[s][c.point] /\ d.point = c.point /\ d.at = "down"
    BY <1>1 DEF CallRecord
  <2>2. Descends(c)
    BY <1>1 DEF BooksOnce
  <2>3. CASE c.point # 1
    BY <2>1, <2>2, <2>3 DEF Descends
  <2>4. CASE c.point = 1
    <3>1. 1 \in DOMAIN saved[s] /\ saved[s][1] \in Fn
      <4>1. Placed(s, 1)
        BY <1>1, <2>4, PointFacts DEF Layer1, PatchInv, Unseen
      <4>2. QED
        BY <1>1, <2>4, <4>1, PlacedHasSaved, TypeParts DEF Layer1
    <3>2. ~Under(s, saved[s][1], 1)
      BY <1>1, <3>1 DEF BookInv, Acyclic
    <3>3. \A j \in DOMAIN c.stack : ~Under(c.stack[j], s, 1)
      BY <1>1, <2>2, <2>4 DEF Descends
    <3>4. \A j \in DOMAIN c.stack : ~Under(c.stack[j], saved[s][1], 1)
      BY <1>1, <3>1, <3>3, UnderWhatWraps
    <3>5. s \notin Range(c.stack)
      BY <1>1, <3>3, UnderItself DEF Range, Fn
    <3>6. IsInjective(Append(c.stack, s)) /\ Range(Append(c.stack, s)) = Range(c.stack) \cup {s}
      BY <1>1, <2>2, <3>5, AppendOnce DEF Descends
    <3>7. \A x \in Range(Append(c.stack, s)) : ~Under(x, saved[s][1], 1)
      BY <3>2, <3>4, <3>6 DEF Range
    <3>8. QED
      BY <2>1, <2>4, <3>6, <3>7 DEF Descends, Range
  <2>5. QED
    BY <2>3, <2>4
<1>5. d.id = c.id /\ BooksBy(d) /\ (Free(c) => Free(d)) /\ ~Told(c)
  BY <1>1 DEF BooksBy, BooksOnce, CallRecord, Free, Told
<1> HIDE DEF d
<1>6. QED
  BY <1>1, <1>2, <1>3, <1>4, <1>5, NothingBooked

LEMMA MovesBook ==
  ASSUME Layer1, Layer1', Follows, BookInv, NEW w \in Worker, Arrive(w) \/ Out(w) \/ Fail(w) \/ Ask(w) \/ Reply(w) \/ Done(w)
  PROVE  BookInv'
<1> DEFINE c == doing[w]
<1>1. Busy(w) /\ c \in CallRecord /\ Placement(c) /\ BooksOnce(w)
      /\ UNCHANGED <<patches, program, calls, booked>>
  BY BusyBooks DEF Arrive, Out, Fail, Ask, Reply, Done, Busy
<1>2. bypass_call_ids \in [Scope -> SUBSET (1..calls)] /\ PatchTypes /\ CallTypes
  BY TypeParts DEF Layer1, CallTypes
<1>3. CASE Arrive(w)
  <2> DEFINE d == [c EXCEPT !.point = 2, !.fn = IF Gated(c) THEN installed["gate"] ELSE Original]
  <2>1. Moved(w, d) /\ due' = due /\ bypass_call_ids' = bypass_call_ids
    BY <1>3 DEF Arrive, Moved, states
  <2>2. d.id = c.id /\ Descends(d) /\ BooksBy(d) /\ ~Free(c) /\ ~Told(c)
    BY <1>1, <1>3 DEF Arrive, Descends, BooksBy, BooksOnce, CallRecord, Free, Told
  <2> HIDE DEF d
  <2>3. QED
    BY <1>1, <1>2, <2>1, <2>2, NothingBooked
<1>4. CASE Out(w)
  <2> DEFINE d == IF c.kind \in {"bypass", "tool"} THEN Nil ELSE [c EXCEPT !.at = "up"]
  <2>1. Moved(w, d) /\ bypass_call_ids' = bypass_call_ids /\ c.at = "down"
        /\ (due' = due \/ ((\E s \in Scope : c.id \in bypass_call_ids[s]) /\ due' = due \cup {c.id}))
    BY <1>4 DEF Out, Moved, states
  <2>2. booked[c.id] = <<>>
    BY <1>1, <2>1 DEF BooksOnce, BooksBy
  <2>3. (due' = due \/ (Free(c) /\ due' = due \cup {c.id})) /\ ~Told(c)
    BY <1>1, <2>1 DEF BooksOnce, Identified, Marked, Told
  <2>4. CASE c.kind \in {"bypass", "tool"}
    BY <1>1, <1>2, <2>1, <2>2, <2>4, NothingBooked
  <2>5. CASE c.kind \notin {"bypass", "tool"}
    <3>1. d.id = c.id /\ d.at = "up" /\ d.stack = c.stack
      BY <1>1, <2>5 DEF CallRecord
    <3> HIDE DEF d
    <3>5. Free(c) => Free(d) /\ Told(d)
      BY <3>1 DEF Free, Told
    <3>2. Descends(d)
      BY <1>1, <3>1 DEF Descends, BooksOnce
    <3>3. BooksBy(d)
      BY <1>1, <2>1, <2>2, <3>1 DEF BooksBy, BooksOnce
    <3>4. QED
      BY <1>1, <1>2, <2>1, <2>2, <2>3, <3>1, <3>2, <3>3, <3>5, NothingBooked
  <2>6. QED
    BY <2>4, <2>5
<1>5. CASE Fail(w)
  BY <1>1, <1>2, <1>5, ClaimTypes, NothingBooked DEF Fail, Leave, Moved
<1>6. CASE Ask(w)
  <2> DEFINE d == IF c.kind = "routed" THEN [c EXCEPT !.at = "down", !.fn = installed["litellm"]] ELSE [c EXCEPT !.at = "up"]
  <2>1. Moved(w, d) /\ due' = due /\ bypass_call_ids' = bypass_call_ids
    BY <1>6 DEF Ask, Moved, states
  <2>2. c.stack = <<>> /\ booked[c.id] = <<>> /\ ~Free(c) /\ ~Told(c)
    BY <1>1, <1>6 DEF Ask, Placement, BooksOnce, BooksBy, Free, Told
  <2>3. d.id = c.id /\ d.stack = <<>>
    BY <1>1, <2>2 DEF CallRecord
  <2> HIDE DEF d
  <2>4. Descends(d) /\ BooksBy(d)
    BY <2>2, <2>3, EmptySeq DEF Descends, BooksBy, IsInjective
  <2>5. QED
    BY <1>1, <1>2, <2>1, <2>2, <2>3, <2>4, NothingBooked
<1>7. CASE Reply(w)
  <2>1. (Moved(w, Nil) \/ (\E h \in {"after_llm", "before_tool"} : Moved(w, Hooks(c, h))))
        /\ due' = due /\ bypass_call_ids' = bypass_call_ids
    BY <1>7 DEF Reply, Leave, Moved, states
  <2>2. ASSUME NEW h \in {"after_llm", "before_tool"}
        PROVE  /\ Hooks(c, h).id = c.id /\ Descends(Hooks(c, h)) /\ BooksBy(Hooks(c, h))
               /\ Free(Hooks(c, h)) /\ Told(Hooks(c, h))
    BY <1>1, <1>7 DEF Reply, Hooks, Descends, BooksBy, BooksOnce, CallRecord, Free, Told
  <2>3. QED
    BY <1>1, <1>2, <2>1, <2>2, NothingBooked
<1>8. CASE Done(w)
  BY <1>1, <1>2, <1>8, NothingBooked DEF Done, Leave, Moved, states
<1>9. QED
  BY <1>3, <1>4, <1>5, <1>6, <1>7, <1>8

LEMMA HooksBook ==
  ASSUME Layer1, Layer1', Follows, BookInv, NEW w \in Worker,
         HookEnter(w) \/ HookBaseline(w) \/ HookSnap(w) \/ HookPrev(w) \/ HookSettle(w) \/ HookError(w)
  PROVE  BookInv'
<1> DEFINE c == doing[w]
<1>1. Busy(w) /\ c \in CallRecord /\ BooksOnce(w)
      /\ UNCHANGED <<patches, program, calls, booked, due, bypass_call_ids>>
  BY BusyBooks DEF HookEnter, HookBaseline, HookSnap, HookPrev, HookSettle, HookError, InHook, Busy, states
<1>2. Moved(w, Nil) \/ \E d : Moved(w, d) /\ HookChange(c, d)
  <2>1. CASE HookError(w)
    BY <2>1 DEF HookError, Leave, Moved
  <2>2. QED
    BY <1>1, <2>1, HookMoves
<1>3. \A d : HookChange(c, d) => /\ d.id = c.id /\ Descends(d) /\ BooksBy(d)
                                  /\ (Free(c) => Free(d)) /\ (Told(c) => Told(d))
  BY <1>1 DEF HookChange, BooksOnce, Descends, BooksBy, Free, Told
<1> HIDE DEF c
<1>4. ASSUME NEW d, Moved(w, d), d = Nil \/ HookChange(c, d) PROVE BookInv'
  BY <1>1, <1>3, <1>4, NothingBooked DEF c
<1>5. QED
  BY <1>2, <1>4

LEMMA UnwindBooks ==
  ASSUME Layer1, Layer1', Follows, BookInv, NEW w \in Worker, Unwind(w)
  PROVE  BookInv'
<1> DEFINE c == doing[w]
           s == Last(c.stack)
           d == IF Overruns(s, 1) THEN Nil ELSE [c EXCEPT !.stack = Front(@)]
           b == booked[c.id]
<1>1. /\ Busy(w) /\ c \in CallRecord /\ BooksOnce(w) /\ c.at = "up" /\ c.stack # <<>> /\ c.stack \in Seq(Scope)
      /\ Account(s, c.id, "wrapper")
      /\ c.id \in 1..calls /\ c.id \in 1..program.calls
      /\ b \in Seq(Scope \X {"wrapper", "callback"})
      /\ \A i, j \in DOMAIN b : b[i][1] = b[j][1] => i = j
  BY BusyBooks DEF Unwind, Busy, CallRecord
<1>2. Moved(w, d) /\ UNCHANGED <<patches, program, calls, due, bypass_call_ids>> /\ CallTypes /\ program \in Programs
  BY TypeParts DEF Unwind, Leave, Moved, Layer1
<1>3. IsInjective(c.stack) /\ \A j \in DOMAIN b : b[j][1] \notin Range(c.stack) /\ b[j][2] = "wrapper"
  BY <1>1 DEF BooksOnce, BooksBy, Descends
<1>4. /\ s \in Scope /\ s \in Range(c.stack) /\ IsInjective(Front(c.stack))
      /\ Range(Front(c.stack)) = Range(c.stack) \ {s}
  BY <1>1, <1>3, FrontAndLast
<1>5. booked' = booked \/ booked' = [booked EXCEPT ![c.id] = Append(b, <<s, "wrapper">>)]
  BY <1>1, <1>2, <1>4, AccountTypes
<1>6. \A id \in 1..program.calls : id # c.id => booked'[id] = booked[id]
  BY <1>2, <1>5 DEF CallTypes
<1>7. booked'[c.id] = b \/ booked'[c.id] = Append(b, <<s, "wrapper">>)
  BY <1>1, <1>2, <1>5 DEF CallTypes
<1>8. /\ \A j \in DOMAIN booked'[c.id] : booked'[c.id][j][1] \notin Range(Front(c.stack)) /\ booked'[c.id][j][2] = "wrapper"
      /\ \A i, j \in DOMAIN booked'[c.id] : booked'[c.id][i][1] = booked'[c.id][j][1] => i = j
  <2>1. CASE booked'[c.id] = b
    BY <1>1, <1>3, <1>4, <2>1
  <2>2. CASE booked'[c.id] = Append(b, <<s, "wrapper">>)
    <3> DEFINE e == Append(b, <<s, "wrapper">>)
    <3>1. /\ DOMAIN e = 1..Len(b)+1 /\ DOMAIN b = 1..Len(b) /\ Len(b) \in Nat
          /\ \A i \in 1..Len(b) : e[i] = b[i]
          /\ e[Len(b) + 1] = <<s, "wrapper">>
      <4>1. <<s, "wrapper">> \in Scope \X {"wrapper", "callback"}
        BY <1>4
      <4> HIDE DEF b, s
      <4>2. QED
        BY <1>1, <4>1, AppendProperties, LenProperties
    <3> HIDE DEF b, e
    <3>2. \A j \in DOMAIN e : j \in DOMAIN b \/ j = Len(b) + 1
      BY <3>1
    <3>3. \A j \in DOMAIN e : e[j][1] \notin Range(Front(c.stack)) /\ e[j][2] = "wrapper"
      BY <1>3, <1>4, <3>1, <3>2
    <3>4. \A i, j \in DOMAIN e : e[i][1] = e[j][1] => i = j
      BY <1>1, <1>3, <1>4, <3>1, <3>2
    <3>5. QED
      BY <2>2, <3>3, <3>4 DEF e
  <2>3. QED
    BY <1>7, <2>1, <2>2
<1>9. OwnBooks(w) /\ doing'[w] = d
  BY <1>2, <1>6, MovedTypes DEF OwnBooks
<1>10. d # Nil => d.id = c.id /\ d.kind = c.kind /\ d.stack = Front(c.stack) /\ d.at = "up"
  BY <1>1 DEF CallRecord
<1> HIDE DEF d, b, s
<1>11. ASSUME Busy(w)' PROVE d.id = c.id /\ BooksOnce(w)'
  <2>1. d # Nil
    BY <1>9, <1>11 DEF Busy
  <2>2. Descends(doing[w])'
    BY <1>4, <1>9, <1>10, <2>1 DEF Descends
  <2>3. BooksBy(doing[w])'
    BY <1>8, <1>9, <1>10, <2>1 DEF BooksBy
  <2>4. Identified(w)'
    BY <1>1, <1>2, <1>9, <1>10, <1>11, <2>1, IdentityKept DEF BooksOnce, Free, Told
  <2>5. QED
    BY <1>10, <2>1, <2>2, <2>3, <2>4 DEF BooksOnce
<1>12. c.id \notin due'
  BY <1>1, <1>2 DEF BooksOnce, Identified, Told, Free
<1>13. ~\E i \in DOMAIN booked'[c.id] : booked'[c.id][i][2] = "callback"
  BY <1>8
<1>14. QED
  BY <1>1, <1>8, <1>9, <1>11, <1>12, <1>13, OwnBooksOnly

LEMMA CallBooks ==
  ASSUME Layer1, Layer1', Follows, BookInv, NEW w \in Worker, NEW k \in Kind, Call(w, k)
  PROVE  BookInv'
<1> DEFINE n == calls + 1
           e == [id |-> n, kind |-> k, at |-> "down", point |-> At(k),
                 fn |-> Original, stack |-> <<>>, stopped |-> Stopped,
                 hook |-> "before_llm", todo |-> <<>>, step |-> "latch", snap |-> 0, prev |-> Nil]
           d == IF k \in Llm THEN Hooks(e, "before_llm") ELSE [e EXCEPT !.fn = installed[Points[At(k)]]]
<1>1. Moved(w, d) /\ calls' = n /\ UNCHANGED <<patches, program, due, booked, bypass_call_ids>> /\ ~Busy(w)
  BY DEF Call, Moved, states, Busy
<1>2. /\ d.id = n /\ d.kind = k /\ d.stack = <<>>
      /\ d.at = "down" \/ (d.at = "hooks" /\ d.hook = "before_llm")
  BY DEF Hooks
<1>3. PatchTypes /\ CallTypes /\ PatchInv
  BY TypeParts DEF Layer1
<1>4. /\ calls \in Nat /\ due \subseteq 1..calls /\ program.calls \in Nat /\ n \in 1..program.calls
      /\ \A s \in Scope : bypass_call_ids[s] \subseteq 1..calls
  BY <1>3, ProgramsAssumption DEF CallTypes, Call, Layer1, TypeOK
<1>5. doing'[w] = d /\ \A v \in Worker \ {w} : doing'[v] = doing[v]
  BY <1>1, <1>3, MovedTypes
<1>6. ASSUME NEW v \in Worker, Busy(v) PROVE doing[v] \in CallRecord /\ doing[v].id \in 1..calls /\ BooksOnce(v) /\ v # w
  BY <1>1, <1>6, BusyBooks
<1>7. booked[n] = <<>>
  BY <1>4 DEF BookInv
<1> HIDE DEF d, e
<1>8. BooksOnce(w)'
  <2>1. Descends(doing[w])'
    BY <1>2, <1>5, EmptySeq DEF Descends, IsInjective
  <2>2. BooksBy(doing[w])'
    BY <1>1, <1>2, <1>5, <1>7 DEF BooksBy
  <2>3. Identified(w)'
    <3>1. n \notin due /\ (\A s \in Scope : n \notin bypass_call_ids[s]) /\ n \notin 1..calls
      BY <1>4
    <3>2. \A v \in Worker : Busy(v)' /\ v # w => doing'[v].id # n
      BY <1>5, <1>6, <3>1 DEF Busy
    <3> HIDE DEF n
    <3>3. QED
      BY <1>1, <1>2, <1>5, <3>1, <3>2 DEF Identified, Marked
  <2>4. QED
    BY <2>1, <2>2, <2>3 DEF BooksOnce
<1>9. ASSUME NEW v \in Worker, v # w, Busy(v)' PROVE BooksOnce(v)'
  <2>1. doing'[v] = doing[v] /\ Busy(v) /\ BooksOnce(v) /\ doing[v] \in CallRecord /\ doing[v].id \in 1..calls
    BY <1>5, <1>6, <1>9 DEF Busy
  <2>2. Descends(doing[v])'
    BY <1>3, <2>1, DescendsStays DEF BooksOnce
  <2>3. BooksBy(doing[v])'
    BY <1>1, <2>1 DEF BooksOnce, BooksBy
  <2>4. Identified(v)'
    <3>1. doing'[w].id # doing[v].id
      BY <1>2, <1>4, <1>5, <2>1
    <3>2. \A u \in Worker : Busy(u)' /\ u # v => doing'[u].id # doing[v].id
      BY <1>5, <2>1, <3>1 DEF BooksOnce, Identified, Busy
    <3>3. QED
      BY <1>1, <2>1, <3>2 DEF BooksOnce, Identified, Marked, Told, Free
  <2>5. QED
    BY <2>2, <2>3, <2>4 DEF BooksOnce
<1>10. Acyclic'
  BY <1>3, AcyclicStays DEF BookInv
<1>11. \A id \in 1..program.calls : id > calls' \/ id \in due => booked[id] = <<>>
  BY <1>1, <1>4 DEF BookInv
<1>12. BookedOnce'
  <2> SUFFICES ASSUME NEW id \in 1..n
               PROVE  /\ \A i, j \in DOMAIN booked[id] : booked[id][i][1] = booked[id][j][1] => i = j
                      /\ (\E i \in DOMAIN booked[id] : booked[id][i][2] = "callback") => Len(booked[id]) = 1
    BY <1>1 DEF BookedOnce
  <2>1. CASE id = n
    BY <1>7, <2>1, EmptySeq
  <2>2. CASE id # n
    <3>1. id \in 1..calls
      BY <1>4, <2>2
    <3>2. QED
      BY <3>1 DEF BookInv, BookedOnce
  <2>3. QED
    BY <2>1, <2>2
<1> HIDE DEF n
<1>13. QED
  BY <1>1, <1>8, <1>9, <1>10, <1>11, <1>12 DEF BookInv

\* A step in which no worker moves, and what it may do to bookings that are nobody's.
LEMMA NobodyMoves ==
  ASSUME Layer1, Layer1', Follows, BookInv, UNCHANGED <<program, doing, calls>>, due' \subseteq due,
         \A s \in Scope : bypass_call_ids'[s] \subseteq bypass_call_ids[s],
         \A id \in 1..program.calls : booked'[id] = booked[id] \/ id \in due \ due',
         BookedOnce'
  PROVE  BookInv'
<1>1. PatchTypes /\ CallTypes /\ PatchInv
  BY TypeParts DEF Layer1
<1>2. ASSUME NEW w \in Worker, Busy(w)' PROVE BooksOnce(w)'
  <2>1. Busy(w) /\ BooksOnce(w) /\ doing'[w] = doing[w] /\ doing[w] \in CallRecord /\ doing[w].id \in 1..program.calls
    <3>1. Busy(w)
      BY <1>2 DEF Busy
    <3>2. QED
      BY <3>1, BusyBooks
  <2>2. Descends(doing[w])'
    BY <1>1, <2>1, DescendsStays DEF BooksOnce
  <2>3. booked'[doing[w].id] = booked[doing[w].id] \/ Told(doing[w])
    BY <2>1 DEF BooksOnce, Identified
  <2>4. BooksBy(doing[w])'
    BY <2>1, <2>3 DEF BooksOnce, BooksBy, Told, Free
  <2>5. Identified(w)'
    BY <2>1 DEF BooksOnce, Identified, Busy, Marked, Told, Free
  <2>6. QED
    BY <2>2, <2>4, <2>5 DEF BooksOnce
<1>3. Acyclic'
  BY <1>1, AcyclicStays DEF BookInv
<1>4. \A id \in 1..program.calls : id > calls \/ id \in due' => booked'[id] = <<>>
  <2> TAKE id \in 1..program.calls
  <2>1. CASE id \in due \ due'
    BY <1>1, <2>1 DEF CallTypes
  <2>2. CASE booked'[id] = booked[id]
    BY <2>2 DEF BookInv
  <2>3. QED
    BY <2>1, <2>2
<1>5. QED
  BY <1>2, <1>3, <1>4 DEF BookInv

LEMMA CallbackBooks ==
  ASSUME Layer1, Layer1', Follows, BookInv, NEW id \in due, Callback(id)
  PROVE  BookInv'
<1>1. PatchTypes /\ CallTypes /\ program \in Programs
  BY TypeParts DEF Layer1
<1>2. due' = due \ {id} /\ Claim(id) /\ UNCHANGED <<program, doing, calls>>
  BY DEF Callback
<1>3. id \in 1..calls /\ id \in 1..program.calls /\ 1..calls \subseteq 1..program.calls /\ booked[id] = <<>>
  <2>1. id \in 1..calls /\ calls \in 0..program.calls /\ program.calls \in Nat
    BY <1>1, ProgramsAssumption DEF CallTypes
  <2>2. id \in 1..program.calls /\ 1..calls \subseteq 1..program.calls
    BY <2>1
  <2>3. QED
    BY <2>1, <2>2 DEF BookInv
<1>4. \/ booked' = booked
      \/ \E s \in Scope : booked' = [booked EXCEPT ![id] = Append(@, <<s, "callback">>)]
  <2>1. CASE Claimant(id) = {}
    BY <2>1 DEF Callback
  <2>2. CASE Claimant(id) # {}
    BY <1>1, <1>3, <2>2, FirstIs, AccountTypes DEF Callback
  <2>3. QED
    BY <2>1, <2>2
<1>5. \A other \in 1..program.calls : other # id => booked'[other] = booked[other]
  BY <1>1, <1>4 DEF CallTypes
<1>6. booked'[id] = <<>> \/ \E s \in Scope : booked'[id] = <<<<s, "callback">>>>
  <2>1. booked'[id] = booked[id] \/ \E s \in Scope : booked'[id] = Append(booked[id], <<s, "callback">>)
    BY <1>1, <1>3, <1>4 DEF CallTypes
  <2>2. QED
    BY <1>3, <2>1
<1>7. /\ \A i, j \in DOMAIN booked'[id] : booked'[id][i][1] = booked'[id][j][1] => i = j
      /\ (\E i \in DOMAIN booked'[id] : booked'[id][i][2] = "callback") => Len(booked'[id]) = 1
  <2>1. CASE booked'[id] = <<>>
    BY <2>1, EmptySeq
  <2>2. ASSUME NEW x, booked'[id] = <<x>>
        PROVE  DOMAIN booked'[id] = {1} /\ Len(booked'[id]) = 1
    BY <2>2
  <2>3. QED
    BY <1>6, <2>1, <2>2
<1>8. BookedOnce'
  <2> SUFFICES ASSUME NEW k \in 1..calls
               PROVE  /\ \A i, j \in DOMAIN booked'[k] : booked'[k][i][1] = booked'[k][j][1] => i = j
                      /\ (\E i \in DOMAIN booked'[k] : booked'[k][i][2] = "callback") => Len(booked'[k]) = 1
    BY <1>2 DEF BookedOnce
  <2>1. CASE k = id
    BY <1>7, <2>1
  <2>2. CASE k # id
    <3>1. booked'[k] = booked[k]
      BY <1>3, <1>5, <2>2
    <3>2. QED
      BY <3>1 DEF BookInv, BookedOnce
  <2>3. QED
    BY <2>1, <2>2
<1>9. QED
  BY <1>1, <1>2, <1>5, <1>8, ClaimTypes, NobodyMoves

LEMMA BookInit == Init => BookInv
<1> SUFFICES ASSUME Init PROVE BookInv
  OBVIOUS
<1>1. Acyclic
  BY EmptySeq DEF Init, Acyclic
<1>2. \A w \in Worker : ~Busy(w)
  BY DEF Init, Busy
<1>3. BookedOnce
  BY DEF Init, BookedOnce
<1>4. QED
  BY <1>1, <1>2, <1>3 DEF Init, BookInv

LEMMA BookStep ==
  ASSUME Layer1, Layer1', Follows, BookInv, [Next]_vars
  PROVE  BookInv'
<1>1. ASSUME UNCHANGED <<program, doing, calls, due, bypass_call_ids, booked>> PROVE BookInv'
  <2>1. BookedOnce'
    BY <1>1 DEF BookInv, BookedOnce
  <2>2. QED
    BY <1>1, <2>1, NobodyMoves
<1>2. CASE \E s \in Scope : Begin(s) \/ Install(s) \/ Arm(s) \/ Return(s) \/ Restore(s)
  BY <1>1, <1>2, ScopesKeepCalls DEF states
<1>3. CASE \E w \in Worker : Works(w)
  BY <1>3, CallBooks, EnterBooks, MovesBook, UnwindBooks, HooksBook DEF Works
<1>4. CASE \E id \in due : Callback(id)
  BY <1>4, CallbackBooks
<1>5. CASE UNCHANGED vars
  BY <1>1, <1>5 DEF vars, states
<1>6. QED
  BY <1>2, <1>3, <1>4, <1>5, NextCases

-----------------------------------------------------------------------------
(***************************************************************************)
(* Layer 3: scopes that begin and end like brackets.                       *)
(***************************************************************************)
\* The last of a sequence, put back.
LEMMA FrontThenLast ==
  ASSUME NEW S, NEW seq \in Seq(S), seq # <<>>
  PROVE  Append(Front(seq), Last(seq)) = seq
<1> DEFINE f == Front(seq)
           x == Last(seq)
<1>1. /\ f \in Seq(S) /\ x \in S /\ Len(f) = Len(seq) - 1 /\ Len(seq) \in Nat \ {0} /\ x = seq[Len(seq)]
      /\ \A i \in 1..Len(seq)-1 : f[i] = seq[i]
  BY FrontAndLast
<1> HIDE DEF f, x
<1>2. /\ Append(f, x) \in Seq(S) /\ Len(Append(f, x)) = Len(seq)
      /\ \A i \in 1..Len(seq)-1 : Append(f, x)[i] = f[i]
      /\ Append(f, x)[Len(seq)] = x
  <2>1. Len(f) + 1 = Len(seq)
    BY <1>1
  <2>2. QED
    BY <1>1, <2>1, AppendProperties
<1>3. \A i \in 1..Len(seq) : Append(f, x)[i] = seq[i]
  BY <1>1, <1>2
<1>4. Append(f, x) = seq
  BY <1>2, <1>3, SeqEqual
<1>5. QED
  BY <1>4 DEF f, x

\* Each scope that has not ended, and the one below it.
BeginFacts ==
  /\ Len(begun) \in Nat /\ DOMAIN begun = 1..Len(begun)
  /\ \A k \in DOMAIN begun : begun[k] \in Scope /\ phase[begun[k]] \in {"entering", "live", "leaving"}
  /\ \A j, k \in DOMAIN begun : begun[j] = begun[k] => j = k

LEMMA BegunIs ==
  ASSUME PatchTypes, PatchInv
  PROVE  BeginFacts
<1>1. begun \in Seq(Scope) /\ IsInjective(begun)
  BY DEF PatchTypes
<1>2. Len(begun) \in Nat /\ DOMAIN begun = 1..Len(begun) /\ \A k \in DOMAIN begun : begun[k] \in Scope /\ begun[k] \in Range(begun)
  BY <1>1, LenProperties, ElementOfSeq DEF Range
<1>3. QED
  BY <1>1, <1>2 DEF BeginFacts, PatchInv, ScopeAgrees, IsInjective

\* While scopes nest, the one that is on its way in or out began last.
LEMMA MovesLast ==
  ASSUME PatchTypes, PatchInv, NestInv, nested, NEW s \in Scope, phase[s] \in {"entering", "leaving"}
  PROVE  /\ begun # <<>> /\ Last(begun) = s /\ begun[Len(begun)] = s /\ Len(begun) \in DOMAIN begun
         /\ \A k \in 1..Len(begun)-1 : begun[k] # s
<1>1. BeginFacts
  BY BegunIs
<1>2. s \in Range(begun)
  BY DEF PatchInv, ScopeAgrees
<1>3. PICK k \in DOMAIN begun : begun[k] = s
  BY <1>2 DEF Range
<1>4. k \notin 1..Len(begun)-1
  BY <1>3 DEF NestInv
<1>5. k = Len(begun)
  BY <1>1, <1>4 DEF BeginFacts
<1>6. begun # <<>>
  BY <1>3, EmptySeq
<1>7. QED
  BY <1>1, <1>3, <1>5, <1>6 DEF BeginFacts, Last

\* A sequence with one more element.
LEMMA AppendedIs ==
  ASSUME NEW S, NEW seq \in Seq(S), NEW x \in S
  PROVE  /\ Append(seq, x) \in Seq(S) /\ Append(seq, x) # <<>> /\ Len(Append(seq, x)) = Len(seq) + 1 /\ Len(seq) \in Nat
         /\ \A i \in 1..Len(seq) : Append(seq, x)[i] = seq[i]
         /\ Append(seq, x)[Len(seq) + 1] = x
         /\ Last(Append(seq, x)) = x /\ Front(Append(seq, x)) = seq
         /\ DOMAIN Append(seq, x) = 1..Len(seq)+1 /\ DOMAIN seq = 1..Len(seq)
<1> DEFINE e == Append(seq, x)
<1>1. /\ e \in Seq(S) /\ e # <<>> /\ Len(e) = Len(seq) + 1 /\ Len(seq) \in Nat
      /\ \A i \in 1..Len(seq) : e[i] = seq[i]
      /\ e[Len(seq) + 1] = x /\ DOMAIN seq = 1..Len(seq)
  BY AppendProperties, LenProperties
<1> HIDE DEF e
<1>2. Last(e) = x /\ DOMAIN e = 1..Len(seq)+1
  BY <1>1, LenProperties DEF Last
<1>3. Front(e) = seq
  <2>1. /\ Front(e) \in Seq(S) /\ Len(Front(e)) = Len(e) - 1
        /\ \A i \in 1..Len(e)-1 : Front(e)[i] = e[i]
    BY <1>1, FrontAndLast
  <2>2. Len(e) - 1 = Len(seq)
    BY <1>1
  <2>3. Len(Front(e)) = Len(seq) /\ \A i \in 1..Len(seq) : Front(e)[i] = seq[i]
    BY <1>1, <2>1, <2>2
  <2>4. QED
    BY <2>1, <2>3, SeqEqual
<1>4. QED
  BY <1>1, <1>2, <1>3 DEF e

LEMMA BeginNests ==
  ASSUME PatchTypes, PatchInv, NestInv, NEW s \in Scope, Begin(s)
  PROVE  NestInv'
<1> SUFFICES ASSUME nested' PROVE NestInv'
  BY DEF NestInv
<1> PICK n : n = Len(begun)
  OBVIOUS
<1>1. /\ nested /\ BeginFacts /\ n \in Nat /\ DOMAIN begun = 1..n
      /\ \A k \in 1..n : begun[k] \in Scope /\ phase[begun[k]] = "live"
  BY BegunIs DEF Begin, Moving, BeginFacts
<1>2. /\ installed' = installed /\ put' = put /\ hooks' = hooks /\ litellm_scopes' = litellm_scopes
      /\ begun' = Append(begun, s)
      /\ phase' = [phase EXCEPT ![s] = "entering"] /\ phase[s] = "idle" /\ put[s] = 0 /\ saved[s] = <<>>
      /\ saved' = [saved EXCEPT ![s] = Found(s, 1)]
  BY DEF Begin, PatchInv, ScopeAgrees
<1>3. /\ phase'[s] = "entering" /\ \A t \in Scope \ {s} : phase'[t] = phase[t] /\ saved'[t] = saved[t]
      /\ saved'[s] = <<installed[Points[1]]>>
  <2>1. Found(s, 1) = <<installed[Points[1]]>>
    BY <1>2, PointFacts DEF Found
  <2>2. QED
    BY <1>2, <2>1 DEF PatchTypes
<1>4. /\ begun' # <<>> /\ Len(begun') = n + 1 /\ DOMAIN begun' = 1..n+1 /\ Last(begun') = s /\ Front(begun') = begun
      /\ begun'[n + 1] = s /\ \A k \in 1..n : begun'[k] = begun[k]
  <2>1. begun \in Seq(Scope)
    BY DEF PatchTypes
  <2>2. QED
    BY <1>1, <1>2, <2>1, AppendedIs
<1>5. \A k \in 1..n : begun[k] # s
  BY <1>1, <1>2
<1>6. \A k \in 1..n : Below(k)' = Below(k)
  BY <1>1, <1>4 DEF Below
<1>7. \A i \in DOMAIN Points : installed[Points[i]] = Below(n + 1)'
  <2>1. CASE n = 0
    <3>1. begun = <<>>
      BY <1>1, <2>1, EmptySeq DEF PatchTypes
    <3>2. QED
      BY <1>1, <2>1, <3>1 DEF NestInv, Below
  <2>2. CASE n # 0
    <3>1. begun # <<>> /\ Last(begun) = begun[n] /\ n \in 1..n
      BY <1>1, <2>2, EmptySeq DEF Last
    <3>2. \A i : Patches(Last(begun), i)
      BY <1>1, <3>1 DEF Patches
    <3>3. \A i \in DOMAIN Points : installed[Points[i]] = begun[n]
      BY <1>1, <3>1, <3>2 DEF NestInv
    <3>4. Below(n + 1)' = begun[n]
      BY <1>1, <1>4, <2>2, <3>1 DEF Below
    <3>5. QED
      BY <3>3, <3>4
  <2>3. QED
    BY <2>1, <2>2
<1>8. hooks = begun /\ litellm_scopes = begun
  <2>1. CASE begun = <<>>
    BY <1>1, <2>1 DEF NestInv
  <2>2. CASE begun # <<>>
    <3>1. n \in 1..n /\ Last(begun) = begun[n]
      BY <1>1, <2>2, EmptySeq DEF PatchTypes, Last
    <3>2. QED
      BY <1>1, <2>2, <3>1 DEF NestInv, Patches
  <2>3. QED
    BY <2>1, <2>2
<1>9. \A k \in 1..n : phase'[begun'[k]] = "live"
  BY <1>1, <1>3, <1>4, <1>5
<1>10. ASSUME NEW k \in 1..n+1, NEW i \in DOMAIN saved'[begun'[k]] PROVE saved'[begun'[k]][i] = Below(k)'
  <2>1. CASE k \in 1..n
    <3>1. saved'[begun'[k]] = saved[begun[k]]
      BY <1>1, <1>3, <1>4, <1>5, <2>1
    <3>2. QED
      BY <1>1, <1>6, <1>10, <2>1, <3>1 DEF NestInv
  <2>2. CASE k = n + 1
    <3>1. i = 1 /\ saved'[begun'[k]][i] = installed[Points[1]]
      BY <1>3, <1>4, <1>10, <2>2
    <3>2. QED
      BY <1>7, <2>2, <3>1, PointFacts
  <2>3. QED
    BY <1>1, <2>1, <2>2
<1>11. Len(begun') - 1 = n
  BY <1>1, <1>4
<1>12. \A i \in DOMAIN Points : ~Patches(Last(begun), i)'
  BY <1>2, <1>3, <1>4, PointFacts DEF Patches
<1>13. \A k \in 1..Len(begun)'-1 : phase'[begun'[k]] = "live"
  BY <1>9, <1>11
<1>14. \A k \in DOMAIN begun' : \A i \in DOMAIN saved'[begun'[k]] : saved'[begun'[k]][i] = Below(k)'
  BY <1>4, <1>10
<1>15. \A i \in DOMAIN Points : installed'[Points[i]] = Below(Len(begun))'
  BY <1>2, <1>4, <1>7 DEF Below
<1>16. \A i \in DOMAIN Points : installed'[Points[i]] = IF Patches(Last(begun), i)' THEN Last(begun') ELSE Below(Len(begun))'
  BY <1>12, <1>15
<1>17. hooks' = IF phase'[Last(begun')] = "entering" THEN Front(begun') ELSE begun'
  BY <1>2, <1>3, <1>4, <1>8
<1>18. litellm_scopes' = IF Patches(Last(begun), 2)' THEN begun' ELSE Front(begun')
  BY <1>2, <1>4, <1>8, <1>12, PointFacts
<1>19. QED
  BY <1>4, <1>13, <1>14, <1>16, <1>17, <1>18 DEF NestInv

\* While scopes nest, what is known when the last that began is on its way.
LastFacts(s) ==
  /\ begun # <<>> /\ Last(begun) = s /\ s \in Scope
  /\ \A k \in 1..Len(begun)-1 : phase[begun[k]] = "live" /\ begun[k] # s
  /\ begun[Len(begun)] = s
  /\ \A k \in DOMAIN begun : \A i \in DOMAIN saved[begun[k]] : saved[begun[k]][i] = Below(k)
  /\ \A i \in DOMAIN Points : installed[Points[i]] = IF Patches(s, i) THEN s ELSE Below(Len(begun))
  /\ hooks = IF phase[s] = "entering" THEN Front(begun) ELSE begun
  /\ litellm_scopes = IF Patches(s, 2) THEN begun ELSE Front(begun)

LEMMA LastIs ==
  ASSUME PatchTypes, PatchInv, NestInv, nested, NEW s \in Scope, phase[s] \in {"entering", "leaving"}
  PROVE  LastFacts(s)
BY MovesLast DEF NestInv, LastFacts

\* A step of the last scope that does not end it.
LEMMA LastNests ==
  ASSUME PatchTypes, PatchInv, NEW s \in Scope, LastFacts(s), begun' = begun,
         \A t \in Scope \ {s} : phase'[t] = phase[t] /\ saved'[t] = saved[t],
         \A i \in DOMAIN saved'[s] : saved'[s][i] = Below(Len(begun)),
         \A i \in DOMAIN Points : installed'[Points[i]] = IF Patches(s, i)' THEN s ELSE Below(Len(begun)),
         hooks' = IF phase'[s] = "entering" THEN Front(begun) ELSE begun,
         litellm_scopes' = IF Patches(s, 2)' THEN begun ELSE Front(begun)
  PROVE  NestInv'
<1> PICK n : n = Len(begun)
  OBVIOUS
<1>1. n \in Nat /\ DOMAIN begun = 1..n /\ \A k \in 1..n : begun[k] \in Scope
  BY BegunIs DEF BeginFacts
<1>2. \A k : Below(k)' = Below(k)
  BY DEF Below
<1>3. \A k \in 1..n-1 : phase'[begun[k]] = "live"
  BY <1>1 DEF LastFacts
<1>4. ASSUME NEW k \in 1..n, NEW i \in DOMAIN saved'[begun[k]] PROVE saved'[begun[k]][i] = Below(k)
  <2>1. CASE k = n
    BY <1>4, <2>1 DEF LastFacts
  <2>2. CASE k # n
    <3>1. k \in 1..n-1
      BY <1>1, <2>2
    <3>2. saved'[begun[k]] = saved[begun[k]]
      BY <1>1, <3>1 DEF LastFacts
    <3>3. QED
      BY <1>1, <1>4, <3>2 DEF LastFacts
  <2>3. QED
    BY <2>1, <2>2
<1>5. QED
  BY <1>1, <1>2, <1>3, <1>4 DEF NestInv, LastFacts

\* What the scope that began last has saved is what is below it.
LEMMA LastSaved ==
  ASSUME PatchTypes, PatchInv, NEW s \in Scope, LastFacts(s)
  PROVE  \A i \in DOMAIN saved[s] : saved[s][i] = Below(Len(begun))
<1>1. begun \in Seq(Scope) /\ Len(begun) \in 1..Len(begun) /\ DOMAIN begun = 1..Len(begun)
  <2>1. begun \in Seq(Scope) /\ begun # <<>>
    BY DEF PatchTypes, LastFacts
  <2>2. Len(begun) \in Nat \ {0} /\ DOMAIN begun = 1..Len(begun)
    BY <2>1, EmptySeq, LenProperties
  <2>3. QED
    BY <2>1, <2>2
<1>2. QED
  BY <1>1 DEF LastFacts

LEMMA InstallNests ==
  ASSUME PatchTypes, PatchInv, NestInv, NEW s \in Scope, Install(s)
  PROVE  NestInv'
<1> SUFFICES ASSUME nested' PROVE NestInv'
  BY DEF NestInv
<1> PICK n : n = put[s] + 1
  OBVIOUS
<1>1. /\ LastFacts(s) /\ phase[s] = "entering" /\ n \in 1..3 /\ put[s] = n - 1 /\ DOMAIN saved[s] = 1..n /\ Len(saved[s]) = n
  <2>1. nested /\ phase[s] = "entering" /\ put[s] \in 0..2 /\ saved[s] \in Seq(Fn) /\ ScopeAgrees(s)
    BY PointFacts DEF Install, PatchTypes, PatchInv
  <2>2. Len(saved[s]) = n
    BY <2>1 DEF ScopeAgrees
  <2>3. QED
    BY <2>1, <2>2, LastIs, LenProperties
<1>2. /\ phase' = phase /\ hooks' = hooks /\ begun' = begun
      /\ installed' = [installed EXCEPT ![Points[n]] = s]
      /\ litellm_scopes' = IF n = 2 THEN Append(litellm_scopes, s) ELSE litellm_scopes
      /\ put'[s] = n
      /\ saved' = [saved EXCEPT ![s] = Found(s, n + 1)]
  <2>1. put[s] + 2 = n + 1 /\ put[s] + 1 = n /\ put \in [Scope -> 0..3]
    BY <1>1, PointFacts DEF PatchTypes
  <2>2. /\ phase' = phase /\ hooks' = hooks /\ begun' = begun
        /\ installed' = [installed EXCEPT ![Points[n]] = s]
        /\ litellm_scopes' = IF Points[n] = "gate" THEN Append(litellm_scopes, s) ELSE litellm_scopes
        /\ put' = [put EXCEPT ![s] = put[s] + 1]
        /\ saved' = [saved EXCEPT ![s] = Found(s, n + 1)]
    BY <2>1 DEF Install
  <2>3. Points[n] = "gate" <=> n = 2
    BY <1>1, PointFacts
  <2>4. put'[s] = n
    BY <2>1, <2>2
  <2>5. QED
    BY <2>2, <2>3, <2>4
<1>3. /\ \A t \in Scope \ {s} : saved'[t] = saved[t]
      /\ saved'[s] = Found(s, n + 1)
  BY <1>2 DEF PatchTypes
<1>4. \A i \in DOMAIN Points : (Patches(s, i) <=> i <= n - 1) /\ (Patches(s, i)' <=> i <= n)
  BY <1>1, <1>2 DEF Patches
<1>5. ASSUME NEW i \in DOMAIN saved'[s] PROVE saved'[s][i] = Below(Len(begun))
  <2>1. \A k \in 1..n : saved[s][k] = Below(Len(begun))
    BY <1>1, LastSaved
  <2>2. CASE n = 3
    <3>1. ~(n + 1 <= Len(Points))
      BY <2>2, PointFacts
    <3>2. saved'[s] = saved[s]
      BY <1>3, <3>1 DEF Found
    <3>3. QED
      BY <1>1, <1>5, <2>1, <3>2
  <2>3. CASE n < 3
    <3>1. n + 1 \in DOMAIN Points /\ Points[n + 1] \in Range(Points)
      BY <1>1, <2>3, PointFacts
    <3>2. saved[s] \in Seq(Fn) /\ installed[Points[n + 1]] \in Fn
      BY <3>1 DEF PatchTypes
    <3>3. Found(s, n + 1) = Append(saved[s], installed[Points[n + 1]])
      BY <1>1, <2>3, PointFacts DEF Found
    <3>4. /\ DOMAIN saved'[s] = 1..n+1 /\ saved'[s][n + 1] = installed[Points[n + 1]]
          /\ \A k \in 1..n : saved'[s][k] = saved[s][k]
      <4> PICK f : f = installed[Points[n + 1]]
        OBVIOUS
      <4> PICK seq : seq = saved[s]
        OBVIOUS
      <4>1. f \in Fn /\ seq \in Seq(Fn) /\ Len(seq) = n /\ saved'[s] = Append(seq, f)
        BY <1>1, <1>3, <3>2, <3>3
      <4>2. /\ DOMAIN Append(seq, f) = 1..n+1 /\ Append(seq, f)[n + 1] = f
            /\ \A k \in 1..n : Append(seq, f)[k] = seq[k]
        BY <4>1, AppendedIs
      <4>3. QED
        BY <4>1, <4>2
    <3>5. installed[Points[n + 1]] = Below(Len(begun))
      BY <1>1, <1>4, <3>1 DEF LastFacts
    <3>6. i \in 1..n \/ i = n + 1
      <4>1. i \in 1..n+1
        BY <1>5, <3>4, Zenon
      <4>2. QED
        BY <1>1, <4>1
    <3>7. QED
      BY <2>1, <3>4, <3>5, <3>6
  <2>4. QED
    BY <1>1, <2>2, <2>3
<1>6. ASSUME NEW i \in DOMAIN Points
      PROVE  installed'[Points[i]] = IF Patches(s, i)' THEN s ELSE Below(Len(begun))
  <2>1. CASE i = n
    BY <1>1, <1>2, <1>4, <2>1, PointFacts DEF PatchTypes
  <2>2. CASE i # n
    <3>1. Points[i] # Points[n]
      BY <1>1, <2>2, PointFacts
    <3>2. installed'[Points[i]] = installed[Points[i]]
      BY <1>2, <3>1, PointFacts DEF PatchTypes
    <3>3. i \in 1..3 /\ (i <= n <=> i <= n - 1)
      BY <1>1, <2>2, PointFacts
    <3>4. Patches(s, i)' <=> Patches(s, i)
      BY <1>4, <3>3
    <3>5. QED
      BY <1>1, <3>2, <3>4 DEF LastFacts
  <2>3. QED
    BY <2>1, <2>2
<1>7. litellm_scopes' = IF Patches(s, 2)' THEN begun ELSE Front(begun)
  <2>1. CASE n = 2
    <3>1. litellm_scopes = Front(begun) /\ Patches(s, 2)'
      BY <1>1, <1>4, <2>1, PointFacts DEF LastFacts
    <3>2. Append(Front(begun), s) = begun
      <4>1. begun \in Seq(Scope)
        BY DEF PatchTypes
      <4>2. QED
        BY <1>1, <4>1, FrontThenLast DEF LastFacts
    <3>3. QED
      BY <1>2, <2>1, <3>1, <3>2
  <2>2. CASE n # 2
    <3>1. Patches(s, 2)' <=> Patches(s, 2)
      BY <1>1, <1>4, <2>2, PointFacts
    <3>2. QED
      BY <1>1, <1>2, <2>2, <3>1 DEF LastFacts
  <2>3. QED
    BY <2>1, <2>2
<1>8. hooks' = IF phase'[s] = "entering" THEN Front(begun) ELSE begun
  BY <1>1, <1>2 DEF LastFacts
<1>9. QED
  BY <1>1, <1>2, <1>3, <1>5, <1>6, <1>7, <1>8, LastNests

LEMMA ArmNests ==
  ASSUME PatchTypes, PatchInv, NestInv, NEW s \in Scope, Arm(s)
  PROVE  NestInv'
<1> SUFFICES ASSUME nested' PROVE NestInv'
  BY DEF NestInv
<1>1. LastFacts(s) /\ phase[s] = "entering" /\ put[s] = 3
  BY LastIs, PointFacts DEF Arm
<1>2. /\ phase'[s] \in {"live", "leaving"} /\ put'[s] = 0
      /\ \A t \in Scope \ {s} : phase'[t] = phase[t]
      /\ UNCHANGED <<saved, installed, begun, litellm_scopes>> /\ hooks' = Append(hooks, s)
  BY DEF Arm, PatchTypes
<1>3. \A i \in DOMAIN Points : Patches(s, i) /\ Patches(s, i)'
  BY <1>1, <1>2, PointFacts DEF Patches
<1>4. hooks' = begun
  <2>1. begun \in Seq(Scope) /\ hooks = Front(begun)
    BY <1>1 DEF PatchTypes, LastFacts
  <2>2. QED
    BY <1>1, <1>2, <2>1, FrontThenLast DEF LastFacts
<1>5. /\ \A i \in DOMAIN Points : installed'[Points[i]] = IF Patches(s, i)' THEN s ELSE Below(Len(begun))
      /\ litellm_scopes' = IF Patches(s, 2)' THEN begun ELSE Front(begun)
  BY <1>1, <1>2, <1>3, PointFacts DEF LastFacts
<1>6. QED
  BY <1>1, <1>2, <1>4, <1>5, LastSaved, LastNests

LEMMA ReturnNests ==
  ASSUME PatchTypes, PatchInv, NestInv, NEW s \in Scope, Return(s)
  PROVE  NestInv'
<1> SUFFICES ASSUME nested' PROVE NestInv'
  BY DEF NestInv
<1>1. phase[s] = "live" /\ nested /\ begun # <<>> /\ Last(begun) = s /\ put[s] = 0
  <2>1. phase[s] = "live" /\ nested /\ (begun = <<>> \/ Last(begun) = s)
    BY DEF Return, InOrder
  <2>2. s \in Range(begun) /\ put[s] = 0
    BY <2>1 DEF PatchInv, ScopeAgrees
  <2>3. begun # <<>>
    BY <2>2, EmptySeq DEF Range
  <2>4. QED
    BY <2>1, <2>2, <2>3
<1>2. LastFacts(s)
  <2>1. BeginFacts /\ begun \in Seq(Scope)
    BY BegunIs DEF PatchTypes
  <2>2. begun[Len(begun)] = s /\ \A k \in 1..Len(begun)-1 : begun[k] # s
    BY <1>1, <2>1 DEF BeginFacts, Last
  <2>3. QED
    BY <1>1, <2>2 DEF NestInv, LastFacts
<1>3. /\ phase'[s] = "leaving" /\ put' = put
      /\ \A t \in Scope \ {s} : phase'[t] = phase[t]
      /\ UNCHANGED <<saved, installed, begun, litellm_scopes, hooks>>
  BY DEF Return, PatchTypes
<1>4. \A i \in DOMAIN Points : Patches(s, i) /\ Patches(s, i)'
  BY <1>1, <1>3, PointFacts DEF Patches
<1>5. /\ \A i \in DOMAIN Points : installed'[Points[i]] = IF Patches(s, i)' THEN s ELSE Below(Len(begun))
      /\ litellm_scopes' = IF Patches(s, 2)' THEN begun ELSE Front(begun)
  BY <1>2, <1>3, <1>4, PointFacts DEF LastFacts
<1>6. hooks' = begun
  BY <1>1, <1>2, <1>3 DEF LastFacts
<1>7. QED
  BY <1>2, <1>3, <1>5, <1>6, LastSaved, LastNests

LEMMA RestoreNests ==
  ASSUME PatchTypes, PatchInv, NestInv, NEW s \in Scope, Restore(s)
  PROVE  NestInv'
<1> SUFFICES ASSUME nested' PROVE NestInv'
  BY DEF NestInv
<1> PICK n : n = put[s] + 1
  OBVIOUS
<1>1. /\ LastFacts(s) /\ phase[s] = "leaving" /\ n \in 1..3 /\ put[s] = n - 1 /\ DOMAIN saved[s] = 1..3
      /\ begun \in Seq(Scope) /\ IsInjective(begun) /\ BeginFacts
      /\ hooks \in Seq(Scope) /\ litellm_scopes \in Seq(Scope) /\ nested
  <2>1. nested /\ phase[s] = "leaving" /\ put[s] \in 0..2 /\ saved[s] \in Seq(Fn) /\ Len(saved[s]) = 3
    BY PointFacts DEF Restore, PatchTypes, PatchInv, ScopeAgrees
  <2>2. QED
    BY <2>1, LastIs, BegunIs, LenProperties DEF PatchTypes
<1>2. /\ saved' = saved /\ installed' = [installed EXCEPT ![Points[n]] = saved[s][n]]
      /\ litellm_scopes' = IF n = 2 THEN Without(litellm_scopes, s) ELSE litellm_scopes
      /\ hooks' = IF n = 3 THEN Without(hooks, s) ELSE hooks
      /\ begun' = IF n = 3 THEN Without(begun, s) ELSE begun
      /\ n # 3 => phase' = phase /\ put'[s] = n
      /\ \A t \in Scope \ {s} : phase'[t] = phase[t]
  <2>1. n = put[s] + 1 /\ put \in [Scope -> 0..3] /\ phase \in [Scope -> {"idle", "entering", "live", "leaving", "ended"}]
    BY PointFacts DEF PatchTypes
  <2>2. /\ saved' = saved /\ installed' = [installed EXCEPT ![Points[n]] = saved[s][n]]
        /\ litellm_scopes' = IF Points[n] = "gate" THEN Without(litellm_scopes, s) ELSE litellm_scopes
        /\ put' = [put EXCEPT ![s] = IF n = 3 THEN 0 ELSE n]
        /\ n = 3 => hooks' = Without(hooks, s) /\ phase' = [phase EXCEPT ![s] = "ended"] /\ begun' = Without(begun, s)
        /\ n # 3 => hooks' = hooks /\ phase' = phase /\ begun' = begun
    BY <1>1, <2>1, PointFacts DEF Restore, Restored
  <2>3. Points[n] = "gate" <=> n = 2
    BY <1>1, PointFacts
  <2>4. n # 3 => put'[s] = n
    BY <2>1, <2>2
  <2>5. \A t \in Scope \ {s} : phase'[t] = phase[t]
    BY <2>1, <2>2
  <2>6. QED
    BY <2>2, <2>3, <2>4, <2>5
<1>3. saved[s][n] = Below(Len(begun))
  BY <1>1, LastSaved
<1>4. \A i \in 1..3 : Patches(s, i) <=> n <= i
  BY <1>1 DEF Patches
<1>5. s \in Range(begun) /\ Without(begun, s) = Front(begun)
  <2>1. s \in Range(begun)
    BY <1>1 DEF PatchInv, ScopeAgrees
  <2>2. QED
    BY <1>1, <2>1, WithoutOne DEF LastFacts
<1>6. ASSUME NEW i \in DOMAIN Points
      PROVE  installed'[Points[i]] = IF i <= n THEN Below(Len(begun)) ELSE s
  <2>1. CASE i = n
    BY <1>1, <1>2, <1>3, <2>1, PointFacts DEF PatchTypes
  <2>2. CASE i # n
    <3>1. Points[i] # Points[n] /\ i \in 1..3 /\ (n <= i <=> ~(i <= n))
      BY <1>1, <2>2, PointFacts
    <3>2. installed'[Points[i]] = installed[Points[i]]
      BY <1>2, <3>1, PointFacts DEF PatchTypes
    <3>3. Patches(s, i) <=> ~(i <= n)
      BY <1>4, <3>1
    <3>4. QED
      BY <1>1, <3>2, <3>3 DEF LastFacts
  <2>3. QED
    BY <2>1, <2>2
<1>7. litellm_scopes' = IF n = 1 THEN begun ELSE Front(begun)
  <2>1. litellm_scopes = IF n <= 2 THEN begun ELSE Front(begun)
    BY <1>1, <1>4 DEF LastFacts
  <2>2. CASE n = 2
    BY <1>2, <1>5, <2>1, <2>2
  <2>3. CASE n # 2
    <3>1. n <= 2 <=> n = 1
      BY <1>1, <2>3
    <3>2. QED
      BY <1>2, <2>1, <2>3, <3>1
  <2>4. QED
    BY <2>2, <2>3
<1>8. CASE n # 3
  <2>1. begun' = begun /\ phase' = phase /\ put'[s] = n /\ hooks' = hooks /\ n \in 1..2
    BY <1>1, <1>2, <1>8
  <2>2. \A i \in 1..3 : Patches(s, i)' <=> ~(i <= n)
    <3>1. \A i \in 1..3 : (n < i) <=> ~(i <= n)
      BY <2>1
    <3>2. phase'[s] = "leaving"
      BY <1>1, <2>1
    <3>3. QED
      BY <2>1, <3>1, <3>2 DEF Patches
  <2>3. \A i \in DOMAIN Points : installed'[Points[i]] = IF Patches(s, i)' THEN s ELSE Below(Len(begun))
    BY <1>6, <2>2, PointFacts
  <2>4. litellm_scopes' = IF Patches(s, 2)' THEN begun ELSE Front(begun)
    BY <1>7, <2>1, <2>2
  <2>5. hooks' = IF phase'[s] = "entering" THEN Front(begun) ELSE begun
    BY <1>1, <2>1 DEF LastFacts
  <2>6. QED
    BY <1>1, <1>2, <2>1, <2>3, <2>4, <2>5, LastSaved, LastNests
<1>9. CASE n = 3
  <2> PICK m : m = Len(begun) - 1
    OBVIOUS
  <2>1. /\ begun' = Front(begun) /\ litellm_scopes' = begun' /\ hooks' = begun'
        /\ m \in Nat /\ Len(begun) = m + 1 /\ Len(begun') = m /\ begun' \in Seq(Scope) /\ DOMAIN begun' = 1..m
        /\ \A k \in 1..m : begun'[k] = begun[k] /\ begun[k] \in Scope
    <3>1. begun' = Front(begun) /\ litellm_scopes' = Front(begun) /\ hooks = begun
      <4>1. n # 1 /\ hooks = begun
        BY <1>1, <1>9 DEF LastFacts
      <4>2. QED
        BY <1>2, <1>5, <1>7, <1>9, <4>1
    <3>2. /\ Front(begun) \in Seq(Scope) /\ Len(Front(begun)) = Len(begun) - 1 /\ Len(begun) \in Nat \ {0}
          /\ \A i \in 1..Len(begun)-1 : Front(begun)[i] = begun[i]
      BY <1>1, FrontAndLast DEF LastFacts
    <3>3. m \in Nat /\ Len(begun) = m + 1
      BY <3>2
    <3>4. DOMAIN Front(begun) = 1..m
      BY <3>2, LenProperties
    <3>5. \A k \in 1..m : k \in DOMAIN begun
      BY <1>1, <3>3 DEF BeginFacts
    <3>6. QED
      BY <1>1, <1>2, <1>5, <1>9, <3>1, <3>2, <3>3, <3>4, <3>5 DEF BeginFacts
  <2>2. \A k \in 1..m : begun[k] # s /\ phase[begun[k]] = "live" /\ phase'[begun[k]] = "live" /\ Below(k)' = Below(k)
    <3> TAKE k \in 1..m
    <3>1. k \in 1..Len(begun)-1 /\ begun[k] \in Scope
      BY <2>1
    <3>2. begun[k] # s /\ phase[begun[k]] = "live"
      BY <1>1, <3>1 DEF LastFacts
    <3>3. k = 1 \/ k - 1 \in 1..m
      BY <2>1
    <3>4. Below(k)' = Below(k)
      BY <2>1, <3>3 DEF Below
    <3>5. QED
      BY <1>2, <3>1, <3>2, <3>4
  <2>3. \A k \in 1..m : \A i \in DOMAIN saved'[begun'[k]] : saved'[begun'[k]][i] = Below(k)'
    <3> TAKE k \in 1..m
    <3>1. k \in DOMAIN begun
      BY <1>1, <2>1 DEF BeginFacts
    <3>2. saved'[begun'[k]] = saved[begun[k]]
      BY <1>2, <2>1
    <3>3. \A i \in DOMAIN saved[begun[k]] : saved[begun[k]][i] = Below(k)
      BY <1>1, <3>1 DEF LastFacts
    <3>4. QED
      BY <2>2, <3>2, <3>3
  <2>4. \A i \in DOMAIN Points : installed'[Points[i]] = Below(m + 1)
    BY <1>6, <1>9, <2>1, PointFacts
  <2>5. CASE m = 0
    <3>1. begun' = <<>>
      BY <2>1, <2>5, EmptySeq
    <3>2. \A i \in DOMAIN Points : installed'[Points[i]] = Original
      BY <2>4, <2>5 DEF Below
    <3>3. 1..Len(begun')-1 = {} /\ DOMAIN begun' = {}
      BY <2>1, <2>5
    <3>4. hooks' = <<>> /\ litellm_scopes' = <<>>
      BY <2>1, <3>1
    <3>5. QED
      BY <3>1, <3>2, <3>3, <3>4 DEF NestInv
  <2>6. CASE m # 0
    <3>1. begun' # <<>> /\ Last(begun') = begun'[m] /\ m \in 1..m /\ Below(m + 1) = begun[m]
      BY <2>1, <2>6, EmptySeq DEF Last, Below
    <3>2. Last(begun') = begun[m] /\ phase'[Last(begun')] = "live"
      BY <2>1, <2>2, <3>1
    <3>3. \A i : Patches(Last(begun), i)'
      BY <3>2 DEF Patches
    <3>4. \A k \in 1..Len(begun)'-1 : phase'[begun'[k]] = "live"
      BY <2>1, <2>2
    <3>5. \A i \in DOMAIN Points : installed'[Points[i]] = Last(begun')
      BY <2>4, <3>1, <3>2
    <3>6. \A k \in DOMAIN begun' : \A i \in DOMAIN saved'[begun'[k]] : saved'[begun'[k]][i] = Below(k)'
      BY <2>1, <2>3
    <3>7. QED
      BY <2>1, <3>1, <3>2, <3>3, <3>4, <3>5, <3>6 DEF NestInv
  <2>7. QED
    BY <2>5, <2>6
<1>10. QED
  BY <1>8, <1>9

LEMMA NestInit == Init => NestInv
<1> SUFFICES ASSUME Init PROVE NestInv
  OBVIOUS
<1>1. begun = <<>> /\ hooks = <<>> /\ litellm_scopes = <<>> /\ DOMAIN begun = {} /\ Len(begun) = 0
  BY EmptySeq DEF Init
<1>2. \A i \in DOMAIN Points : installed[Points[i]] = Original
  BY PointFacts DEF Init
<1>3. QED
  BY <1>1, <1>2 DEF NestInv

LEMMA NestStep ==
  ASSUME Layer1, NestInv, [Next]_vars
  PROVE  NestInv'
<1>1. PatchTypes /\ PatchInv
  BY TypeParts DEF Layer1
<1>2. ASSUME UNCHANGED patches PROVE NestInv'
  BY <1>2 DEF patches, NestInv, Below, Patches
<1>3. CASE \E s \in Scope : Begin(s) \/ Install(s) \/ Arm(s) \/ Return(s) \/ Restore(s)
  BY <1>1, <1>3, BeginNests, InstallNests, ArmNests, ReturnNests, RestoreNests
<1>4. QED
  BY <1>2, <1>3, NextCases, WorkersKeepPatches DEF vars

\* Turned round.
LEMMA ReverseIs ==
  ASSUME NEW S, NEW seq \in Seq(S)
  PROVE  /\ Reverse(seq) \in Seq(S) /\ Len(Reverse(seq)) = Len(seq)
         /\ \A k \in 1..Len(seq) : Reverse(seq)[k] = seq[Len(seq) - k + 1]
<1> PICK n : n = Len(seq)
  OBVIOUS
<1>1. n \in Nat /\ \A k \in 1..n : seq[k] \in S
  BY LenProperties, ElementOfSeq
<1>2. Reverse(seq) = [k \in 1..n |-> seq[(n - k) + 1]]
  BY DEF Reverse
<1>3. \A k \in 1..n : (n - k) + 1 \in 1..n
  BY <1>1
<1>4. Reverse(seq) \in [1..n -> S]
  BY <1>1, <1>2, <1>3
<1>5. Reverse(seq) \in Seq(S)
  BY <1>1, <1>4, SeqDef
<1>6. Len(Reverse(seq)) = n
  BY <1>1, <1>4, <1>5, LenProperties
<1>7. QED
  BY <1>2, <1>5, <1>6

\* Between brackets every open scope is live, and the functions of a point are one
\* chain through all of them.
LEMMA Composes ==
  ASSUME PatchTypes, PatchInv, NestInv
  PROVE  NestedScopesCompose
<1> SUFFICES ASSUME nested, Moving = {}
             PROVE  /\ \A i \in DOMAIN Points : Meets(i, Append(Reverse(begun), Original))
                    /\ hooks = begun /\ litellm_scopes = begun
  BY DEF NestedScopesCompose
<1> PICK n : n = Len(begun)
  OBVIOUS
<1>1. /\ begun \in Seq(Scope) /\ n \in Nat /\ DOMAIN begun = 1..n
      /\ \A k \in 1..n : begun[k] \in Scope /\ phase[begun[k]] = "live"
  BY BegunIs DEF PatchTypes, BeginFacts, Moving
<1>2. \A k \in 1..n : \A i \in DOMAIN Points : i \in DOMAIN saved[begun[k]] /\ saved[begun[k]][i] = Below(k)
  <2> TAKE k \in 1..n
  <2> TAKE i \in DOMAIN Points
  <2>1. Placed(begun[k], i)
    BY <1>1 DEF Placed
  <2>2. i \in DOMAIN saved[begun[k]]
    BY <1>1, <2>1, PlacedHasSaved
  <2>3. QED
    BY <1>1, <2>2 DEF NestInv
<1>3. n # 0 => begun # <<>> /\ Last(begun) = begun[n] /\ n \in 1..n /\ \A i : Patches(Last(begun), i)
  <2>1. n # 0 => begun # <<>> /\ Last(begun) = begun[n] /\ n \in 1..n
    BY <1>1, EmptySeq DEF Last
  <2>2. QED
    BY <1>1, <2>1 DEF Patches
<1>4. n = 0 => begun = <<>>
  BY <1>1, EmptySeq
<1>5. hooks = begun /\ litellm_scopes = begun
  <2>1. CASE n = 0
    BY <1>4, <2>1 DEF NestInv
  <2>2. CASE n # 0
    BY <1>1, <1>3, <2>2 DEF NestInv
  <2>3. QED
    BY <2>1, <2>2
<1>6. ASSUME NEW i \in DOMAIN Points PROVE installed[Points[i]] = IF n = 0 THEN Original ELSE begun[n]
  <2>1. CASE n = 0
    BY <1>4, <2>1 DEF NestInv
  <2>2. CASE n # 0
    BY <1>3, <2>2 DEF NestInv
  <2>3. QED
    BY <2>1, <2>2
<1> PICK chain : chain = Append(Reverse(begun), Original)
  OBVIOUS
<1>7. /\ Len(chain) = n + 1 /\ chain[n + 1] = Original
      /\ \A k \in 1..n : chain[k] = begun[n - k + 1]
  <2>1. /\ Reverse(begun) \in Seq(Fn) /\ Len(Reverse(begun)) = n
        /\ \A k \in 1..n : Reverse(begun)[k] = begun[n - k + 1]
    BY <1>1, ReverseIs DEF Fn
  <2>2. Original \in Fn
    BY DEF Fn
  <2>3. QED
    BY <2>1, <2>2, AppendedIs
<1>8. ASSUME NEW i \in DOMAIN Points PROVE Meets(i, chain)
  <2>1. chain[1] = installed[Points[i]]
    <3>1. CASE n = 0
      BY <1>6, <1>7, <3>1
    <3>2. CASE n # 0
      <4>1. 1 \in 1..n /\ n - 1 + 1 = n
        BY <1>1, <3>2
      <4>2. QED
        BY <1>6, <1>7, <3>2, <4>1
    <3>3. QED
      BY <3>1, <3>2
  <2>2. ASSUME NEW k \in 1..n PROVE chain[k] \in Scope /\ saved[chain[k]][i] = chain[k + 1]
    <3> PICK j : j = n - k + 1
      OBVIOUS
    <3>1. j \in 1..n /\ chain[k] = begun[j]
      BY <1>1, <1>7
    <3>2. saved[begun[j]][i] = Below(j)
      BY <1>2, <3>1
    <3>3. CASE k = n
      BY <1>1, <1>7, <3>1, <3>2, <3>3 DEF Below
    <3>4. CASE k # n
      <4>1. j # 1 /\ k + 1 \in 1..n /\ n - (k + 1) + 1 = j - 1
        BY <1>1, <3>4
      <4>2. chain[k + 1] = begun[j - 1]
        BY <1>7, <4>1
      <4>3. QED
        BY <1>1, <3>1, <3>2, <4>1, <4>2 DEF Below
    <3>5. QED
      BY <3>3, <3>4
  <2>3. 1..Len(chain)-1 = 1..n
    BY <1>1, <1>7
  <2>4. chain[Len(chain)] = Original
    BY <1>7
  <2>5. QED
    BY <2>1, <2>2, <2>3, <2>4 DEF Meets
<1>9. QED
  BY <1>5, <1>8

\* While scopes nest, a live one stands under whatever is installed.
LEMMA LiveUnder ==
  ASSUME PatchTypes, PatchInv, NestInv, nested, NEW i \in DOMAIN Points, NEW s \in Scope, phase[s] = "live"
  PROVE  Under(s, installed[Points[i]], i)
<1> PICK n : n = Len(begun)
  OBVIOUS
<1>1. n \in Nat /\ DOMAIN begun = 1..n /\ \A k \in 1..n : begun[k] \in Scope
  BY BegunIs DEF BeginFacts
<1>2. PICK j \in 1..n : begun[j] = s
  <2>1. s \in Range(begun)
    BY DEF PatchInv, ScopeAgrees
  <2>2. QED
    BY <1>1, <2>1 DEF Range
<1>3. begun # <<>> /\ Last(begun) = begun[n] /\ n \in 1..n
  BY <1>1, <1>2, EmptySeq DEF Last
<1>4. PICK m \in 1..n : /\ installed[Points[i]] = begun[m] /\ j <= m
                        /\ \A k \in 1..m : i \in DOMAIN saved[begun[k]]
  <2>1. \A k \in 1..n-1 : i \in DOMAIN saved[begun[k]]
    <3> TAKE k \in 1..n-1
    <3>1. begun[k] \in Scope /\ phase[begun[k]] = "live"
      BY <1>1 DEF NestInv
    <3>2. QED
      BY <3>1, PlacedHasSaved DEF Placed
  <2>2. CASE Patches(begun[n], i)
    <3>1. Placed(begun[n], i)
      BY <2>2 DEF Patches, Placed
    <3>2. i \in DOMAIN saved[begun[n]]
      BY <1>1, <1>3, <3>1, PlacedHasSaved
    <3>3. \A k \in 1..n : i \in DOMAIN saved[begun[k]]
      <4> TAKE k \in 1..n
      <4>1. k = n \/ k \in 1..n-1
        BY <1>1
      <4>2. QED
        BY <2>1, <3>2, <4>1
    <3>4. installed[Points[i]] = begun[n]
      BY <1>3, <2>2 DEF NestInv
    <3>5. QED
      BY <1>2, <1>3, <3>3, <3>4
  <2>3. CASE ~Patches(begun[n], i)
    <3>1. begun[n] # s
      BY <2>3 DEF Patches
    <3>2. j \in 1..n-1 /\ n - 1 \in 1..n /\ j <= n - 1 /\ n # 1
      BY <1>1, <1>2, <3>1
    <3>3. installed[Points[i]] = begun[n - 1]
      BY <1>3, <2>3, <3>2 DEF NestInv, Below
    <3>4. QED
      BY <2>1, <3>2, <3>3
  <2>4. QED
    BY <2>2, <2>3
<1> DEFINE T == {d \in Nat : j + d <= m => Under(s, begun[j + d], i)}
<1>5. 0 \in T
  BY <1>1, <1>2, UnderItself DEF Fn
<1>6. ASSUME NEW d \in Nat, d \in T PROVE d + 1 \in T
  <2> SUFFICES ASSUME j + (d + 1) <= m PROVE Under(s, begun[j + (d + 1)], i)
    OBVIOUS
  <2> PICK k : k = j + (d + 1)
    OBVIOUS
  <2>1. k \in 1..m /\ k \in 1..n /\ k # 1 /\ k - 1 = j + d /\ j + d <= m
    BY <1>1, <1>2, <1>4
  <2>2. Under(s, begun[k - 1], i)
    BY <1>6, <2>1
  <2>3. i \in DOMAIN saved[begun[k]] /\ begun[k] \in Scope /\ saved[begun[k]][i] = begun[k - 1]
    BY <1>1, <1>4, <2>1 DEF NestInv, Below
  <2>4. QED
    BY <2>2, <2>3, UnderWhatWraps
<1>7. m - j \in T
  <2>1. m - j \in Nat
    BY <1>1, <1>2, <1>4
  <2> HIDE DEF T
  <2>2. QED
    BY <1>5, <1>6, <2>1, NatsAreIn
<1>8. j + (m - j) = m
  BY <1>1, <1>2, <1>4
<1>9. QED
  BY <1>1, <1>4, <1>7, <1>8

\* A latch is never lifted.
LEMMA LatchesStay ==
  ASSUME Layer1, [Next]_vars
  PROVE  \A s \in Scope : pending_interrupt[s] => pending_interrupt'[s]
<1>1. /\ program \in Programs /\ PatchTypes /\ CallTypes /\ Placements /\ pending_interrupt \in [Scope -> BOOLEAN]
  BY TypeParts DEF Layer1, CallTypes
<1>2. ASSUME UNCHANGED pending_interrupt PROVE \A s \in Scope : pending_interrupt[s] => pending_interrupt'[s]
  BY <1>2
<1>3. ASSUME NEW t, Latch(t) PROVE \A s \in Scope : pending_interrupt[s] => pending_interrupt'[s]
  BY <1>1, <1>3 DEF Latch
<1>4. CASE \E s \in Scope : Begin(s) \/ Install(s) \/ Arm(s) \/ Return(s) \/ Restore(s)
  BY <1>2, <1>4, ScopesKeepCalls DEF states
<1>5. CASE \E w \in Worker : Works(w)
  <2>1. PICK w \in Worker : Works(w)
    BY <1>5
  <2>2. CASE (\E k \in Kind : Call(w, k)) \/ Arrive(w) \/ Out(w) \/ Fail(w) \/ HookEnter(w) \/ HookBaseline(w)
             \/ HookSnap(w) \/ HookPrev(w) \/ Ask(w) \/ Reply(w) \/ Done(w)
    BY <1>2, <2>2 DEF Call, Arrive, Out, Fail, HookEnter, HookBaseline, HookSnap, HookPrev, Ask, Reply, Done, states
  <2>3. CASE Enter(w) \/ HookSettle(w) \/ HookError(w)
    BY <1>2, <1>3, <2>3 DEF Enter, HookSettle, HookError, states
  <2>4. CASE Unwind(w)
    BY <1>2, <1>3, <2>4 DEF Unwind, Account
  <2>5. QED
    BY <2>1, <2>2, <2>3, <2>4 DEF Works
<1>6. CASE \E id \in due : Callback(id)
  BY <1>2, <1>3, <1>6 DEF Callback, Account
<1>7. CASE UNCHANGED vars
  BY <1>2, <1>7 DEF vars, states
<1>8. QED
  BY <1>4, <1>5, <1>6, <1>7, NextCases

\* A scope that has been live is live until it leaves; brackets do not come back.
LEMMA PhasesAdvance ==
  ASSUME Layer1, [Next]_vars
  PROVE  /\ nested' => nested
         /\ \A s \in Scope : phase[s] \in {"live", "leaving", "ended"} =>
              /\ phase'[s] \in {"live", "leaving", "ended"}
              /\ phase'[s] = "live" => phase[s] = "live"
<1>1. PatchTypes
  BY TypeParts DEF Layer1
<1>2. CASE UNCHANGED patches
  BY <1>2 DEF patches
<1>3. ASSUME NEW t \in Scope, Begin(t) \/ Install(t) \/ Arm(t) \/ Return(t) \/ Restore(t)
      PROVE  /\ nested' => nested
             /\ \A s \in Scope : phase[s] \in {"live", "leaving", "ended"} =>
                  /\ phase'[s] \in {"live", "leaving", "ended"}
                  /\ phase'[s] = "live" => phase[s] = "live"
  <2>1. CASE Begin(t) \/ Install(t)
    BY <1>1, <2>1 DEF Begin, Install, PatchTypes
  <2>2. CASE Arm(t)
    BY <1>1, <2>2 DEF Arm, PatchTypes
  <2>3. CASE Return(t)
    BY <1>1, <2>3 DEF Return, InOrder, PatchTypes
  <2>4. CASE Restore(t)
    <3>1. nested' = nested /\ (phase' = phase \/ phase' = [phase EXCEPT ![t] = "ended"])
      BY <2>4 DEF Restore
    <3>2. QED
      BY <1>1, <3>1 DEF PatchTypes
  <2>5. QED
    BY <1>3, <2>1, <2>2, <2>3, <2>4
<1>4. QED
  BY <1>2, <1>3, NextCases, WorkersKeepPatches DEF vars


\* Whatever others do, a scope that was ahead of a call still is.
LEMMA StopsAtStays ==
  ASSUME Layer1, [Next]_vars, Follows, NEW c, c.stopped \subseteq Scope, StopsAt(c)
  PROVE  StopsAt(c)'
<1> SUFFICES ASSUME NEW s \in c.stopped
             PROVE  /\ phase'[s] \in {"live", "leaving", "ended"}
                    /\ nested' /\ phase'[s] = "live" /\ ~After(c) => Ahead(c, s)'
  BY DEF StopsAt, After
<1>1. s \in Scope /\ phase[s] \in {"live", "leaving", "ended"}
  BY DEF StopsAt
<1>2. phase'[s] \in {"live", "leaving", "ended"} /\ (phase'[s] = "live" => phase[s] = "live") /\ (nested' => nested)
  BY <1>1, PhasesAdvance
<1>3. ASSUME nested', phase'[s] = "live", ~After(c) PROVE Ahead(c, s)'
  <2>1. Ahead(c, s)
    BY <1>2, <1>3 DEF StopsAt
  <2>2. pending_interrupt'[s]
    BY <1>1, <2>1, LatchesStay DEF Ahead
  <2>3. c.at = "down" => Under(s, c.fn, c.point)'
    BY <2>1, UnderStays DEF Ahead
  <2>4. QED
    BY <2>1, <2>2, <2>3 DEF Ahead
<1>4. QED
  BY <1>2, <1>3

\* A step of one worker, and what its call then is.
LEMMA OneStops ==
  ASSUME Layer1, [Next]_vars, Follows, StopInv, NEW w \in Worker, NEW d \in {Nil} \cup CallRecord, Moved(w, d),
         d # Nil => StopsAt(d)
  PROVE  StopInv'
<1>1. CallTypes /\ doing'[w] = d /\ \A v \in Worker \ {w} : doing'[v] = doing[v]
  BY TypeParts, MovedTypes DEF Layer1
<1>2. ASSUME NEW v \in Worker, Busy(v)' PROVE StopsAt(doing[v])'
  <2> PICK c : c = doing'[v]
    OBVIOUS
  <2>1. CASE v = w
    <3>1. c = d /\ d # Nil
      BY <1>1, <1>2, <2>1 DEF Busy
    <3>2. c.stopped \subseteq Scope /\ StopsAt(c)
      BY <3>1 DEF CallRecord
    <3>3. StopsAt(c)'
      BY <3>2, StopsAtStays
    <3>4. QED
      BY <3>3 DEF StopsAt, After, Ahead
  <2>2. CASE v # w
    <3>1. c = doing[v] /\ Busy(v)
      BY <1>1, <1>2, <2>2 DEF Busy
    <3>2. c.stopped \subseteq Scope /\ StopsAt(c)
      BY <1>1, <3>1, BusyRecord DEF CallRecord, StopInv
    <3>3. StopsAt(c)'
      BY <3>2, StopsAtStays
    <3>4. QED
      BY <3>3 DEF StopsAt, After, Ahead
  <2>3. QED
    BY <2>1, <2>2
<1>3. QED
  BY <1>2 DEF StopInv

LEMMA CallStops ==
  ASSUME Layer1, NestInv, [Next]_vars, Follows, StopInv, NEW w \in Worker, NEW k \in Kind, Call(w, k)
  PROVE  StopInv'
<1> DEFINE e == [id |-> calls + 1, kind |-> k, at |-> "down", point |-> At(k),
                 fn |-> Original, stack |-> <<>>, stopped |-> Stopped,
                 hook |-> "before_llm", todo |-> <<>>, step |-> "latch", snap |-> 0, prev |-> Nil]
           d == IF k \in Llm THEN Hooks(e, "before_llm") ELSE [e EXCEPT !.fn = installed[Points[At(k)]]]
<1>1. Moved(w, d) /\ PatchTypes /\ PatchInv /\ CallTypes
  BY TypeParts DEF Call, Moved, Layer1
<1>2. /\ d.stopped = Stopped
      /\ d.at = "down" => d.fn = installed[Points[d.point]] /\ d.point \in DOMAIN Points
      /\ d.at = "hooks" => d.hook = "before_llm" /\ d.todo = hooks /\ d.step = "latch"
      /\ d.at \in {"down", "hooks"}
  BY PointFacts DEF Hooks, At
<1> HIDE DEF d, e
<1>3. ASSUME NEW s \in d.stopped PROVE phase[s] = "live" /\ (nested => Ahead(d, s))
  <2>1. s \in Scope /\ phase[s] = "live" /\ pending_interrupt[s]
    BY <1>2 DEF Stopped
  <2>2. s \in Range(hooks)
    BY <1>1, <2>1 DEF PatchInv, ScopeAgrees
  <2>3. nested /\ d.at = "down" => Under(s, d.fn, d.point)
    BY <1>1, <1>2, <2>1, LiveUnder
  <2>4. QED
    BY <1>2, <2>1, <2>2, <2>3 DEF Ahead
<1>4. StopsAt(d)
  BY <1>3 DEF StopsAt
<1>5. ASSUME NEW v \in Worker, Busy(v)' PROVE StopsAt(doing[v])'
  <2> PICK c : c = doing'[v]
    OBVIOUS
  <2>1. c = d \/ (c = doing[v] /\ Busy(v))
    BY <1>1, <1>5, MovedTypes DEF Busy
  <2>2. c.stopped \subseteq Scope /\ StopsAt(c)
    BY <1>1, <1>2, <1>4, <2>1, BusyRecord DEF CallRecord, StopInv, Stopped
  <2>3. StopsAt(c)'
    BY <2>2, StopsAtStays
  <2>4. QED
    BY <2>3 DEF StopsAt, After, Ahead
<1>6. QED
  BY <1>5 DEF StopInv

\* A call that has passed every wrapper had no stopped scope ahead of it.
LEMMA NoneAhead ==
  ASSUME NEW c, c.stopped \subseteq Scope, StopsAt(c), c.at = "up" \/ (c.at = "down" /\ c.fn = Original)
  PROVE  nested => ~ \E s \in c.stopped : phase[s] = "live"
<1> SUFFICES ASSUME nested, NEW s \in c.stopped, phase[s] = "live" PROVE FALSE
  OBVIOUS
<1>1. Ahead(c, s) /\ s \in Scope
  BY DEF StopsAt, After
<1>2. QED
  BY <1>1, NothingUnderOriginal DEF Ahead

LEMMA ChainStops ==
  ASSUME Layer1, Layer1', [Next]_vars, Follows, StopInv, NEW w \in Worker,
         Enter(w) \/ Arrive(w) \/ Out(w) \/ Fail(w) \/ Unwind(w) \/ Ask(w) \/ Reply(w) \/ Done(w)
  PROVE  StopInv'
<1> DEFINE c == doing[w]
<1>1. CallTypes /\ PatchTypes /\ PatchInv /\ Busy(w) /\ c \in CallRecord /\ StopsAt(c) /\ c.stopped \subseteq Scope
  <2>1. CallTypes /\ PatchTypes /\ PatchInv /\ Busy(w)
    BY TypeParts DEF Layer1, Enter, Arrive, Out, Fail, Unwind, Ask, Reply, Done, Busy
  <2>2. QED
    BY <2>1, BusyRecord DEF StopInv, CallRecord
<1>2. ASSUME NEW d, Moved(w, d), d # Nil => StopsAt(d), d = Nil \/ d.stopped = c.stopped PROVE StopInv'
  <2>1. ASSUME NEW v \in Worker, Busy(v)' PROVE StopsAt(doing[v])'
    <3> PICK e : e = doing'[v]
      OBVIOUS
    <3>1. (e = d /\ d # Nil) \/ (e = doing[v] /\ Busy(v))
      BY <1>1, <1>2, <2>1, MovedTypes DEF Busy
    <3>2. e.stopped \subseteq Scope /\ StopsAt(e)
      BY <1>1, <1>2, <3>1, BusyRecord DEF CallRecord, StopInv
    <3>3. StopsAt(e)'
      BY <3>2, StopsAtStays
    <3>4. QED
      BY <3>3 DEF StopsAt, After, Ahead
  <2>2. QED
    BY <2>1 DEF StopInv
<1>3. \A s \in c.stopped : phase[s] \in {"live", "leaving", "ended"}
  BY <1>1 DEF StopsAt
<1>4. ASSUME NEW d, Moved(w, d), d = Nil \/ d.stopped = c.stopped, c.at = "up" \/ (c.at = "down" /\ c.fn = Original)
      PROVE  StopInv'
  <2>1. nested => ~ \E s \in c.stopped : phase[s] = "live"
    BY <1>1, <1>4, NoneAhead
  <2>2. d # Nil => StopsAt(d)
    BY <1>3, <1>4, <2>1 DEF StopsAt
  <2>3. QED
    BY <1>2, <1>4, <2>2
<1>5. CASE Enter(w)
  <2> DEFINE f == c.fn
             d == [c EXCEPT !.fn = saved[f][c.point], !.stack = IF c.point = 1 THEN Append(@, f) ELSE @]
  <2>1. Moved(w, Nil) \/ (Moved(w, d) /\ ~pending_interrupt[f])
    BY <1>5 DEF Enter, Moved, Leave, deny_if_latched
  <2>2. f \in Scope /\ c.at = "down" /\ c.point \in DOMAIN Points /\ c.point \in DOMAIN saved[f]
    <3>1. f \in Scope /\ c.at = "down" /\ c.point \in DOMAIN Points
      BY <1>1, <1>5 DEF Enter, CallRecord
    <3>2. Placed(f, c.point)
      BY <1>1, <3>1 DEF PatchInv, Unseen
    <3>3. QED
      BY <1>1, <3>1, <3>2, PlacedHasSaved
  <2>3. d.stopped = c.stopped /\ d.at = "down" /\ d.fn = saved[f][c.point] /\ d.point = c.point
    BY <1>1, <2>2 DEF CallRecord
  <2> HIDE DEF d, f, c
  <2>4. ASSUME ~pending_interrupt[f], NEW s \in c.stopped, nested, phase[s] = "live" PROVE Ahead(d, s)
    <3>1. Ahead(c, s)
      BY <1>1, <2>2, <2>4 DEF StopsAt, After
    <3>2. pending_interrupt[s] /\ Under(s, f, c.point) /\ s # f
      BY <2>2, <2>4, <3>1 DEF Ahead, f
    <3>3. Under(s, saved[f][c.point], c.point)
      BY <2>2, <3>2, UnderWhatIsWrapped
    <3>4. QED
      BY <2>3, <3>2, <3>3 DEF Ahead
  <2>5. ~pending_interrupt[f] => StopsAt(d)
    BY <1>3, <2>3, <2>4 DEF StopsAt
  <2>6. QED
    BY <1>2, <2>1, <2>3, <2>5
<1>6. CASE Arrive(w)
  <2> DEFINE d == [c EXCEPT !.point = 2, !.fn = IF Gated(c) THEN installed["gate"] ELSE Original]
  <2>1. Moved(w, d) /\ d.stopped = c.stopped /\ c.at = "down" /\ c.fn = Original
    BY <1>1, <1>6 DEF Arrive, Moved, CallRecord
  <2>2. QED
    BY <1>4, <2>1
<1>7. CASE Out(w)
  <2> DEFINE d == IF c.kind \in {"bypass", "tool"} THEN Nil ELSE [c EXCEPT !.at = "up"]
  <2>1. Moved(w, d) /\ (d = Nil \/ d.stopped = c.stopped) /\ c.at = "down" /\ c.fn = Original
    BY <1>1, <1>7 DEF Out, Moved, CallRecord
  <2>2. QED
    BY <1>4, <2>1
<1>8. CASE Fail(w) \/ Done(w)
  BY <1>2, <1>8 DEF Fail, Done, Leave, Moved
<1>9. CASE Unwind(w)
  <2> DEFINE d == [c EXCEPT !.stack = Front(@)]
  <2>1. (Moved(w, Nil) \/ Moved(w, d)) /\ d.stopped = c.stopped /\ c.at = "up"
    BY <1>1, <1>9 DEF Unwind, Leave, Moved, CallRecord
  <2>2. QED
    BY <1>4, <2>1
<1>10. CASE Ask(w)
  <2> DEFINE d == IF c.kind = "routed" THEN [c EXCEPT !.at = "down", !.fn = installed["litellm"]] ELSE [c EXCEPT !.at = "up"]
  <2>1. Moved(w, d) /\ d.stopped = c.stopped /\ c.at = "hooks" /\ c.hook = "before_llm" /\ c.todo = <<>>
    BY <1>1, <1>10 DEF Ask, Moved, CallRecord
  <2> HIDE DEF d
  <2>2. ASSUME NEW s \in c.stopped, nested, phase[s] = "live" PROVE FALSE
    <3>1. Ahead(c, s)
      BY <1>1, <2>1, <2>2 DEF StopsAt, After
    <3>2. QED
      BY <2>1, <3>1, EmptySeq DEF Ahead, Range
  <2>3. StopsAt(d)
    BY <1>3, <2>1, <2>2 DEF StopsAt
  <2>4. QED
    BY <1>2, <2>1, <2>3
<1>11. CASE Reply(w)
  <2>1. (Moved(w, Nil) \/ \E h \in {"after_llm", "before_tool"} : Moved(w, Hooks(c, h))) /\ c.at = "up"
    BY <1>11 DEF Reply, Leave, Moved
  <2>2. \A h : Hooks(c, h).stopped = c.stopped
    BY <1>1 DEF Hooks, CallRecord
  <2>3. QED
    BY <1>4, <2>1, <2>2
<1>12. QED
  BY <1>5, <1>6, <1>7, <1>8, <1>9, <1>10, <1>11

LEMMA HookStops ==
  ASSUME Layer1, Layer1', [Next]_vars, Follows, StopInv, NEW w \in Worker,
         HookEnter(w) \/ HookBaseline(w) \/ HookSnap(w) \/ HookPrev(w) \/ HookSettle(w) \/ HookError(w)
  PROVE  StopInv'
<1> DEFINE c == doing[w]
<1>1. CallTypes /\ Busy(w) /\ c \in CallRecord /\ StopsAt(c) /\ c.stopped \subseteq Scope /\ c.at = "hooks" /\ c.todo # <<>>
      /\ Placements
  <2>1. CallTypes /\ Busy(w) /\ c.at = "hooks" /\ c.todo # <<>> /\ Placements
    BY TypeParts DEF Layer1, HookEnter, HookBaseline, HookSnap, HookPrev, HookSettle, HookError, InHook, Busy
  <2>2. QED
    BY <2>1, BusyRecord DEF StopInv, CallRecord
<1>2. c.stopped \subseteq Scope /\ \A s \in c.stopped : phase[s] \in {"live", "leaving", "ended"}
  BY <1>1 DEF StopsAt
<1>3. \A s \in c.stopped : nested /\ phase[s] = "live" /\ c.hook = "before_llm" =>
        pending_interrupt[s] /\ s \in Range(c.todo) /\ (c.step # "latch" => s # Head(c.todo))
  BY <1>1 DEF StopsAt, After, Ahead
<1>4. ASSUME NEW d, Moved(w, d), d = Nil \/ (HookChange(c, d) /\ d \in CallRecord), d # Nil =>
               \A s \in c.stopped : nested /\ phase[s] = "live" /\ c.hook = "before_llm" =>
                 s \in Range(d.todo) /\ (d.step # "latch" => s # Head(d.todo))
      PROVE  StopInv'
  <2>1. d # Nil => d.stopped = c.stopped /\ d.at = "hooks" /\ d.hook = c.hook
    BY <1>4 DEF HookChange
  <2>2. d # Nil => StopsAt(d)
    BY <1>2, <1>3, <1>4, <2>1 DEF StopsAt, After, Ahead
  <2>3. d \in {Nil} \cup CallRecord
    BY <1>4
  <2>4. QED
    BY <1>4, <2>2, <2>3, OneStops
<1>5. CASE HookError(w)
  BY <1>4, <1>5 DEF HookError, Leave, Moved
<1>6. CASE HookEnter(w)
  <2>1. Moved(w, Nil) \/ (~pending_interrupt[Head(c.todo)] /\ \E x \in {"baseline", "snap", "store"} : Moved(w, [c EXCEPT !.step = x]))
    BY <1>6 DEF HookEnter, Leave, To, Moved, deny_if_latched
  <2>2. ASSUME NEW x \in {"baseline", "snap", "store"}, ~pending_interrupt[Head(c.todo)], Moved(w, [c EXCEPT !.step = x])
        PROVE  StopInv'
    <3> DEFINE d == [c EXCEPT !.step = x]
    <3>1. HookChange(c, d) /\ d \in CallRecord /\ d.todo = c.todo
      BY <1>1 DEF HookChange, CallRecord
    <3> HIDE DEF c
    <3>2. \A s \in c.stopped : nested /\ phase[s] = "live" /\ c.hook = "before_llm" =>
            s \in Range(d.todo) /\ s # Head(d.todo)
      BY <1>3, <2>2, <3>1
    <3>3. QED
      BY <1>4, <2>2, <3>1, <3>2
  <2>3. QED
    BY <1>4, <2>1, <2>2
<1>7. ASSUME NEW d, Moved(w, d), HookChange(c, d), d \in CallRecord, d.todo = c.todo, c.step # "latch" PROVE StopInv'
  BY <1>3, <1>4, <1>7
<1>8. c.kind \in Llm /\ Head(c.todo) \in Scope /\ Tail(c.todo) \in Seq(Scope)
      /\ Range(c.todo) \subseteq Range(Tail(c.todo)) \cup {Head(c.todo)}
  BY <1>1, InHookFacts
<1>9. CASE HookBaseline(w)
  <2> DEFINE d == [c EXCEPT !.step = "snap"]
  <2>1. Moved(w, d) /\ HookChange(c, d) /\ d \in CallRecord /\ d.todo = c.todo /\ c.step # "latch"
    BY <1>1, <1>9 DEF HookBaseline, InHook, To, Moved, HookChange, CallRecord
  <2>2. QED
    BY <1>7, <2>1
<1>10. CASE HookSnap(w)
  <2> DEFINE d == [c EXCEPT !.snap = counter[c.kind], !.step = "prev"]
  <2>1. counter[c.kind] \in Nat
    BY <1>1, <1>8 DEF CallTypes
  <2>2. Moved(w, d) /\ HookChange(c, d) /\ d \in CallRecord /\ d.todo = c.todo /\ c.step # "latch"
    BY <1>1, <1>10, <2>1 DEF HookSnap, InHook, Moved, HookChange, CallRecord
  <2>3. QED
    BY <1>7, <2>2
<1>11. CASE HookPrev(w)
  <2> DEFINE d == [c EXCEPT !.prev = last_usage[Head(c.todo)][c.kind], !.step = "store"]
  <2>1. last_usage[Head(c.todo)][c.kind] \in Nat \cup {Nil}
    BY <1>1, <1>8 DEF CallTypes
  <2>2. Moved(w, d) /\ HookChange(c, d) /\ d \in CallRecord /\ d.todo = c.todo /\ c.step # "latch"
    BY <1>1, <1>11, <2>1 DEF HookPrev, InHook, Moved, HookChange, CallRecord
  <2>3. QED
    BY <1>7, <2>2
<1>12. CASE HookSettle(w)
  <2> DEFINE d == [c EXCEPT !.todo = Tail(@), !.step = "latch", !.snap = 0, !.prev = Nil]
  <2>1. Moved(w, Nil) \/ Moved(w, d)
    BY <1>12 DEF HookSettle, Leave, Moved
  <2>2. HookChange(c, d) /\ d \in CallRecord /\ d.todo = Tail(c.todo) /\ d.step = "latch" /\ c.step # "latch"
    BY <1>1, <1>8, <1>12 DEF HookSettle, InHook, HookChange, CallRecord
  <2> HIDE DEF d, c
  <2>3. \A s \in c.stopped : nested /\ phase[s] = "live" /\ c.hook = "before_llm" => s \in Range(d.todo)
    BY <1>3, <1>8, <2>2
  <2>4. QED
    BY <1>4, <2>1, <2>2, <2>3
<1>13. QED
  BY <1>5, <1>6, <1>9, <1>10, <1>11, <1>12

LEMMA StopStep ==
  ASSUME Layer1, Layer1', [Next]_vars, Follows, NestInv, StopInv
  PROVE  StopInv'
<1>1. CASE \E w \in Worker : Works(w)
  BY <1>1, CallStops, ChainStops, HookStops DEF Works
<1>2. ASSUME doing' = doing PROVE StopInv'
  <2>1. ASSUME NEW v \in Worker, Busy(v)' PROVE StopsAt(doing[v])'
    <3> PICK c : c = doing[v]
      OBVIOUS
    <3>1. c.stopped \subseteq Scope /\ StopsAt(c) /\ c = doing'[v]
      <4>1. CallTypes /\ Busy(v)
        BY <1>2, <2>1, TypeParts DEF Layer1, Busy
      <4>2. QED
        BY <1>2, <4>1, BusyRecord DEF CallRecord, StopInv
    <3>2. StopsAt(c)'
      BY <3>1, StopsAtStays
    <3>3. QED
      BY <3>1, <3>2 DEF StopsAt, After, Ahead
  <2>2. QED
    BY <2>1 DEF StopInv
<1>3. CASE \E s \in Scope : Begin(s) \/ Install(s) \/ Arm(s) \/ Return(s) \/ Restore(s)
  BY <1>2, <1>3, ScopesKeepCalls
<1>4. CASE \E id \in due : Callback(id)
  BY <1>2, <1>4 DEF Callback
<1>5. CASE UNCHANGED vars
  BY <1>2, <1>5 DEF vars
<1>6. QED
  BY <1>1, <1>3, <1>4, <1>5, NextCases

LEMMA AbortStops ==
  ASSUME Layer1, StopInv
  PROVE  AbortStopsNested
<1> SUFFICES ASSUME nested, NEW w \in Worker, Busy(w), doing[w].at \in {"down", "up"},
                    doing[w].at = "up" \/ doing[w].fn = Original
             PROVE  ~ \E s \in doing[w].stopped : phase[s] = "live"
  BY DEF AbortStopsNested, Busy
<1>1. doing[w] \in CallRecord /\ StopsAt(doing[w])
  BY TypeParts, BusyRecord DEF Layer1, StopInv
<1>2. QED
  BY <1>1, NoneAhead DEF CallRecord

-----------------------------------------------------------------------------
(***************************************************************************)
(* Layer 4: what the hooks settle, they settle exactly.                    *)
(***************************************************************************)
LEMMA UsageTypes ==
  ASSUME CallTypes, NEW s \in Scope
  PROVE  /\ last_usage[s]["native"] \in Nat \cup {Nil} /\ Nil \notin Nat
         /\ base[s] \in Nat /\ settled[s] \in Nat /\ counter["native"] \in Nat
BY ScopesAssumption DEF CallTypes, Llm

\* A step that settles nothing, after which who reads has read what it had, or has not begun.
LEMMA QuietSettles ==
  ASSUME Layer1, Layer1', [Next]_vars, SettleInv, UNCHANGED <<last_usage, base, settled, raced>>,
         counter'["native"] >= counter["native"],
         \A w \in Worker : Busy(w)' => doing'[w] = doing[w] \/ doing'[w].at # "hooks" \/ doing'[w].step \notin {"prev", "store"}
                                   \/ doing'[w].kind # "native"
  PROVE  SettleInv'
<1>1. CallTypes /\ CallTypes'
  BY TypeParts DEF Layer1, TypeOK, CallTypes
<1>2. ASSUME NEW s \in Scope
      PROVE  /\ last_usage[s]["native"] \in Nat \cup {Nil} /\ Nil \notin Nat
             /\ base[s] \in Nat /\ settled[s] \in Nat /\ counter["native"] \in Nat /\ counter'["native"] \in Nat
             /\ pending_interrupt[s] => pending_interrupt'[s]
  BY <1>1, LatchesStay, UsageTypes DEF CallTypes, Llm
<1>3. SettledIsBooked'
  BY <1>2 DEF SettledIsBooked, SettleInv
<1>4. SettledOnce'
  BY <1>2 DEF SettledOnce, SettleInv
<1>5. \A s \in Scope : ScopeSettles(s)'
  BY <1>2 DEF ScopeSettles, SettleInv
<1>6. ASSUME NEW w \in Worker, Busy(w)', NEW s \in Scope, Settling(doing[w], s)' PROVE ReadsAgree(doing[w], s)'
  <2> PICK c : c = doing'[w]
    OBVIOUS
  <2>1. CASE c.step \notin {"prev", "store"}
    BY <2>1 DEF ReadsAgree
  <2>2. CASE c.step \in {"prev", "store"}
    <3>1. c = doing[w] /\ Busy(w) /\ Settling(c, s)
      BY <1>6, <2>2 DEF Settling, Busy
    <3>2. ReadsAgree(c, s) /\ c \in CallRecord
      BY <1>1, <3>1, BusyRecord DEF SettleInv, ReadInv
    <3>3. c.snap \in Nat /\ c.prev \in Nat \cup {Nil}
      BY <3>2 DEF CallRecord
    <3>4. ReadsAgree(c, s)'
      BY <1>2, <3>2, <3>3 DEF ReadsAgree
    <3>5. QED
      BY <3>4 DEF ReadsAgree
  <2>3. QED
    BY <2>1, <2>2
<1>7. QED
  BY <1>3, <1>4, <1>5, <1>6 DEF SettleInv, ReadInv

\* A reading step: no counter moves, and what one worker has read agrees.
LEMMA ReadSettles ==
  ASSUME Layer1, Layer1', [Next]_vars, SettleInv, UNCHANGED usage, NEW w \in Worker, NEW d \in CallRecord, Moved(w, d),
         \A s \in Scope : Settling(d, s) => ReadsAgree(d, s)
  PROVE  SettleInv'
<1>1. CallTypes
  BY TypeParts DEF Layer1
<1>2. UNCHANGED <<last_usage, base, settled, raced, counter>>
  BY DEF usage
<1>3. \A s \in Scope : pending_interrupt[s] => pending_interrupt'[s]
  BY LatchesStay
<1>4. SettledIsBooked' /\ SettledOnce' /\ \A s \in Scope : ScopeSettles(s)'
  BY <1>2, <1>3 DEF SettleInv, SettledIsBooked, SettledOnce, ScopeSettles
<1>5. ASSUME NEW v \in Worker, Busy(v)', NEW s \in Scope, Settling(doing[v], s)' PROVE ReadsAgree(doing[v], s)'
  <2> PICK c : c = doing'[v]
    OBVIOUS
  <2>1. Settling(c, s) /\ (c = d \/ (c = doing[v] /\ Busy(v)))
    BY <1>1, <1>5, MovedTypes DEF Settling, Busy
  <2>2. ReadsAgree(c, s)
    BY <2>1 DEF SettleInv, ReadInv
  <2>3. ReadsAgree(c, s)'
    BY <1>2, <1>3, <2>2 DEF ReadsAgree
  <2>4. QED
    BY <2>3 DEF ReadsAgree
<1>6. QED
  BY <1>4, <1>5 DEF SettleInv, ReadInv

LEMMA SnapSettles ==
  ASSUME Layer1, Layer1', [Next]_vars, SettleInv, NEW w \in Worker, HookSnap(w)
  PROVE  SettleInv'
<1> DEFINE c == doing[w]
           d == [c EXCEPT !.snap = counter[c.kind], !.step = "prev"]
<1>1. CallTypes /\ Placements /\ Busy(w) /\ c.at = "hooks" /\ c.todo # <<>>
  BY TypeParts DEF Layer1, HookSnap, InHook, Busy
<1>2. c \in CallRecord /\ counter[c.kind] \in Nat
  BY <1>1, InHookFacts DEF CallTypes
<1>3. /\ Moved(w, d) /\ UNCHANGED usage /\ d \in CallRecord
      /\ d.step = "prev" /\ d.kind = c.kind /\ d.snap = counter[c.kind]
  BY <1>2 DEF HookSnap, Moved, CallRecord
<1> HIDE DEF d, c
<1>4. ASSUME NEW s \in Scope, Settling(d, s) PROVE ReadsAgree(d, s)
  <2>1. d.snap = counter["native"] /\ (~raced => settled[s] <= counter["native"])
    BY <1>3, <1>4 DEF Settling, SettleInv, SettledOnce
  <2>2. counter["native"] <= counter["native"]
    BY <1>1, UsageTypes
  <2>3. QED
    BY <1>3, <2>1, <2>2 DEF ReadsAgree
<1>5. QED
  BY <1>3, <1>4, ReadSettles

LEMMA PrevSettles ==
  ASSUME Layer1, Layer1', [Next]_vars, SettleInv, NEW w \in Worker, HookPrev(w)
  PROVE  SettleInv'
<1> DEFINE c == doing[w]
           t == Head(c.todo)
           d == [c EXCEPT !.prev = last_usage[t][c.kind], !.step = "store"]
<1>1. CallTypes /\ Placements /\ Busy(w) /\ c.at = "hooks" /\ c.todo # <<>> /\ c.step = "prev"
  BY TypeParts DEF Layer1, HookPrev, InHook, Busy
<1>2. c \in CallRecord /\ t \in Scope /\ c.kind \in Llm /\ last_usage[t][c.kind] \in Nat \cup {Nil}
  BY <1>1, InHookFacts DEF CallTypes
<1>3. /\ Moved(w, d) /\ UNCHANGED usage /\ d \in CallRecord
      /\ d.step = "store" /\ d.kind = c.kind /\ d.snap = c.snap /\ d.prev = last_usage[t][c.kind]
      /\ d.at = c.at /\ d.todo = c.todo
  BY <1>2 DEF HookPrev, Moved, CallRecord
<1>4. \A s \in Scope : Settling(c, s) => ReadsAgree(c, s)
  BY <1>1 DEF SettleInv, ReadInv
<1> HIDE DEF d, c
<1>5. ASSUME NEW s \in Scope, Settling(d, s) PROVE ReadsAgree(d, s)
  <2>1. s = t /\ Settling(c, s) /\ d.prev = last_usage[s]["native"]
    BY <1>3, <1>5 DEF Settling
  <2>2. c.snap <= counter["native"] /\ (~raced => settled[s] <= c.snap)
    BY <1>1, <1>4, <2>1 DEF ReadsAgree
  <2>3. /\ ~pending_interrupt[s] /\ d.prev # Nil => d.prev <= base[s] + settled[s]
        /\ ~raced /\ d.prev # Nil => settled[s] <= d.prev
    BY <2>1 DEF SettleInv, SettledIsBooked, ScopeSettles
  <2>4. QED
    BY <1>3, <2>2, <2>3 DEF ReadsAgree
<1>6. QED
  BY <1>3, <1>5, ReadSettles

\* A step of one worker that stores what the model of scope t has used.
LEMMA StoreSettles ==
  ASSUME Layer1, Layer1', [Next]_vars, SettleInv, NEW w \in Worker, NEW t \in Scope,
         NEW d \in {Nil} \cup CallRecord, Moved(w, d), d # Nil => d.step \notin {"prev", "store"},
         counter' = counter, raced => raced',
         \A s \in Scope : base'[s] >= base[s] /\ settled'[s] >= settled[s],
         \A s \in Scope \ {t} : last_usage'[s]["native"] = last_usage[s]["native"] /\ settled'[s] = settled[s],
         LET u == last_usage'[t]["native"] IN
           u # Nil => /\ ~pending_interrupt'[t] => u <= base'[t] + settled'[t]
                      /\ u <= counter["native"] /\ (~raced' => settled'[t] <= u),
         ~raced' => settled'[t] <= counter["native"],
         settled'[t] = settled[t] \/ raced' \/ \A v \in Worker \ {w} : ~InSettle(v, t)
  PROVE  SettleInv'
<1>1. CallTypes /\ CallTypes'
  BY TypeParts DEF Layer1, TypeOK, CallTypes
<1>2. ASSUME NEW s \in Scope
      PROVE  /\ last_usage[s]["native"] \in Nat \cup {Nil} /\ Nil \notin Nat
             /\ base[s] \in Nat /\ settled[s] \in Nat /\ counter["native"] \in Nat
             /\ base'[s] \in Nat /\ settled'[s] \in Nat
             /\ pending_interrupt[s] => pending_interrupt'[s]
             /\ base'[s] >= base[s] /\ settled'[s] >= settled[s]
  BY <1>1, LatchesStay, UsageTypes DEF CallTypes, Llm
<1>3. ASSUME NEW s \in Scope
      PROVE  LET u == last_usage'[s]["native"] IN
               /\ u # Nil => /\ ~pending_interrupt'[s] => u <= base'[s] + settled'[s]
                             /\ u <= counter["native"] /\ (~raced' => settled'[s] <= u)
               /\ ~raced' => settled'[s] <= counter["native"]
  <2>1. CASE s = t
    BY <2>1
  <2>2. CASE s # t
    <3>1. last_usage'[s]["native"] = last_usage[s]["native"] /\ settled'[s] = settled[s]
      BY <2>2
    <3>2. /\ ~pending_interrupt[s] /\ last_usage[s]["native"] # Nil => last_usage[s]["native"] <= base[s] + settled[s]
          /\ last_usage[s]["native"] # Nil =>
               last_usage[s]["native"] <= counter["native"] /\ (~raced => settled[s] <= last_usage[s]["native"])
          /\ ~raced => settled[s] <= counter["native"]
      BY DEF SettleInv, SettledIsBooked, SettledOnce, ScopeSettles
    <3>3. QED
      BY <1>2, <3>1, <3>2
  <2>3. QED
    BY <2>1, <2>2
<1>4. SettledIsBooked' /\ SettledOnce' /\ \A s \in Scope : ScopeSettles(s)'
  BY <1>3 DEF SettledIsBooked, SettledOnce, ScopeSettles
<1>5. ASSUME NEW v \in Worker, Busy(v)', NEW s \in Scope, Settling(doing[v], s)' PROVE ReadsAgree(doing[v], s)'
  <2> PICK c : c = doing'[v]
    OBVIOUS
  <2>1. CASE c.step \notin {"prev", "store"}
    BY <2>1 DEF ReadsAgree
  <2>2. CASE c.step \in {"prev", "store"}
    <3>1. v # w /\ c = doing[v] /\ Busy(v) /\ Settling(c, s)
      BY <1>1, <1>5, <2>2, MovedTypes DEF Settling, Busy
    <3>2. ReadsAgree(c, s) /\ c \in CallRecord
      BY <1>1, <3>1, BusyRecord DEF SettleInv, ReadInv
    <3>3. c.snap \in Nat /\ c.prev \in Nat \cup {Nil}
      BY <3>2 DEF CallRecord
    <3>4. InSettle(v, s)
      BY <2>2, <3>1 DEF InSettle, Settling, Busy
    <3>5. ~raced' => settled'[s] = settled[s] /\ ~raced
      BY <3>1, <3>4
    <3>6. ReadsAgree(c, s)'
      <4>1. c.step = "store" /\ c.prev # Nil /\ ~pending_interrupt'[s] => c.prev <= base'[s] + settled'[s]
        BY <1>2, <3>2, <3>3 DEF ReadsAgree
      <4>2. c.snap <= counter'["native"] /\ (~raced' => settled'[s] <= c.snap)
        BY <2>2, <3>2, <3>5 DEF ReadsAgree
      <4>3. ~raced' /\ c.step = "store" /\ c.prev # Nil => settled'[s] <= c.prev
        BY <3>2, <3>5 DEF ReadsAgree
      <4>4. QED
        BY <4>1, <4>2, <4>3 DEF ReadsAgree
    <3>7. QED
      BY <3>6 DEF ReadsAgree
  <2>3. QED
    BY <2>1, <2>2
<1>6. QED
  BY <1>4, <1>5 DEF SettleInv, ReadInv

\* What a baseline raises.
LEMMA RebasedIs ==
  ASSUME CallTypes, NEW t \in Scope, NEW c, c.snap \in Nat
  PROVE  /\ Rebased(t, c) \in [Scope -> Nat]
         /\ \A s \in Scope : Rebased(t, c)[s] >= base[s]
         /\ c.kind = "native" => Rebased(t, c)[t] >= c.snap
<1>1. base \in [Scope -> Nat]
  BY DEF CallTypes
<1>2. PICK x : x = IF c.kind = "native" /\ c.snap > base[t] THEN c.snap ELSE base[t]
  OBVIOUS
<1>3. x \in Nat /\ x >= base[t] /\ (c.kind = "native" => x >= c.snap)
  BY <1>1, <1>2
<1>4. Rebased(t, c) = [base EXCEPT ![t] = x]
  BY <1>2 DEF Rebased
<1>5. QED
  BY <1>1, <1>3, <1>4

LEMMA BaselineSettles ==
  ASSUME Layer1, Layer1', [Next]_vars, SettleInv, NEW w \in Worker, HookBaseline(w)
  PROVE  SettleInv'
<1> DEFINE c == doing[w]
           t == Head(c.todo)
           d == [c EXCEPT !.step = "snap"]
           e == [c EXCEPT !.snap = counter[c.kind]]
<1>1. CallTypes /\ Placements /\ Busy(w) /\ c.at = "hooks" /\ c.todo # <<>>
  BY TypeParts DEF Layer1, HookBaseline, InHook, Busy
<1>2. c \in CallRecord /\ t \in Scope /\ c.kind \in Llm /\ counter[c.kind] \in Nat
  BY <1>1, InHookFacts DEF CallTypes
<1>3. Moved(w, d) /\ d \in CallRecord /\ d.step = "snap"
  BY <1>2 DEF HookBaseline, To, Moved, CallRecord
<1>4. /\ last_usage' = [last_usage EXCEPT ![t][c.kind] = counter[c.kind]]
      /\ base' = Rebased(t, e) /\ e.snap = counter[c.kind] /\ e.kind = c.kind
      /\ UNCHANGED <<counter, settled, raced>>
  BY <1>2 DEF HookBaseline, CallRecord
<1> HIDE DEF d, e, c, t
<1>5. /\ \A s \in Scope : base'[s] \in Nat /\ base'[s] >= base[s]
      /\ c.kind = "native" => base'[t] >= counter["native"]
  BY <1>1, <1>2, <1>4, RebasedIs
<1>6. last_usage \in [Scope -> [Llm -> Nat \cup {Nil}]]
  BY <1>1 DEF CallTypes
<1>7. /\ \A s \in Scope \ {t} : last_usage'[s] = last_usage[s]
      /\ last_usage'[t] = [last_usage[t] EXCEPT ![c.kind] = counter[c.kind]]
  BY <1>2, <1>4, <1>6
<1>8. last_usage'[t]["native"] = IF c.kind = "native" THEN counter["native"] ELSE last_usage[t]["native"]
  BY <1>2, <1>6, <1>7 DEF Llm
<1>9. /\ last_usage[t]["native"] \in Nat \cup {Nil} /\ Nil \notin Nat
      /\ base[t] \in Nat /\ settled[t] \in Nat /\ counter["native"] \in Nat /\ base'[t] \in Nat
      /\ ~pending_interrupt'[t] => ~pending_interrupt[t]
  BY <1>1, <1>2, <1>5, UsageTypes, LatchesStay
<1>10. /\ ~pending_interrupt[t] /\ last_usage[t]["native"] # Nil => last_usage[t]["native"] <= base[t] + settled[t]
       /\ last_usage[t]["native"] # Nil =>
            last_usage[t]["native"] <= counter["native"] /\ (~raced => settled[t] <= last_usage[t]["native"])
       /\ ~raced => settled[t] <= counter["native"]
  BY <1>2 DEF SettleInv, SettledIsBooked, SettledOnce, ScopeSettles
<1>11. LET u == last_usage'[t]["native"] IN
         u # Nil => /\ ~pending_interrupt'[t] => u <= base'[t] + settled'[t]
                    /\ u <= counter["native"] /\ (~raced' => settled'[t] <= u)
  BY <1>2, <1>4, <1>5, <1>8, <1>9, <1>10
<1>12. \A s \in Scope : settled'[s] >= settled[s]
  BY <1>1, <1>4 DEF CallTypes
<1>13. d # Nil => d.step \notin {"prev", "store"}
  BY <1>3
<1>14. QED
  BY <1>2, <1>3, <1>4, <1>5, <1>7, <1>10, <1>11, <1>12, <1>13, StoreSettles

\* The arithmetic of a settlement: what was read, settled and booked.
LEMMA GrownIs ==
  ASSUME NEW c, c.snap \in Nat, c.prev \in Nat \cup {Nil}
  PROVE  /\ c.prev = Nil => Grown(c) = 0
         /\ c.prev # Nil /\ c.snap < c.prev => Grown(c) = 0
         /\ c.prev # Nil /\ ~(c.snap < c.prev) => Grown(c) = c.snap - c.prev
         /\ Nil \notin Nat
BY ScopesAssumption DEF Grown

LEMMA BookingSettles ==
  ASSUME Layer1, Layer1', [Next]_vars, SettleInv, NEW w \in Worker, HookSettle(w)
  PROVE  SettleInv'
<1> DEFINE c == doing[w]
           t == Head(c.todo)
           d == [c EXCEPT !.todo = Tail(@), !.step = "latch", !.snap = 0, !.prev = Nil]
           denied == (Delta(c) > 0 /\ Overruns(t, Delta(c))) \/ (c.hook # "after_llm" /\ Spent(c) >= program.budget)
<1>1. CallTypes /\ Placements /\ Busy(w) /\ c.at = "hooks" /\ c.todo # <<>> /\ c.step = "store" /\ program \in Programs
  BY TypeParts DEF Layer1, HookSettle, InHook, Busy
<1>2. c \in CallRecord /\ t \in Scope /\ c.kind \in Llm /\ Tail(c.todo) \in Seq(Scope)
      /\ c.snap \in Nat /\ c.prev \in Nat \cup {Nil}
  BY <1>1, InHookFacts DEF CallRecord
<1>3. /\ last_usage' = IF Settles(c) THEN [last_usage EXCEPT ![t][c.kind] = c.snap] ELSE last_usage
      /\ base' = IF c.prev = Nil THEN Rebased(t, c) ELSE base
      /\ raced' = (raced \/ \E v \in Worker \ {w} : InSettle(v, t))
      /\ settled' = [settled EXCEPT ![t] = @ + IF Settles(c) THEN Spent(c) - total_cost[t] ELSE 0]
      /\ IF denied THEN Latch(t) /\ Moved(w, Nil) ELSE Moved(w, d) /\ UNCHANGED pending_interrupt
      /\ counter' = counter
  BY DEF HookSettle, Spent, Delta, Leave, Moved
<1>4. d \in CallRecord /\ d.step = "latch"
  BY <1>2 DEF CallRecord, Hook
<1>5. /\ Delta(c) \in Nat /\ total_cost[t] \in Nat
      /\ Spent(c) = total_cost[t] + Delta(c)
           \/ (Delta(c) > 0 /\ Overruns(t, Delta(c)) /\ Spent(c) = total_cost[t])
  BY <1>1, <1>2, SpentIs
<1>6. Settles(c) <=> c.kind = "native"
  BY DEF Settles
<1>7. ReadInv
  BY DEF SettleInv
<1>8. c.kind = "native" => ReadsAgree(c, t)
  BY <1>1, <1>2, <1>7 DEF ReadInv, Settling
<1>9. /\ ~pending_interrupt[t] /\ last_usage[t]["native"] # Nil => last_usage[t]["native"] <= base[t] + settled[t]
      /\ last_usage[t]["native"] # Nil =>
           last_usage[t]["native"] <= counter["native"] /\ (~raced => settled[t] <= last_usage[t]["native"])
      /\ ~raced => settled[t] <= counter["native"]
  BY <1>2 DEF SettleInv, SettledIsBooked, SettledOnce, ScopeSettles
<1>10. /\ last_usage[t]["native"] \in Nat \cup {Nil} /\ Nil \notin Nat
       /\ base[t] \in Nat /\ settled[t] \in Nat /\ counter["native"] \in Nat
       /\ ~pending_interrupt'[t] => ~pending_interrupt[t]
  BY <1>1, <1>2, UsageTypes, LatchesStay
<1>11. denied => pending_interrupt'[t]
  BY <1>1, <1>2, <1>3 DEF Latch, CallTypes
<1> PICK p : p = IF Settles(c) THEN Spent(c) - total_cost[t] ELSE 0
  OBVIOUS
<1>12. /\ p \in Nat /\ p <= Delta(c) /\ (c.kind = "native" /\ ~pending_interrupt'[t] => p = Delta(c))
       /\ (c.kind # "native" => p = 0)
       /\ settled'[t] = settled[t] + p /\ \A s \in Scope \ {t} : settled'[s] = settled[s]
  <2>1. p \in Nat /\ p <= Delta(c) /\ (Settles(c) => p = Delta(c) \/ denied) /\ (~Settles(c) => p = 0)
    <3>1. CASE Spent(c) = total_cost[t] + Delta(c)
      BY <1>5, <3>1
    <3>2. CASE Delta(c) > 0 /\ Overruns(t, Delta(c)) /\ Spent(c) = total_cost[t]
      BY <1>5, <3>2
    <3>3. QED
      BY <1>5, <3>1, <3>2
  <2>2. settled \in [Scope -> Nat] /\ settled'[t] = settled[t] + IF Settles(c) THEN Spent(c) - total_cost[t] ELSE 0
    BY <1>1, <1>2, <1>3 DEF CallTypes
  <2>4. settled'[t] = settled[t] + p
    BY <2>2
  <2>5. \A s \in Scope \ {t} : settled'[s] = settled[s]
    BY <1>2, <1>3, <2>2
  <2>6. QED
    BY <1>6, <1>11, <2>1, <2>4, <2>5
<1> HIDE DEF d, c, t, denied
<1>13. /\ \A s \in Scope : base'[s] >= base[s]
       /\ base'[t] \in Nat /\ (c.kind = "native" /\ c.prev = Nil => base'[t] >= c.snap)
  <2>1. CASE c.prev = Nil
    BY <1>1, <1>2, <1>3, <2>1, RebasedIs
  <2>2. CASE c.prev # Nil
    BY <1>1, <1>2, <1>3, <2>2 DEF CallTypes
  <2>3. QED
    BY <2>1, <2>2
<1>14. /\ \A s \in Scope \ {t} : last_usage'[s]["native"] = last_usage[s]["native"]
       /\ last_usage'[t]["native"] = IF c.kind = "native" THEN c.snap ELSE last_usage[t]["native"]
  <2>1. last_usage \in [Scope -> [Llm -> Nat \cup {Nil}]]
    BY <1>1 DEF CallTypes
  <2>2. CASE c.kind = "native"
    <3>1. last_usage' = [last_usage EXCEPT ![t]["native"] = c.snap]
      BY <1>3, <1>6, <2>2
    <3>2. QED
      BY <1>2, <2>1, <2>2, <3>1 DEF Llm
  <2>3. CASE c.kind # "native"
    BY <1>3, <1>6, <2>3
  <2>4. QED
    BY <2>2, <2>3
<1>15. ~raced' => settled'[t] <= counter["native"]
  <2>1. CASE c.kind # "native"
    <3>1. p = 0
      BY <1>12, <2>1
    <3>2. settled'[t] = settled[t]
      BY <1>10, <1>12, <3>1
    <3>3. QED
      BY <1>3, <1>9, <3>2
  <2>2. CASE c.kind = "native"
    <3>1. Delta(c) = Grown(c) /\ c.snap <= counter["native"] /\ (~raced /\ c.prev # Nil => settled[t] <= c.prev)
      BY <1>1, <1>6, <1>8, <2>2 DEF Delta, ReadsAgree
    <3>2. CASE c.prev = Nil \/ c.snap < c.prev
      <4>1. Grown(c) = 0
        BY <1>2, <3>2, GrownIs
      <4>2. settled'[t] = settled[t]
        BY <1>10, <1>12, <3>1, <4>1
      <4>3. QED
        BY <1>3, <1>9, <4>2
    <3>3. CASE c.prev # Nil /\ ~(c.snap < c.prev)
      <4>1. Grown(c) = c.snap - c.prev /\ c.prev \in Nat
        BY <1>2, <3>3, GrownIs
      <4>2. p <= c.snap - c.prev /\ (~raced' => settled[t] <= c.prev)
        BY <1>3, <1>12, <3>1, <3>3, <4>1
      <4>3. QED
        BY <1>2, <1>10, <1>12, <3>1, <4>1, <4>2
    <3>4. QED
      BY <3>2, <3>3
  <2>3. QED
    BY <2>1, <2>2
<1>16. LET u == last_usage'[t]["native"] IN
         u # Nil => /\ ~pending_interrupt'[t] => u <= base'[t] + settled'[t]
                    /\ u <= counter["native"] /\ (~raced' => settled'[t] <= u)
  <2>1. CASE c.kind # "native"
    <3>1. p = 0
      BY <1>12, <2>1
    <3>2. settled'[t] = settled[t] /\ last_usage'[t]["native"] = last_usage[t]["native"]
      BY <1>10, <1>12, <1>14, <2>1, <3>1
    <3>3. base'[t] >= base[t]
      BY <1>2, <1>13
    <3> PICK u : u = last_usage[t]["native"]
      OBVIOUS
    <3>4. ASSUME u # Nil PROVE u \in Nat
      BY <1>10, <3>4
    <3>5. u # Nil /\ ~pending_interrupt'[t] => u <= base'[t] + settled[t]
      BY <1>9, <1>10, <1>13, <3>3, <3>4
    <3>6. u # Nil => u <= counter["native"] /\ (~raced' => settled[t] <= u)
      BY <1>3, <1>9
    <3>7. QED
      BY <3>2, <3>5, <3>6
  <2>2. CASE c.kind = "native"
    <3>1. /\ Delta(c) = Grown(c) /\ c.snap <= counter["native"] /\ (~raced => settled[t] <= c.snap)
          /\ ~raced /\ c.prev # Nil => settled[t] <= c.prev
          /\ c.prev # Nil /\ ~pending_interrupt[t] => c.prev <= base[t] + settled[t]
      BY <1>1, <1>6, <1>8, <2>2 DEF Delta, ReadsAgree
    <3>2. base'[t] >= base[t] /\ last_usage'[t]["native"] = c.snap /\ (raced => raced')
      BY <1>2, <1>3, <1>13, <1>14, <2>2
    <3>3. ~pending_interrupt'[t] => c.snap <= base'[t] + settled'[t]
      <4> SUFFICES ASSUME ~pending_interrupt'[t] PROVE c.snap <= base'[t] + settled'[t]
        OBVIOUS
      <4>1. p = Grown(c) /\ settled'[t] = settled[t] + Grown(c) /\ Grown(c) \in Nat /\ ~pending_interrupt[t]
        BY <1>5, <1>10, <1>12, <2>2, <3>1
      <4>2. CASE c.prev = Nil
        <5>1. base'[t] >= c.snap /\ settled'[t] = settled[t] + Grown(c)
          BY <1>13, <2>2, <4>1, <4>2
        <5>2. \A new, seen, old, more \in Nat : new >= seen => seen <= new + (old + more)
          OBVIOUS
        <5>3. QED
          BY <1>2, <1>10, <1>13, <4>1, <5>1, <5>2
      <4>3. CASE c.prev # Nil /\ c.snap < c.prev
        BY <1>2, <1>10, <1>13, <3>1, <3>2, <4>1, <4>3
      <4>4. CASE c.prev # Nil /\ ~(c.snap < c.prev)
        <5>1. Grown(c) = c.snap - c.prev /\ c.prev \in Nat
          BY <1>2, <4>4, GrownIs
        <5>2. c.prev <= base[t] + settled[t]
          BY <3>1, <4>1, <4>4
        <5>3. \A new, old, seen, before, more \in Nat :
                before <= old + more /\ new >= old => seen <= new + (more + (seen - before))
          OBVIOUS
        <5>4. QED
          BY <1>2, <1>10, <1>13, <4>1, <5>1, <5>2, <5>3
      <4>5. QED
        BY <4>2, <4>3, <4>4
    <3>4. ~raced' => settled'[t] <= c.snap
      <4> SUFFICES ASSUME ~raced' PROVE settled'[t] <= c.snap
        OBVIOUS
      <4>1. ~raced /\ p <= Grown(c)
        BY <1>12, <3>1, <3>2
      <4>2. CASE c.prev = Nil \/ c.snap < c.prev
        <5>1. Grown(c) = 0
          BY <1>2, <4>2, GrownIs
        <5>2. settled'[t] = settled[t]
          BY <1>10, <1>12, <4>1, <5>1
        <5>3. QED
          BY <3>1, <4>1, <5>2
      <4>3. CASE c.prev # Nil /\ ~(c.snap < c.prev)
        <5>1. Grown(c) = c.snap - c.prev /\ c.prev \in Nat /\ settled[t] <= c.prev
          BY <1>2, <3>1, <4>1, <4>3, GrownIs
        <5>2. QED
          BY <1>2, <1>10, <1>12, <4>1, <5>1
      <4>4. QED
        BY <4>2, <4>3
    <3>5. QED
      BY <3>1, <3>2, <3>3, <3>4
  <2>3. QED
    BY <2>1, <2>2
<1>17. \A s \in Scope : settled'[s] >= settled[s]
  <2>1. \A s \in Scope : settled[s] \in Nat
    BY <1>1 DEF CallTypes
  <2>2. QED
    BY <1>12, <2>1
<1>18. raced' \/ \A v \in Worker \ {w} : ~InSettle(v, t)
  BY <1>3
<1>19. PICK f \in {Nil} \cup CallRecord : Moved(w, f) /\ (f # Nil => f.step \notin {"prev", "store"})
  BY <1>3, <1>4
<1>20. QED
  BY <1>2, <1>3, <1>12, <1>13, <1>14, <1>15, <1>16, <1>17, <1>18, <1>19, StoreSettles

LEMMA SettleInit == Init => SettleInv
<1> SUFFICES ASSUME Init PROVE SettleInv
  OBVIOUS
<1>1. \A s \in Scope : last_usage[s]["native"] = Nil /\ settled[s] = 0
  BY DEF Init, Llm
<1>2. counter["native"] = 0
  BY DEF Init, Llm
<1>3. SettledIsBooked /\ SettledOnce /\ \A s \in Scope : ScopeSettles(s)
  BY <1>1, <1>2 DEF SettledIsBooked, SettledOnce, ScopeSettles
<1>4. ReadInv
  BY DEF Init, ReadInv, Busy
<1>5. QED
  BY <1>3, <1>4 DEF SettleInv

LEMMA SettleStep ==
  ASSUME Layer1, Layer1', [Next]_vars, SettleInv
  PROVE  SettleInv'
<1>1. CallTypes
  BY TypeParts DEF Layer1
<1>2. counter["native"] \in Nat
  BY <1>1 DEF CallTypes, Llm
<1>3. ASSUME UNCHANGED <<doing, usage>> PROVE SettleInv'
  BY <1>2, <1>3, QuietSettles DEF usage
<1>4. ASSUME NEW w \in Worker, NEW d, Moved(w, d), UNCHANGED <<last_usage, base, settled, raced>>,
             counter'["native"] >= counter["native"],
             d = Nil \/ d.at # "hooks" \/ d.step \notin {"prev", "store"} \/ d.kind # "native"
      PROVE  SettleInv'
  <2>1. \A v \in Worker : Busy(v)' => doing'[v] = doing[v] \/ doing'[v].at # "hooks" \/ doing'[v].step \notin {"prev", "store"}
                                    \/ doing'[v].kind # "native"
    BY <1>1, <1>4, MovedTypes DEF Busy
  <2>2. QED
    BY <1>4, <2>1, QuietSettles
<1>5. ASSUME NEW w \in Worker, NEW d, Moved(w, d), UNCHANGED usage,
             d = Nil \/ d.at # "hooks" \/ d.step \notin {"prev", "store"} \/ d.kind # "native"
      PROVE  SettleInv'
  BY <1>2, <1>4, <1>5 DEF usage
<1>6. ASSUME NEW w \in Worker, Works(w) PROVE SettleInv'
  <2> DEFINE c == doing[w]
  <2>1. ASSUME NEW k \in Kind, Call(w, k) PROVE SettleInv'
    <3> DEFINE e == [id |-> calls + 1, kind |-> k, at |-> "down", point |-> At(k),
                     fn |-> Original, stack |-> <<>>, stopped |-> Stopped,
                     hook |-> "before_llm", todo |-> <<>>, step |-> "latch", snap |-> 0, prev |-> Nil]
               d == IF k \in Llm THEN Hooks(e, "before_llm") ELSE [e EXCEPT !.fn = installed[Points[At(k)]]]
    <3>1. Moved(w, d) /\ d.step = "latch" /\ UNCHANGED usage
      BY <2>1 DEF Call, Moved, Hooks
    <3> HIDE DEF d
    <3>2. QED
      BY <1>5, <3>1
  <2>2. ASSUME ~\E k \in Kind : Call(w, k) PROVE Busy(w) /\ c \in CallRecord
    <3>1. Busy(w)
      BY <1>6, <2>2 DEF Works, Enter, Arrive, Out, Fail, Unwind, HookEnter, HookBaseline, HookSnap, HookPrev, HookSettle,
                HookError, InHook, Ask, Reply, Done, Busy
    <3>2. QED
      BY <1>1, <3>1, BusyRecord
  <2>3. CASE ~(\E k \in Kind : Call(w, k)) /\ Enter(w)
    <3> DEFINE d == [c EXCEPT !.fn = saved[c.fn][c.point], !.stack = IF c.point = 1 THEN Append(@, c.fn) ELSE @]
    <3>1. (Moved(w, Nil) \/ Moved(w, d)) /\ UNCHANGED usage
      BY <2>3 DEF Enter, Moved, Leave
    <3>2. d.at # "hooks"
      BY <2>2, <2>3 DEF Enter, CallRecord
    <3> HIDE DEF d
    <3>3. QED
      BY <1>5, <3>1, <3>2
  <2>4. CASE ~(\E k \in Kind : Call(w, k)) /\ Arrive(w)
    <3> DEFINE d == [c EXCEPT !.point = 2, !.fn = IF Gated(c) THEN installed["gate"] ELSE Original]
    <3>1. Moved(w, d) /\ UNCHANGED usage /\ d.at # "hooks"
      BY <2>2, <2>4 DEF Arrive, Moved, CallRecord
    <3> HIDE DEF d
    <3>2. QED
      BY <1>5, <3>1
  <2>5. CASE ~(\E k \in Kind : Call(w, k)) /\ Out(w)
    <3> DEFINE d == IF c.kind \in {"bypass", "tool"} THEN Nil ELSE [c EXCEPT !.at = "up"]
    <3>1. Moved(w, d) /\ UNCHANGED usage /\ (d = Nil \/ d.at # "hooks")
      BY <2>2, <2>5 DEF Out, Moved, CallRecord
    <3> HIDE DEF d
    <3>2. QED
      BY <1>5, <3>1
  <2>6. CASE Fail(w) \/ Done(w)
    BY <1>5, <2>6 DEF Fail, Done, Leave, Moved
  <2>7. CASE ~(\E k \in Kind : Call(w, k)) /\ Unwind(w)
    <3> DEFINE d == [c EXCEPT !.stack = Front(@)]
    <3>1. (Moved(w, Nil) \/ Moved(w, d)) /\ UNCHANGED usage /\ d.at # "hooks"
      BY <2>2, <2>7 DEF Unwind, Leave, Moved, CallRecord
    <3> HIDE DEF d
    <3>2. QED
      BY <1>5, <3>1
  <2>8. CASE ~(\E k \in Kind : Call(w, k)) /\ HookEnter(w)
    <3>1. /\ Moved(w, Nil) \/ \E x \in {"baseline", "snap", "store"} :
                               Moved(w, [c EXCEPT !.step = x]) /\ (x = "store" => c.kind = "uncounted")
          /\ UNCHANGED usage
      BY <2>8 DEF HookEnter, Leave, To, Moved
    <3>2. ASSUME NEW x \in {"baseline", "snap", "store"}, x = "store" => c.kind = "uncounted"
          PROVE  [c EXCEPT !.step = x].step \notin {"prev", "store"} \/ [c EXCEPT !.step = x].kind # "native"
      BY <2>2, <2>8, <3>2 DEF CallRecord
    <3>3. QED
      BY <1>5, <3>1, <3>2
  <2>9. CASE HookError(w)
    BY <1>5, <2>9 DEF HookError, Leave, Moved
  <2>10. CASE ~(\E k \in Kind : Call(w, k)) /\ Ask(w)
    <3> DEFINE d == IF c.kind = "routed" THEN [c EXCEPT !.at = "down", !.fn = installed["litellm"]] ELSE [c EXCEPT !.at = "up"]
    <3>1. Moved(w, d) /\ UNCHANGED usage /\ d.at # "hooks"
      BY <2>2, <2>10 DEF Ask, Moved, CallRecord
    <3> HIDE DEF d
    <3>2. QED
      BY <1>5, <3>1
  <2>11. CASE ~(\E k \in Kind : Call(w, k)) /\ Reply(w)
    <3>1. /\ \/ Moved(w, Nil) /\ counter' = counter
             \/ c.kind \in Llm /\ counter' = [counter EXCEPT ![c.kind] = @ + 1]
                  /\ \E h \in {"after_llm", "before_tool"} : Moved(w, Hooks(c, h))
          /\ UNCHANGED <<last_usage, base, settled, raced>>
      BY <2>11 DEF Reply, Leave, Moved
    <3>2. counter'["native"] >= counter["native"]
      <4>1. counter \in [Llm -> Nat]
        BY <1>1 DEF CallTypes
      <4>2. ASSUME NEW l \in Llm, counter' = [counter EXCEPT ![l] = @ + 1] PROVE counter'["native"] >= counter["native"]
        BY <4>1, <4>2 DEF Llm
      <4>3. QED
        BY <1>2, <3>1, <4>2
    <3>3. \A h : Hooks(c, h).step = "latch"
      BY <2>2, <2>11 DEF Hooks, CallRecord
    <3>4. QED
      BY <1>4, <3>1, <3>2, <3>3
  <2>12. CASE HookBaseline(w) \/ HookSnap(w) \/ HookPrev(w) \/ HookSettle(w)
    BY <2>12, BaselineSettles, SnapSettles, PrevSettles, BookingSettles
  <2>13. QED
    BY <1>6, <2>1, <2>3, <2>4, <2>5, <2>6, <2>7, <2>8, <2>9, <2>10, <2>11, <2>12 DEF Works
<1>7. CASE \E s \in Scope : Begin(s) \/ Install(s) \/ Arm(s) \/ Return(s) \/ Restore(s)
  BY <1>3, <1>7, ScopesKeepCalls
<1>8. CASE \E id \in due : Callback(id)
  BY <1>3, <1>8 DEF Callback
<1>9. CASE UNCHANGED vars
  BY <1>3, <1>9 DEF vars
<1>10. QED
  BY <1>6, <1>7, <1>8, <1>9, NextCases

-----------------------------------------------------------------------------
(***************************************************************************)
(* The four layers together.                                               *)
(***************************************************************************)
LEMMA InitIInv == Init => IInv
<1>1. Init => StopInv
  BY DEF Init, StopInv, Busy
<1>2. QED
  BY <1>1, Layer1Init, BookInit, NestInit, SettleInit DEF IInv, Layer1

LEMMA StepIInv ==
  ASSUME IInv, [Next]_vars
  PROVE  IInv'
<1>1. Layer1 /\ BookInv /\ NestInv /\ StopInv /\ SettleInv
  BY DEF IInv, Layer1
<1>2. Layer1' /\ Follows
  BY <1>1, Layer1Step
<1>3. BookInv' /\ NestInv' /\ StopInv' /\ SettleInv'
  BY <1>1, <1>2, BookStep, NestStep, StopStep, SettleStep
<1>4. QED
  BY <1>2, <1>3 DEF IInv, Layer1

\* However scopes begin, overlap and end, and whatever threads call meanwhile, the
\* four layers hold.
THEOREM Invariance == Spec => []IInv
BY InitIInv, StepIInv, PTL DEF Spec

\* Whatever scopes and threads do, the state keeps its shape, and what the hooks of
\* a scope settle of a model's usage is neither lost nor settled twice (_settle).
THEOREM UsageHolds == Spec => []UsageInv
<1>1. IInv => UsageInv
  BY DEF IInv, SettleInv, UsageInv
<1>2. QED
  BY <1>1, Invariance, PTL

\* No scope books one call twice, and what the callback books no wrapper does
\* (log_success_event and the wrappers of patched_completion).
THEOREM BookedOnceHolds == Spec => []BookedOnce
<1>1. IInv => BookedOnce
  BY DEF IInv, BookInv
<1>2. QED
  BY <1>1, Invariance, PTL

\* Scopes that began and ended like brackets are a chain, outermost last
\* (_apply_patches and _remove_patches), however many there are.
THEOREM NestedScopesHold == Spec => []NestedScopesCompose
<1>1. IInv => NestedScopesCompose
  BY Composes, TypeParts DEF IInv
<1>2. QED
  BY <1>1, Invariance, PTL

\* A call that began while a live scope was latched meets its wrapper or its hook
\* before any provider or tool (deny_if_latched at the head of each).
THEOREM AbortStopsHolds == Spec => []AbortStopsNested
<1>1. IInv => AbortStopsNested
  BY AbortStops DEF IInv, Layer1
<1>2. QED
  BY <1>1, Invariance, PTL
=============================================================================
