---------------------------- MODULE AccountProofs ----------------------------
(***************************************************************************)
(* Proofs about Account: the books balance and the exposure cap holds, for *)
(* any number of games, any prices and any amount of cash.  Both are about *)
(* sums over the games, so the proofs begin with what sums over a finite   *)
(* set obey; a library's fold is a recursive function given by CHOOSE, and *)
(* that there is one is shown by the smallest set for which there is none. *)
(***************************************************************************)
EXTENDS Account, FiniteSetTheorems, WellFoundedInduction, TLAPS

-----------------------------------------------------------------------------
(* Sums over a finite set.                                                 *)

\* A set of natural numbers that is not empty has a least element.
LEMMA Smallest ==
  ASSUME NEW T \in SUBSET Nat, T # {}
  PROVE  \E m \in T : \A k \in T : m <= k
<1>. DEFINE R == {ss \in Nat \X Nat : ss[1] < ss[2]}
<1>1. IsWellFoundedOn(R, Nat)
  BY NatLessThanWellFounded DEF OpToRel
<1>. HIDE DEF R
<1>2. PICK m \in T : \A k \in T : <<k, m>> \notin R
  BY <1>1, WFMin
<1>3. \A k \in T : ~(k < m)
  BY <1>2 DEF R
<1>. QED
  BY <1>3

First(s) == CHOOSE x \in s : TRUE

\* The partial sums of f that a fold over S goes through.
Sums(f, S, it) ==
    it = [s \in SUBSET S |-> IF s = {} THEN 0 ELSE f[First(s)] + it[s \ {First(s)}]]

LEMMA FirstIs == ASSUME NEW s, s # {} PROVE First(s) \in s
  BY DEF First

\* Such partial sums exist: no size of subset is the least for which they do not.
LEMMA SumsExist ==
  ASSUME NEW S, IsFiniteSet(S), NEW f \in [S -> Int]
  PROVE  \E it \in [SUBSET S -> Int] : Sums(f, S, it)
<1>. DEFINE step(it, s) == IF s = {} THEN 0 ELSE f[First(s)] + it[s \ {First(s)}]
            To(n) == \E it \in [SUBSET S -> Int] :
                        \A s \in SUBSET S : Cardinality(s) <= n => it[s] = step(it, s)
            Bad == {n \in Nat : ~To(n)}
<1>1. \A s \in SUBSET S : /\ IsFiniteSet(s) /\ Cardinality(s) \in Nat
                          /\ Cardinality(s) <= Cardinality(S)
                          /\ Cardinality(s) = 0 <=> s = {}
  BY FS_Subset, FS_CardinalityType, FS_EmptySet
<1>2. \A s \in SUBSET S : s # {} => /\ First(s) \in s /\ s \ {First(s)} \in SUBSET S
                                   /\ Cardinality(s \ {First(s)}) = Cardinality(s) - 1
  BY <1>1, FirstIs, FS_RemoveElement
<1>3. To(0)
  <2>. DEFINE zero == [s \in SUBSET S |-> 0]
  <2>1. zero \in [SUBSET S -> Int]
    OBVIOUS
  <2>2. \A s \in SUBSET S : Cardinality(s) <= 0 => zero[s] = step(zero, s)
    BY <1>1
  <2>. HIDE DEF zero, step
  <2>. QED
    BY <2>1, <2>2
<1>4. ASSUME NEW n \in Nat, To(n) PROVE To(n + 1)
  <2>1. PICK it \in [SUBSET S -> Int] :
            \A s \in SUBSET S : Cardinality(s) <= n => it[s] = step(it, s)
    BY <1>4
  <2>. DEFINE next == [s \in SUBSET S |-> step(it, s)]
  <2>2. ASSUME NEW s \in SUBSET S PROVE step(it, s) \in Int
    BY <1>2
  <2>3. next \in [SUBSET S -> Int]
    BY <2>2
  <2>4. ASSUME NEW s \in SUBSET S, Cardinality(s) <= n + 1 PROVE next[s] = step(next, s)
    <3>1. CASE s = {}
      BY <3>1
    <3>2. CASE s # {}
      <4>. DEFINE t == s \ {First(s)}
      <4>1. t \in SUBSET S /\ Cardinality(t) <= n
        BY <1>1, <1>2, <2>4, <3>2
      <4>2. next[t] = it[t]
        BY <2>1, <4>1
      <4>. HIDE DEF t
      <4>3. next[s] = f[First(s)] + it[t]
        BY <3>2 DEF t
      <4>4. step(next, s) = f[First(s)] + next[t]
        BY <3>2 DEF t
      <4>. QED
        BY <4>2, <4>3, <4>4
    <3>. QED
      BY <3>1, <3>2
  <2>. HIDE DEF next, step
  <2>. QED
    BY <2>3, <2>4
<1>5. To(Cardinality(S))
  <2>. HIDE DEF To
  <2>1. SUFFICES ASSUME Bad # {} PROVE FALSE
    BY <1>1 DEF Bad
  <2>2. PICK m \in Bad : \A k \in Bad : m <= k
    <3>1. Bad \in SUBSET Nat
      OBVIOUS
    <3>. HIDE DEF Bad
    <3>. QED
      BY <2>1, <3>1, Smallest
  <2>3. m # 0 /\ m - 1 \in Nat /\ m - 1 \notin Bad
    BY <1>3, <2>2
  <2>4. To((m - 1) + 1)
    BY <1>4, <2>3
  <2>. QED
    BY <2>2, <2>4
<1>6. PICK it \in [SUBSET S -> Int] :
        \A s \in SUBSET S : Cardinality(s) <= Cardinality(S) => it[s] = step(it, s)
  BY <1>5
<1>7. it = [s \in SUBSET S |-> step(it, s)]
  BY <1>1, <1>6
<1>. QED
  BY <1>7 DEF Sums


\* What holds of the empty set, and of a set when it holds of the set without its first
\* element, holds of every subset of a finite set.
LEMMA SubsetInduction ==
  ASSUME NEW S, IsFiniteSet(S), NEW Good \in SUBSET SUBSET S,
         {} \in Good,
         \A s \in SUBSET S : s # {} /\ s \ {First(s)} \in Good => s \in Good
  PROVE  \A s \in SUBSET S : s \in Good
<1>. DEFINE Bad == {n \in Nat : \E s \in SUBSET S : s \notin Good /\ Cardinality(s) = n}
<1>1. SUFFICES ASSUME NEW s0 \in SUBSET S, s0 \notin Good PROVE FALSE
  OBVIOUS
<1>2. \A s \in SUBSET S : IsFiniteSet(s) /\ Cardinality(s) \in Nat
  BY FS_Subset, FS_CardinalityType
<1>3. Bad \in SUBSET Nat /\ Cardinality(s0) \in Bad
  BY <1>1, <1>2
<1>4. PICK m \in Bad : \A k \in Bad : m <= k
  <2>. HIDE DEF Bad
  <2>. QED
    BY <1>3, Smallest
<1>5. PICK s \in SUBSET S : s \notin Good /\ Cardinality(s) = m
  BY <1>4
<1>6. s # {}
  BY <1>5
<1>7. s \ {First(s)} \in SUBSET S /\ s \ {First(s)} \notin Good
  BY <1>5, <1>6
<1>8. Cardinality(s \ {First(s)}) = m - 1 /\ m - 1 \in Nat
  <2>1. First(s) \in s /\ IsFiniteSet(s)
    BY <1>2, <1>6, FirstIs
  <2>2. Cardinality(s \ {First(s)}) = Cardinality(s) - 1
    BY <2>1, FS_RemoveElement
  <2>3. Cardinality(s \ {First(s)}) \in Nat
    BY <1>2, <1>7
  <2>. QED
    BY <1>5, <2>2, <2>3
<1>9. m - 1 \in Bad
  BY <1>7, <1>8
<1>. QED
  BY <1>4, <1>8, <1>9

Partial(f, S) == CHOOSE it : Sums(f, S, it)

\* What partial sums of f are good for.
Adds(p, f, S) ==
    /\ p[{}] = 0
    /\ \A s \in SUBSET S : p[s] \in Int
    /\ \A s \in SUBSET S : s # {} =>
          /\ First(s) \in s /\ s \ {First(s)} \in SUBSET S
          /\ p[s] = f[First(s)] + p[s \ {First(s)}]

LEMMA PartialIs ==
  ASSUME NEW S, IsFiniteSet(S), NEW f \in [S -> Int]
  PROVE  Adds(Partial(f, S), f, S)
<1>. DEFINE p == Partial(f, S)
            Good == {s \in SUBSET S : p[s] \in Int}
<1>1. Sums(f, S, p)
  BY SumsExist DEF Partial
<1>. HIDE DEF p
<1>2. \A s \in SUBSET S : p[s] = IF s = {} THEN 0 ELSE f[First(s)] + p[s \ {First(s)}]
  BY <1>1 DEF Sums
<1>3. \A s \in SUBSET S : s # {} => First(s) \in s /\ s \ {First(s)} \in SUBSET S
  BY FirstIs
<1>4. {} \in Good
  <2>1. {} \in SUBSET S /\ p[{}] = 0
    BY <1>2
  <2>. QED
    BY <2>1
<1>5. ASSUME NEW s \in SUBSET S, s # {}, s \ {First(s)} \in Good PROVE s \in Good
  <2>1. f[First(s)] \in Int /\ p[s \ {First(s)}] \in Int
    BY <1>3, <1>5
  <2>2. p[s] = f[First(s)] + p[s \ {First(s)}]
    BY <1>2, <1>5
  <2>. QED
    BY <2>1, <2>2
<1>6. \A s \in SUBSET S : s \in Good
  <2>1. Good \in SUBSET SUBSET S
    OBVIOUS
  <2>. HIDE DEF Good
  <2>. QED
    BY <1>4, <1>5, <2>1, SubsetInduction
<1>7. \A s \in SUBSET S : p[s] \in Int
  BY <1>6
<1>8. p[{}] = 0
  BY <1>2
<1>9. \A s \in SUBSET S : s # {} => p[s] = f[First(s)] + p[s \ {First(s)}]
  BY <1>2
<1>. QED
  BY <1>3, <1>7, <1>8, <1>9 DEF p, Adds

LEMMA SumIsPartial ==
  ASSUME NEW S, NEW f, DOMAIN f = S
  PROVE  SumFunction(f) = Partial(f, S)[S]
  BY DEF SumFunction, SumFunctionOnSet, FoldFunctionOnSet, MapThenFoldSet, Partial, Sums, First

\* A sum of integers is an integer.
LEMMA SumIsInt ==
  ASSUME NEW S, IsFiniteSet(S), NEW f \in [S -> Int]
  PROVE  SumFunction(f) \in Int
<1>1. SumFunction(f) = Partial(f, S)[S]
  BY SumIsPartial
<1>. QED
  BY <1>1, PartialIs DEF Adds

\* The sum of two functions sums to their sums.
LEMMA SumAdds ==
  ASSUME NEW S, IsFiniteSet(S), NEW f \in [S -> Int], NEW e \in [S -> Int],
         NEW h \in [S -> Int], \A x \in S : h[x] = f[x] + e[x]
  PROVE  SumFunction(h) = SumFunction(f) + SumFunction(e)
<1>. DEFINE F == Partial(f, S)
            E == Partial(e, S)
            H == Partial(h, S)
            Good == {s \in SUBSET S : H[s] = F[s] + E[s]}
<1>1. Adds(F, f, S) /\ Adds(E, e, S) /\ Adds(H, h, S)
  <2>1. Adds(F, f, S)
    BY PartialIs
  <2>2. Adds(E, e, S)
    BY PartialIs
  <2>3. Adds(H, h, S)
    BY PartialIs
  <2>. QED
    BY <2>1, <2>2, <2>3
<1>3. SumFunction(f) = F[S] /\ SumFunction(e) = E[S] /\ SumFunction(h) = H[S]
  BY SumIsPartial
<1>. HIDE DEF F, E, H
<1>4. {} \in Good
  BY <1>1 DEF Adds
<1>5. ASSUME NEW s \in SUBSET S, s # {}, s \ {First(s)} \in Good PROVE s \in Good
  <2>. DEFINE c == First(s)
              t == s \ {c}
  <2>1. c \in S /\ t \in SUBSET S /\ F[s] = f[c] + F[t] /\ E[s] = e[c] + E[t] /\ H[s] = h[c] + H[t]
    BY <1>1, <1>5 DEF Adds
  <2>2. H[t] = F[t] + E[t]
    BY <1>5
  <2>. HIDE DEF c, t
  <2>4. f[c] \in Int /\ e[c] \in Int /\ h[c] = f[c] + e[c] /\ F[t] \in Int /\ E[t] \in Int
    BY <1>1, <2>1 DEF Adds
  <2>3. H[s] = F[s] + E[s]
    BY <2>1, <2>2, <2>4
  <2>. QED
    BY <2>3
<1>6. \A s \in SUBSET S : s \in Good
  <2>1. Good \in SUBSET SUBSET S
    OBVIOUS
  <2>. HIDE DEF Good
  <2>. QED
    BY <1>4, <1>5, <2>1, SubsetInduction
<1>. QED
  BY <1>3, <1>6

\* A change of one term changes the sum by as much.
LEMMA SumChanges ==
  ASSUME NEW S, IsFiniteSet(S), NEW f \in [S -> Int], NEW h \in [S -> Int],
         NEW g \in S, \A x \in S : x # g => h[x] = f[x]
  PROVE  SumFunction(h) = SumFunction(f) + (h[g] - f[g])
<1>. DEFINE F == Partial(f, S)
            H == Partial(h, S)
            Good == {s \in SUBSET S : H[s] = F[s] + (IF g \in s THEN h[g] - f[g] ELSE 0)}
<1>1. Adds(F, f, S) /\ Adds(H, h, S)
  <2>1. Adds(F, f, S)
    BY PartialIs
  <2>2. Adds(H, h, S)
    BY PartialIs
  <2>. QED
    BY <2>1, <2>2
<1>3. SumFunction(f) = F[S] /\ SumFunction(h) = H[S]
  BY SumIsPartial
<1>. HIDE DEF F, H
<1>4. {} \in Good
  BY <1>1 DEF Adds
<1>5. ASSUME NEW s \in SUBSET S, s # {}, s \ {First(s)} \in Good PROVE s \in Good
  <2>. DEFINE c == First(s)
              t == s \ {c}
  <2>1. c \in s /\ c \in S /\ t \in SUBSET S /\ c \notin t /\ s = t \cup {c}
        /\ F[s] = f[c] + F[t] /\ H[s] = h[c] + H[t]
    BY <1>1, <1>5 DEF Adds
  <2>2. H[t] = F[t] + (IF g \in t THEN h[g] - f[g] ELSE 0)
    BY <1>5
  <2>3. f[c] \in Int /\ h[c] \in Int /\ F[t] \in Int /\ f[g] \in Int /\ h[g] \in Int
    BY <1>1, <2>1 DEF Adds
  <2>. HIDE DEF c, t
  <2>4. CASE c = g
    <3>1. g \in s /\ g \notin t
      BY <2>1, <2>4
    <3>2. H[s] = F[s] + (h[g] - f[g])
      BY <2>1, <2>2, <2>3, <2>4, <3>1
    <3>. QED
      BY <3>1, <3>2
  <2>5. CASE c # g
    <3>1. (g \in s) = (g \in t) /\ h[c] = f[c]
      BY <2>1, <2>5
    <3>2. H[s] = F[s] + (IF g \in s THEN h[g] - f[g] ELSE 0)
      BY <2>1, <2>2, <2>3, <3>1
    <3>. QED
      BY <3>2
  <2>. QED
    BY <2>4, <2>5
<1>6. \A s \in SUBSET S : s \in Good
  <2>1. Good \in SUBSET SUBSET S
    OBVIOUS
  <2>. HIDE DEF Good
  <2>. QED
    BY <1>4, <1>5, <2>1, SubsetInduction
<1>. QED
  BY <1>3, <1>6

\* A sum of smaller terms is smaller.
LEMMA SumAtMost ==
  ASSUME NEW S, IsFiniteSet(S), NEW f \in [S -> Int], NEW h \in [S -> Int],
         \A x \in S : f[x] <= h[x]
  PROVE  SumFunction(f) <= SumFunction(h)
<1>. DEFINE F == Partial(f, S)
            H == Partial(h, S)
            Good == {s \in SUBSET S : F[s] <= H[s]}
<1>1. Adds(F, f, S) /\ Adds(H, h, S)
  <2>1. Adds(F, f, S)
    BY PartialIs
  <2>2. Adds(H, h, S)
    BY PartialIs
  <2>. QED
    BY <2>1, <2>2
<1>3. SumFunction(f) = F[S] /\ SumFunction(h) = H[S]
  BY SumIsPartial
<1>. HIDE DEF F, H
<1>4. {} \in Good
  BY <1>1 DEF Adds
<1>5. ASSUME NEW s \in SUBSET S, s # {}, s \ {First(s)} \in Good PROVE s \in Good
  <2>. DEFINE c == First(s)
              t == s \ {c}
  <2>1. c \in S /\ t \in SUBSET S /\ F[s] = f[c] + F[t] /\ H[s] = h[c] + H[t]
    BY <1>1, <1>5 DEF Adds
  <2>2. F[t] <= H[t]
    BY <1>5
  <2>. HIDE DEF c, t
  <2>4. f[c] \in Int /\ h[c] \in Int /\ f[c] <= h[c] /\ F[t] \in Int /\ H[t] \in Int
    BY <1>1, <2>1 DEF Adds
  <2>3. F[s] <= H[s]
    BY <2>1, <2>2, <2>4
  <2>. QED
    BY <2>3
<1>6. \A s \in SUBSET S : s \in Good
  <2>1. Good \in SUBSET SUBSET S
    OBVIOUS
  <2>. HIDE DEF Good
  <2>. QED
    BY <1>4, <1>5, <2>1, SubsetInduction
<1>. QED
  BY <1>3, <1>6

\* Nothing but zeroes sums to zero.
LEMMA SumOfZeroes ==
  ASSUME NEW S, IsFiniteSet(S), NEW f \in [S -> Int], \A x \in S : f[x] = 0
  PROVE  SumFunction(f) = 0
<1>1. SumFunction(f) = SumFunction(f) + SumFunction(f)
  BY SumAdds
<1>. QED
  BY <1>1, SumIsInt

-----------------------------------------------------------------------------
(* The inductive invariant.                                                *)

Rows == {"none", "refused", "unknown", "open", "settled"}
Statuses == {"resting", "canceled", "executed"}
Evals == [step : {"idle", "positions", "order", "placed", "lookup", "done"}, balance : Int,
          equity : Int, cost : Nat, truth : Int, uncounted : Nat]
Passes == [step : {"idle", "lock", "equity", "fills", "settle", "recover"}, balance : Int,
           held : [Games -> Nat], synced : BOOLEAN, todo : SUBSET Games]

TypeCorrect ==
    /\ cash \in Int /\ peak \in Nat /\ faults \in Nat
    /\ qty \in [Games -> Nat] /\ filled \in [Games -> Nat]
    /\ phase \in [Games -> {"before", "played", "won", "lost"}]
    /\ lots \in [Games -> Nat]
    /\ row \in [Games -> Rows]
    /\ known \in [Games -> Nat] /\ stored \in [Games -> Nat]
    /\ status \in [Games -> Statuses]
    /\ pnl \in [Games -> Int]
    /\ lock \in Games \cup {Free}
    /\ eval \in [Games -> Evals]
    /\ health \in Passes
    /\ short \in SUBSET Games /\ estimated \in SUBSET Games /\ blind \in SUBSET Games

\* What a contract of a game's order costs, and what the order has made of the cash so far.
Spent(g) == Paid[g] + Fee[Paid[g]]
Gain(g) == (IF phase[g] = "won" THEN filled[g] * Payout ELSE 0) - filled[g] * Spent(g) - Rest[g]
Gains == [g \in Games |-> Gain(g)]

\* The cash is what the games have made of it, and the ledger's row of a game agrees with
\* its order: there is a row before there is an order, and a settled one books what the game
\* has made, but for what an estimate overstates.
RowTells(g) ==
    /\ stored[g] <= filled[g] /\ filled[g] <= qty[g]
    /\ row[g] = "none" => qty[g] = 0
    /\ phase[g] \in Ended => qty[g] > 0
    /\ row[g] # "settled" => pnl[g] = 0 /\ g \notin estimated
    /\ row[g] = "settled" => /\ phase[g] \in Ended
                             /\ g \notin short => pnl[g] + Overstated[g] = Gain(g)
Books ==
    /\ cash = StartCash + Total(Gains)
    /\ \A g \in Games : RowTells(g)

\* What the health job has left to settle is open.
Pending == \A g \in Games : g \in health.todo => row[g] = "open"

\* An order that has not filled has its lot, but for one on its way to it and the blind ones.
\* An evaluation at work has the lock, and what is at risk was in the equity it read; once
\* it has priced, what is at risk is in the cost it counts but for what that cannot show.
LotStands(g) ==
    phase[g] = "before" /\ filled[g] = 0 =>
        lots[g] = qty[g] \/ (lots[g] = 0 /\ (g \in blind \/ eval[g].step \in {"placed", "lookup"}))
Busy == {"positions", "order", "placed", "lookup"}
SizesAlone(g) ==
    /\ eval[g].step \in Busy => lock = g
    /\ eval[g].step \in {"positions", "order"} => eval[g].balance + Total(Bound) <= eval[g].truth
    /\ eval[g].step = "order" =>
          /\ eval[g].equity = eval[g].balance + eval[g].cost
          /\ Total(Bound) <= eval[g].cost + eval[g].uncounted
    /\ eval[g].step \in {"placed", "lookup"} => lots[g] = 0
RecoversFirst == health.step = "recover" => lock = Free
Sizing == RecoversFirst /\ \A g \in Games : LotStands(g) /\ SizesAlone(g)

IInv == TypeCorrect /\ Books /\ Pending /\ Sizing

-----------------------------------------------------------------------------
(* Types of the operators.                                                 *)

LEMMA Constants ==
  /\ IsFiniteSet(Games) /\ Free \notin Games
  /\ StartCash \in Nat /\ StartPeak \in Nat /\ Fraction \in Nat /\ MaxDrawdown \in Nat
  /\ MaxFaults \in Nat /\ MaxExposure \in Nat /\ MaxExposure <= 100
  /\ Ask \in Nat /\ Ask > 0 /\ Limit \in Nat /\ Limit > 0 /\ Payout \in Nat
  BY AccountAssumption DEF AccountAssumption

LEMMA Costs ==
  /\ Fee[Limit] \in Nat
  /\ \A g \in Games : Paid[g] \in Nat /\ Paid[g] <= Limit /\ Fee[Paid[g]] \in Nat /\ Spent(g) \in Nat
<1>1. Limit \in 1 .. Limit
  BY Constants
<1>2. /\ Fee \in [1 .. Limit -> Nat] /\ Paid \in [Games -> 1 .. Limit]
  BY AccountAssumption DEF AccountAssumption
<1>3. Fee[Limit] \in Nat
  BY <1>1, <1>2
<1>4. ASSUME NEW g \in Games
      PROVE  Paid[g] \in Nat /\ Paid[g] <= Limit /\ Fee[Paid[g]] \in Nat /\ Spent(g) \in Nat
  <2>1. Paid[g] \in 1 .. Limit
    BY <1>2
  <2>2. Paid[g] \in Nat /\ Paid[g] <= Limit /\ Fee[Paid[g]] \in Nat
    BY <1>2, <2>1, Constants
  <2>. QED
    BY <2>2 DEF Spent
<1>. QED
  BY <1>3, <1>4

\* A count of contracts at a price is no negative amount.
LEMMA Products ==
  ASSUME NEW a \in Nat, NEW b \in Nat
  PROVE  a * b \in Nat
  OBVIOUS

LEMMA TotalOfNat ==
  ASSUME NEW f \in [Games -> Nat]
  PROVE  Total(f) \in Nat
<1>. DEFINE zero == [g \in Games |-> 0]
<1>1. f \in [Games -> Int] /\ zero \in [Games -> Int] /\ \A g \in Games : zero[g] <= f[g]
  OBVIOUS
<1>. HIDE DEF zero
<1>2. SumFunction(zero) <= SumFunction(f)
  BY <1>1, SumAtMost, Constants
<1>3. SumFunction(zero) = 0
  BY <1>1, SumOfZeroes, Constants DEF zero
<1>4. SumFunction(f) \in Int
  BY <1>1, SumIsInt, Constants
<1>. QED
  BY <1>2, <1>3, <1>4 DEF Total

LEMMA TotalAdds ==
  ASSUME NEW f \in [Games -> Int], NEW e \in [Games -> Int], NEW h \in [Games -> Int],
         \A x \in Games : h[x] = f[x] + e[x]
  PROVE  Total(h) = Total(f) + Total(e)
<1>1. SumFunction(h) = SumFunction(f) + SumFunction(e)
  BY SumAdds, Constants
<1>. QED
  BY <1>1 DEF Total

LEMMA OperatorTypes ==
  ASSUME TypeCorrect, \A g \in Games : filled[g] <= qty[g]
  PROVE  /\ Gains \in [Games -> Int]
         /\ Bound \in [Games -> Nat] /\ Rest \in [Games -> Nat]
         /\ Holding \in [Games -> Nat]
         /\ Overstated \in [Games -> Int]
         /\ Total(Gains) \in Int /\ Total(Bound) \in Nat
         /\ Equity \in Int /\ Uncounted \in Nat
<1>1. Rest \in [Games -> Nat]
  <2>1. ASSUME NEW g \in Games PROVE (qty[g] - filled[g]) * Limit \in Nat
    <3>1. qty[g] - filled[g] \in Nat
      BY DEF TypeCorrect
    <3>. QED
      BY <3>1, Constants, Products
  <2>. QED
    BY <2>1 DEF Rest
<1>2. Holding \in [Games -> Nat]
  BY DEF TypeCorrect, Holding
<1>3. Gains \in [Games -> Int]
  <2>1. ASSUME NEW g \in Games PROVE Gain(g) \in Int
    <3>1. filled[g] * Spent(g) \in Int /\ filled[g] * Payout \in Int /\ Rest[g] \in Int
      BY <1>1, Constants, Costs DEF TypeCorrect
    <3>. QED
      BY <3>1 DEF Gain
  <2>. QED
    BY <2>1 DEF Gains
<1>4. Bound \in [Games -> Nat]
  <2>1. ASSUME NEW g \in Games PROVE Holding[g] * Paid[g] \in Nat /\ Rest[g] \in Nat
    <3>1. Holding[g] \in Nat /\ Paid[g] \in Nat /\ Rest[g] \in Nat
      BY <1>1, <1>2, Costs
    <3>. QED
      BY <3>1, Products
  <2>2. \A g \in Games : Holding[g] * Paid[g] + Rest[g] \in Nat
    BY <2>1
  <2>. QED
    BY <2>2 DEF Bound
<1>5. Overstated \in [Games -> Int]
  <2>1. ASSUME NEW g \in Games
        PROVE  filled[g] * ((Limit + Fee[Limit]) - (Paid[g] + Fee[Paid[g]])) \in Int
    <3>1. filled[g] \in Int /\ (Limit + Fee[Limit]) - (Paid[g] + Fee[Paid[g]]) \in Int
      BY Constants, Costs DEF TypeCorrect
    <3>. QED
      BY <3>1
  <2>. QED
    BY <2>1 DEF Overstated
<1>6. Total(Gains) \in Int
  <2>. HIDE DEF Gains
  <2>. QED
    BY <1>3, SumIsInt, Constants DEF Total
<1>7. Total(Bound) \in Nat
  BY <1>4, TotalOfNat
<1>8. Uncounted \in Nat
  <2>. DEFINE rest == [g \in Games |->
           IF filled[g] > 0 \/ (g \in blind /\ lots[g] = 0) THEN Rest[g] ELSE 0]
  <2>1. rest \in [Games -> Nat]
    BY <1>1
  <2>. HIDE DEF rest
  <2>2. Total(rest) \in Nat
    BY <2>1, TotalOfNat
  <2>. QED
    BY <2>2 DEF Uncounted, rest
<1>. QED
  BY <1>1, <1>2, <1>3, <1>4, <1>5, <1>6, <1>7, <1>8 DEF Equity, TypeCorrect

Whole == TypeCorrect /\ \A g \in Games : filled[g] <= qty[g]
Terms == Gains \in [Games -> Int] /\ Bound \in [Games -> Nat]

\* The same of the state after a step.
LEMMA TermsNext == Whole' => Terms'
<1>1. Whole => Terms
  BY OperatorTypes DEF Whole, Terms
<1>. QED
  BY <1>1, PTL

LEMMA LotTypes ==
  ASSUME TypeCorrect, NEW held \in [Games -> Nat], NEW local \in [Games -> Nat], NEW fresh, NEW S
  PROVE  Reconciled(held, local, fresh, S) \in [Games -> Nat]
  BY DEF Reconciled

LEMMA TrackedTypes ==
  ASSUME TypeCorrect, NEW who
  PROVE  Tracked(who) \in [Games -> Nat]
  BY DEF Tracked, TypeCorrect

LEMMA StatusTypes ==
  ASSUME NEW g
  PROVE  OrderStatus(g) \in Statuses
  BY DEF OrderStatus, Statuses

\* A look-up changes what rows, counts and statuses say, and nothing else of them.
LEMMA FoundTypes ==
  ASSUME TypeCorrect, NEW who, Found(who)
  PROVE  row' \in [Games -> Rows] /\ known' \in [Games -> Nat] /\ status' \in [Games -> Statuses]
  BY StatusTypes DEF Found, TypeCorrect, Rows

LEMMA CallTypes ==
  ASSUME TypeCorrect, NEW asked, NEW who, CallFault(asked, who)
  PROVE  faults' \in Nat
  BY DEF CallFault, TypeCorrect

LEMMA ExposureIsNat ==
  ASSUME NEW held \in [Games -> Nat], NEW local \in [Games -> Nat]
  PROVE  Exposure(held, local) \in Nat
<1>. DEFINE cost == [g \in Games |-> IF held[g] > 0 THEN held[g] * Paid[g] ELSE local[g] * Limit]
<1>1. ASSUME NEW g \in Games PROVE held[g] * Paid[g] \in Nat /\ local[g] * Limit \in Nat
  BY Constants, Costs, Products
<1>2. cost \in [Games -> Nat]
  BY <1>1
<1>. HIDE DEF cost
<1>3. Total(cost) \in Nat
  BY <1>2, TotalOfNat
<1>. QED
  BY <1>3 DEF Exposure, cost

LEMMA RaisedIsNat ==
  ASSUME TypeCorrect, NEW equity \in Int
  PROVE  Raised(equity) \in Nat
  BY DEF Raised, Greatest, TypeCorrect

LEMMA SharesAreInt ==
  ASSUME NEW equity \in Int
  PROVE  SharesFor(equity) \in Nat
<1>1. CASE equity <= 0
  BY <1>1 DEF SharesFor
<1>2. CASE equity > 0
  <2>1. equity * Fraction \in Nat
    BY <1>2, Constants, Products
  <2>2. 100 * Ask \in Nat /\ 100 * Ask > 0
    BY Constants
  <2>. QED
    BY <1>2, <2>1, <2>2 DEF SharesFor
<1>. QED
  BY <1>1, <1>2

\* cap_shares: what it allows is a count, within what the cap leaves.
LEMMA CapHolds ==
  ASSUME NEW shares \in Int, NEW balance \in Int, NEW equity \in Int, NEW cost \in Nat
  PROVE  LET n == CapShares(shares, balance, equity, cost)
         IN  /\ n \in Nat
             /\ n > 0 => 100 * (n * Limit) <= equity * MaxExposure - 100 * cost
<1>. DEFINE room == equity * MaxExposure - 100 * cost
            headroom == Greatest(room, 0)
            most == headroom \div (100 * Limit)
            cover == balance \div Limit
            n == CapShares(shares, balance, equity, cost)
<1>1. room \in Int
  BY Constants
<1>. HIDE DEF room
<1>2. headroom \in Nat /\ (headroom > 0 => headroom = room)
  BY <1>1 DEF Greatest
<1>3. 100 * Limit \in Nat /\ 100 * Limit > 0
  BY Constants
<1>. HIDE DEF headroom
<1>4. most \in Nat /\ most * (100 * Limit) <= headroom
  BY <1>2, <1>3
<1>5. cover \in Int
  BY Constants
<1>. HIDE DEF most, cover
<1>6. n = Greatest(Least(shares, Least(cover, most)), 0)
  BY DEF n, CapShares, headroom, room, most, cover
<1>7. n \in Nat /\ (n > 0 => n <= most)
  BY <1>4, <1>5, <1>6 DEF Greatest, Least
<1>. HIDE DEF n
<1>8. ASSUME n > 0 PROVE 100 * (n * Limit) <= room
  <2>1. n <= most
    BY <1>7, <1>8
  <2>2. n * (100 * Limit) <= most * (100 * Limit)
    BY <1>3, <1>4, <1>7, <2>1
  <2>3. n * (100 * Limit) > 0
    BY <1>3, <1>7, <1>8
  <2>4. n * (100 * Limit) = 100 * (n * Limit)
    BY <1>7, Constants
  <2>. QED
    BY <1>1, <1>2, <1>3, <1>4, <1>7, <2>2, <2>3, <2>4
<1>. QED
  BY <1>7, <1>8 DEF n, room

\* What an evaluation would buy is a count, and within what the cap leaves.
LEMMA SharesAreCapped ==
  ASSUME TypeCorrect, NEW g \in Games
  PROVE  /\ Shares(g) \in Nat
         /\ Shares(g) > 0 =>
               /\ eval[g].step = "order" /\ lots[g] = 0
               /\ 100 * (Shares(g) * Limit) <= eval[g].equity * MaxExposure - 100 * eval[g].cost
<1>. DEFINE e == eval[g]
            n == CapShares(SharesFor(e.equity), e.balance, e.equity, e.cost)
<1>1. e.equity \in Int /\ e.balance \in Int /\ e.cost \in Nat
  BY DEF TypeCorrect, Evals
<1>2. SharesFor(e.equity) \in Int
  BY <1>1, SharesAreInt
<1>3. n \in Nat /\ (n > 0 => 100 * (n * Limit) <= e.equity * MaxExposure - 100 * e.cost)
  <2>. HIDE DEF e
  <2>. QED
    BY <1>1, <1>2, CapHolds
<1>4. Shares(g) = IF e.step = "order" /\ lots[g] = 0 THEN n ELSE 0
  BY DEF Shares
<1>. HIDE DEF n
<1>. QED
  BY <1>3, <1>4

-----------------------------------------------------------------------------
(* Every step keeps the types.                                             *)

LEMMA Blanks ==
  /\ NoEval \in Evals /\ [NoEval EXCEPT !.step = "done"] \in Evals
  /\ NoPass \in Passes /\ [NoPass EXCEPT !.step = "fills"] \in Passes
  /\ [NoPass EXCEPT !.step = "recover"] \in Passes
<1>1. NoEval \in Evals /\ [NoEval EXCEPT !.step = "done"] \in Evals
  BY DEF NoEval, Evals
<1>2. NoPass \in Passes
  BY DEF NoPass, Passes
<1>3. [NoPass EXCEPT !.step = "fills"] \in Passes /\ [NoPass EXCEPT !.step = "recover"] \in Passes
  BY <1>2 DEF Passes
<1>. QED
  BY <1>1, <1>2, <1>3

LEMMA TypesInit == Init => TypeCorrect
  BY Constants, Blanks DEF Init, TypeCorrect, Rows, Statuses

\* The steps an evaluation takes.
LEMMA StepTypes ==
  ASSUME TypeCorrect, NEW g \in Games
  PROVE  /\ Done(g) => eval' \in [Games -> Evals] /\ lock' \in Games \cup {Free}
         /\ eval' = [eval EXCEPT ![g].step = "placed"] => eval' \in [Games -> Evals]
         /\ eval' = [eval EXCEPT ![g].step = "lookup"] => eval' \in [Games -> Evals]
<1>1. Done(g) => eval' \in [Games -> Evals] /\ lock' \in Games \cup {Free}
  BY Blanks DEF Done, TypeCorrect
<1>2. ASSUME NEW step \in {"placed", "lookup"}, eval' = [eval EXCEPT ![g].step = step]
      PROVE  eval' \in [Games -> Evals]
  <2>1. [eval[g] EXCEPT !.step = step] \in Evals /\ eval \in [Games -> Evals]
    BY DEF TypeCorrect, Evals
  <2>2. eval' = [eval EXCEPT ![g] = [eval[g] EXCEPT !.step = step]]
    BY <1>2
  <2>. QED
    BY <2>1, <2>2
<1>. QED
  BY <1>1, <1>2

LEMMA KalshiTypes ==
  ASSUME TypeCorrect, \A g \in Games : filled[g] <= qty[g],
         NEW g \in Games, Exchange(g)
  PROVE  TypeCorrect'
<1>. USE DEF TypeCorrect
<1>1. CASE Fill(g)
  <2>1. PICK n \in 1 .. qty[g] - filled[g] :
          /\ filled' = [filled EXCEPT ![g] = @ + n]
          /\ cash' = cash + n * (Limit - Paid[g]) - n * Fee[Paid[g]]
    BY <1>1 DEF Fill
  <2>2. n \in Nat
    OBVIOUS
  <2>3. n * (Limit - Paid[g]) \in Int /\ n * Fee[Paid[g]] \in Int
    BY <2>2, Constants, Costs
  <2>4. cash' \in Int /\ filled' \in [Games -> Nat]
    BY <2>1, <2>2, <2>3
  <2>. QED
    BY <1>1, <2>4 DEF Fill, ledger, ghosts
<1>2. CASE TipOff(g)
  <2>1. (qty[g] - filled[g]) * Limit \in Int
    BY Constants
  <2>2. cash' \in Int
    BY <1>2, <2>1 DEF TipOff
  <2>. QED
    BY <1>2, <2>2 DEF TipOff, ledger, ghosts
<1>3. CASE Resolve(g)
  <2>1. filled[g] * Payout \in Int
    BY Constants
  <2>2. cash' \in Int
    BY <1>3, <2>1 DEF Resolve
  <2>3. phase' \in [Games -> {"before", "played", "won", "lost"}]
    BY <1>3 DEF Resolve
  <2>. QED
    BY <1>3, <2>2, <2>3 DEF Resolve, ledger, ghosts
<1>. QED
  BY <1>1, <1>2, <1>3 DEF Exchange

LEMMA ReadBalanceTypes ==
  ASSUME TypeCorrect, \A g \in Games : filled[g] <= qty[g], NEW g \in Games, ReadBalance(g)
  PROVE  TypeCorrect'
<1>1. Equity \in Int /\ cash \in Int /\ eval \in [Games -> Evals]
  BY OperatorTypes DEF TypeCorrect
<1>2. eval' = [eval EXCEPT ![g] = [eval[g] EXCEPT !.step = "positions", !.balance = cash,
                                                  !.truth = Equity]]
  BY DEF ReadBalance, TypeCorrect, Evals
<1>3. [eval[g] EXCEPT !.step = "positions", !.balance = cash, !.truth = Equity] \in Evals
  BY <1>1 DEF Evals
<1>4. eval' \in [Games -> Evals]
  BY <1>1, <1>2, <1>3
<1>. QED
  BY <1>4 DEF ReadBalance, kalshi, ledger, ghosts, TypeCorrect

LEMMA PriceTypes ==
  ASSUME TypeCorrect, \A g \in Games : filled[g] <= qty[g], NEW g \in Games, Price(g)
  PROVE  TypeCorrect'
<1>. DEFINE cost == Exposure(Holding, lots')
            equity == eval[g].balance + cost
<1>1. Holding \in [Games -> Nat] /\ lots \in [Games -> Nat] /\ lots' = Reconciled(Holding, lots, {}, {})
  BY OperatorTypes DEF TypeCorrect, Price
<1>2. lots' \in [Games -> Nat]
  BY <1>1, LotTypes
<1>3. cost \in Nat
  BY <1>1, <1>2, ExposureIsNat
<1>4. PICK asked, who : CallFault(asked, who) /\ Found(who)
  BY DEF Price
<1>5. /\ row' \in [Games -> Rows] /\ known' \in [Games -> Nat] /\ status' \in [Games -> Statuses]
      /\ faults' \in Nat
  BY <1>4, FoundTypes, CallTypes
<1>6. peak' = Raised(equity)
  BY DEF Price
<1>7. \/ Done(g)
      \/ /\ eval' = [eval EXCEPT ![g].step = "order", ![g].equity = equity,
                                 ![g].cost = cost, ![g].uncounted = Uncounted]
         /\ UNCHANGED lock
  BY DEF Price
<1>. HIDE DEF cost
<1>8. equity \in Int /\ Uncounted \in Nat
  BY <1>3, OperatorTypes DEF TypeCorrect, Evals
<1>. HIDE DEF equity
<1>9. peak' \in Nat
  BY <1>6, <1>8, RaisedIsNat
<1>10. eval' \in [Games -> Evals] /\ lock' \in Games \cup {Free}
  <2>1. CASE Done(g)
    BY <2>1, StepTypes
  <2>2. CASE /\ eval' = [eval EXCEPT ![g].step = "order", ![g].equity = equity,
                                     ![g].cost = cost, ![g].uncounted = Uncounted]
             /\ UNCHANGED lock
    <3>1. eval \in [Games -> Evals]
      BY DEF TypeCorrect
    <3>2. eval' = [eval EXCEPT ![g] = [eval[g] EXCEPT !.step = "order", !.equity = equity,
                                       !.cost = cost, !.uncounted = Uncounted]]
      BY <2>2, <3>1 DEF Evals
    <3>3. [eval[g] EXCEPT !.step = "order", !.equity = equity, !.cost = cost,
                          !.uncounted = Uncounted] \in Evals
      BY <1>3, <1>8, <3>1 DEF Evals
    <3>. QED
      BY <2>2, <3>1, <3>2, <3>3 DEF TypeCorrect
  <2>. QED
    BY <1>7, <2>1, <2>2
<1>. QED
  BY <1>2, <1>5, <1>9, <1>10 DEF Price, kalshi, ghosts, TypeCorrect

LEMMA OrderTypes ==
  ASSUME TypeCorrect, NEW g \in Games, Order(g)
  PROVE  TypeCorrect'
<1>. DEFINE n == Shares(g)
<1>1. n \in Nat
  BY SharesAreCapped
<1>2. \/ qty' = [qty EXCEPT ![g] = n] /\ cash' = cash - n * Limit
      \/ UNCHANGED <<qty, cash>>
  BY DEF Order
<1>. HIDE DEF n
<1>3. qty' \in [Games -> Nat]
  BY <1>1, <1>2 DEF TypeCorrect
<1>4. cash' \in Int
  <2>1. n * Limit \in Int
    BY <1>1, Constants
  <2>. QED
    BY <1>2, <2>1 DEF TypeCorrect
<1>5. row' \in [Games -> Rows]
  BY DEF Order, TypeCorrect, Rows
<1>6. eval' \in [Games -> Evals] /\ lock' \in Games \cup {Free}
  BY StepTypes DEF Order, TypeCorrect
<1>. QED
  BY <1>3, <1>4, <1>5, <1>6 DEF Order, ghosts, TypeCorrect

LEMMA EvaluationTypes ==
  ASSUME TypeCorrect, \A g \in Games : filled[g] <= qty[g],
         NEW g \in Games, Evaluate(g) \/ ConfirmFill(g)
  PROVE  TypeCorrect'
<1>1. CASE GiveUp(g)
  BY <1>1, StepTypes DEF GiveUp, kalshi, ledger, ghosts, TypeCorrect
<1>2. CASE Again(g)
  BY <1>2, StepTypes DEF Again, kalshi, ledger, ghosts, TypeCorrect
<1>3. CASE AddLot(g)
  <2>1. lots' \in [Games -> Nat]
    BY <1>3 DEF AddLot, TypeCorrect
  <2>. QED
    BY <1>3, <2>1, StepTypes DEF AddLot, kalshi, ledger, ghosts, TypeCorrect
<1>4. CASE Lookup(g)
  <2>1. /\ row' \in [Games -> Rows] /\ known' \in [Games -> Nat]
        /\ status' \in [Games -> Statuses] /\ lots' \in [Games -> Nat]
    <3>1. CASE Found({g}) /\ lots' = Tracked({g})
      BY <3>1, FoundTypes, TrackedTypes
    <3>2. CASE UNCHANGED <<row, known, status, lots>>
      BY <3>2 DEF TypeCorrect
    <3>. QED
      BY <1>4, <3>1, <3>2 DEF Lookup
  <2>2. faults' \in Nat /\ blind' \in SUBSET Games
    BY <1>4 DEF Lookup, Fault, TypeCorrect
  <2>. QED
    BY <1>4, <2>1, <2>2, StepTypes DEF Lookup, kalshi, TypeCorrect
<1>5. CASE ConfirmFill(g)
  <2>1. lots' \in [Games -> Nat]
    <3>1. Holding \in [Games -> Nat] /\ lots \in [Games -> Nat]
      BY OperatorTypes DEF TypeCorrect
    <3>. QED
      BY <1>5, <3>1, LotTypes DEF ConfirmFill
  <2>2. PICK n \in Counts(g) : CountFault(g, n) /\ known' = [known EXCEPT ![g] = n]
    BY <1>5 DEF ConfirmFill
  <2>3. n \in Nat /\ faults' \in Nat
    BY <2>2 DEF Counts, CountFault, TypeCorrect
  <2>4. known' \in [Games -> Nat]
    BY <2>2, <2>3 DEF TypeCorrect
  <2>5. status' \in [Games -> Statuses]
    BY <1>5, StatusTypes DEF ConfirmFill, TypeCorrect
  <2>. QED
    BY <1>5, <2>1, <2>3, <2>4, <2>5 DEF ConfirmFill, kalshi, ghosts, TypeCorrect
<1>. QED
  BY <1>1, <1>2, <1>3, <1>4, <1>5, ReadBalanceTypes, PriceTypes, OrderTypes DEF Evaluate

\* What is booked is a number.
LEMMA BookTypes ==
  ASSUME TypeCorrect, NEW g \in Games, NEW n \in Nat, NEW p \in Nat, Fee[p] \in Nat, Book(g, n, p)
  PROVE  row' \in [Games -> Rows] /\ pnl' \in [Games -> Int]
<1>1. n * Payout \in Int /\ n * (p + Fee[p]) \in Int
  BY Constants
<1>. QED
  BY <1>1 DEF Book, TypeCorrect, Rows

LEMMA SettleTypes ==
  ASSUME TypeCorrect, NEW g \in Games, NotYet(g) \/ SettleFromFills(g) \/ SettleFromOrder(g)
  PROVE  TypeCorrect'
<1>1. ASSUME health' = [health EXCEPT !.todo = @ \ {g}] PROVE health' \in Passes
  BY <1>1 DEF Passes, TypeCorrect
<1>2. CASE NotYet(g)
  <2>1. health' \in Passes
    BY <1>1, <1>2 DEF NotYet
  <2>. QED
    BY <1>2, <2>1 DEF NotYet, Fault, kalshi, ledger, ghosts, TypeCorrect
<1>3. CASE SettleFromFills(g)
  <2>1. PICK n \in Counts(g) :
          /\ CountFault(g, n)
          /\ IF n > stored[g] THEN UNCHANGED <<row, pnl, short>>
             ELSE /\ Book(g, stored[g], Paid[g])
                  /\ short' = IF stored[g] = filled[g] THEN short ELSE short \cup {g}
    BY <1>3 DEF SettleFromFills
  <2>2. faults' \in Nat /\ short' \in SUBSET Games
    BY <2>1 DEF CountFault, TypeCorrect
  <2>3. stored[g] \in Nat /\ Paid[g] \in Nat /\ Fee[Paid[g]] \in Nat
    BY Costs DEF TypeCorrect
  <2>4. row' \in [Games -> Rows] /\ pnl' \in [Games -> Int]
    <3>1. CASE n > stored[g]
      BY <2>1, <3>1 DEF TypeCorrect
    <3>2. CASE ~(n > stored[g])
      BY <2>1, <2>3, <3>2, BookTypes
    <3>. QED
      BY <3>1, <3>2
  <2>5. health' = [health EXCEPT !.todo = @ \ {g}]
        /\ UNCHANGED <<kalshi, known, status, stored, lots, peak, lock, eval, estimated, blind>>
    BY <1>3 DEF SettleFromFills, Resolvable
  <2>. QED
    BY <1>1, <2>2, <2>4, <2>5 DEF kalshi, TypeCorrect
<1>4. CASE SettleFromOrder(g)
  <2>1. \/ \E n \in Counts(g) :
             /\ CountFault(g, n)
             /\ known' = [known EXCEPT ![g] = n]
             /\ status' = [status EXCEPT ![g] = OrderStatus(g)]
        \/ Fault /\ UNCHANGED <<known, status>>
    BY <1>4 DEF SettleFromOrder
  <2>2. /\ faults' \in Nat /\ known' \in [Games -> Nat] /\ status' \in [Games -> Statuses]
    <3>1. CASE Fault /\ UNCHANGED <<known, status>>
      BY <3>1 DEF Fault, TypeCorrect
    <3>2. CASE \E n \in Counts(g) :
                 /\ CountFault(g, n)
                 /\ known' = [known EXCEPT ![g] = n]
                 /\ status' = [status EXCEPT ![g] = OrderStatus(g)]
      <4>1. PICK n \in Counts(g) :
               /\ CountFault(g, n)
               /\ known' = [known EXCEPT ![g] = n]
               /\ status' = [status EXCEPT ![g] = OrderStatus(g)]
        BY <3>2
      <4>2. n \in Nat
        BY DEF Counts, TypeCorrect
      <4>. QED
        BY <4>1, <4>2, StatusTypes DEF CountFault, TypeCorrect
    <3>. QED
      BY <2>1, <3>1, <3>2
  <2>3. known'[g] \in Nat
    BY <2>2
  <2>4. BookEstimate(g, known'[g], status'[g])
    BY <1>4 DEF SettleFromOrder
  <2>5. /\ row' \in [Games -> Rows] /\ pnl' \in [Games -> Int]
        /\ short' \in SUBSET Games /\ estimated' \in SUBSET Games
    <3>1. CASE UNCHANGED <<row, pnl, short, estimated>>
      BY <3>1 DEF TypeCorrect
    <3>2. CASE /\ Book(g, known'[g], Limit)
               /\ estimated' = estimated \cup {g}
               /\ short' = IF known'[g] = filled[g] THEN short ELSE short \cup {g}
      <4>1. Limit \in Nat /\ Fee[Limit] \in Nat
        BY Constants, Costs
      <4>2. row' \in [Games -> Rows] /\ pnl' \in [Games -> Int]
        BY <2>3, <3>2, <4>1, BookTypes
      <4>. QED
        BY <3>2, <4>2 DEF TypeCorrect
    <3>. QED
      BY <2>4, <3>1, <3>2 DEF BookEstimate
  <2>6. health' = [health EXCEPT !.todo = @ \ {g}]
        /\ UNCHANGED <<kalshi, stored, lots, peak, lock, eval, blind>>
    BY <1>4 DEF SettleFromOrder, Resolvable
  <2>. QED
    BY <1>1, <2>2, <2>5, <2>6 DEF kalshi, TypeCorrect
<1>. QED
  BY <1>2, <1>3, <1>4

LEMMA HealthTypes ==
  ASSUME TypeCorrect, \A g \in Games : stored[g] <= filled[g] /\ filled[g] <= qty[g],
         HealthStep \/ Recover \/ Crash
  PROVE  TypeCorrect'
<1>1. CASE HealthBalance
  <2>1. [NoPass EXCEPT !.step = "lock", !.balance = cash] \in Passes
    BY DEF NoPass, Passes, TypeCorrect
  <2>. QED
    BY <1>1, <2>1 DEF HealthBalance, kalshi, ledger, ghosts, TypeCorrect
<1>2. CASE HealthSkips
  BY <1>2, Blanks DEF HealthSkips, Fault, kalshi, ledger, ghosts, TypeCorrect
<1>3. CASE HealthPositions
  <2>1. PICK who : /\ CallFault(Lost, who) /\ Found(who)
                   /\ lots' = Reconciled(Holding, Tracked(who), who, {})
    BY <1>3 DEF HealthPositions
  <2>2. lots' \in [Games -> Nat] /\ Holding \in [Games -> Nat]
    <3>1. Holding \in [Games -> Nat] /\ Tracked(who) \in [Games -> Nat]
      BY OperatorTypes, TrackedTypes
    <3>. QED
      BY <2>1, <3>1, LotTypes
  <2>3. health' \in Passes
    BY <1>3, <2>2 DEF HealthPositions, Passes, TypeCorrect
  <2>. QED
    BY <1>3, <2>1, <2>2, <2>3, FoundTypes, CallTypes DEF HealthPositions, kalshi, ghosts, TypeCorrect
<1>4. CASE HealthEquity
  <2>1. health.held \in [Games -> Nat] /\ lots \in [Games -> Nat] /\ health.balance \in Int
    BY DEF TypeCorrect, Passes
  <2>2. Exposure(health.held, lots) \in Nat
    BY <2>1, ExposureIsNat
  <2>3. health.balance + Exposure(health.held, lots) \in Int
    BY <2>1, <2>2
  <2>4. peak' \in Nat
    BY <1>4, <2>3, RaisedIsNat DEF HealthEquity
  <2>. QED
    BY <1>4, <2>4, Blanks DEF HealthEquity, kalshi, ledger, ghosts, TypeCorrect
<1>5. CASE SyncFills
  <2>1. stored' \in [Games -> Nat] /\ faults' \in Nat
    BY <1>5 DEF SyncFills, Fault, TypeCorrect
  <2>2. PICK theirs \in SUBSET Games :
          /\ row' = [g \in Games |-> IF g \in theirs THEN "open" ELSE row[g]]
          /\ known' = [g \in Games |-> IF g \in theirs THEN stored'[g] ELSE known[g]]
          /\ health' = [health EXCEPT !.step = "settle", !.synced = TRUE,
                                      !.todo = Open \cup theirs]
    BY <1>5 DEF SyncFills, Lost
  <2>3. row' \in [Games -> Rows] /\ known' \in [Games -> Nat]
    BY <2>1, <2>2 DEF TypeCorrect, Rows
  <2>4. health' \in Passes
    BY <2>2 DEF Open, Passes, TypeCorrect
  <2>. QED
    BY <1>5, <2>1, <2>3, <2>4 DEF SyncFills, kalshi, ghosts, TypeCorrect
<1>6. CASE SyncFails
  <2>1. health' \in Passes
    BY <1>6 DEF SyncFails, Open, Passes, TypeCorrect
  <2>. QED
    BY <1>6, <2>1 DEF SyncFails, Fault, kalshi, ledger, ghosts, TypeCorrect
<1>7. CASE HealthEnds
  BY <1>7, Blanks DEF HealthEnds, kalshi, ledger, ghosts, TypeCorrect
<1>8. CASE Crash
  <2>1. eval' \in [Games -> Evals] /\ blind' \in SUBSET Games /\ faults' \in Nat
    BY <1>8, Blanks DEF Crash, Fault, TypeCorrect
  <2>. QED
    BY <1>8, <2>1, Blanks DEF Crash, kalshi, ledger, TypeCorrect
<1>9. CASE Recover
  <2>1. PICK who : CallFault(Lost, who) /\ Found(who) /\ lots' = Tracked(who)
    BY <1>9 DEF Recover
  <2>. QED
    BY <1>9, <2>1, FoundTypes, CallTypes, TrackedTypes, Blanks DEF Recover, kalshi, ghosts, TypeCorrect
<1>. QED
  BY <1>1, <1>2, <1>3, <1>4, <1>5, <1>6, <1>7, <1>8, <1>9, SettleTypes DEF HealthStep

LEMMA TypesStep ==
  ASSUME TypeCorrect, Books, [Next]_vars
  PROVE  TypeCorrect'
<1>1. \A g \in Games : stored[g] <= filled[g] /\ filled[g] <= qty[g]
  BY DEF Books, RowTells
<1>2. CASE HealthStep \/ Crash \/ Recover
  BY <1>1, <1>2, HealthTypes
<1>3. CASE \E g \in Games : Evaluate(g) \/ ConfirmFill(g) \/ Exchange(g)
  BY <1>1, <1>3, EvaluationTypes, KalshiTypes
<1>4. CASE UNCHANGED vars
  BY <1>4 DEF vars, kalshi, ledger, ghosts, TypeCorrect
<1>. QED
  BY <1>2, <1>3, <1>4 DEF Next

-----------------------------------------------------------------------------
(* Every step keeps the books.                                             *)

\* A step that changes the gain of one game changes the sum of the gains by as much.
LEMMA GainsMove ==
  ASSUME Whole, Whole', NEW g \in Games, \A x \in Games : x # g => Gain(x)' = Gain(x)
  PROVE  Total(Gains') = Total(Gains) + (Gain(g)' - Gain(g))
<1>1. Gains \in [Games -> Int] /\ Gains' \in [Games -> Int]
  BY OperatorTypes, TermsNext DEF Whole, Terms
<1>2. Gains'[g] = Gain(g)' /\ Gains[g] = Gain(g)
  BY DEF Gains
<1>3. \A x \in Games : x # g => Gains'[x] = Gains[x]
  BY DEF Gains
<1>. HIDE DEF Gains
<1>4. SumFunction(Gains') = SumFunction(Gains) + (Gains'[g] - Gains[g])
  BY <1>1, <1>3, SumChanges, Constants
<1>. QED
  BY <1>2, <1>4 DEF Total

\* Where Kalshi's side is left alone and nothing is booked, the books are.
LEMMA BooksStay ==
  ASSUME TypeCorrect, Books,
         UNCHANGED kalshi, UNCHANGED <<pnl, short, estimated>>,
         \A g \in Games : stored'[g] <= filled[g],
         \A g \in Games : row'[g] = row[g] \/ (row[g] # "settled" /\ row'[g] \notin {"settled", "none"})
  PROVE  Books'
<1>1. cash' = StartCash + Total(Gains')
  BY DEF Books, Gains, Gain, Rest, kalshi
<1>2. ASSUME NEW g \in Games PROVE RowTells(g)'
  <2>1. RowTells(g)
    BY DEF Books
  <2>2. Gain(g)' = Gain(g) /\ Overstated'[g] = Overstated[g]
    BY DEF Gain, Rest, Overstated, kalshi
  <2>. QED
    BY <2>1, <2>2 DEF RowTells, kalshi
<1>. QED
  BY <1>1, <1>2 DEF Books

\* A look-up turns a row that was not settled into an open one.
LEMMA FoundStays ==
  ASSUME TypeCorrect, NEW who, Found(who)
  PROVE  \A g \in Games : row'[g] = row[g] \/ (row[g] # "settled" /\ row'[g] \notin {"settled", "none"})
  BY DEF Found, TypeCorrect

\* A settled row books what the game has made at the price p of its contracts, or the game is
\* short.  A row booked at the limit price is an estimate.
LEMMA BooksBook ==
  ASSUME TypeCorrect, Books, NEW g \in Games, NEW n \in Nat, NEW p \in Nat, Fee[p] \in Nat,
         phase[g] \in Ended, row[g] # "settled", Book(g, n, p),
         short \subseteq short', short' \subseteq short \cup {g}, n # filled[g] => g \in short',
         \/ p = Paid[g] /\ estimated' = estimated
         \/ p = Limit /\ estimated' = estimated \cup {g},
         UNCHANGED kalshi, UNCHANGED stored
  PROVE  Books'
<1>1. cash' = StartCash + Total(Gains')
  BY DEF Books, Gains, Gain, Rest, kalshi
<1>2. ASSUME NEW x \in Games, x # g PROVE RowTells(x)'
  <2>1. RowTells(x) /\ Gain(x)' = Gain(x)
    BY DEF Books, Gain, Rest, kalshi
  <2>2. /\ row'[x] = row[x] /\ pnl'[x] = pnl[x]
        /\ (x \in short' <=> x \in short) /\ (x \in estimated' <=> x \in estimated)
    BY <1>2 DEF Book, TypeCorrect
  <2>3. Overstated'[x] = Overstated[x]
    BY <2>2 DEF Overstated, kalshi
  <2>. QED
    BY <2>1, <2>2, <2>3 DEF RowTells, kalshi
<1>3. RowTells(g)'
  <2>1. RowTells(g) /\ Gain(g)' = Gain(g) /\ g \notin estimated
    BY DEF Books, RowTells, Gain, Rest, kalshi
  <2>2. row'[g] = "settled" /\ qty[g] > 0
    BY <2>1 DEF Book, TypeCorrect, RowTells
  <2>3. ASSUME g \notin short' PROVE pnl'[g] + Overstated'[g] = Gain(g)
    <3>1. /\ n = filled[g] /\ filled[g] \in Nat
          /\ Paid[g] \in Nat /\ Fee[Paid[g]] \in Nat /\ Fee[Limit] \in Nat /\ Limit \in Nat
      BY <2>3, Costs, Constants DEF TypeCorrect
    <3>. DEFINE won == IF phase[g] = "won" THEN filled[g] * Payout ELSE 0
    <3>2. won \in Int
      BY <3>1, Constants
    <3>3. pnl'[g] = won - n * (p + Fee[p])
      BY <3>1 DEF Book, TypeCorrect
    <3>4. Rest[g] = 0
      BY DEF Rest, Ended
    <3>5. Gain(g) = won - filled[g] * Spent(g) - 0
      BY <3>4 DEF Gain
    <3>. HIDE DEF won
    <3>6. CASE p = Paid[g] /\ estimated' = estimated
      <4>1. Overstated'[g] = 0
        BY <2>1, <3>6 DEF Overstated
      <4>2. n * (p + Fee[p]) = filled[g] * Spent(g) /\ filled[g] * Spent(g) \in Int
        BY <3>1, <3>6, Costs DEF Spent
      <4>. QED
        BY <3>2, <3>3, <3>5, <4>1, <4>2
    <3>7. CASE p = Limit /\ estimated' = estimated \cup {g}
      <4>. DEFINE a == Limit + Fee[Limit]
                  b == Spent(g)
      <4>1. Overstated'[g] = filled[g] * (a - b)
        BY <3>7 DEF Overstated, Spent, kalshi
      <4>2. a \in Int /\ b \in Int /\ p + Fee[p] = a
        BY <3>1, <3>7, Costs
      <4>. HIDE DEF a, b
      <4>3. /\ filled[g] * (a - b) = filled[g] * a - filled[g] * b
            /\ filled[g] * a \in Int /\ filled[g] * b \in Int
        BY <3>1, <4>2
      <4>4. pnl'[g] = won - filled[g] * a /\ Gain(g) = won - filled[g] * b - 0
        BY <3>1, <3>3, <3>5, <4>2 DEF b
      <4>. QED
        BY <3>2, <4>1, <4>3, <4>4
    <3>. QED
      BY <3>6, <3>7
  <2>. QED
    BY <2>1, <2>2, <2>3 DEF RowTells, kalshi
<1>. QED
  BY <1>1, <1>2, <1>3 DEF Books

LEMMA BooksExchange ==
  ASSUME TypeCorrect, TypeCorrect', Books, NEW g \in Games, Exchange(g)
  PROVE  Books'
<1>1. /\ qty[g] \in Nat /\ filled[g] \in Nat /\ cash \in Int
      /\ filled[g] <= qty[g] /\ RowTells(g) /\ Total(Gains) \in Int
      /\ cash = StartCash + Total(Gains)
  BY OperatorTypes DEF Books, RowTells, TypeCorrect
<1>2. Gain(g) \in Int
  BY OperatorTypes DEF Gains, Books, RowTells
<1>3. /\ UNCHANGED qty /\ UNCHANGED ledger /\ UNCHANGED ghosts
      /\ \A x \in Games : x # g => filled'[x] = filled[x] /\ phase'[x] = phase[x]
  BY DEF Exchange, Fill, TipOff, Resolve, TypeCorrect
<1>4. \A x \in Games : x # g => Gain(x)' = Gain(x) /\ Overstated'[x] = Overstated[x]
  BY <1>3 DEF Gain, Rest, Overstated, ghosts
<1>. DEFINE c == Spent(g)
            d == Limit
<1>5. c \in Int /\ d \in Int /\ Paid[g] \in Int /\ Fee[Paid[g]] \in Int /\ c = Paid[g] + Fee[Paid[g]]
  BY Costs, Constants DEF Spent
<1>6. /\ filled[g] <= filled'[g] /\ filled'[g] <= qty'[g] /\ filled'[g] \in Nat
      /\ phase[g] \notin Ended
      /\ phase'[g] \in Ended => qty'[g] > 0
      /\ cash' = cash + (Gain(g)' - Gain(g))
  <2>1. CASE Fill(g)
    <3>1. PICK n \in 1 .. qty[g] - filled[g] :
            /\ filled' = [filled EXCEPT ![g] = @ + n]
            /\ cash' = cash + n * (Limit - Paid[g]) - n * Fee[Paid[g]]
      BY <2>1 DEF Fill
    <3>2. /\ filled'[g] = filled[g] + n /\ n \in Nat /\ n <= qty[g] - filled[g]
          /\ phase[g] = "before" /\ phase'[g] = "before" /\ qty'[g] = qty[g]
      BY <1>1, <2>1, <3>1 DEF Fill, TypeCorrect
    <3>3. /\ Gain(g) = 0 - filled[g] * c - (qty[g] - filled[g]) * d
          /\ Gain(g)' = 0 - (filled[g] + n) * c - (qty[g] - (filled[g] + n)) * d
      BY <3>2 DEF Gain, Rest, Spent
    <3>4. cash' = cash + n * (d - Paid[g]) - n * Fee[Paid[g]]
      BY <3>1
    <3>. HIDE DEF c, d
    <3>5. /\ (filled[g] + n) * c = filled[g] * c + n * c
          /\ (qty[g] - (filled[g] + n)) * d = (qty[g] - filled[g]) * d - n * d
          /\ n * (d - Paid[g]) = n * d - n * Paid[g]
          /\ n * c = n * Paid[g] + n * Fee[Paid[g]]
      BY <1>1, <1>5, <3>2
    <3>6. /\ filled[g] * c \in Int /\ n * c \in Int /\ (qty[g] - filled[g]) * d \in Int
          /\ n * d \in Int /\ n * Paid[g] \in Int /\ n * Fee[Paid[g]] \in Int
      BY <1>1, <1>5, <3>2
    <3>7. cash' = cash + (Gain(g)' - Gain(g))
      BY <1>1, <3>3, <3>4, <3>5, <3>6
    <3>. QED
      BY <1>1, <3>2, <3>7 DEF Ended
  <2>2. CASE TipOff(g)
    <3>1. /\ phase[g] = "before" /\ phase'[g] = "played" /\ filled'[g] = filled[g]
          /\ cash' = cash + (qty[g] - filled[g]) * d /\ qty'[g] = qty[g]
      BY <2>2 DEF TipOff, TypeCorrect
    <3>2. /\ Gain(g) = 0 - filled[g] * c - (qty[g] - filled[g]) * d
          /\ Gain(g)' = 0 - filled[g] * c - 0
      BY <3>1 DEF Gain, Rest, Spent
    <3>3. (qty[g] - filled[g]) * d \in Int /\ filled[g] * c \in Int
      BY <1>1, <1>5
    <3>. HIDE DEF c, d
    <3>4. cash' = cash + (Gain(g)' - Gain(g))
      BY <1>1, <3>1, <3>2, <3>3
    <3>. QED
      BY <1>1, <3>1, <3>4 DEF Ended
  <2>3. CASE Resolve(g)
    <3>1. PICK won \in BOOLEAN :
            /\ phase' = [phase EXCEPT ![g] = IF won THEN "won" ELSE "lost"]
            /\ cash' = cash + (IF won THEN filled[g] * Payout ELSE 0)
      BY <2>3 DEF Resolve
    <3>2. /\ phase[g] = "played" /\ qty[g] > 0 /\ filled'[g] = filled[g] /\ qty'[g] = qty[g]
          /\ phase'[g] = IF won THEN "won" ELSE "lost"
      BY <2>3, <3>1 DEF Resolve, TypeCorrect
    <3>3. /\ Gain(g) = 0 - filled[g] * c - 0
          /\ Gain(g)' = (IF won THEN filled[g] * Payout ELSE 0) - filled[g] * c - 0
      BY <3>2 DEF Gain, Rest, Spent
    <3>4. filled[g] * Payout \in Int /\ filled[g] * c \in Int
      BY <1>1, <1>5, Constants
    <3>. HIDE DEF c, d
    <3>5. cash' = cash + (Gain(g)' - Gain(g))
      BY <1>1, <3>1, <3>3, <3>4
    <3>. QED
      BY <1>1, <3>2, <3>5 DEF Ended
  <2>. QED
    BY <2>1, <2>2, <2>3 DEF Exchange
<1>. HIDE DEF c, d
<1>7. Whole /\ Whole'
  BY <1>3, <1>6 DEF Whole, Books, RowTells, TypeCorrect
<1>8. Total(Gains') = Total(Gains) + (Gain(g)' - Gain(g))
  BY <1>4, <1>7, GainsMove
<1>9. cash' = StartCash + Total(Gains')
  <2>1. Gain(g)' \in Int
    BY <1>7, TermsNext DEF Terms, Gains
  <2>. QED
    BY <1>1, <1>2, <1>6, <1>8, <2>1, Constants
<1>10. ASSUME NEW x \in Games PROVE RowTells(x)'
  <2>1. RowTells(x)
    BY DEF Books
  <2>2. CASE x = g
    BY <1>1, <1>3, <1>6, <2>1, <2>2 DEF RowTells, ledger, ghosts, TypeCorrect
  <2>3. CASE x # g
    BY <1>3, <1>4, <2>1, <2>3 DEF RowTells, ledger, ghosts
  <2>. QED
    BY <2>2, <2>3
<1>. QED
  BY <1>9, <1>10 DEF Books

LEMMA BooksOrder ==
  ASSUME TypeCorrect, TypeCorrect', Books, NEW g \in Games, Order(g)
  PROVE  Books'
<1>. DEFINE n == Shares(g)
<1>1. /\ n > 0 /\ n \in Nat /\ row[g] = "none"
      /\ UNCHANGED <<filled, phase, stored, pnl>> /\ UNCHANGED ghosts
  BY SharesAreCapped DEF Order
<1>2. \E r \in {"open", "unknown", "refused"} : row' = [row EXCEPT ![g] = r]
  BY DEF Order
<1>3. CASE UNCHANGED <<qty, cash>>
  <2>1. UNCHANGED kalshi /\ UNCHANGED <<pnl, short, estimated>>
    BY <1>1, <1>3 DEF kalshi, ghosts
  <2>2. \A x \in Games : stored'[x] <= filled[x]
    BY <1>1 DEF Books, RowTells
  <2>3. \A x \in Games : row'[x] = row[x] \/ (row[x] # "settled" /\ row'[x] \notin {"settled", "none"})
    BY <1>1, <1>2 DEF TypeCorrect
  <2>. QED
    BY <2>1, <2>2, <2>3, BooksStay
<1>4. CASE /\ phase[g] = "before"
           /\ qty' = [qty EXCEPT ![g] = n]
           /\ cash' = cash - n * Limit
  <2>. HIDE DEF n
  <2>1. /\ qty[g] = 0 /\ filled[g] = 0 /\ stored[g] = 0 /\ RowTells(g) /\ qty'[g] = n
        /\ cash = StartCash + Total(Gains) /\ Total(Gains) \in Int
    BY <1>1, <1>4, OperatorTypes DEF Books, RowTells, TypeCorrect
  <2>2. Whole /\ Whole'
    BY <1>1, <1>4, <2>1 DEF Whole, Books, RowTells, TypeCorrect
  <2>3. Gain(g) = 0 /\ Gain(g)' = -(n * Limit) /\ n * Limit \in Int
    <3>1. 0 * Spent(g) = 0 /\ (0 - 0) * Limit = 0 /\ (n - 0) * Limit = n * Limit /\ n * Limit \in Int
      BY <1>1, Costs, Constants
    <3>2. Gain(g) = 0 - 0 * Spent(g) - (0 - 0) * Limit /\ Gain(g)' = 0 - 0 * Spent(g) - (n - 0) * Limit
      BY <1>1, <1>4, <2>1 DEF Gain, Rest, Spent
    <3>. QED
      BY <3>1, <3>2
  <2>4. \A x \in Games : x # g => Gain(x)' = Gain(x)
    BY <1>1, <1>4 DEF Gain, Rest, TypeCorrect
  <2>5. Total(Gains') = Total(Gains) + (Gain(g)' - Gain(g))
    BY <2>2, <2>4, GainsMove
  <2>6. cash' = StartCash + Total(Gains')
    BY <1>4, <2>1, <2>3, <2>5, Constants DEF TypeCorrect
  <2>7. ASSUME NEW x \in Games PROVE RowTells(x)'
    <3>1. RowTells(x) /\ Overstated'[x] = Overstated[x]
      BY <1>1 DEF Books, Overstated, ghosts
    <3>2. CASE x = g
      BY <1>1, <1>2, <1>4, <2>1, <3>1, <3>2 DEF RowTells, TypeCorrect, Ended, ghosts
    <3>3. CASE x # g
      BY <1>1, <1>2, <1>4, <2>4, <3>1, <3>3 DEF RowTells, TypeCorrect, ghosts
    <3>. QED
      BY <3>2, <3>3
  <2>. QED
    BY <2>6, <2>7 DEF Books
<1>. QED
  BY <1>3, <1>4 DEF Order

\* What is left to settle is open.
LEMMA BooksSettle ==
  ASSUME TypeCorrect, Books, NEW g \in Games, SettleFromFills(g) \/ SettleFromOrder(g),
         Pending
  PROVE  Books'
<1>1. /\ phase[g] \in Ended /\ UNCHANGED kalshi /\ UNCHANGED stored /\ row[g] # "settled"
  BY DEF SettleFromFills, SettleFromOrder, Resolvable, Pending
<1>2. \A x \in Games : stored'[x] <= filled[x] /\ stored[x] \in Nat /\ filled[x] \in Nat
  BY <1>1 DEF Books, RowTells, TypeCorrect
<1>3. /\ Paid[g] \in Nat /\ Fee[Paid[g]] \in Nat /\ Limit \in Nat /\ Fee[Limit] \in Nat
  BY Costs, Constants
<1>4. CASE SettleFromFills(g)
  <2>1. PICK n \in Counts(g) :
          IF n > stored[g] THEN UNCHANGED <<row, pnl, short>>
          ELSE /\ Book(g, stored[g], Paid[g])
               /\ short' = IF stored[g] = filled[g] THEN short ELSE short \cup {g}
    BY <1>4 DEF SettleFromFills
  <2>2. UNCHANGED estimated
    BY <1>4 DEF SettleFromFills
  <2>3. CASE n > stored[g]
    BY <1>1, <1>2, <2>1, <2>2, <2>3, BooksStay
  <2>4. CASE ~(n > stored[g])
    <3>1. /\ Book(g, stored[g], Paid[g])
          /\ short' = IF stored[g] = filled[g] THEN short ELSE short \cup {g}
      BY <2>1, <2>4
    <3>. QED
      BY <1>1, <1>2, <1>3, <2>2, <3>1, BooksBook
  <2>. QED
    BY <2>3, <2>4
<1>5. CASE SettleFromOrder(g)
  <2>1. BookEstimate(g, known'[g], status'[g])
    BY <1>5 DEF SettleFromOrder
  <2>2. CASE UNCHANGED <<row, pnl, short, estimated>>
    BY <1>1, <1>2, <2>2, BooksStay
  <2>3. CASE /\ Book(g, known'[g], Limit)
             /\ estimated' = estimated \cup {g}
             /\ short' = IF known'[g] = filled[g] THEN short ELSE short \cup {g}
    <3>1. known'[g] \in Nat
      BY <1>2, <1>5 DEF SettleFromOrder, Counts, TypeCorrect
    <3>. QED
      BY <1>1, <1>3, <2>3, <3>1, BooksBook
  <2>. QED
    BY <2>1, <2>2, <2>3 DEF BookEstimate
<1>. QED
  BY <1>4, <1>5

LEMMA BooksInit == Init => Books /\ Pending
<1>. SUFFICES ASSUME Init PROVE Books /\ Pending
  OBVIOUS
<1>1. \A g \in Games : Gain(g) = 0
  <2>1. ASSUME NEW g \in Games PROVE 0 * Spent(g) = 0 /\ (0 - 0) * Limit = 0
    BY Costs, Constants
  <2>2. \A g \in Games : Gain(g) = 0 - 0 * Spent(g) - (0 - 0) * Limit
    BY DEF Init, Gain, Rest, Spent
  <2>. QED
    BY <2>1, <2>2
<1>2. Gains \in [Games -> Int] /\ \A g \in Games : Gains[g] = 0
  BY <1>1 DEF Gains
<1>3. Total(Gains) = 0
  <2>. HIDE DEF Gains
  <2>. QED
    BY <1>2, SumOfZeroes, Constants DEF Total
<1>4. \A g \in Games : RowTells(g)
  BY DEF Init, RowTells, Ended
<1>5. Pending
  BY DEF Init, Pending, NoPass
<1>. QED
  BY <1>3, <1>4, <1>5, Constants DEF Books, Init

LEMMA BooksStep ==
  ASSUME TypeCorrect, TypeCorrect', Books, Pending, [Next]_vars
  PROVE  Books'
<1>1. \A g \in Games : stored[g] <= filled[g] /\ filled[g] \in Nat
  BY DEF Books, RowTells, TypeCorrect
<1>2. CASE SyncFills
  <2>1. \A g \in Games : stored'[g] <= filled[g]
    BY <1>1, <1>2 DEF SyncFills, TypeCorrect
  <2>2. \A g \in Games : row'[g] = row[g] \/ (row[g] # "settled" /\ row'[g] \notin {"settled", "none"})
    BY <1>2 DEF SyncFills, Lost
  <2>. QED
    BY <1>2, <2>1, <2>2, BooksStay DEF SyncFills, ghosts
<1>3. CASE HealthBalance \/ HealthSkips \/ HealthEquity \/ SyncFails \/ HealthEnds \/ Crash
  BY <1>1, <1>3, BooksStay
     DEF HealthBalance, HealthSkips, HealthEquity, SyncFails, HealthEnds, Crash, ledger, ghosts
<1>4. CASE HealthPositions \/ Recover
  <2>1. PICK who : Found(who)
    BY <1>4 DEF HealthPositions, Recover
  <2>2. UNCHANGED kalshi /\ UNCHANGED <<stored, pnl>> /\ UNCHANGED ghosts
    BY <1>4 DEF HealthPositions, Recover
  <2>. QED
    BY <1>1, <2>1, <2>2, FoundStays, BooksStay DEF ghosts
<1>5. ASSUME NEW g \in Games, NotYet(g) PROVE Books'
  BY <1>1, <1>5, BooksStay DEF NotYet, ledger, ghosts
<1>6. ASSUME NEW g \in Games, SettleFromFills(g) \/ SettleFromOrder(g) PROVE Books'
  BY <1>6, BooksSettle
<1>7. ASSUME NEW g \in Games, ReadBalance(g) \/ GiveUp(g) \/ Again(g) \/ AddLot(g) PROVE Books'
  BY <1>1, <1>7, BooksStay DEF ReadBalance, GiveUp, Again, AddLot, ledger, ghosts
<1>8. ASSUME NEW g \in Games, Price(g) PROVE Books'
  <2>1. PICK who : Found(who)
    BY <1>8 DEF Price
  <2>2. UNCHANGED kalshi /\ UNCHANGED <<stored, pnl>> /\ UNCHANGED ghosts
    BY <1>8 DEF Price
  <2>. QED
    BY <1>1, <2>1, <2>2, FoundStays, BooksStay DEF ghosts
<1>9. ASSUME NEW g \in Games, Lookup(g) PROVE Books'
  <2>1. UNCHANGED kalshi /\ UNCHANGED <<stored, pnl, short, estimated>>
    BY <1>9 DEF Lookup
  <2>2. CASE Found({g})
    BY <1>1, <2>1, <2>2, FoundStays, BooksStay
  <2>3. CASE UNCHANGED row
    BY <1>1, <2>1, <2>3, BooksStay
  <2>. QED
    BY <1>9, <2>2, <2>3 DEF Lookup
<1>10. ASSUME NEW g \in Games, ConfirmFill(g) PROVE Books'
  BY <1>1, <1>10, BooksStay DEF ConfirmFill, ghosts
<1>11. ASSUME NEW g \in Games, Order(g) PROVE Books'
  BY <1>11, BooksOrder
<1>12. ASSUME NEW g \in Games, Exchange(g) PROVE Books'
  BY <1>12, BooksExchange
<1>13. CASE UNCHANGED vars
  BY <1>1, <1>13, BooksStay DEF vars, ledger, ghosts
<1>14. CASE HealthStep
  BY <1>2, <1>3, <1>4, <1>5, <1>6, <1>14 DEF HealthStep
<1>15. ASSUME NEW g \in Games, Evaluate(g) PROVE Books'
  BY <1>7, <1>8, <1>9, <1>11, <1>15 DEF Evaluate
<1>. QED
  BY <1>3, <1>4, <1>10, <1>12, <1>13, <1>14, <1>15 DEF Next

\* An open row stays open but for being settled, and then it is no longer left to settle.
LEMMA PendingStays ==
  ASSUME TypeCorrect, Pending,
         \A g \in Games : g \in health'.todo => g \in health.todo /\ (row[g] = "open" => row'[g] = "open")
  PROVE  Pending'
  BY DEF Pending

LEMMA PendingStep ==
  ASSUME TypeCorrect, Books, Pending, [Next]_vars
  PROVE  Pending'
<1>1. ASSUME NEW who, Found(who) PROVE \A g \in Games : row[g] = "open" => row'[g] = "open"
  BY <1>1 DEF Found
<1>2. CASE SyncFills \/ SyncFails
  <2>1. CASE SyncFills
    <3>1. PICK theirs \in SUBSET Games :
            /\ row' = [g \in Games |-> IF g \in theirs THEN "open" ELSE row[g]]
            /\ health' = [health EXCEPT !.step = "settle", !.synced = TRUE,
                                        !.todo = Open \cup theirs]
      BY <2>1 DEF SyncFills, Lost
    <3>2. health'.todo = Open \cup theirs
      BY <3>1 DEF TypeCorrect, Passes
    <3>. QED
      BY <3>1, <3>2 DEF Pending, Open
  <2>2. CASE SyncFails
    <3>1. health'.todo = Open /\ UNCHANGED row
      BY <2>2 DEF SyncFails, TypeCorrect, Passes, ledger
    <3>. QED
      BY <3>1 DEF Pending, Open
  <2>. QED
    BY <1>2, <2>1, <2>2
<1>3. CASE HealthBalance \/ HealthSkips \/ HealthEquity \/ HealthEnds \/ Crash
  <2>1. \/ health' = NoPass \/ (\E s : health' = [NoPass EXCEPT !.step = s])
        \/ (\E s, b : health' = [NoPass EXCEPT !.step = s, !.balance = b])
    BY <1>3 DEF HealthBalance, HealthSkips, HealthEquity, HealthEnds, Crash
  <2>2. health'.todo = {}
    <3>1. CASE health' = NoPass
      BY <3>1 DEF NoPass
    <3>2. CASE \E s : health' = [NoPass EXCEPT !.step = s]
      BY <3>2 DEF NoPass
    <3>3. CASE \E s, b : health' = [NoPass EXCEPT !.step = s, !.balance = b]
      BY <3>3 DEF NoPass
    <3>. QED
      BY <2>1, <3>1, <3>2, <3>3
  <2>. QED
    BY <2>2 DEF Pending
<1>4. CASE HealthPositions \/ Recover
  <2>1. PICK who : Found(who)
    BY <1>4 DEF HealthPositions, Recover
  <2>2. health'.todo \subseteq health.todo
    <3>1. CASE HealthPositions
      <4>1. health' = [health EXCEPT !.step = "equity", !.held = Holding]
        BY <3>1 DEF HealthPositions
      <4>. QED
        BY <4>1 DEF TypeCorrect, Passes
    <3>2. CASE Recover
      <4>1. health' = NoPass
        BY <3>2 DEF Recover
      <4>. QED
        BY <4>1 DEF NoPass
    <3>. QED
      BY <1>4, <3>1, <3>2
  <2>. QED
    BY <1>1, <2>1, <2>2, PendingStays
<1>5. ASSUME NEW g \in Games, NotYet(g) \/ SettleFromFills(g) \/ SettleFromOrder(g) PROVE Pending'
  <2>1. health' = [health EXCEPT !.todo = @ \ {g}]
    BY <1>5 DEF NotYet, SettleFromFills, SettleFromOrder, Resolvable
  <2>2. health'.todo = health.todo \ {g}
    BY <2>1 DEF TypeCorrect, Passes
  <2>3. \A x \in Games : x # g => row'[x] = row[x]
    <3>1. CASE NotYet(g)
      BY <3>1 DEF NotYet, ledger
    <3>2. CASE SettleFromFills(g)
      BY <3>2 DEF SettleFromFills, Book, TypeCorrect
    <3>3. CASE SettleFromOrder(g)
      BY <3>3 DEF SettleFromOrder, BookEstimate, Book, TypeCorrect
    <3>. QED
      BY <1>5, <3>1, <3>2, <3>3
  <2>. QED
    BY <2>2, <2>3, PendingStays
<1>6. ASSUME NEW g \in Games, ReadBalance(g) \/ GiveUp(g) \/ Again(g) \/ AddLot(g) \/ ConfirmFill(g)
                              \/ Exchange(g)
      PROVE  Pending'
  <2>1. UNCHANGED health /\ UNCHANGED row
    BY <1>6 DEF ReadBalance, GiveUp, Again, AddLot, ConfirmFill, Exchange, Fill, TipOff, Resolve, ledger
  <2>. QED
    BY <2>1, PendingStays
<1>7. ASSUME NEW g \in Games, Price(g) \/ Lookup(g) PROVE Pending'
  <2>1. UNCHANGED health
    BY <1>7 DEF Price, Lookup
  <2>2. \A x \in Games : row[x] = "open" => row'[x] = "open"
    <3>1. CASE Price(g)
      BY <1>1, <3>1 DEF Price
    <3>2. CASE Lookup(g)
      BY <1>1, <3>2 DEF Lookup
    <3>. QED
      BY <1>7, <3>1, <3>2
  <2>. QED
    BY <2>1, <2>2, PendingStays
<1>8. ASSUME NEW g \in Games, Order(g) PROVE Pending'
  <2>1. UNCHANGED health /\ row[g] = "none" /\ \A x \in Games : x # g => row'[x] = row[x]
    BY <1>8 DEF Order, TypeCorrect
  <2>. QED
    BY <2>1, PendingStays
<1>9. CASE UNCHANGED vars
  BY <1>9, PendingStays DEF vars, ledger
<1>10. CASE HealthStep
  BY <1>2, <1>3, <1>4, <1>5, <1>10 DEF HealthStep
<1>11. ASSUME NEW g \in Games, Evaluate(g) PROVE Pending'
  BY <1>6, <1>7, <1>8, <1>11 DEF Evaluate
<1>. QED
  BY <1>3, <1>4, <1>6, <1>9, <1>10, <1>11 DEF Next

LEMMA BooksAlways == Spec => [](TypeCorrect /\ Books /\ Pending)
<1>1. Init => TypeCorrect /\ Books /\ Pending
  BY TypesInit, BooksInit
<1>2. TypeCorrect /\ Books /\ Pending /\ [Next]_vars => (TypeCorrect /\ Books /\ Pending)'
  BY TypesStep, BooksStep, PendingStep
<1>. QED
  BY <1>1, <1>2, PTL DEF Spec

\* With every order Kalshi took settled, the cash, and what is still bound, is the cash there
\* was and the profit and loss booked in the ledger, but for what an estimate at the limit
\* price overstates (record_settlement_from_fills).
THEOREM BooksAreBalanced == Spec => []BooksBalance
<1>1. TypeCorrect /\ Books => BooksBalance
  <2>. SUFFICES ASSUME TypeCorrect, Books,
                       \A g \in Games : qty[g] > 0 => row[g] = "settled" /\ g \notin short
                PROVE  cash + Total(Bound) = StartCash + Total(pnl) + Total(Overstated)
    BY DEF BooksBalance
  <2>. DEFINE booked == [g \in Games |-> pnl[g] + Overstated[g]]
  <2>1. /\ Gains \in [Games -> Int] /\ Bound \in [Games -> Int] /\ pnl \in [Games -> Int]
        /\ Overstated \in [Games -> Int]
        /\ Total(Gains) \in Int /\ Total(Bound) \in Int
    BY OperatorTypes DEF Books, RowTells, TypeCorrect
  <2>2. booked \in [Games -> Int] /\ \A g \in Games : booked[g] = pnl[g] + Overstated[g]
    BY <2>1
  <2>3. ASSUME NEW g \in Games PROVE booked[g] = Gains[g] + Bound[g]
    <3>1. RowTells(g) /\ qty[g] \in Nat /\ filled[g] \in Nat /\ Gains[g] = Gain(g) /\ Gain(g) \in Int
      BY <2>1 DEF Books, TypeCorrect, Gains
    <3>2. CASE qty[g] = 0
      <4>1. filled[g] = 0 /\ phase[g] \notin Ended
        BY <3>1, <3>2 DEF RowTells
      <4>2. row[g] # "settled" /\ pnl[g] = 0 /\ g \notin estimated
        BY <3>1, <4>1 DEF RowTells
      <4>3. 0 * Spent(g) = 0 /\ (0 - 0) * Limit = 0 /\ 0 * Paid[g] = 0
        BY Costs, Constants
      <4>4. Rest[g] = 0
        BY <3>2, <4>1, <4>3 DEF Rest
      <4>5. Gain(g) = 0
        BY <4>1, <4>3, <4>4 DEF Gain, Ended
      <4>6. Bound[g] = 0
        BY <4>1, <4>3, <4>4 DEF Bound, Holding
      <4>7. Overstated[g] = 0
        BY <4>2 DEF Overstated
      <4>. QED
        BY <2>2, <3>1, <4>2, <4>5, <4>6, <4>7
    <3>3. CASE qty[g] > 0
      <4>1. phase[g] \in Ended /\ pnl[g] + Overstated[g] = Gain(g)
        BY <3>1, <3>3 DEF RowTells
      <4>2. Bound[g] = 0
        <5>1. Holding[g] = 0 /\ Rest[g] = 0 /\ 0 * Paid[g] = 0
          BY <4>1, Costs DEF Holding, Rest, Ended
        <5>. QED
          BY <5>1 DEF Bound
      <4>. QED
        BY <2>2, <3>1, <4>1, <4>2
    <3>. QED
      BY <3>1, <3>2, <3>3
  <2>4. \A g \in Games : booked[g] = Gains[g] + Bound[g]
    BY <2>3
  <2>. HIDE DEF booked
  <2>5. Total(booked) = Total(pnl) + Total(Overstated)
    <3>. HIDE DEF Overstated
    <3>. QED
      BY <2>1, <2>2, TotalAdds
  <2>6. Total(booked) = Total(Gains) + Total(Bound)
    <3>. HIDE DEF Gains, Bound
    <3>. QED
      BY <2>1, <2>2, <2>4, TotalAdds
  <2>7. cash = StartCash + Total(Gains)
    BY DEF Books
  <2>8. Total(pnl) \in Int /\ Total(Overstated) \in Int
    <3>. HIDE DEF Overstated
    <3>. QED
      BY <2>1, SumIsInt, Constants DEF Total
  <2>. HIDE DEF Gains, Bound, Overstated
  <2>. QED
    BY <2>1, <2>5, <2>6, <2>7, <2>8, Constants
<1>. QED
  BY <1>1, BooksAlways, PTL

-----------------------------------------------------------------------------
(* Every step keeps the sizing.                                            *)

\* A step that binds no more on any game binds no more in all.
LEMMA BoundFalls ==
  ASSUME Whole, Whole', \A g \in Games : Bound'[g] <= Bound[g]
  PROVE  /\ Total(Bound) \in Nat /\ Total(Bound') \in Nat
         /\ Total(Bound') <= Total(Bound)
<1>1. Bound \in [Games -> Nat] /\ Bound' \in [Games -> Nat]
  BY OperatorTypes, TermsNext DEF Whole, Terms
<1>2. Bound \in [Games -> Int] /\ Bound' \in [Games -> Int]
  BY <1>1
<1>. HIDE DEF Bound
<1>3. Total(Bound) \in Nat /\ Total(Bound') \in Nat
  BY <1>1, TotalOfNat
<1>4. SumFunction(Bound') <= SumFunction(Bound)
  BY <1>2, SumAtMost, Constants
<1>. QED
  BY <1>3, <1>4 DEF Total

\* An order adds what it binds.
LEMMA BoundGrows ==
  ASSUME Whole, Whole', NEW g \in Games, \A x \in Games : x # g => Bound'[x] = Bound[x]
  PROVE  Total(Bound') = Total(Bound) + (Bound'[g] - Bound[g])
<1>1. Bound \in [Games -> Nat] /\ Bound' \in [Games -> Nat]
  BY OperatorTypes, TermsNext DEF Whole, Terms
<1>2. Bound \in [Games -> Int] /\ Bound' \in [Games -> Int]
  BY <1>1
<1>. HIDE DEF Bound
<1>3. SumFunction(Bound') = SumFunction(Bound) + (Bound'[g] - Bound[g])
  BY <1>2, SumChanges, Constants
<1>. QED
  BY <1>3 DEF Total

\* Reconciling, with the lots a look-up adds, leaves the lot of an order that has not filled
\* before tip-off, or adds all of it.
LEMMA LotsStand ==
  ASSUME Sizing, UNCHANGED kalshi, UNCHANGED blind,
         \A g \in Games : eval[g].step \in {"placed", "lookup"} => eval'[g].step = eval[g].step,
         \A g \in Games : phase[g] = "before" /\ filled[g] = 0 =>
             lots'[g] = lots[g] \/ (lots[g] = 0 /\ lots'[g] = qty[g])
  PROVE  \A g \in Games : LotStands(g)'
  BY DEF Sizing, LotStands, kalshi

LEMMA Reconciles ==
  ASSUME TypeCorrect, NEW local, NEW fresh, NEW S, \A g \in S : phase[g] # "before",
         NEW g \in Games, phase[g] = "before", filled[g] = 0
  PROVE  Reconciled(Holding, local, fresh, S)[g] = local[g]
  BY DEF Reconciled, Holding, Ended

LEMMA Tracks ==
  ASSUME NEW who, NEW g \in Games, filled[g] = 0
  PROVE  Tracked(who)[g] = lots[g] \/ (lots[g] = 0 /\ Tracked(who)[g] = qty[g])
  BY DEF Tracked

\* The cost that is counted and what it leaves out are all that is bound.
LEMMA CostCovers ==
  ASSUME Whole, NEW local \in [Games -> Nat],
         \A g \in Games : phase[g] = "before" /\ filled[g] = 0 =>
             local[g] = qty[g] \/ (g \in blind /\ lots[g] = 0)
  PROVE  Total(Bound) <= Exposure(Holding, local) + Uncounted
<1>. DEFINE cost == [g \in Games |-> IF Holding[g] > 0 THEN Holding[g] * Paid[g] ELSE local[g] * Limit]
            rest == [g \in Games |->
                       IF filled[g] > 0 \/ (g \in blind /\ lots[g] = 0) THEN Rest[g] ELSE 0]
            both == [g \in Games |-> cost[g] + rest[g]]
<1>1. ASSUME NEW g \in Games
      PROVE  cost[g] \in Nat /\ rest[g] \in Nat /\ Bound[g] <= cost[g] + rest[g]
  <2>1. /\ filled[g] \in Nat /\ local[g] \in Nat /\ Holding[g] \in Nat /\ Rest[g] \in Nat
        /\ Bound[g] = Holding[g] * Paid[g] + Rest[g]
    BY OperatorTypes DEF Whole, TypeCorrect, Bound
  <2>2. Holding[g] * Paid[g] \in Nat /\ local[g] * Limit \in Nat /\ 0 * Paid[g] = 0
    BY <2>1, Constants, Costs, Products
  <2>3. cost[g] \in Nat /\ rest[g] \in Nat
    BY <2>1, <2>2
  <2>4. CASE Rest[g] = 0 \/ filled[g] > 0 \/ (g \in blind /\ lots[g] = 0)
    <3>1. rest[g] = Rest[g]
      BY <2>4
    <3>2. Holding[g] * Paid[g] <= cost[g]
      <4>1. CASE Holding[g] > 0
        BY <2>2, <4>1
      <4>2. CASE Holding[g] = 0
        BY <2>2, <2>3, <4>2
      <4>. QED
        BY <2>1, <4>1, <4>2
    <3>. HIDE DEF cost, rest
    <3>. QED
      BY <2>1, <2>2, <2>3, <3>1, <3>2
  <2>5. CASE Rest[g] # 0 /\ filled[g] = 0 /\ ~(g \in blind /\ lots[g] = 0)
    <3>1. phase[g] = "before" /\ Rest[g] = (qty[g] - 0) * Limit
      BY <2>5 DEF Rest
    <3>2. Holding[g] = 0 /\ local[g] = qty[g]
      BY <2>5, <3>1 DEF Holding, Ended
    <3>3. cost[g] = local[g] * Limit
      BY <3>2
    <3>4. (qty[g] - 0) * Limit = qty[g] * Limit
      BY Constants DEF Whole, TypeCorrect
    <3>5. Bound[g] = cost[g]
      BY <2>1, <2>2, <3>1, <3>2, <3>3, <3>4
    <3>. HIDE DEF cost, rest
    <3>. QED
      BY <2>3, <3>5
  <2>. QED
    BY <2>1, <2>3, <2>4, <2>5
<1>2. /\ Bound \in [Games -> Int] /\ cost \in [Games -> Int] /\ rest \in [Games -> Int]
      /\ both \in [Games -> Int]
  BY <1>1, OperatorTypes DEF Whole
<1>3. \A g \in Games : both[g] = cost[g] + rest[g] /\ Bound[g] <= both[g]
  BY <1>1
<1>4. Total(cost) = Exposure(Holding, local) /\ Total(rest) = Uncounted
  BY DEF Exposure, Uncounted
<1>. HIDE DEF cost, rest, both
<1>5. Total(both) = Total(cost) + Total(rest)
  BY <1>2, <1>3, TotalAdds
<1>6. SumFunction(Bound) <= SumFunction(both)
  <2>. HIDE DEF Bound
  <2>. QED
    BY <1>2, <1>3, SumAtMost, Constants
<1>. QED
  BY <1>4, <1>5, <1>6 DEF Total

\* Steps that bind nothing more and leave the evaluations alone.
LEMMA SizingStays ==
  ASSUME IInv, Whole', UNCHANGED eval, \A g \in Games : Bound'[g] <= Bound[g],
         \A g \in Games : eval[g].step \in Busy => lock' = lock,
         \A g \in Games : eval[g].step \in Busy => lots'[g] = lots[g] \/ eval[g].step \in {"positions", "order"},
         \A g \in Games : LotStands(g)', RecoversFirst'
  PROVE  Sizing'
<1>1. Whole
  BY DEF IInv, Whole, Books, RowTells
<1>2. /\ Total(Bound) \in Nat /\ Total(Bound') \in Nat
      /\ Total(Bound') <= Total(Bound)
  BY <1>1, BoundFalls
<1>3. ASSUME NEW g \in Games PROVE SizesAlone(g)'
  <2>1. SizesAlone(g)
    BY DEF IInv, Sizing
  <2>2. /\ eval[g].balance \in Int /\ eval[g].truth \in Int
        /\ eval[g].cost \in Nat /\ eval[g].uncounted \in Nat
    BY DEF IInv, TypeCorrect, Evals
  <2>3. /\ eval[g].balance + Total(Bound) <= eval[g].truth =>
              eval[g].balance + Total(Bound') <= eval[g].truth
        /\ Total(Bound) <= eval[g].cost + eval[g].uncounted =>
              Total(Bound') <= eval[g].cost + eval[g].uncounted
    BY <1>2, <2>2
  <2>. QED
    BY <2>1, <2>3 DEF SizesAlone, Busy
<1>. QED
  BY <1>3 DEF Sizing

LEMMA BoundsEqual ==
  ASSUME Whole, UNCHANGED kalshi
  PROVE  \A g \in Games : Bound'[g] <= Bound[g]
<1>1. \A g \in Games : Bound'[g] = Bound[g] /\ Bound[g] \in Nat
  BY OperatorTypes DEF Whole, Bound, Holding, Rest, kalshi
<1>. QED
  BY <1>1

LEMMA SizingExchange ==
  ASSUME IInv, Whole', NEW g \in Games, Exchange(g)
  PROVE  Sizing'
<1>1. /\ Whole /\ qty[g] \in Nat /\ filled[g] \in Nat /\ filled[g] <= qty[g]
      /\ LotStands(g)
  BY DEF IInv, Whole, Books, RowTells, TypeCorrect, Sizing
<1>2. UNCHANGED <<qty, lots, eval, lock, blind, health>>
  BY DEF Exchange, Fill, TipOff, Resolve, ghosts
<1>3. \A x \in Games : x # g => filled'[x] = filled[x] /\ phase'[x] = phase[x]
  BY DEF Exchange, Fill, TipOff, Resolve, IInv, TypeCorrect
<1>4. /\ filled'[g] \in Nat /\ filled[g] <= filled'[g] /\ filled'[g] <= qty[g]
      /\ \/ phase[g] = "before" /\ phase'[g] = "before"
         \/ phase[g] = "before" /\ phase'[g] = "played" /\ filled'[g] = filled[g]
         \/ phase[g] = "played" /\ phase'[g] \in Ended /\ filled'[g] = filled[g]
  <2>1. CASE Fill(g)
    <3>1. PICK n \in 1 .. qty[g] - filled[g] : filled' = [filled EXCEPT ![g] = @ + n]
      BY <2>1 DEF Fill
    <3>. QED
      BY <1>1, <2>1, <3>1 DEF Fill, IInv, TypeCorrect
  <2>2. CASE TipOff(g)
    BY <1>1, <2>2 DEF TipOff, IInv, TypeCorrect
  <2>3. CASE Resolve(g)
    BY <1>1, <2>3 DEF Resolve, IInv, TypeCorrect, Ended
  <2>. QED
    BY <2>1, <2>2, <2>3 DEF Exchange
<1>5. \A x \in Games : Bound'[x] <= Bound[x]
  <2>1. \A x \in Games : Bound[x] \in Nat
    BY <1>1, OperatorTypes DEF Whole
  <2>2. \A x \in Games : x # g => Bound'[x] = Bound[x]
    BY <1>2, <1>3 DEF Bound, Holding, Rest
  <2>3. Bound'[g] <= Bound[g]
    <3>. DEFINE a == filled[g]
                b == filled'[g]
                q == qty[g]
                p == Paid[g]
    <3>1. a \in Nat /\ b \in Nat /\ q \in Nat /\ p \in Nat /\ p <= Limit /\ a <= b /\ b <= q
      BY <1>1, <1>4, Costs
    <3>2. CASE phase[g] = "before" /\ phase'[g] = "before"
      <4>1. Bound[g] = a * p + (q - a) * Limit /\ Bound'[g] = b * p + (q - b) * Limit
        BY <1>2, <3>2 DEF Bound, Holding, Rest, Ended
      <4>. HIDE DEF a, b, q, p
      <4>. DEFINE d == b - a
      <4>2. d \in Nat /\ b = a + d
        BY <3>1
      <4>. HIDE DEF d
      <4>3. /\ (a + d) * p = a * p + d * p
            /\ (q - a) * Limit = (q - (a + d)) * Limit + d * Limit
            /\ d * p <= d * Limit
        BY <3>1, <4>2, Constants
      <4>4. /\ a * p \in Int /\ d * p \in Int /\ (q - (a + d)) * Limit \in Int /\ d * Limit \in Int
        BY <3>1, <4>2, Constants
      <4>. QED
        BY <4>1, <4>2, <4>3, <4>4
    <3>3. CASE phase[g] = "before" /\ phase'[g] = "played" /\ filled'[g] = filled[g]
      <4>1. Bound[g] = a * p + (q - a) * Limit /\ Bound'[g] = a * p + 0
        BY <1>2, <3>3 DEF Bound, Holding, Rest, Ended
      <4>2. q - a \in Nat
        BY <3>1
      <4>. HIDE DEF a, b, q, p
      <4>3. a * p \in Nat /\ (q - a) * Limit \in Nat
        BY <3>1, <4>2, Constants, Products
      <4>. QED
        BY <4>1, <4>3
    <3>4. CASE phase[g] = "played" /\ phase'[g] \in Ended /\ filled'[g] = filled[g]
      <4>1. Bound'[g] = 0 * p + 0
        BY <1>2, <3>4 DEF Bound, Holding, Rest, Ended
      <4>. QED
        BY <2>1, <3>1, <4>1
    <3>. QED
      BY <1>4, <3>2, <3>3, <3>4
  <2>. QED
    BY <2>1, <2>2, <2>3
<1>6. \A x \in Games : LotStands(x)'
  <2>1. \A x \in Games : LotStands(x)
    BY DEF IInv, Sizing
  <2>2. ASSUME NEW x \in Games, x # g PROVE LotStands(x)'
    BY <1>2, <1>3, <2>1, <2>2 DEF LotStands
  <2>3. LotStands(g)'
    <3>1. phase'[g] = "before" /\ filled'[g] = 0 => phase[g] = "before" /\ filled[g] = 0
      BY <1>1, <1>4 DEF Ended
    <3>. QED
      BY <1>1, <1>2, <3>1 DEF LotStands
  <2>. QED
    BY <2>2, <2>3
<1>7. RecoversFirst'
  BY <1>2 DEF IInv, Sizing, RecoversFirst
<1>. QED
  BY <1>2, <1>5, <1>6, <1>7, SizingStays

\* Who evaluates has the lock, so no other evaluation is at work.
LEMMA OnlyOne ==
  ASSUME Sizing, NEW g \in Games, eval[g].step \in Busy \/ lock = Free
  PROVE  \A x \in Games : x # g => eval[x].step \notin Busy
  BY Constants DEF Sizing, SizesAlone

LEMMA NoneBusy ==
  ASSUME Sizing, lock = Free
  PROVE  \A x \in Games : eval[x].step \notin Busy
  BY Constants DEF Sizing, SizesAlone

\* Evaluations other than one that takes the lock or has it are not at work after a step either.
LEMMA OthersIdle ==
  ASSUME IInv, NEW g \in Games, eval[g].step \in Busy \/ lock = Free,
         NEW e, eval' = [eval EXCEPT ![g] = e], SizesAlone(g)',
         \A x \in Games : LotStands(x)', RecoversFirst'
  PROVE  Sizing'
<1>1. ASSUME NEW x \in Games, x # g PROVE SizesAlone(x)'
  <2>1. eval'[x].step \notin Busy
    BY <1>1, OnlyOne DEF IInv, TypeCorrect
  <2>. QED
    BY <2>1 DEF SizesAlone, Busy
<1>. QED
  BY <1>1 DEF Sizing

\* An evaluation that ends gives the lock back.
LEMMA SizingEnds ==
  ASSUME IInv, NEW g \in Games, eval[g].step \in Busy, Done(g), \A x \in Games : LotStands(x)'
  PROVE  Sizing'
<1>1. eval' = [eval EXCEPT ![g] = [NoEval EXCEPT !.step = "done"]] /\ lock' = Free
  BY DEF Done
<1>2. eval'[g].step = "done"
  BY <1>1 DEF IInv, TypeCorrect, NoEval
<1>3. SizesAlone(g)'
  BY <1>2 DEF SizesAlone, Busy
<1>4. RecoversFirst'
  BY <1>1 DEF RecoversFirst
<1>. QED
  BY <1>1, <1>3, <1>4, OthersIdle

LEMMA SizingEvaluates ==
  ASSUME IInv, Whole', NEW g \in Games, Evaluate(g)
  PROVE  Sizing'
<1>1. /\ Whole /\ Sizing /\ TypeCorrect /\ eval[g] \in Evals
      /\ Total(Bound) \in Nat /\ Uncounted \in Nat /\ Equity = cash + Total(Bound) /\ cash \in Int
  BY OperatorTypes DEF IInv, Whole, Books, RowTells, TypeCorrect, Equity
<1>2. ASSUME UNCHANGED kalshi, UNCHANGED lots, UNCHANGED blind,
             \A x \in Games : eval[x].step \in {"placed", "lookup"} => eval'[x].step = eval[x].step
      PROVE  \A x \in Games : LotStands(x)'
  BY <1>1, <1>2 DEF Sizing, LotStands, kalshi
<1>3. ASSUME UNCHANGED kalshi PROVE Total(Bound') = Total(Bound)
  BY <1>3 DEF Bound, Holding, Rest, kalshi
<1>4. CASE ReadBalance(g)
  <2>1. /\ lock = Free /\ lock' = g /\ UNCHANGED kalshi /\ UNCHANGED lots /\ UNCHANGED blind
        /\ health.step # "recover" /\ UNCHANGED health
    BY <1>4 DEF ReadBalance, ghosts
  <2>2. eval' = [eval EXCEPT ![g] = [eval[g] EXCEPT !.step = "positions", !.balance = cash,
                                                    !.truth = Equity]]
    BY <1>1, <1>4 DEF ReadBalance, TypeCorrect, Evals
  <2>3. /\ eval'[g].step = "positions" /\ eval'[g].balance = cash /\ eval'[g].truth = Equity
    BY <1>1, <2>2 DEF TypeCorrect, Evals
  <2>4. SizesAlone(g)'
    BY <1>1, <1>3, <2>1, <2>3 DEF SizesAlone
  <2>5. \A x \in Games : LotStands(x)'
    <3>1. \A x \in Games : eval[x].step \in {"placed", "lookup"} => eval'[x].step = eval[x].step
      BY <1>1, <2>1, NoneBusy DEF Busy
    <3>. QED
      BY <1>2, <2>1, <3>1
  <2>6. RecoversFirst'
    BY <2>1 DEF RecoversFirst
  <2>. QED
    BY <2>1, <2>2, <2>4, <2>5, <2>6, OthersIdle
<1>5. CASE Price(g)
  <2>. DEFINE cost == Exposure(Holding, lots')
              equity == eval[g].balance + cost
  <2>1. /\ eval[g].step = "positions" /\ eval[g].step \in Busy
        /\ lots' = Reconciled(Holding, lots, {}, {}) /\ UNCHANGED kalshi
        /\ UNCHANGED blind /\ UNCHANGED health
        /\ lock = g /\ eval[g].balance + Total(Bound) <= eval[g].truth
    BY <1>1, <1>5 DEF Price, Sizing, SizesAlone, Busy, ghosts
  <2>2. \A x \in Games : phase[x] = "before" /\ filled[x] = 0 => lots'[x] = lots[x]
    BY <1>1, <2>1, Reconciles
  <2>3. \A x \in Games : eval[x].step \notin {"placed", "lookup"}
    BY <1>1, <2>1, OnlyOne DEF Busy
  <2>4. \A x \in Games : LotStands(x)'
    BY <1>1, <2>1, <2>2, <2>3, LotsStand
  <2>5. CASE Done(g)
    BY <2>1, <2>4, <2>5, SizingEnds
  <2>6. CASE /\ lock' = lock
             /\ eval' = [eval EXCEPT ![g].step = "order", ![g].equity = equity,
                                     ![g].cost = cost, ![g].uncounted = Uncounted]
    <3>1. lots' \in [Games -> Nat]
      BY <1>1, <2>1, OperatorTypes, LotTypes DEF Whole, TypeCorrect
    <3>2. \A x \in Games : phase[x] = "before" /\ filled[x] = 0 =>
              lots'[x] = qty[x] \/ (x \in blind /\ lots[x] = 0)
      BY <1>1, <2>2, <2>3 DEF Sizing, LotStands
    <3>3. Total(Bound) <= cost + Uncounted
      BY <1>1, <3>1, <3>2, CostCovers
    <3>. HIDE DEF cost
    <3>4. eval' = [eval EXCEPT ![g] = [eval[g] EXCEPT !.step = "order", !.equity = equity,
                                       !.cost = cost, !.uncounted = Uncounted]]
      BY <1>1, <2>6 DEF TypeCorrect, Evals
    <3>5. /\ eval'[g].step = "order" /\ eval'[g].balance = eval[g].balance
          /\ eval'[g].truth = eval[g].truth /\ eval'[g].cost = cost
          /\ eval'[g].equity = eval[g].balance + cost /\ eval'[g].uncounted = Uncounted
      BY <1>1, <3>4 DEF TypeCorrect, Evals
    <3>6. SizesAlone(g)'
      BY <1>3, <2>1, <2>6, <3>3, <3>5 DEF SizesAlone
    <3>7. RecoversFirst'
      BY <1>1, <2>1, <2>6 DEF Sizing, RecoversFirst
    <3>. QED
      BY <2>1, <2>4, <3>4, <3>6, <3>7, OthersIdle
  <2>. QED
    BY <1>5, <2>5, <2>6 DEF Price
<1>6. CASE GiveUp(g)
  <2>1. /\ eval[g].step \in {"positions", "order"} /\ Done(g)
        /\ UNCHANGED kalshi /\ UNCHANGED lots /\ UNCHANGED blind
    BY <1>6 DEF GiveUp, ghosts
  <2>2. \A x \in Games : eval[x].step \in {"placed", "lookup"} => eval'[x].step = eval[x].step
    BY <1>1, <2>1 DEF Done, TypeCorrect
  <2>3. \A x \in Games : LotStands(x)'
    BY <1>2, <2>1, <2>2
  <2>. QED
    BY <2>1, <2>3, SizingEnds DEF Busy
<1>7. CASE Order(g) \/ Again(g)
  <2>1. /\ eval[g].step = "order" /\ eval[g].step \in Busy /\ lots[g] = 0 /\ lock = g
        /\ UNCHANGED <<filled, phase, lots, blind, health>>
    BY <1>1, <1>7, SharesAreCapped DEF Order, Again, kalshi, ghosts, Sizing, SizesAlone, Busy
  <2>2. \A x \in Games : x # g => qty'[x] = qty[x] /\ eval'[x] = eval[x]
    BY <1>1, <1>7 DEF Order, Again, Done, kalshi, TypeCorrect
  <2>3. ASSUME NEW x \in Games, x # g PROVE LotStands(x)'
    BY <1>1, <2>1, <2>2, <2>3 DEF Sizing, LotStands
  <2>4. CASE Done(g) /\ UNCHANGED qty /\ row[g] = "none"
    <3>2. qty[g] = 0
      BY <2>4 DEF IInv, Books, RowTells
    <3>3. LotStands(g)'
      BY <2>1, <2>4, <3>2 DEF LotStands
    <3>. QED
      BY <2>1, <2>3, <2>4, <3>3, SizingEnds
  <2>5. CASE /\ lock' = lock
             /\ eval' = [eval EXCEPT ![g].step = "placed"] \/ eval' = [eval EXCEPT ![g].step = "lookup"]
    <3>1. PICK s \in {"placed", "lookup"} : eval' = [eval EXCEPT ![g].step = s]
      BY <2>5
    <3>2. eval' = [eval EXCEPT ![g] = [eval[g] EXCEPT !.step = s]] /\ eval'[g].step = s
      BY <1>1, <3>1 DEF TypeCorrect, Evals
    <3>3. LotStands(g)' /\ SizesAlone(g)'
      BY <2>1, <2>5, <3>2 DEF LotStands, SizesAlone
    <3>4. RecoversFirst'
      BY <1>1, <2>1, <2>5 DEF Sizing, RecoversFirst
    <3>. QED
      BY <2>1, <2>3, <3>2, <3>3, <3>4, OthersIdle
  <2>. QED
    BY <1>7, <2>4, <2>5 DEF Order, Again
<1>8. CASE AddLot(g)
  <2>1. /\ eval[g].step = "placed" /\ eval[g].step \in Busy /\ lots[g] = 0 /\ Done(g)
        /\ lots' = [lots EXCEPT ![g] = @ + qty[g]] /\ UNCHANGED kalshi /\ UNCHANGED blind
    BY <1>1, <1>8 DEF AddLot, ghosts, Sizing, SizesAlone, Busy
  <2>2. lots'[g] = qty[g] /\ \A x \in Games : x # g => lots'[x] = lots[x] /\ eval'[x] = eval[x]
    BY <1>1, <2>1 DEF TypeCorrect, Done
  <2>3. \A x \in Games : LotStands(x)'
    BY <1>1, <2>1, <2>2 DEF Sizing, LotStands, kalshi
  <2>. QED
    BY <2>1, <2>3, SizingEnds
<1>9. CASE Lookup(g)
  <2>1. /\ eval[g].step = "lookup" /\ eval[g].step \in Busy /\ lots[g] = 0 /\ Done(g)
        /\ UNCHANGED kalshi
    BY <1>1, <1>9 DEF Lookup, Sizing, SizesAlone, Busy
  <2>2. \A x \in Games : x # g => eval'[x] = eval[x]
    BY <1>1, <2>1 DEF TypeCorrect, Done
  <2>3. CASE lots' = Tracked({g}) /\ UNCHANGED blind
    <3>1. /\ \A x \in Games : x # g => lots'[x] = lots[x]
          /\ filled[g] = 0 => lots'[g] = qty[g]
      BY <2>1, <2>3 DEF Tracked
    <3>2. \A x \in Games : LotStands(x)'
      BY <1>1, <2>1, <2>2, <2>3, <3>1 DEF Sizing, LotStands, kalshi
    <3>. QED
      BY <2>1, <3>2, SizingEnds
  <2>4. CASE blind' = blind \cup {g} /\ UNCHANGED lots
    <3>1. \A x \in Games : LotStands(x)'
      BY <1>1, <2>1, <2>2, <2>4 DEF Sizing, LotStands, kalshi
    <3>. QED
      BY <2>1, <3>1, SizingEnds
  <2>. QED
    BY <1>9, <2>3, <2>4 DEF Lookup
<1>. QED
  BY <1>4, <1>5, <1>6, <1>7, <1>8, <1>9 DEF Evaluate

\* What the health job, a fill check and a recovery do to the lots.
LEMMA SizingLots ==
  ASSUME IInv, Whole', UNCHANGED kalshi, UNCHANGED blind, UNCHANGED eval, lock = Free,
         UNCHANGED lock,
         \A g \in Games : phase[g] = "before" /\ filled[g] = 0 =>
             lots'[g] = lots[g] \/ (lots[g] = 0 /\ lots'[g] = qty[g])
  PROVE  Sizing'
<1>1. Whole /\ Sizing
  BY DEF IInv, Whole, Books, RowTells
<1>2. \A g \in Games : LotStands(g)'
  BY <1>1, LotsStand
<1>3. \A g \in Games : eval[g].step \notin Busy
  BY <1>1, NoneBusy
<1>4. RecoversFirst'
  BY DEF RecoversFirst
<1>5. \A g \in Games : Bound'[g] <= Bound[g]
  BY <1>1, BoundsEqual
<1>. QED
  BY <1>2, <1>3, <1>4, <1>5, SizingStays

LEMMA SizingStep ==
  ASSUME IInv, Whole', [Next]_vars
  PROVE  Sizing'
<1>1. Whole /\ Sizing /\ TypeCorrect
  BY DEF IInv, Whole, Books, RowTells
<1>2. ASSUME UNCHANGED kalshi, UNCHANGED <<lots, lock, eval, blind>>,
             health'.step # "recover" \/ UNCHANGED health
      PROVE  Sizing'
  <2>1. \A x \in Games : LotStands(x)'
    BY <1>1, <1>2 DEF Sizing, LotStands, kalshi
  <2>2. RecoversFirst'
    BY <1>1, <1>2 DEF Sizing, RecoversFirst
  <2>3. \A g \in Games : Bound'[g] <= Bound[g]
    BY <1>1, <1>2, BoundsEqual
  <2>. QED
    BY <1>2, <2>1, <2>2, <2>3, SizingStays
<1>3. CASE HealthPositions
  <2>1. PICK who : lots' = Reconciled(Holding, Tracked(who), who, {})
    BY <1>3 DEF HealthPositions
  <2>2. ASSUME NEW g \in Games, phase[g] = "before", filled[g] = 0
        PROVE  lots'[g] = lots[g] \/ (lots[g] = 0 /\ lots'[g] = qty[g])
    <3>1. lots'[g] = Tracked(who)[g]
      BY <1>1, <2>1, <2>2, Reconciles
    <3>. QED
      BY <2>2, <3>1, Tracks
  <2>. QED
    BY <1>3, <2>2, SizingLots DEF HealthPositions, ghosts
<1>4. CASE Recover
  <2>1. PICK who : lots' = Tracked(who)
    BY <1>4 DEF Recover
  <2>2. \A g \in Games : filled[g] = 0 => lots'[g] = lots[g] \/ (lots[g] = 0 /\ lots'[g] = qty[g])
    BY <2>1, Tracks
  <2>3. lock = Free
    BY <1>1, <1>4 DEF Recover, Sizing, RecoversFirst
  <2>. QED
    BY <1>4, <2>2, <2>3, SizingLots DEF Recover, ghosts
<1>5. ASSUME NEW g \in Games, ConfirmFill(g) PROVE Sizing'
  <2>1. /\ \A x \in {g} : phase[x] # "before"
        /\ lots' = Reconciled(Holding, lots, {}, {g})
    BY <1>5 DEF ConfirmFill
  <2>2. \A x \in Games : phase[x] = "before" /\ filled[x] = 0 => lots'[x] = lots[x]
    BY <1>1, <2>1, Reconciles
  <2>. QED
    BY <1>5, <2>2, SizingLots DEF ConfirmFill, ghosts
<1>6. CASE Crash
  <2>1. \A x \in Games : eval'[x] = NoEval /\ eval'[x].step = "idle"
    BY <1>6 DEF Crash, NoEval
  <2>2. ASSUME NEW x \in Games PROVE LotStands(x)' /\ SizesAlone(x)'
    <3>1. LotStands(x)
      BY <1>1 DEF Sizing
    <3>. QED
      BY <1>6, <2>1, <3>1 DEF Crash, LotStands, SizesAlone, Busy, kalshi
  <2>3. RecoversFirst'
    BY <1>6 DEF Crash, RecoversFirst
  <2>. QED
    BY <2>2, <2>3 DEF Sizing
<1>7. CASE HealthBalance \/ HealthSkips \/ HealthEquity \/ SyncFills \/ SyncFails \/ HealthEnds
  <2>1. health'.step # "recover"
    <3>1. CASE HealthBalance \/ HealthSkips \/ HealthEquity \/ HealthEnds
      <4>1. \/ health' = NoPass \/ health' = [NoPass EXCEPT !.step = "fills"]
            \/ health' = [NoPass EXCEPT !.step = "lock", !.balance = cash]
        BY <3>1 DEF HealthBalance, HealthSkips, HealthEquity, HealthEnds
      <4>2. NoPass.step = "idle"
        BY DEF NoPass
      <4>3. [NoPass EXCEPT !.step = "fills"].step = "fills"
        BY DEF NoPass
      <4>4. [NoPass EXCEPT !.step = "lock", !.balance = cash].step = "lock"
        BY DEF NoPass
      <4>. QED
        BY <4>1, <4>2, <4>3, <4>4
    <3>2. CASE SyncFills \/ SyncFails
      BY <1>1, <3>2 DEF SyncFills, SyncFails, TypeCorrect, Passes
    <3>. QED
      BY <1>7, <3>1, <3>2
  <2>2. UNCHANGED kalshi /\ UNCHANGED <<lots, lock, eval, blind>>
    BY <1>7 DEF HealthBalance, HealthSkips, HealthEquity, SyncFills, SyncFails, HealthEnds, ghosts
  <2>. QED
    BY <1>2, <2>1, <2>2
<1>8. ASSUME NEW g \in Games, NotYet(g) \/ SettleFromFills(g) \/ SettleFromOrder(g) PROVE Sizing'
  <2>1. health.step = "settle" /\ health' = [health EXCEPT !.todo = @ \ {g}]
    BY <1>8 DEF NotYet, SettleFromFills, SettleFromOrder, Resolvable
  <2>2. health'.step # "recover"
    BY <1>1, <2>1 DEF TypeCorrect, Passes
  <2>3. UNCHANGED kalshi /\ UNCHANGED <<lots, lock, eval, blind>>
    BY <1>8 DEF NotYet, SettleFromFills, SettleFromOrder, ghosts
  <2>. QED
    BY <1>2, <2>2, <2>3
<1>9. ASSUME NEW g \in Games, Evaluate(g) PROVE Sizing'
  BY <1>9, SizingEvaluates
<1>10. ASSUME NEW g \in Games, Exchange(g) PROVE Sizing'
  BY <1>10, SizingExchange
<1>11. CASE UNCHANGED vars
  BY <1>2, <1>11 DEF vars, ghosts
<1>12. CASE HealthStep
  BY <1>3, <1>7, <1>8, <1>12 DEF HealthStep
<1>. QED
  BY <1>4, <1>5, <1>6, <1>9, <1>10, <1>11, <1>12 DEF Next

LEMMA IInvAlways == Spec => []IInv
<1>1. Init => IInv
  <2>. SUFFICES ASSUME Init PROVE IInv
    OBVIOUS
  <2>1. Sizing
    BY DEF Init, Sizing, RecoversFirst, LotStands, SizesAlone, Busy, NoEval, NoPass
  <2>. QED
    BY <2>1, TypesInit, BooksInit DEF IInv
<1>2. IInv /\ [Next]_vars => IInv'
  <2>. SUFFICES ASSUME IInv, [Next]_vars PROVE IInv'
    OBVIOUS
  <2>1. TypeCorrect'
    BY TypesStep DEF IInv
  <2>2. Books' /\ Pending'
    BY <2>1, BooksStep, PendingStep DEF IInv
  <2>3. Whole'
    BY <2>1, <2>2 DEF Whole, Books, RowTells
  <2>. QED
    BY <2>1, <2>2, <2>3, SizingStep DEF IInv
<1>. QED
  BY <1>1, <1>2, PTL DEF Spec

\* Amounts are whole cents, counts are not negative, and the high-water mark neither.
THEOREM AccountTypeCorrect == Spec => []TypeCorrect
  BY IInvAlways, PTL DEF IInv

\* What cap_shares allows of an equity no greater than there is, and of a cost that covers
\* what is bound, keeps the money at risk within the cap: the arithmetic of it, in cents.
LEMMA CapArithmetic ==
  ASSUME NEW bound \in Nat, NEW cost \in Nat, NEW uncounted \in Nat, NEW balance \in Int,
         NEW truth \in Int, NEW stake \in Nat,
         balance + bound <= truth, bound <= cost + uncounted,
         100 * stake <= (balance + cost) * MaxExposure - 100 * cost
  PROVE  100 * (bound + stake) <= MaxExposure * truth + 100 * uncounted
<1>1. MaxExposure \in Nat /\ MaxExposure <= 100
  BY Constants
<1>2. (100 - MaxExposure) * bound <= (100 - MaxExposure) * (cost + uncounted)
  BY <1>1
<1>3. MaxExposure * (balance + bound) <= MaxExposure * truth
  BY <1>1
<1>4. MaxExposure * uncounted >= 0
  BY <1>1
<1>5. /\ (100 - MaxExposure) * bound = 100 * bound - MaxExposure * bound
      /\ (100 - MaxExposure) * (cost + uncounted) =
            100 * cost + 100 * uncounted - MaxExposure * cost - MaxExposure * uncounted
      /\ MaxExposure * (balance + bound) = MaxExposure * balance + MaxExposure * bound
      /\ (balance + cost) * MaxExposure = MaxExposure * balance + MaxExposure * cost
  BY <1>1
<1>6. /\ MaxExposure * bound \in Int /\ MaxExposure * cost \in Int
      /\ MaxExposure * uncounted \in Int /\ MaxExposure * balance \in Int
      /\ MaxExposure * truth \in Int
  BY <1>1
<1>. DEFINE mb == MaxExposure * bound
            mc == MaxExposure * cost
            mu == MaxExposure * uncounted
            ma == MaxExposure * balance
            mt == MaxExposure * truth
<1>7. /\ mb \in Int /\ mc \in Int /\ mu \in Int /\ ma \in Int /\ mt \in Int /\ mu >= 0
      /\ 100 * bound - mb <= 100 * cost + 100 * uncounted - mc - mu
      /\ ma + mb <= mt
      /\ 100 * stake <= ma + mc - 100 * cost
  BY <1>2, <1>3, <1>4, <1>5, <1>6
<1>. HIDE DEF mb, mc, mu, ma, mt
<1>8. 100 * (bound + stake) <= mt + 100 * uncounted
  BY <1>7
<1>. QED
  BY <1>8 DEF mt

\* Once an order goes out, the money at risk in all games is within the cap on the equity
\* there was, but for the remainders of partly filled orders and the unfilled orders that a
\* crash or a failed look-up left without a lot (cap_shares, _TRADE_LOCK, _resolve_order).
THEOREM CapIsKept == Spec => OrdersWithinCap
<1>1. ASSUME IInv, IInv', [Next]_vars, NEW g \in Games, qty[g] = 0, qty'[g] > 0
      PROVE  100 * Total(Bound') <= MaxExposure * eval[g].truth + 100 * eval[g].uncounted
  <2>1. Whole /\ Whole' /\ TypeCorrect
    BY <1>1 DEF IInv, Whole, Books, RowTells
  <2>2. Order(g) /\ qty'[g] # qty[g]
    <3>1. qty'[g] # qty[g]
      BY <1>1 DEF IInv, TypeCorrect
    <3>2. \A x \in Games : x # g /\ Order(x) => qty'[g] = qty[g]
      BY <2>1 DEF Order, TypeCorrect
    <3>3. ~HealthStep /\ ~Crash /\ ~Recover
      BY <3>1 DEF HealthStep, HealthBalance, HealthSkips, HealthPositions, HealthEquity, SyncFills,
                  SyncFails, HealthEnds, NotYet, SettleFromFills, SettleFromOrder, Crash, Recover, kalshi
    <3>4. \A x \in Games : ~Exchange(x) /\ ~ConfirmFill(x)
      BY <3>1 DEF Exchange, Fill, TipOff, Resolve, ConfirmFill, kalshi
    <3>5. \A x \in Games : ~ReadBalance(x) /\ ~Price(x) /\ ~GiveUp(x) /\ ~Again(x) /\ ~AddLot(x)
                           /\ ~Lookup(x)
      BY <3>1 DEF ReadBalance, Price, GiveUp, Again, AddLot, Lookup, kalshi
    <3>6. ~UNCHANGED vars
      BY <3>1 DEF vars, kalshi
    <3>. QED
      BY <1>1, <3>1, <3>2, <3>3, <3>4, <3>5, <3>6 DEF Next, Evaluate
  <2>. DEFINE e == eval[g]
              n == Shares(g)
  <2>3. /\ n > 0 /\ phase[g] = "before" /\ qty' = [qty EXCEPT ![g] = n]
        /\ UNCHANGED <<filled, phase>>
    BY <2>2 DEF Order
  <2>4. /\ n \in Nat /\ e.step = "order"
        /\ 100 * (n * Limit) <= e.equity * MaxExposure - 100 * e.cost
    BY <2>1, <2>3, SharesAreCapped
  <2>. HIDE DEF n
  <2>5. /\ e.balance \in Int /\ e.equity \in Int /\ e.cost \in Nat /\ e.truth \in Int
        /\ e.uncounted \in Nat /\ Total(Bound) \in Nat
        /\ e.balance + Total(Bound) <= e.truth
        /\ e.equity = e.balance + e.cost
        /\ Total(Bound) <= e.cost + e.uncounted
    BY <1>1, <2>1, <2>4, OperatorTypes DEF IInv, TypeCorrect, Evals, Sizing, SizesAlone, Whole
  <2>6. n * Limit \in Nat
    BY <2>4, Constants, Products
  <2>7. Bound[g] = 0 /\ Bound'[g] = n * Limit /\ \A x \in Games : x # g => Bound'[x] = Bound[x]
    <3>1. filled[g] = 0 /\ qty[g] = 0 /\ qty'[g] = n /\ filled'[g] = 0 /\ phase'[g] = "before"
      BY <1>1, <2>1, <2>3 DEF Whole, TypeCorrect
    <3>2. 0 * Paid[g] = 0 /\ (0 - 0) * Limit = 0 /\ n - 0 = n
      BY <2>4, Costs, Constants
    <3>3. Bound[g] = 0 * Paid[g] + (0 - 0) * Limit /\ Bound'[g] = 0 * Paid[g] + (n - 0) * Limit
      BY <2>3, <3>1 DEF Bound, Holding, Rest, Ended
    <3>4. \A x \in Games : x # g => Bound'[x] = Bound[x]
      BY <2>1, <2>3 DEF Bound, Holding, Rest, TypeCorrect
    <3>. QED
      BY <2>6, <3>2, <3>3, <3>4
  <2>8. Total(Bound') = Total(Bound) + n * Limit
    BY <2>1, <2>5, <2>6, <2>7, BoundGrows
  <2>. DEFINE stake == n * Limit
              bound == Total(Bound)
  <2>9. /\ stake \in Nat /\ bound \in Nat /\ bound <= e.cost + e.uncounted
        /\ e.balance + bound <= e.truth
        /\ 100 * stake <= (e.balance + e.cost) * MaxExposure - 100 * e.cost
    BY <2>4, <2>5, <2>6
  <2>. HIDE DEF e, stake, bound
  <2>10. 100 * (bound + stake) <= MaxExposure * e.truth + 100 * e.uncounted
    <3>1. /\ e.balance \in Int /\ e.cost \in Nat /\ e.truth \in Int /\ e.uncounted \in Nat
      BY <2>5 DEF e
    <3>. QED
      BY <2>9, <3>1, CapArithmetic
  <2>. QED
    BY <2>8, <2>10 DEF e, stake, bound
<1>2. IInv /\ IInv' /\ [Next]_vars =>
         [\A g \in Games :
             qty[g] = 0 /\ qty'[g] > 0 =>
                 100 * Total(Bound') <= MaxExposure * eval[g].truth + 100 * eval[g].uncounted]_vars
  BY <1>1
<1>. QED
  BY <1>2, IInvAlways, PTL DEF Spec, OrdersWithinCap
=============================================================================
