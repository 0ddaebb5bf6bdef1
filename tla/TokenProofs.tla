----------------------------- MODULE TokenProofs ----------------------------
(***************************************************************************)
(* Lemmas about transfers and about the totals of Tokens: how a total      *)
(* changes when one item joins, leaves or changes, without induction; and  *)
(* an induction over the natural numbers for totals that add up many items *)
(* in one step.                                                            *)
(***************************************************************************)
EXTENDS Tokens, FiniteSetTheorems, WellFoundedInduction, TLAPS

\* A transfer keeps a ledger a ledger.
LEMMA TransferType ==
  ASSUME NEW H, NEW l \in [H -> Nat], NEW from \in H, NEW to \in H,
         NEW amount \in Nat, CanTransfer(l, from, amount)
  PROVE  Transferred(l, from, to, amount) \in [H -> Nat]
BY DEF Transferred, CanTransfer

\* A transfer between two holders moves exactly the amount and leaves the others
\* alone.
LEMMA TransferMoves ==
  ASSUME NEW H, NEW l \in [H -> Nat], NEW from \in H, NEW to \in H, from # to,
         NEW amount \in Nat, NEW h \in H
  PROVE  Transferred(l, from, to, amount)[h] =
           IF h = from THEN l[from] - amount
           ELSE IF h = to THEN l[to] + amount ELSE l[h]
BY DEF Transferred

\* One item's units are as many as the item is worth.
LEMMA BlockSize ==
  ASSUME NEW i, NEW n \in Nat
  PROVE  IsFiniteSet({i} \X (1 .. n)) /\ Cardinality({i} \X (1 .. n)) = n
<1>1. IsFiniteSet({i}) /\ Cardinality({i}) = 1
  BY FS_Singleton
<1>2. IsFiniteSet(1 .. n) /\ Cardinality(1 .. n) = n
  BY FS_Interval
<1>3. /\ IsFiniteSet({i} \X (1 .. n))
      /\ Cardinality({i} \X (1 .. n)) = Cardinality({i}) * Cardinality(1 .. n)
  BY <1>1, <1>2, FS_Product
<1>4. QED BY <1>1, <1>2, <1>3

\* No items, no units.
LEMMA TotalEmpty ==
  ASSUME NEW w
  PROVE  IsFiniteSet(Units({}, w)) /\ Total({}, w) = 0
<1>1. Units({}, w) = {}
  BY DEF Units
<1>2. QED BY <1>1, FS_EmptySet DEF Total

\* One item's total is what it is worth.
LEMMA TotalOne ==
  ASSUME NEW i, NEW w, w[i] \in Nat
  PROVE  IsFiniteSet(Units({i}, w)) /\ Total({i}, w) = w[i]
<1>1. Units({i}, w) = {i} \X (1 .. w[i])
  BY DEF Units
<1>2. /\ IsFiniteSet({i} \X (1 .. w[i]))
      /\ Cardinality({i} \X (1 .. w[i])) = w[i]
  <2> DEFINE n == w[i]
  <2>1. n \in Nat
    OBVIOUS
  <2> HIDE DEF n
  <2>2. IsFiniteSet({i} \X (1 .. n)) /\ Cardinality({i} \X (1 .. n)) = n
    BY <2>1, BlockSize
  <2>3. QED BY <2>2 DEF n
<1>3. QED BY <1>1, <1>2 DEF Total

\* Only the worth of the items counted matters.
LEMMA UnitsSame ==
  ASSUME NEW S, NEW v, NEW w, \A j \in S : v[j] = w[j]
  PROVE  Units(S, v) = Units(S, w)
BY DEF Units

\* An item that joins adds what it is worth.
LEMMA TotalAdd ==
  ASSUME NEW S, NEW i, i \notin S, NEW v, NEW w, v[i] \in Nat,
         \A j \in S : v[j] = w[j], IsFiniteSet(Units(S, w))
  PROVE  /\ IsFiniteSet(Units(S \cup {i}, v))
         /\ Total(S \cup {i}, v) = Total(S, w) + v[i]
<1> DEFINE Block == {i} \X (1 .. v[i])
<1>1. Units(S \cup {i}, v) = Units(S, w) \cup Block
  <2>1. Units(S \cup {i}, v) = Units(S, v) \cup Block
    BY DEF Units
  <2>2. QED BY <2>1, UnitsSame
<1>2. Units(S, w) \cap Block = {}
  BY DEF Units
<1>3. IsFiniteSet(Block) /\ Cardinality(Block) = v[i]
  BY BlockSize
<1>4. Cardinality(Units(S, w)) \in Nat
  BY FS_CardinalityType
<1> HIDE DEF Block
<1>5. /\ IsFiniteSet(Units(S, w) \cup Block)
      /\ Cardinality(Units(S, w) \cup Block)
           = Cardinality(Units(S, w)) + Cardinality(Block)
             - Cardinality(Units(S, w) \cap Block)
  BY <1>3, FS_Union
<1>6. Cardinality(Units(S, w) \cap Block) = 0
  BY <1>2, FS_EmptySet
<1>7. Cardinality(Units(S, w) \cup Block) = Cardinality(Units(S, w)) + v[i]
  BY <1>3, <1>4, <1>5, <1>6
<1>8. QED BY <1>1, <1>5, <1>7 DEF Total

\* An item that leaves takes what it was worth with it.
LEMMA TotalRemove ==
  ASSUME NEW S, NEW i \in S, NEW v, NEW w, w[i] \in Nat,
         \A j \in S \ {i} : v[j] = w[j], IsFiniteSet(Units(S, w))
  PROVE  /\ IsFiniteSet(Units(S \ {i}, v))
         /\ Total(S \ {i}, v) = Total(S, w) - w[i]
<1> DEFINE R == S \ {i}
<1>1. R \cup {i} = S /\ i \notin R
  OBVIOUS
<1>2. Units(R, v) = Units(R, w)
  BY UnitsSame
<1>3. Units(R, w) \subseteq Units(S, w)
  BY DEF Units
<1>4. IsFiniteSet(Units(R, v)) /\ Total(R, v) \in Nat
  BY <1>2, <1>3, FS_Subset, FS_CardinalityType DEF Total
<1>5. Total(R \cup {i}, w) = Total(R, v) + w[i]
  <2>1. \A j \in R : w[j] = v[j]
    OBVIOUS
  <2>2. i \notin R /\ IsFiniteSet(Units(R, v)) /\ w[i] \in Nat
    BY <1>1, <1>4
  <2> HIDE DEF R
  <2>3. QED BY <2>1, <2>2, TotalAdd
<1>6. Total(S, w) = Total(R, v) + w[i]
  BY <1>1, <1>5
<1>7. QED BY <1>4, <1>6

\* Items that leave together take with them what they were worth together.
LEMMA TotalDifference ==
  ASSUME NEW S, NEW R \in SUBSET S, NEW w, IsFiniteSet(Units(S, w))
  PROVE  /\ IsFiniteSet(Units(R, w)) /\ IsFiniteSet(Units(S \ R, w))
         /\ Total(R, w) \in Nat /\ Total(S, w) \in Nat
         /\ Total(S \ R, w) = Total(S, w) - Total(R, w)
<1>1. /\ Units(R, w) \subseteq Units(S, w)
      /\ Units(S \ R, w) = Units(S, w) \ Units(R, w)
  BY DEF Units
<1>2. Units(S, w) \cap Units(R, w) = Units(R, w)
  BY <1>1
<1>3. /\ IsFiniteSet(Units(S, w) \ Units(R, w))
      /\ Cardinality(Units(S, w) \ Units(R, w))
           = Cardinality(Units(S, w)) - Cardinality(Units(S, w) \cap Units(R, w))
  BY FS_Difference
<1>4. IsFiniteSet(Units(R, w))
  BY <1>1, FS_Subset
<1>5. Total(R, w) \in Nat /\ Total(S, w) \in Nat
  BY <1>4, FS_CardinalityType DEF Total
<1>6. QED BY <1>1, <1>2, <1>3, <1>4, <1>5 DEF Total

\* No item is worth more than all of them.
LEMMA TotalCovers ==
  ASSUME NEW S, NEW i \in S, NEW w, w[i] \in Nat, IsFiniteSet(Units(S, w))
  PROVE  w[i] <= Total(S, w)
<1>1. Total({i}, w) = w[i]
  BY TotalOne
<1>2. IsFiniteSet(Units(S \ {i}, w)) /\ Total(S, w) \in Nat
      /\ Total(S \ {i}, w) = Total(S, w) - w[i]
  BY <1>1, TotalDifference
<1>3. Total(S \ {i}, w) \in Nat
  BY <1>2, FS_CardinalityType DEF Total
<1>4. QED BY <1>2, <1>3

\* A finite total is a natural number.
LEMMA TotalNat ==
  ASSUME NEW S, NEW w, IsFiniteSet(Units(S, w))
  PROVE  Total(S, w) \in Nat
BY FS_CardinalityType DEF Total

\* An item whose worth changes changes the total by as much.
LEMMA TotalChange ==
  ASSUME NEW S, NEW i \in S, NEW v, NEW w, w[i] \in Nat, v[i] \in Nat,
         \A j \in S \ {i} : v[j] = w[j], IsFiniteSet(Units(S, w))
  PROVE  /\ IsFiniteSet(Units(S, v))
         /\ Total(S, w) \in Nat /\ Total(S, v) \in Nat
         /\ Total(S, v) = Total(S, w) - w[i] + v[i]
<1> DEFINE R == S \ {i}
<1>1. R \cup {i} = S /\ i \notin R
  OBVIOUS
<1>2. IsFiniteSet(Units(R, w)) /\ Total(R, w) = Total(S, w) - w[i]
  BY TotalRemove
<1>3. /\ IsFiniteSet(Units(R \cup {i}, v))
      /\ Total(R \cup {i}, v) = Total(R, w) + v[i]
  <2>1. \A j \in R : v[j] = w[j]
    OBVIOUS
  <2> HIDE DEF R
  <2>2. QED BY <1>1, <1>2, <2>1, TotalAdd
<1>4. Total(S, w) \in Nat /\ Total(S, v) \in Nat
  BY <1>1, <1>3, TotalNat
<1>5. QED BY <1>1, <1>2, <1>3, <1>4

\* Items whose worth nobody changed add up to the same.
LEMMA TotalSame ==
  ASSUME NEW S, NEW v, NEW w, \A j \in S : v[j] = w[j]
  PROVE  Units(S, v) = Units(S, w) /\ Total(S, v) = Total(S, w)
BY UnitsSame DEF Total

-----------------------------------------------------------------------------
\* Every set of natural numbers has a least element.
LEMMA LeastElement ==
  ASSUME NEW S \in SUBSET Nat, S # {}
  PROVE  \E m \in S : \A k \in S : m <= k
<1> DEFINE R == OpToRel(<, Nat)
<1>1. IsWellFoundedOn(R, Nat)
  BY NatLessThanWellFounded
<1>2. \A k, m \in Nat : k < m => <<k, m>> \in R
  BY DEF OpToRel
<1> HIDE DEF R
<1>3. PICK m \in S : \A k \in S : ~ (<<k, m>> \in R)
  BY <1>1, WFMin
<1>4. \A k \in S : ~ (k < m)
  BY <1>2, <1>3
<1>5. QED BY <1>3, <1>4

\* What holds of zero and passes from every number to the next holds of all: the
\* induction is over the set of numbers it holds of.
LEMMA SetInduction ==
  ASSUME NEW S \in SUBSET Nat, 0 \in S, \A n \in S : n + 1 \in S
  PROVE  S = Nat
<1> SUFFICES ASSUME Nat \ S # {} PROVE FALSE
  OBVIOUS
<1>1. PICK m \in Nat \ S : \A k \in Nat \ S : m <= k
  BY LeastElement
<1>2. m # 0 /\ m - 1 \in Nat
  BY <1>1
<1>3. m - 1 \in S
  BY <1>1, <1>2
<1>4. QED BY <1>1, <1>2, <1>3

\* Finitely many numbers have a finite total.
LEMMA FiniteTotal ==
  ASSUME NEW n \in Nat, NEW w, \A k \in 1..n : w[k] \in Nat
  PROVE  \A m \in 0..n : IsFiniteSet(Units(1..m, w)) /\ Total(1..m, w) \in Nat
<1> DEFINE S == {m \in Nat : m <= n => IsFiniteSet(Units(1..m, w))}
<1>1. 0 \in S
  <2>1. 1..0 = {}
    OBVIOUS
  <2>2. QED BY <2>1, TotalEmpty
<1>2. ASSUME NEW m \in S PROVE m + 1 \in S
  <2> SUFFICES ASSUME m + 1 <= n PROVE IsFiniteSet(Units(1..(m + 1), w))
    OBVIOUS
  <2>1. 1..(m + 1) = (1..m) \cup {m + 1} /\ m + 1 \notin 1..m
    OBVIOUS
  <2>2. IsFiniteSet(Units(1..m, w)) /\ w[m + 1] \in Nat
    OBVIOUS
  <2>3. IsFiniteSet(Units((1..m) \cup {m + 1}, w))
    BY <2>1, <2>2, TotalAdd
  <2>4. QED BY <2>1, <2>3
<1> HIDE DEF S
<1>3. S = Nat
  <2>1. S \in SUBSET Nat
    BY DEF S
  <2>2. QED BY <1>1, <1>2, <2>1, SetInduction
<1>4. QED BY <1>3, TotalNat DEF S

\* Running totals, item by item.
LEMMA TotalNext ==
  ASSUME NEW n \in Nat, NEW w, \A k \in 1..n : w[k] \in Nat, NEW m \in 0..(n - 1)
  PROVE  /\ w[m + 1] \in Nat /\ Total(1..m, w) \in Nat
         /\ Total(1..(m + 1), w) = Total(1..m, w) + w[m + 1]
<1>1. m \in 0..n /\ m + 1 \in 1..n
  OBVIOUS
<1>2. IsFiniteSet(Units(1..m, w)) /\ Total(1..m, w) \in Nat /\ w[m + 1] \in Nat
  BY <1>1, FiniteTotal
<1>3. 1..(m + 1) = (1..m) \cup {m + 1} /\ m + 1 \notin 1..m
  OBVIOUS
<1>4. Total((1..m) \cup {m + 1}, w) = Total(1..m, w) + w[m + 1]
  <2> DEFINE R == 1..m
             i == m + 1
  <2>1. IsFiniteSet(Units(R, w)) /\ w[i] \in Nat /\ i \notin R
    BY <1>2, <1>3
  <2> HIDE DEF R, i
  <2>2. Total(R \cup {i}, w) = Total(R, w) + w[i]
    BY <2>1, TotalAdd
  <2>3. QED BY <2>2 DEF R, i
<1>5. QED BY <1>2, <1>3, <1>4

\* x ten-thousandths, rounded down, are q.
RoundsTo(x, q) == 10000 * q <= x /\ x <= 10000 * q + 9999

\* The first m parts, scaled up, are what the first m rates give of an amount, less
\* what the rounding took.
Rounded(m, amount, bps, part) ==
  /\ 10000 * Total(1..m, part) <= amount * Total(1..m, bps)
  /\ amount * Total(1..m, bps) <= 10000 * Total(1..m, part) + 9999 * m

Rounds(n, amount, bps, part) == \A k \in 1..n : RoundsTo(amount * bps[k], part[k])

LEMMA Distributes ==
  ASSUME NEW a \in Nat, NEW b \in Nat, NEW c \in Nat
  PROVE  a * b \in Nat /\ a * c \in Nat /\ a * (b + c) = a * b + a * c
OBVIOUS

LEMMA RoundedNext ==
  ASSUME NEW n \in Nat, NEW amount \in Nat, NEW bps, NEW part,
         \A k \in 1..n : bps[k] \in Nat, \A k \in 1..n : part[k] \in Nat,
         Rounds(n, amount, bps, part), NEW m \in 0..(n - 1), Rounded(m, amount, bps, part)
  PROVE  Rounded(m + 1, amount, bps, part)
<1>1. PICK q \in Nat, p \in Nat : /\ q = part[m + 1] /\ p = Total(1..m, part)
                                  /\ Total(1..(m + 1), part) = p + q
  BY TotalNext
<1>2. PICK r \in Nat, b \in Nat : /\ r = bps[m + 1] /\ b = Total(1..m, bps)
                                  /\ Total(1..(m + 1), bps) = b + r
  BY TotalNext
<1>3. amount * b \in Nat /\ amount * r \in Nat /\ amount * (b + r) = amount * b + amount * r
  BY Distributes
<1>4. 10000 * p <= amount * b /\ amount * b <= 10000 * p + 9999 * m
  BY <1>1, <1>2 DEF Rounded
<1>5. 10000 * q <= amount * r /\ amount * r <= 10000 * q + 9999
  <2>1. m + 1 \in 1..n
    OBVIOUS
  <2>2. QED BY <1>1, <1>2, <2>1 DEF Rounds, RoundsTo
<1>6. /\ 10000 * (p + q) <= amount * (b + r)
      /\ amount * (b + r) <= 10000 * (p + q) + 9999 * (m + 1)
  BY <1>3, <1>4, <1>5
<1>7. QED BY <1>1, <1>2, <1>6 DEF Rounded

\* By induction over the items.
LEMMA RoundedAll ==
  ASSUME NEW n \in Nat, NEW amount \in Nat, NEW bps, NEW part,
         \A k \in 1..n : bps[k] \in Nat, \A k \in 1..n : part[k] \in Nat,
         Rounds(n, amount, bps, part)
  PROVE  Rounded(n, amount, bps, part)
<1> DEFINE S == {m \in Nat : m <= n => Rounded(m, amount, bps, part)}
<1>1. 0 \in S
  <2>1. 1..0 = {}
    OBVIOUS
  <2>2. Total(1..0, part) = 0 /\ Total(1..0, bps) = 0
    BY <2>1, TotalEmpty
  <2>3. QED BY <2>2 DEF Rounded
<1>2. ASSUME NEW m \in S PROVE m + 1 \in S
  <2> SUFFICES ASSUME m + 1 <= n PROVE Rounded(m + 1, amount, bps, part)
    OBVIOUS
  <2>1. m \in 0..(n - 1) /\ Rounded(m, amount, bps, part)
    OBVIOUS
  <2>2. QED BY <2>1, RoundedNext
<1>3. S = Nat
  <2>1. S \in SUBSET Nat
    OBVIOUS
  <2> HIDE DEF S
  <2>2. QED BY <1>1, <1>2, <2>1, SetInduction
<1>4. QED BY <1>3

\* Whatever numbers are rounded that add up to an amount, the rounded ones add up
\* to the amount less at most a unit for each but one.
LEMMA RoundedSums ==
  ASSUME NEW n \in Nat, NEW amount \in Nat, NEW part, NEW bps,
         Total(1..n, part) \in Nat, Rounded(n, amount, bps, part), Total(1..n, bps) = 10000
  PROVE  amount - Total(1..n, part) \in 0..(n - 1)
<1>1. PICK p \in Nat : p = Total(1..n, part)
  OBVIOUS
<1>2. 10000 * p <= amount * 10000 /\ amount * 10000 <= 10000 * p + 9999 * n
  BY <1>1 DEF Rounded
<1>3. n # 0
  <2>1. 1..0 = {}
    OBVIOUS
  <2>2. QED BY <2>1, TotalEmpty
<1>4. amount - p \in 0..(n - 1)
  BY <1>2, <1>3
<1>5. QED BY <1>1, <1>4
=============================================================================
