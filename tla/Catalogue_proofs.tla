-------------------------- MODULE Catalogue_proofs --------------------------
(***************************************************************************)
(* Proofs about Catalogue: what the comparison engine answers is true of   *)
(* the tables, for any rows, lists and modes, and what the dashboard's     *)
(* aggregates answer is the same.                                          *)
(*                                                                         *)
(* The engine is made of loops, which the model writes as folds over       *)
(* sequences.  Folding is the rule to reason about one: what holds of the  *)
(* number of elements done and of the result so far, at the start and      *)
(* after each element, holds of the whole sequence and of the fold.  Its   *)
(* hypothesis and its conclusion are definitions of their own, which is    *)
(* what lets the provers match an operator argument.                       *)
(***************************************************************************)
EXTENDS Catalogue, FiniteSetTheorems, SequenceTheorems, WellFoundedInduction, NaturalsInduction, TLAPS

-----------------------------------------------------------------------------
(* Induction and folds *)

Inductive(P(_)) == P(0) /\ \A n \in Nat : P(n) => P(n + 1)
Everywhere(P(_)) == \A n \in Nat : P(n)

(* A nonempty set of naturals has a least element, and Min is it. *)
LEMMA MinIsFirst ==
    ASSUME NEW S \in SUBSET Nat, S # {}
    PROVE  Min(S) \in S /\ \A y \in S : Min(S) <= y
<1> DEFINE R == OpToRel(<, Nat)
<1>1. \E m \in S : \A y \in S : ~(<<y, m>> \in R)
  <2>1. IsWellFoundedOn(R, Nat)
    BY NatLessThanWellFounded
  <2> HIDE DEF R
  <2> QED
    BY <2>1, WFMin
<1>2. PICK m \in S : \A y \in S : ~(<<y, m>> \in R)
  BY <1>1
<1>3. \A y \in S : m <= y
  <2> SUFFICES ASSUME NEW y \in S PROVE m <= y
    OBVIOUS
  <2>1. ~(y < m)
    BY <1>2 DEF OpToRel
  <2> QED
    BY <2>1
<1> QED
  BY <1>3 DEF Min

(* What holds of 0, and of n + 1 when it holds of n, holds of every number. *)
LEMMA Induction ==
    ASSUME NEW P(_), Inductive(P)
    PROVE  Everywhere(P)
<1> DEFINE Bad == {n \in Nat : ~P(n)}
<1> SUFFICES Bad = {}
  BY DEF Everywhere
<1> SUFFICES ASSUME Bad # {} PROVE FALSE
  OBVIOUS
<1> DEFINE m == Min(Bad)
<1>1. m \in Bad /\ \A y \in Bad : m <= y
  <2>1. Bad \in SUBSET Nat
    OBVIOUS
  <2> HIDE DEF Bad
  <2> QED
    BY <2>1, MinIsFirst
<1> HIDE DEF m
<1>2. m \in Nat /\ ~P(m)
  BY <1>1
<1>3. m # 0
  BY <1>2 DEF Inductive
<1>4. m - 1 \in Nat /\ P(m - 1)
  BY <1>1, <1>2, <1>3
<1>5. P((m - 1) + 1)
  BY <1>4 DEF Inductive
<1>6. (m - 1) + 1 = m
  BY <1>2
<1> QED
  BY <1>2, <1>5, <1>6

(* The last element of a prefix is the greatest of its indices. *)
LEMMA MaxIsLast ==
    ASSUME NEW n \in Nat, NEW S \in SUBSET (1..n), S # {}
    PROVE  Max(S) \in S /\ \A y \in S : y <= Max(S)
<1> DEFINE T == {n - x : x \in S}
<1>1. T \in SUBSET Nat /\ T # {}
  <2>1. \A x \in S : n - x \in Nat
    OBVIOUS
  <2>2. PICK x : x \in S
    OBVIOUS
  <2>3. n - x \in T
    BY <2>2
  <2> QED
    BY <2>1, <2>3
<1> DEFINE m == Min(T)
<1>2. m \in T /\ \A y \in T : m <= y
  <2> HIDE DEF T
  <2> QED
    BY <1>1, MinIsFirst
<1> HIDE DEF m
<1>3. PICK x \in S : m = n - x
  BY <1>2
<1>4. \A y \in S : y <= x
  <2> SUFFICES ASSUME NEW y \in S PROVE y <= x
    OBVIOUS
  <2>1. n - y \in T
    OBVIOUS
  <2> QED
    BY <1>2, <1>3, <2>1
<1> QED
  BY <1>4 DEF Max

\* A fold takes the elements of a sequence one by one
Unfolds(op(_,_), base, s, n) ==
    \E iter : /\ FoldLeft(op, base, s) = iter[1..n]
              /\ iter[{}] = base
              /\ \A k \in 1..n : iter[1..k] = op(iter[1..(k - 1)], s[k])

LEMMA FoldLeftDef ==
    ASSUME NEW op(_,_), NEW base, NEW s, NEW n \in Nat, DOMAIN s = 1..n
    PROVE  Unfolds(op, base, s, n)
<1> DEFINE Def(iter, t) == IF t = {} THEN base ELSE op(iter[t \ {Max(t)}], s[Max(t)])
           D == SUBSET (1..n)
           R == StrictSubsetOrdering(1..n)
           f == CHOOSE g : g = [t \in D |-> Def(g, t)]
<1>1. FoldLeft(op, base, s) = f[1..n]
  BY Zenon DEF FoldLeft, MapThenFoldSet
<1>2. OpDefinesFcn(f, D, Def)
  BY Zenon DEF OpDefinesFcn
<1>3. IsWellFoundedOn(R, D)
  <2>1. IsFiniteSet(1..n)
    BY FS_Interval
  <2>2. FiniteSubsetsOf(1..n) = D
    BY <2>1, FS_Subset DEF FiniteSubsetsOf
  <2> QED
    BY <2>2, FS_StrictSubsetOrderingWellFounded
<1>4. \A t \in D : t # {} => Max(t) \in t /\ \A x \in t : x <= Max(t)
  BY MaxIsLast
<1>5. WFDefOn(R, D, Def)
  <2> SUFFICES ASSUME NEW g, NEW h, NEW t \in D, \A y \in SetLessThan(t, R, D) : g[y] = h[y]
               PROVE  Def(g, t) = Def(h, t)
    BY DEF WFDefOn
  <2>1. t # {} => t \ {Max(t)} \in SetLessThan(t, R, D)
    BY <1>4 DEF SetLessThan, StrictSubsetOrdering
  <2> QED
    BY <2>1
<1>6. WFInductiveDefines(f, D, Def)
  BY <1>2, <1>3, <1>5, WFInductiveDef
<1>7. \A t \in D : f[t] = Def(f, t)
  BY <1>6 DEF WFInductiveDefines
<1> HIDE DEF f
<1>8. f[{}] = base
  BY <1>7
<1>9. ASSUME NEW k \in 1..n PROVE f[1..k] = op(f[1..(k - 1)], s[k])
  <2>1. 1..k \in D /\ 1..k # {}
    <3>1. \A i \in 1..k : i \in 1..n
      OBVIOUS
    <3>2. k \in 1..k
      OBVIOUS
    <3> QED
      BY <3>1, <3>2
  <2>2. Max(1..k) = k
    BY <1>4, <2>1
  <2>3. (1..k) \ {k} = 1..(k - 1)
    OBVIOUS
  <2>4. f[1..k] = Def(f, 1..k)
    BY <1>7, <2>1
  <2> QED
    BY <2>1, <2>2, <2>3, <2>4
<1> QED
  BY <1>1, <1>8, <1>9 DEF Unfolds

\* P holds of the start of a loop, and after each element if before it
Invariant(op(_,_), base, s, P(_,_)) ==
    /\ P(0, base)
    /\ \A k \in 1..Len(s) : \A acc : P(k - 1, acc) => P(k, op(acc, s[k]))

AtTheEnd(op(_,_), base, s, P(_,_)) == P(Len(s), FoldLeft(op, base, s))

LEMMA Folding ==
    ASSUME NEW op(_,_), NEW base, NEW S, NEW s \in Seq(S), NEW P(_,_), Invariant(op, base, s, P)
    PROVE  AtTheEnd(op, base, s, P)
<1>1. Len(s) \in Nat /\ DOMAIN s = 1..Len(s)
  OBVIOUS
<1>2. PICK iter : /\ FoldLeft(op, base, s) = iter[1..Len(s)]
                  /\ iter[{}] = base
                  /\ \A k \in 1..Len(s) : iter[1..k] = op(iter[1..(k - 1)], s[k])
  <2>1. Unfolds(op, base, s, Len(s))
    BY <1>1, FoldLeftDef
  <2> QED
    BY <2>1 DEF Unfolds
<1> DEFINE Q(k) == k \in 0..Len(s) => P(k, iter[1..k])
<1>3. Inductive(Q)
  <2>1. Q(0)
    <3>1. 1..0 = {}
      OBVIOUS
    <3> QED
      BY <1>2, <3>1 DEF Invariant
  <2>2. ASSUME NEW k \in Nat, Q(k) PROVE Q(k + 1)
    <3> SUFFICES ASSUME k + 1 \in 0..Len(s) PROVE P(k + 1, iter[1..(k + 1)])
      OBVIOUS
    <3>1. k + 1 \in 1..Len(s) /\ k \in 0..Len(s) /\ (k + 1) - 1 = k
      BY <1>1
    <3>2. P(k, iter[1..k])
      BY <2>2, <3>1
    <3>3. P(k + 1, op(iter[1..k], s[k + 1]))
      <4>1. \A acc : P((k + 1) - 1, acc) => P(k + 1, op(acc, s[k + 1]))
        BY <3>1 DEF Invariant
      <4> QED
        BY <3>1, <3>2, <4>1
    <3>4. iter[1..(k + 1)] = op(iter[1..k], s[k + 1])
      <4>1. iter[1..(k + 1)] = op(iter[1..((k + 1) - 1)], s[k + 1])
        BY <1>2, <3>1
      <4> QED
        BY <3>1, <4>1
    <3> QED
      BY <3>3, <3>4
  <2> QED
    BY <2>1, <2>2 DEF Inductive
<1>4. Everywhere(Q)
  BY <1>3, Induction
<1>5. Q(Len(s))
  BY <1>1, <1>4 DEF Everywhere
<1> QED
  BY <1>1, <1>2, <1>5 DEF AtTheEnd

\* P holds of the empty sequence, and of a longer one if of the shorter
Extending(P(_), T) ==
    /\ P(<<>>)
    /\ \A s \in Seq(T), x \in T : P(s) => P(Append(s, x))

OfAll(P(_), T) == \A s \in Seq(T) : P(s)

(* What holds of <<>>, and of Append(s, x) when of s, holds of all.        *)
LEMMA SequenceInduction ==
    ASSUME NEW P(_), NEW T, Extending(P, T)
    PROVE  OfAll(P, T)
<1> DEFINE Q(n) == \A s \in Seq(T) : Len(s) = n => P(s)
<1>1. Inductive(Q)
  <2>1. Q(0)
    <3>1. \A s \in Seq(T) : Len(s) = 0 => s = <<>>
      BY EmptySeq
    <3> QED
      BY <3>1 DEF Extending
  <2>2. ASSUME NEW n \in Nat, Q(n) PROVE Q(n + 1)
    <3> SUFFICES ASSUME NEW s \in Seq(T), Len(s) = n + 1 PROVE P(s)
      OBVIOUS
    <3>1. s # <<>>
      BY <2>2 
    <3>2. PICK front \in Seq(T), x \in T : s = Append(front, x)
      BY <3>1, SequenceEmptyOrAppend
    <3>3. Len(front) = n
      BY <3>2, <2>2
    <3>4. P(front)
      BY <2>2, <3>3
    <3>5. P(Append(front, x))
      BY <3>4 DEF Extending
    <3> QED
      BY <3>2, <3>5
  <2> QED
    BY <2>1, <2>2 DEF Inductive
<1>2. Everywhere(Q)
  BY <1>1, Induction
<1>3. ASSUME NEW s \in Seq(T) PROVE P(s)
  <2>1. Len(s) \in Nat
    OBVIOUS
  <2>2. Q(Len(s))
    BY <1>2, <2>1 DEF Everywhere
  <2> QED
    BY <2>2
<1> QED
  BY <1>3 DEF OfAll

\* What a fold does with an empty and with a longer sequence
Steps(op(_,_), base, T) ==
    /\ FoldLeft(op, base, <<>>) = base
    /\ \A s \in Seq(T), x \in T : FoldLeft(op, base, Append(s, x)) = op(FoldLeft(op, base, s), x)

LEMMA FoldSteps ==
    ASSUME NEW op(_,_), NEW base, NEW T
    PROVE  Steps(op, base, T)
<1>1. FoldLeft(op, base, <<>>) = base
  <2>1. Unfolds(op, base, <<>>, 0)
    BY FoldLeftDef
  <2>2. 1..0 = {}
    OBVIOUS
  <2> QED
    BY <2>1, <2>2 DEF Unfolds
<1>2. ASSUME NEW s \in Seq(T), NEW x \in T
      PROVE  FoldLeft(op, base, Append(s, x)) = op(FoldLeft(op, base, s), x)
  <2> DEFINE t == Append(s, x)
             n == Len(s)
  <2>1. n \in Nat /\ DOMAIN t = 1..(n + 1) /\ (n + 1) - 1 = n /\ n + 1 \in 1..(n + 1)
    BY AppendProperties
  <2>2. t[n + 1] = x /\ \A k \in 1..n : t[k] = s[k] /\ k \in 1..(n + 1)
    BY AppendProperties
  <2>3. PICK iter : /\ FoldLeft(op, base, t) = iter[1..(n + 1)]
                    /\ iter[{}] = base
                    /\ \A k \in 1..(n + 1) : iter[1..k] = op(iter[1..(k - 1)], t[k])
    <3>1. n + 1 \in Nat /\ DOMAIN t = 1..(n + 1)
      BY <2>1
    <3> HIDE DEF t, n
    <3>2. Unfolds(op, base, t, n + 1)
      BY <3>1, FoldLeftDef
    <3> QED
      BY <3>2 DEF Unfolds
  <2> DEFINE P(k, acc) == acc = iter[1..k]
  <2>4. Invariant(op, base, s, P)
    <3>1. P(0, base)
      <4>1. 1..0 = {}
        OBVIOUS
      <4> QED
        BY <2>3, <4>1
    <3>2. ASSUME NEW k \in 1..n, NEW acc, P(k - 1, acc) PROVE P(k, op(acc, s[k]))
      BY <2>2, <2>3, <3>2
    <3> QED
      BY <3>1, <3>2 DEF Invariant
  <2>5. AtTheEnd(op, base, s, P)
    BY <2>4, Folding
  <2>6. FoldLeft(op, base, s) = iter[1..n]
    BY <2>5 DEF AtTheEnd
  <2>7. iter[1..(n + 1)] = op(iter[1..n], x)
    <3>1. iter[1..(n + 1)] = op(iter[1..((n + 1) - 1)], t[n + 1])
      BY <2>1, <2>3
    <3> QED
      BY <3>1, <2>1, <2>2
  <2> QED
    BY <2>3, <2>6, <2>7
<1> QED
  BY <1>1, <1>2 DEF Steps

-----------------------------------------------------------------------------
(* The rows that pass a test *)

\* What filtering does with an empty and with a longer sequence
Filters(Test(_), T) ==
    /\ Where(<<>>, Test) = <<>>
    /\ \A s \in Seq(T), x \in T :
        Where(Append(s, x), Test) = IF Test(x) THEN Append(Where(s, Test), x) ELSE Where(s, Test)

LEMMA WhereSteps ==
    ASSUME NEW Test(_), NEW T
    PROVE  Filters(Test, T)
<1> DEFINE op(kept, row) == IF Test(row) THEN Append(kept, row) ELSE kept
<1>1. Steps(op, <<>>, T)
  BY FoldSteps
<1>2. \A s : Where(s, Test) = FoldLeft(op, <<>>, s)
  BY Zenon DEF Where
<1> QED
  BY <1>1, <1>2, Zenon DEF Steps, Filters

\* Filtering keeps rows of the table and no others
Keeps(Test(_), T) == \A s \in Seq(T) : Where(s, Test) \in Seq(T) /\ ToSet(Where(s, Test)) \subseteq ToSet(s)

LEMMA ToSetAppend ==
    ASSUME NEW T, NEW s \in Seq(T), NEW x \in T
    PROVE  ToSet(Append(s, x)) = ToSet(s) \cup {x}
<1> DEFINE t == Append(s, x)
           n == Len(s)
<1>1. n \in Nat /\ DOMAIN s = 1..n /\ DOMAIN t = 1..(n + 1)
  BY AppendProperties
<1>2. t[n + 1] = x /\ \A k \in 1..n : t[k] = s[k]
  BY AppendProperties
<1>3. 1..(n + 1) = (1..n) \cup {n + 1}
  BY <1>1
<1> HIDE DEF t, n
<1>4. ToSet(t) = ToSet(s) \cup {x}
  BY <1>1, <1>2, <1>3 DEF ToSet
<1> QED
  BY <1>4 DEF t

LEMMA WhereKeeps ==
    ASSUME NEW Test(_), NEW T
    PROVE  Keeps(Test, T)
<1> DEFINE P(s) == Where(s, Test) \in Seq(T) /\ ToSet(Where(s, Test)) \subseteq ToSet(s)
<1>1. Filters(Test, T)
  BY WhereSteps
<1>2. P(<<>>)
  <2>1. Where(<<>>, Test) = <<>>
    BY <1>1, Zenon DEF Filters
  <2>2. <<>> \in Seq(T)
    OBVIOUS
  <2> QED
    BY <2>1, <2>2, Zenon
<1>3. ASSUME NEW s \in Seq(T), NEW x \in T, P(s) PROVE P(Append(s, x))
  <2>1. CASE Test(x)
    <3>1. Where(Append(s, x), Test) = Append(Where(s, Test), x)
      BY <1>1, <2>1, Zenon DEF Filters
    <3>2. ToSet(Append(Where(s, Test), x)) = ToSet(Where(s, Test)) \cup {x}
      BY <1>3, ToSetAppend
    <3>3. Append(Where(s, Test), x) \in Seq(T)
      BY <1>3
    <3> QED
      BY <1>3, <3>1, <3>2, <3>3, ToSetAppend
  <2>2. CASE ~Test(x)
    <3>1. Where(Append(s, x), Test) = Where(s, Test)
      BY <1>1, <2>2, Zenon DEF Filters
    <3> QED
      BY <1>3, <3>1, ToSetAppend
  <2> QED
    BY <2>1, <2>2
<1>4. Extending(P, T)
  BY <1>2, <1>3, Zenon DEF Extending
<1>5. OfAll(P, T)
  BY <1>4, SequenceInduction
<1> QED
  BY <1>5 DEF OfAll, Keeps

-----------------------------------------------------------------------------
(* Quantities *)

LEMMA TotalQuantitySteps ==
    /\ TotalQuantity(<<>>) = 0
    /\ \A T : \A s \in Seq(T), x \in T : TotalQuantity(Append(s, x)) = TotalQuantity(s) + x.qty
<1> DEFINE op(n, row) == n + row.qty
<1>1. \A s : TotalQuantity(s) = FoldLeft(op, 0, s)
  BY Zenon DEF TotalQuantity
<1>2. ASSUME NEW T PROVE Steps(op, 0, T)
  BY FoldSteps
<1> QED
  BY <1>1, <1>2, Zenon DEF Steps

LEMMA ShortOfSteps ==
    /\ ShortOf(<<>>) = 0
    /\ \A T : \A s \in Seq(T), x \in T : ShortOf(Append(s, x)) = ShortOf(s) + x.short
<1> DEFINE op(n, line) == n + line.short
<1>1. \A s : ShortOf(s) = FoldLeft(op, 0, s)
  BY Zenon DEF ShortOf
<1>2. ASSUME NEW T PROVE Steps(op, 0, T)
  BY FoldSteps
<1> QED
  BY <1>1, <1>2, Zenon DEF Steps

LEMMA QuantityForSteps ==
    ASSUME NEW row, NEW mode, NEW T
    PROVE  /\ QuantityFor(<<>>, row, mode) = 0
           /\ \A s \in Seq(T), x \in T :
                QuantityFor(Append(s, x), row, mode) =
                    IF Serves(x, row, mode) THEN QuantityFor(s, row, mode) + x.qty ELSE QuantityFor(s, row, mode)
<1> DEFINE Test(card) == Serves(card, row, mode)
<1>1. \A s : QuantityFor(s, row, mode) = TotalQuantity(Where(s, Test))
  BY Zenon DEF QuantityFor
<1>2. Filters(Test, T) /\ Keeps(Test, T)
  BY WhereSteps, WhereKeeps
<1>3. QuantityFor(<<>>, row, mode) = 0
  BY <1>1, <1>2, TotalQuantitySteps DEF Filters
<1>4. ASSUME NEW s \in Seq(T), NEW x \in T
      PROVE  QuantityFor(Append(s, x), row, mode) =
                IF Test(x) THEN QuantityFor(s, row, mode) + x.qty ELSE QuantityFor(s, row, mode)
  <2>1. Where(s, Test) \in Seq(T)
    BY <1>2, Zenon DEF Keeps
  <2>2. Where(Append(s, x), Test) = IF Test(x) THEN Append(Where(s, Test), x) ELSE Where(s, Test)
    BY <1>2, Zenon DEF Filters
  <2>3. TotalQuantity(Append(Where(s, Test), x)) = TotalQuantity(Where(s, Test)) + x.qty
    BY <2>1, TotalQuantitySteps, Zenon
  <2> QED
    BY <1>1, <2>2, <2>3, Zenon
<1> QED
  BY <1>3, <1>4, Zenon

LEMMA LackingForSteps ==
    ASSUME NEW row, NEW mode, NEW T
    PROVE  /\ LackingFor(<<>>, row, mode) = 0
           /\ \A s \in Seq(T), x \in T :
                LackingFor(Append(s, x), row, mode) =
                    IF Serves(x.card, row, mode) THEN LackingFor(s, row, mode) + x.short
                    ELSE LackingFor(s, row, mode)
<1> DEFINE Test(line) == Serves(line.card, row, mode)
<1>1. \A s : LackingFor(s, row, mode) = ShortOf(Where(s, Test))
  BY Zenon DEF LackingFor
<1>2. Filters(Test, T) /\ Keeps(Test, T)
  BY WhereSteps, WhereKeeps
<1>3. LackingFor(<<>>, row, mode) = 0
  BY <1>1, <1>2, ShortOfSteps DEF Filters
<1>4. ASSUME NEW s \in Seq(T), NEW x \in T
      PROVE  LackingFor(Append(s, x), row, mode) =
                IF Test(x) THEN LackingFor(s, row, mode) + x.short ELSE LackingFor(s, row, mode)
  <2>1. Where(s, Test) \in Seq(T)
    BY <1>2, Zenon DEF Keeps
  <2>2. Where(Append(s, x), Test) = IF Test(x) THEN Append(Where(s, Test), x) ELSE Where(s, Test)
    BY <1>2, Zenon DEF Filters
  <2>3. ShortOf(Append(Where(s, Test), x)) = ShortOf(Where(s, Test)) + x.short
    BY <2>1, ShortOfSteps, Zenon
  <2> QED
    BY <1>1, <2>2, <2>3, Zenon
<1> QED
  BY <1>3, <1>4, Zenon

LEMMA OwnedPoolSteps ==
    ASSUME NEW mode, NEW T
    PROVE  /\ OwnedPool(<<>>, mode) = EmptyBag
           /\ \A s \in Seq(T), x \in T :
                OwnedPool(Append(s, x), mode) =
                    IF HasKey(x, mode) THEN OwnedPool(s, mode) (+) Copies(Key(x, mode), x.qty)
                    ELSE OwnedPool(s, mode)
<1> DEFINE op(pool, card) == IF HasKey(card, mode) THEN pool (+) Copies(Key(card, mode), card.qty) ELSE pool
<1>1. \A s : OwnedPool(s, mode) = FoldLeft(op, EmptyBag, s)
  BY Zenon DEF OwnedPool
<1>2. Steps(op, EmptyBag, T)
  BY FoldSteps
<1> QED
  BY <1>1, <1>2, Zenon DEF Steps

NothingYet == [missing |-> <<>>, applied |-> 0, consumed |-> EmptyBag]

LEMMA CompareLinesSteps ==
    ASSUME NEW pool, NEW mode, NEW T
    PROVE  /\ CompareLines(pool, <<>>, mode) = NothingYet
           /\ \A s \in Seq(T), x \in T :
                CompareLines(pool, Append(s, x), mode) = CompareLine(pool, mode, CompareLines(pool, s, mode), x)
<1> DEFINE op(acc, card) == CompareLine(pool, mode, acc, card)
<1>1. \A s : CompareLines(pool, s, mode) = FoldLeft(op, NothingYet, s)
  BY Zenon DEF CompareLines, NothingYet
<1>2. Steps(op, NothingYet, T)
  BY FoldSteps
<1> QED
  BY <1>1, <1>2, Zenon DEF Steps

-----------------------------------------------------------------------------
(* Bags, and the smaller and the greater of two numbers *)

LEMMA MinOfTwo ==
    ASSUME NEW a \in Int, NEW b \in Int
    PROVE  Min({a, b}) = IF a <= b THEN a ELSE b
<1>1. CASE a <= b
  <2>1. \A y \in {a, b} : a <= y
    BY <1>1
  <2>2. \A x \in {a, b} : (\A y \in {a, b} : x <= y) => x = a
    BY <1>1
  <2> QED
    BY <1>1, <2>1, <2>2 DEF Min
<1>2. CASE ~(a <= b)
  <2>1. \A y \in {a, b} : b <= y
    BY <1>2
  <2>2. \A x \in {a, b} : (\A y \in {a, b} : x <= y) => x = b
    BY <1>2
  <2> QED
    BY <1>2, <2>1, <2>2 DEF Min
<1> QED
  BY <1>1, <1>2

LEMMA MaxOfTwo ==
    ASSUME NEW a \in Int, NEW b \in Int
    PROVE  Max({a, b}) = IF a >= b THEN a ELSE b
<1>1. CASE a >= b
  <2>1. \A y \in {a, b} : a >= y
    BY <1>1
  <2>2. \A x \in {a, b} : (\A y \in {a, b} : x >= y) => x = a
    BY <1>1
  <2> QED
    BY <1>1, <2>1, <2>2 DEF Max
<1>2. CASE ~(a >= b)
  <2>1. \A y \in {a, b} : b >= y
    BY <1>2
  <2>2. \A x \in {a, b} : (\A y \in {a, b} : x >= y) => x = b
    BY <1>2
  <2> QED
    BY <1>2, <2>1, <2>2 DEF Max
<1> QED
  BY <1>1, <1>2

LEMMA HeldUnion ==
    \A A, B : \A key : Held(A (+) B, key) = Held(A, key) + Held(B, key)
BY DEF Held, (+)

LEMMA HeldCopies ==
    ASSUME NEW key, NEW n, NEW other
    PROVE  Held(Copies(key, n), other) = IF other = key THEN n ELSE 0
BY DEF Held, Copies

LEMMA HeldEmpty == \A key : Held(EmptyBag, key) = 0
BY DEF Held, EmptyBag, SetToBag

-----------------------------------------------------------------------------
(* A collection or a list as a bag of keys: what serves a requirement is   *)
(* what the bag holds of its key.                                          *)

LEMMA ServesByKey ==
    ASSUME NEW card, NEW row, NEW mode \in Modes
    PROVE  Serves(card, row, mode)
               <=> HasKey(row, mode) /\ HasKey(card, mode) /\ Key(card, mode) = Key(row, mode)
<1>1. CASE mode = "oracle"
  BY <1>1 DEF Serves, HasKey, Key, OracleKey
<1>2. CASE mode = "printing"
  BY <1>2 DEF Serves, HasKey, Key
<1> QED
  BY <1>1, <1>2 DEF Modes

\* Rows of a positive quantity
Rows(T) == \A x \in T : x.qty \in Nat \ {0}

LEMMA PoolHolds ==
    ASSUME NEW mode, NEW T, Rows(T)
    PROVE  \A s \in Seq(T) : \A key : Held(OwnedPool(s, mode), key) \in Nat
<1> DEFINE P(s) == \A key : Held(OwnedPool(s, mode), key) \in Nat
<1>1. P(<<>>)
  BY OwnedPoolSteps, HeldEmpty
<1>2. ASSUME NEW s \in Seq(T), NEW x \in T, P(s) PROVE P(Append(s, x))
  <2> SUFFICES ASSUME NEW key PROVE Held(OwnedPool(Append(s, x), mode), key) \in Nat
    OBVIOUS
  <2>1. CASE HasKey(x, mode)
    <3>1. Held(OwnedPool(Append(s, x), mode), key)
              = Held(OwnedPool(s, mode), key) + Held(Copies(Key(x, mode), x.qty), key)
      <4>1. OwnedPool(Append(s, x), mode) = OwnedPool(s, mode) (+) Copies(Key(x, mode), x.qty)
        BY <2>1, OwnedPoolSteps, Zenon
      <4> QED
        BY <4>1, HeldUnion
    <3>2. Held(Copies(Key(x, mode), x.qty), key) \in Nat
      BY HeldCopies DEF Rows
    <3> QED
      BY <1>2, <3>1, <3>2
  <2>2. CASE ~HasKey(x, mode)
    BY <1>2, <2>2, OwnedPoolSteps
  <2> QED
    BY <2>1, <2>2
<1>3. Extending(P, T)
  BY <1>1, <1>2, Zenon DEF Extending
<1>4. OfAll(P, T)
  BY <1>3, SequenceInduction
<1> QED
  BY <1>4 DEF OfAll

LEMMA PoolSteps ==
    ASSUME NEW mode, NEW T, Rows(T), NEW s \in Seq(T), NEW x \in T, NEW key
    PROVE  Held(OwnedPool(Append(s, x), mode), key) =
               IF HasKey(x, mode) /\ Key(x, mode) = key THEN Held(OwnedPool(s, mode), key) + x.qty
               ELSE Held(OwnedPool(s, mode), key)
<1>1. Held(OwnedPool(s, mode), key) \in Nat
  BY PoolHolds
<1>2. CASE HasKey(x, mode)
  <2>1. Held(OwnedPool(Append(s, x), mode), key)
            = Held(OwnedPool(s, mode), key) + Held(Copies(Key(x, mode), x.qty), key)
    <3>1. OwnedPool(Append(s, x), mode) = OwnedPool(s, mode) (+) Copies(Key(x, mode), x.qty)
      BY <1>2, OwnedPoolSteps, Zenon
    <3> QED
      BY <3>1, HeldUnion
  <2>2. Held(Copies(Key(x, mode), x.qty), key) = IF key = Key(x, mode) THEN x.qty ELSE 0
    BY HeldCopies
  <2> QED
    BY <1>1, <1>2, <2>1, <2>2
<1>3. CASE ~HasKey(x, mode)
  BY <1>3, OwnedPoolSteps
<1> QED
  BY <1>2, <1>3

LEMMA PoolServes ==
    ASSUME NEW mode \in Modes, NEW T, Rows(T), NEW row
    PROVE  \A s \in Seq(T) :
               QuantityFor(s, row, mode) =
                   IF HasKey(row, mode) THEN Held(OwnedPool(s, mode), Key(row, mode)) ELSE 0
<1> DEFINE P(s) == QuantityFor(s, row, mode) =
                       IF HasKey(row, mode) THEN Held(OwnedPool(s, mode), Key(row, mode)) ELSE 0
<1>1. P(<<>>)
  BY OwnedPoolSteps, HeldEmpty, QuantityForSteps
<1>2. ASSUME NEW s \in Seq(T), NEW x \in T, P(s) PROVE P(Append(s, x))
  <2>1. Held(OwnedPool(Append(s, x), mode), Key(row, mode)) =
            IF HasKey(x, mode) /\ Key(x, mode) = Key(row, mode)
            THEN Held(OwnedPool(s, mode), Key(row, mode)) + x.qty
            ELSE Held(OwnedPool(s, mode), Key(row, mode))
    BY PoolSteps
  <2>2. QuantityFor(Append(s, x), row, mode) =
            IF Serves(x, row, mode) THEN QuantityFor(s, row, mode) + x.qty ELSE QuantityFor(s, row, mode)
    BY QuantityForSteps
  <2>3. Serves(x, row, mode) <=> HasKey(row, mode) /\ HasKey(x, mode) /\ Key(x, mode) = Key(row, mode)
    BY ServesByKey
  <2> QED
    BY <1>2, <2>1, <2>2, <2>3, Zenon
<1>3. Extending(P, T)
  BY <1>1, <1>2, Zenon DEF Extending
<1>4. OfAll(P, T)
  BY <1>3, SequenceInduction
<1> QED
  BY <1>4 DEF OfAll

-----------------------------------------------------------------------------
(* The lines of a comparison: what the lines before have taken of a key is *)
(* their demand of it, or all there is when the demand is greater.         *)

IsPool(pool) == \A key : Held(pool, key) \in Nat

Demand(s, key, mode) == Held(OwnedPool(s, mode), key)

Taken(pool, s, mode) ==
    \A key : Held(CompareLines(pool, s, mode).consumed, key) =
                 IF Held(pool, key) <= Demand(s, key, mode) THEN Held(pool, key) ELSE Demand(s, key, mode)

\* What the lines before leave of the key of a row, and what it takes of that
Left(pool, s, row, mode) ==
    LET key == Key(row, mode)
    IN IF HasKey(row, mode) /\ Held(pool, key) > Demand(s, key, mode) THEN Held(pool, key) - Demand(s, key, mode)
       ELSE 0

Applied(pool, s, row, mode) ==
    IF Left(pool, s, row, mode) <= row.qty THEN Left(pool, s, row, mode) ELSE row.qty

LEMMA AppliedTyped ==
    ASSUME NEW mode, NEW T, Rows(T), NEW pool, IsPool(pool), NEW s \in Seq(T), NEW row \in T
    PROVE  Left(pool, s, row, mode) \in Nat /\ Applied(pool, s, row, mode) \in 0..row.qty
<1> DEFINE key == Key(row, mode)
<1>1. Held(pool, key) \in Nat /\ Demand(s, key, mode) \in Nat /\ row.qty \in Nat
  BY PoolHolds DEF IsPool, Demand, Rows
<1> HIDE DEF key
<1>2. Left(pool, s, row, mode) \in Nat
  BY <1>1 DEF Left, key
<1> QED
  BY <1>1, <1>2 DEF Applied

\* What a line that takes a copies changes
TakesCopies(before, after, x, a, mode) ==
    /\ after.missing = IF a < x.qty THEN Append(before.missing, [card |-> x, short |-> x.qty - a])
                       ELSE before.missing
    /\ after.applied = before.applied + a
    /\ after.consumed = IF a > 0 THEN before.consumed (+) Copies(Key(x, mode), a) ELSE before.consumed

LEMMA LineTakes ==
    ASSUME NEW mode, NEW T, Rows(T), NEW pool, IsPool(pool), NEW s \in Seq(T), NEW x \in T, Taken(pool, s, mode)
    PROVE  TakesCopies(CompareLines(pool, s, mode), CompareLines(pool, Append(s, x), mode), x,
                       Applied(pool, s, x, mode), mode)
<1> DEFINE a == Applied(pool, s, x, mode)
           before == CompareLines(pool, s, mode)
           after == CompareLines(pool, Append(s, x), mode)
<1> DEFINE key == Key(x, mode)
           h == Held(pool, key)
           d == Demand(s, key, mode)
           c == Held(before.consumed, key)
           available == IF HasKey(x, mode) THEN Max({h - c, 0}) ELSE 0
           applied == Min({available, x.qty})
<1>1. h \in Nat /\ d \in Nat /\ x.qty \in Nat
  BY PoolHolds DEF IsPool, Demand, Rows
<1>2. c = IF h <= d THEN h ELSE d
  BY DEF Taken
<1>3. Left(pool, s, x, mode) = IF HasKey(x, mode) /\ h > d THEN h - d ELSE 0
  BY DEF Left
<1>4. available = Left(pool, s, x, mode)
  <2> HIDE DEF h, c, d
  <2>1. c \in Nat /\ h - c \in Int
    BY <1>1, <1>2
  <2>2. Max({h - c, 0}) = IF h - c >= 0 THEN h - c ELSE 0
    BY <2>1, MaxOfTwo
  <2> QED
    BY <1>1, <1>2, <1>3, <2>2
<1>5. applied = a
  <2>1. Left(pool, s, x, mode) \in Int
    BY AppliedTyped
  <2> HIDE DEF available
  <2> QED
    BY <1>1, <1>4, <2>1, MinOfTwo DEF Applied
<1>6. after = CompareLine(pool, mode, before, x)
  BY CompareLinesSteps
<1>7. CompareLine(pool, mode, before, x) =
          [missing |-> IF applied < x.qty THEN Append(before.missing, [card |-> x, short |-> x.qty - applied])
                       ELSE before.missing,
           applied |-> before.applied + applied,
           consumed |-> IF applied > 0 THEN before.consumed (+) Copies(key, applied) ELSE before.consumed]
  BY Zenon DEF CompareLine
<1> HIDE DEF applied, after, before, a
<1> SUFFICES TakesCopies(before, after, x, a, mode)
  BY DEF after, before, a
<1> QED
  BY <1>5, <1>6, <1>7 DEF TakesCopies

LEMMA TakesInOrder ==
    ASSUME NEW mode, NEW T, Rows(T), NEW pool, IsPool(pool)
    PROVE  \A s \in Seq(T) : Taken(pool, s, mode)
<1> DEFINE P(s) == Taken(pool, s, mode)
<1>1. P(<<>>)
  <2>1. CompareLines(pool, <<>>, mode).consumed = EmptyBag
    BY CompareLinesSteps DEF NothingYet
  <2>2. \A key : Demand(<<>>, key, mode) = 0
    BY OwnedPoolSteps, HeldEmpty DEF Demand
  <2> QED
    BY <2>1, <2>2, HeldEmpty DEF Taken, IsPool
<1>2. ASSUME NEW s \in Seq(T), NEW x \in T, P(s) PROVE P(Append(s, x))
  <2> SUFFICES ASSUME NEW k
               PROVE  Held(CompareLines(pool, Append(s, x), mode).consumed, k) =
                          IF Held(pool, k) <= Demand(Append(s, x), k, mode) THEN Held(pool, k)
                          ELSE Demand(Append(s, x), k, mode)
    BY DEF Taken
  <2> DEFINE a == Applied(pool, s, x, mode)
             before == CompareLines(pool, s, mode)
             after == CompareLines(pool, Append(s, x), mode)
             h == Held(pool, k)
             d == Demand(s, k, mode)
             c == Held(before.consumed, k)
             g == Held(after.consumed, k)
             e == Demand(Append(s, x), k, mode)
  <2> SUFFICES g = IF h <= e THEN h ELSE e
    OBVIOUS
  <2>1. h \in Nat /\ d \in Nat /\ x.qty \in Nat \ {0} /\ a \in 0..x.qty
    BY PoolHolds, AppliedTyped DEF IsPool, Demand, Rows
  <2>2. c = IF h <= d THEN h ELSE d
    BY <1>2 DEF Taken
  <2>3. after.consumed = IF a > 0 THEN before.consumed (+) Copies(Key(x, mode), a) ELSE before.consumed
    <3>1. TakesCopies(before, after, x, a, mode)
      BY <1>2, LineTakes
    <3> HIDE DEF before, after, a
    <3> QED
      BY <3>1 DEF TakesCopies
  <2>4. e = IF HasKey(x, mode) /\ Key(x, mode) = k THEN d + x.qty ELSE d
    BY PoolSteps DEF Demand
  <2>5. g = IF a > 0 /\ Key(x, mode) = k THEN c + a ELSE c
    <3>1. CASE a > 0
      <4>1. Held(before.consumed (+) Copies(Key(x, mode), a), k) = c + Held(Copies(Key(x, mode), a), k)
        BY HeldUnion
      <4>2. Held(Copies(Key(x, mode), a), k) = IF k = Key(x, mode) THEN a ELSE 0
        BY HeldCopies
      <4>3. c \in Nat
        BY <2>1, <2>2
      <4> HIDE DEF a, c, before, after
      <4> QED
        BY <3>1, <2>1, <2>3, <4>1, <4>2, <4>3
    <3>2. CASE ~(a > 0)
      BY <3>2, <2>3
    <3> QED
      BY <3>1, <3>2
  <2>6. CASE HasKey(x, mode) /\ Key(x, mode) = k
    <3>1. Left(pool, s, x, mode) = IF h > d THEN h - d ELSE 0
      BY <2>6 DEF Left
    <3>2. a = IF Left(pool, s, x, mode) <= x.qty THEN Left(pool, s, x, mode) ELSE x.qty
      BY DEF Applied
    <3> HIDE DEF a, h, d, c, g, e
    <3> QED
      BY <2>1, <2>2, <2>4, <2>5, <2>6, <3>1, <3>2
  <2>7. CASE ~HasKey(x, mode)
    <3>1. Left(pool, s, x, mode) = 0
      BY <2>7 DEF Left
    <3>2. a = 0
      BY <2>1, <3>1 DEF Applied
    <3> HIDE DEF a, h, d, c, g, e
    <3> QED
      BY <2>1, <2>2, <2>4, <2>5, <2>7, <3>2
  <2>8. CASE Key(x, mode) # k
    <3> HIDE DEF a, h, d, c, g, e
    <3> QED
      BY <2>1, <2>2, <2>4, <2>5, <2>8
  <2> QED
    BY <2>6, <2>7, <2>8
<1>3. Extending(P, T)
  BY <1>1, <1>2, Zenon DEF Extending
<1>4. OfAll(P, T)
  BY <1>3, SequenceInduction
<1> QED
  BY <1>4 DEF OfAll

-----------------------------------------------------------------------------
(* What the lines of a comparison add up to *)

MissingLines(T) == [card : T, short : Nat \ {0}]

LEMMA TotalTyped ==
    ASSUME NEW T, Rows(T)
    PROVE  \A s \in Seq(T) : TotalQuantity(s) \in Nat
<1> DEFINE P(s) == TotalQuantity(s) \in Nat
<1>1. P(<<>>)
  BY TotalQuantitySteps
<1>2. ASSUME NEW s \in Seq(T), NEW x \in T, P(s) PROVE P(Append(s, x))
  <2>1. TotalQuantity(Append(s, x)) = TotalQuantity(s) + x.qty
    BY TotalQuantitySteps, Zenon
  <2> QED
    BY <1>2, <2>1 DEF Rows
<1>3. Extending(P, T)
  BY <1>1, <1>2, Zenon DEF Extending
<1>4. OfAll(P, T)
  BY <1>3, SequenceInduction
<1> QED
  BY <1>4 DEF OfAll

LEMMA LinesAddUp ==
    ASSUME NEW mode, NEW T, Rows(T), NEW pool, IsPool(pool)
    PROVE  \A s \in Seq(T) :
               /\ CompareLines(pool, s, mode).missing \in Seq(MissingLines(T))
               /\ CompareLines(pool, s, mode).applied \in Nat
               /\ ShortOf(CompareLines(pool, s, mode).missing) \in Nat
               /\ CompareLines(pool, s, mode).applied + ShortOf(CompareLines(pool, s, mode).missing)
                      = TotalQuantity(s)
<1> DEFINE P(s) == /\ CompareLines(pool, s, mode).missing \in Seq(MissingLines(T))
                   /\ CompareLines(pool, s, mode).applied \in Nat
                   /\ ShortOf(CompareLines(pool, s, mode).missing) \in Nat
                   /\ CompareLines(pool, s, mode).applied + ShortOf(CompareLines(pool, s, mode).missing)
                          = TotalQuantity(s)
<1>1. P(<<>>)
  <2>1. CompareLines(pool, <<>>, mode).missing = <<>> /\ CompareLines(pool, <<>>, mode).applied = 0
    BY CompareLinesSteps DEF NothingYet
  <2>2. ShortOf(<<>>) = 0 /\ TotalQuantity(<<>>) = 0
    BY ShortOfSteps, TotalQuantitySteps
  <2>3. <<>> \in Seq(MissingLines(T))
    OBVIOUS
  <2> DEFINE e == CompareLines(pool, <<>>, mode)
  <2> HIDE DEF e
  <2>4. /\ e.missing \in Seq(MissingLines(T))
        /\ e.applied \in Nat
        /\ ShortOf(e.missing) \in Nat
        /\ e.applied + ShortOf(e.missing) = TotalQuantity(<<>>)
    <3>1. e.missing = <<>> /\ e.applied = 0
      BY <2>1 DEF e
    <3>2. e.missing \in Seq(MissingLines(T))
      BY <2>3, <3>1, Zenon
    <3>3. ShortOf(e.missing) = 0
      BY <2>2, <3>1, Zenon
    <3> QED
      BY <2>2, <3>1, <3>2, <3>3
  <2> QED
    BY <2>4 DEF e
<1>2. ASSUME NEW s \in Seq(T), NEW x \in T, P(s) PROVE P(Append(s, x))
  <2> DEFINE a == Applied(pool, s, x, mode)
             before == CompareLines(pool, s, mode)
             after == CompareLines(pool, Append(s, x), mode)
             line == [card |-> x, short |-> x.qty - a]
  <2>1. TakesCopies(before, after, x, a, mode)
    BY TakesInOrder, LineTakes
  <2>2. x.qty \in Nat \ {0} /\ a \in 0..x.qty
    BY AppliedTyped DEF Rows
  <2>3. TotalQuantity(Append(s, x)) = TotalQuantity(s) + x.qty
    BY TotalQuantitySteps, Zenon
  <2>4. TotalQuantity(s) \in Nat
    BY TotalTyped
  <2>5. before.missing \in Seq(MissingLines(T)) /\ before.applied \in Nat /\ ShortOf(before.missing) \in Nat
        /\ before.applied + ShortOf(before.missing) = TotalQuantity(s)
    BY <1>2
  <2> HIDE DEF a, before, after
  <2>6. after.applied = before.applied + a
    BY <2>1 DEF TakesCopies
  <2>7. CASE a < x.qty
    <3>1. after.missing = Append(before.missing, line)
      BY <2>1, <2>7 DEF TakesCopies
    <3>2. line \in MissingLines(T) /\ line.short = x.qty - a
      BY <2>2, <2>7 DEF MissingLines
    <3> HIDE DEF line
    <3>3. ShortOf(Append(before.missing, line)) = ShortOf(before.missing) + line.short
      BY <2>5, <3>2, ShortOfSteps, Zenon
    <3>4. Append(before.missing, line) \in Seq(MissingLines(T))
      BY <2>5, <3>2
    <3>5. after.missing \in Seq(MissingLines(T)) /\ ShortOf(after.missing) = ShortOf(before.missing) + (x.qty - a)
      BY <3>1, <3>2, <3>3, <3>4
    <3>6. before.applied \in Nat /\ ShortOf(before.missing) \in Nat
          /\ before.applied + ShortOf(before.missing) = TotalQuantity(s)
      BY <2>5
    <3>7. ShortOf(after.missing) = ShortOf(before.missing) + (x.qty - a)
      BY <3>5
    <3>8. /\ after.applied \in Nat
          /\ ShortOf(after.missing) \in Nat
          /\ after.applied + ShortOf(after.missing) = TotalQuantity(Append(s, x))
      BY <2>2, <2>3, <2>6, <3>6, <3>7
    <3> QED
      BY <3>5, <3>8 DEF after
  <2>8. CASE ~(a < x.qty)
    <3>1. after.missing = before.missing
      BY <2>1, <2>8 DEF TakesCopies
    <3>2. after.missing \in Seq(MissingLines(T)) /\ ShortOf(after.missing) = ShortOf(before.missing)
      BY <2>5, <3>1
    <3>3. a = x.qty
      BY <2>2, <2>8
    <3>4. /\ after.applied \in Nat
          /\ ShortOf(after.missing) \in Nat
          /\ after.applied + ShortOf(after.missing) = TotalQuantity(Append(s, x))
      BY <2>2, <2>3, <2>4, <2>5, <2>6, <3>2, <3>3
    <3> QED
      BY <3>2, <3>4 DEF after
  <2> QED
    BY <2>7, <2>8
<1>3. Extending(P, T)
  BY <1>1, <1>2, Zenon DEF Extending
<1>4. OfAll(P, T)
  BY <1>3, SequenceInduction
<1> QED
  BY <1>4 DEF OfAll

\* The copies a pool has for a row
Have(pool, row, mode) == IF HasKey(row, mode) THEN Held(pool, Key(row, mode)) ELSE 0

LEMMA LackingIsExact ==
    ASSUME NEW mode \in Modes, NEW T, Rows(T), NEW pool, IsPool(pool), NEW row
    PROVE  \A s \in Seq(T) :
               LackingFor(CompareLines(pool, s, mode).missing, row, mode) =
                   IF QuantityFor(s, row, mode) > Have(pool, row, mode)
                   THEN QuantityFor(s, row, mode) - Have(pool, row, mode) ELSE 0
<1> DEFINE P(s) == LackingFor(CompareLines(pool, s, mode).missing, row, mode) =
                       IF QuantityFor(s, row, mode) > Have(pool, row, mode)
                       THEN QuantityFor(s, row, mode) - Have(pool, row, mode) ELSE 0
           h == Have(pool, row, mode)
<1>1. h \in Nat
  BY DEF Have, IsPool
<1>2. P(<<>>)
  <2>1. CompareLines(pool, <<>>, mode).missing = <<>>
    BY CompareLinesSteps DEF NothingYet
  <2>2. LackingFor(<<>>, row, mode) = 0 /\ QuantityFor(<<>>, row, mode) = 0
    BY LackingForSteps, QuantityForSteps
  <2> QED
    BY <1>1, <2>1, <2>2
<1>3. ASSUME NEW s \in Seq(T), NEW x \in T, P(s) PROVE P(Append(s, x))
  <2> DEFINE a == Applied(pool, s, x, mode)
             before == CompareLines(pool, s, mode)
             after == CompareLines(pool, Append(s, x), mode)
             line == [card |-> x, short |-> x.qty - a]
             want == QuantityFor(s, row, mode)
             more == QuantityFor(Append(s, x), row, mode)
             lacked == LackingFor(before.missing, row, mode)
             lacking == LackingFor(after.missing, row, mode)
  <2> SUFFICES lacking = IF more > h THEN more - h ELSE 0
    OBVIOUS
  <2>1. lacked = IF want > h THEN want - h ELSE 0
    BY <1>3
  <2>2. x.qty \in Nat \ {0} /\ a \in 0..x.qty
    BY AppliedTyped DEF Rows
  <2>3. want = IF HasKey(row, mode) THEN Demand(s, Key(row, mode), mode) ELSE 0
    BY PoolServes DEF Demand
  <2>4. want \in Nat
    BY <2>3, PoolHolds DEF Demand
  <2>5. more = IF Serves(x, row, mode) THEN want + x.qty ELSE want
    BY QuantityForSteps
  <2>6. lacking = IF Serves(x, row, mode) /\ a < x.qty THEN lacked + (x.qty - a) ELSE lacked
    <3>1. TakesCopies(before, after, x, a, mode)
      BY TakesInOrder, LineTakes
    <3>2. before.missing \in Seq(MissingLines(T))
      BY LinesAddUp
    <3> HIDE DEF a, before, after
    <3>3. CASE a < x.qty
      <4>1. line \in MissingLines(T) /\ line.card = x /\ line.short = x.qty - a
        BY <2>2, <3>3 DEF MissingLines
      <4>2. after.missing = Append(before.missing, line)
        BY <3>1, <3>3 DEF TakesCopies
      <4> HIDE DEF line
      <4>3. LackingFor(Append(before.missing, line), row, mode) =
                IF Serves(line.card, row, mode) THEN LackingFor(before.missing, row, mode) + line.short
                ELSE LackingFor(before.missing, row, mode)
        BY <3>2, <4>1, LackingForSteps
      <4> QED
        BY <3>3, <4>1, <4>2, <4>3
    <3>4. CASE ~(a < x.qty)
      BY <3>1, <3>4 DEF TakesCopies
    <3> QED
      BY <3>3, <3>4
  <2>7. CASE Serves(x, row, mode)
    <3>1. HasKey(row, mode) /\ HasKey(x, mode) /\ Key(x, mode) = Key(row, mode)
      BY <2>7, ServesByKey
    <3>2. want = Demand(s, Key(x, mode), mode) /\ h = Held(pool, Key(x, mode))
      BY <2>3, <3>1 DEF Have
    <3>3. Left(pool, s, x, mode) = IF h > want THEN h - want ELSE 0
      BY <3>1, <3>2 DEF Left
    <3>4. a = IF Left(pool, s, x, mode) <= x.qty THEN Left(pool, s, x, mode) ELSE x.qty
      BY DEF Applied
    <3> HIDE DEF a, h, want, more, lacked, lacking
    <3> QED
      BY <1>1, <2>1, <2>2, <2>4, <2>5, <2>6, <2>7, <3>3, <3>4
  <2>8. CASE ~Serves(x, row, mode)
    <3> HIDE DEF a, h, want, more, lacked, lacking
    <3> QED
      BY <2>1, <2>5, <2>6, <2>8
  <2> QED
    BY <2>7, <2>8
<1>4. Extending(P, T)
  BY <1>2, <1>3, Zenon DEF Extending
<1>5. OfAll(P, T)
  BY <1>4, SequenceInduction
<1> QED
  BY <1>5 DEF OfAll

\* A pool has enough for every row of s
Enough(pool, s, mode) ==
    \A row \in ToSet(s) : HasKey(row, mode) /\ Demand(s, Key(row, mode), mode) <= Held(pool, Key(row, mode))

LEMMA NothingMissing ==
    ASSUME NEW mode, NEW T, Rows(T), NEW pool, IsPool(pool)
    PROVE  \A s \in Seq(T) : CompareLines(pool, s, mode).missing = <<>> <=> Enough(pool, s, mode)
<1> DEFINE P(s) == CompareLines(pool, s, mode).missing = <<>> <=> Enough(pool, s, mode)
<1>1. P(<<>>)
  BY CompareLinesSteps DEF NothingYet, Enough, ToSet
<1>2. ASSUME NEW s \in Seq(T), NEW x \in T, P(s) PROVE P(Append(s, x))
  <2> DEFINE a == Applied(pool, s, x, mode)
             before == CompareLines(pool, s, mode)
             after == CompareLines(pool, Append(s, x), mode)
             key == Key(x, mode)
             h == Held(pool, key)
             d == Demand(s, key, mode)
  <2>1. x.qty \in Nat \ {0} /\ a \in 0..x.qty /\ h \in Nat /\ d \in Nat
    BY AppliedTyped, PoolHolds DEF Rows, IsPool, Demand
  <2>2. \A k : Demand(s, k, mode) \in Nat /\ Held(pool, k) \in Nat
    BY PoolHolds DEF IsPool, Demand
  <2>3. \A k : Demand(Append(s, x), k, mode) =
                   IF HasKey(x, mode) /\ key = k THEN Demand(s, k, mode) + x.qty ELSE Demand(s, k, mode)
    BY PoolSteps DEF Demand
  <2>4. ToSet(Append(s, x)) = ToSet(s) \cup {x}
    BY ToSetAppend
  <2>5. after.missing = <<>> <=> before.missing = <<>> /\ a = x.qty
    <3>1. TakesCopies(before, after, x, a, mode)
      BY TakesInOrder, LineTakes
    <3>2. before.missing \in Seq(MissingLines(T))
      BY LinesAddUp
    <3> HIDE DEF a, before, after
    <3>3. CASE a < x.qty
      <4> DEFINE line == [card |-> x, short |-> x.qty - a]
      <4>1. after.missing = Append(before.missing, line) /\ line \in MissingLines(T)
        BY <2>1, <3>1, <3>3 DEF TakesCopies, MissingLines
      <4> HIDE DEF line
      <4>2. Append(before.missing, line) # <<>>
        BY <3>2, <4>1
      <4> QED
        BY <2>1, <3>3, <4>1, <4>2
    <3>4. CASE ~(a < x.qty)
      BY <2>1, <3>1, <3>4 DEF TakesCopies
    <3> QED
      BY <3>3, <3>4
  <2>6. Left(pool, s, x, mode) = IF HasKey(x, mode) /\ h > d THEN h - d ELSE 0
    BY DEF Left
  <2>7. a = IF Left(pool, s, x, mode) <= x.qty THEN Left(pool, s, x, mode) ELSE x.qty
    BY DEF Applied
  <2>8. a = x.qty <=> HasKey(x, mode) /\ d + x.qty <= h
    <3> HIDE DEF a, h, d
    <3> QED
      BY <2>1, <2>6, <2>7
  <2>9. ASSUME Enough(pool, Append(s, x), mode) PROVE Enough(pool, s, mode) /\ a = x.qty
    <3>1. HasKey(x, mode) /\ Demand(Append(s, x), key, mode) <= h
      BY <2>4, <2>9 DEF Enough
    <3>2. Demand(Append(s, x), key, mode) = d + x.qty
      BY <2>3, <3>1
    <3>3. ASSUME NEW row \in ToSet(s)
          PROVE  HasKey(row, mode) /\ Demand(s, Key(row, mode), mode) <= Held(pool, Key(row, mode))
      <4> DEFINE k == Key(row, mode)
      <4>1. HasKey(row, mode) /\ Demand(Append(s, x), k, mode) <= Held(pool, k)
        BY <2>4, <2>9 DEF Enough
      <4> HIDE DEF k
      <4>2. Demand(s, k, mode) <= Demand(Append(s, x), k, mode)
        BY <2>1, <2>2, <2>3
      <4>3. Demand(s, k, mode) \in Nat /\ Held(pool, k) \in Nat /\ Demand(Append(s, x), k, mode) \in Nat
        BY <2>1, <2>2, <2>3
      <4>4. Demand(s, k, mode) <= Held(pool, k)
        BY <4>1, <4>2, <4>3
      <4> QED
        BY <4>1, <4>4 DEF k
    <3> QED
      BY <2>8, <3>1, <3>2, <3>3 DEF Enough
  <2>10. ASSUME Enough(pool, s, mode), a = x.qty PROVE Enough(pool, Append(s, x), mode)
    <3>1. HasKey(x, mode) /\ d + x.qty <= h
      BY <2>8, <2>10
    <3>2. ASSUME NEW row \in ToSet(s) \cup {x}
          PROVE  HasKey(row, mode) /\ Demand(Append(s, x), Key(row, mode), mode) <= Held(pool, Key(row, mode))
      <4>1. CASE Key(row, mode) = key
        <5>1. Demand(Append(s, x), Key(row, mode), mode) = d + x.qty
          BY <2>3, <3>1, <4>1
        <5>2. HasKey(row, mode)
          BY <2>10, <3>1, <3>2 DEF Enough
        <5> QED
          BY <3>1, <4>1, <5>1, <5>2
      <4>2. CASE Key(row, mode) # key
        <5>1. row \in ToSet(s)
          BY <4>2
        <5>2. Demand(Append(s, x), Key(row, mode), mode) = Demand(s, Key(row, mode), mode)
          BY <2>3, <4>2
        <5> QED
          BY <2>10, <5>1, <5>2 DEF Enough
      <4> QED
        BY <4>1, <4>2
    <3> QED
      BY <2>4, <3>2 DEF Enough
  <2> QED
    BY <1>2, <2>5, <2>9, <2>10
<1>3. Extending(P, T)
  BY <1>1, <1>2, Zenon DEF Extending
<1>4. OfAll(P, T)
  BY <1>3, SequenceInduction
<1> QED
  BY <1>4 DEF OfAll

-----------------------------------------------------------------------------
(* The tables are sequences and sets of what an import or a price sync     *)
(* puts there.                                                             *)

TypeOK ==
    /\ owned \in Seq(OwnedRows)
    /\ lists \in [Lists -> Seq(ListRows)]
    /\ observations \subseteq Quotes

LEMMA TypeCorrect == Spec => []TypeOK
<1>1. Init => TypeOK
  BY DEF Init, TypeOK
<1>2. TypeOK /\ [Next]_vars => TypeOK'
  <2> SUFFICES ASSUME TypeOK, [Next]_vars PROVE TypeOK'
    OBVIOUS
  <2>1. CASE \E row \in OwnedRows : ImportOwned(row)
    BY <2>1 DEF TypeOK, ImportOwned
  <2>2. CASE \E id \in Lists, row \in ListRows : ImportListed(id, row)
    BY <2>2 DEF TypeOK, ImportListed
  <2>3. CASE \E quote \in Quotes : RecordPrice(quote)
    BY <2>3 DEF TypeOK, RecordPrice
  <2>4. CASE UNCHANGED vars
    BY <2>4 DEF TypeOK, vars
  <2> QED
    BY <2>1, <2>2, <2>3, <2>4 DEF Next
<1> QED
  BY <1>1, <1>2, PTL DEF Spec

LEMMA RequiredCardsKeep ==
    ASSUME NEW T
    PROVE  \A s \in Seq(T) : RequiredCards(s) \in Seq(T) /\ ToSet(RequiredCards(s)) \subseteq ToSet(s)
<1> DEFINE Test(row) == row.section \in RequiredSections
<1>1. Keeps(Test, T)
  BY WhereKeeps
<1>2. \A s : RequiredCards(s) = Where(s, Test)
  BY Zenon DEF RequiredCards
<1> QED
  BY <1>1, <1>2, Zenon DEF Keeps

\* The ids of the lists, one after the other
LEMMA IdsKeep == Ids \in Seq(Lists) /\ ToSet(Ids) = Lists
<1> DEFINE n == Cardinality(Lists)
<1>1. n \in Nat /\ ExistsBijection(1..n, Lists)
  BY FS_CardinalityType, CatalogueAssumption
<1>2. \E f \in [1..n -> Lists] : IsInjective(f)
  BY <1>1 DEF ExistsBijection, Bijection, Injection
<1>3. Ids \in [1..n -> Lists] /\ IsInjective(Ids)
  BY <1>2 DEF Ids, SetToSeq
<1>4. Ids \in Surjection(1..n, Lists)
  <2>1. IsFiniteSet(1..n) /\ Cardinality(1..n) = n
    BY <1>1, FS_Interval
  <2>2. Ids \in Injection(1..n, Lists)
    BY <1>3 DEF Injection
  <2>3. IsFiniteSet(Lists)
    BY CatalogueAssumption
  <2> QED
    BY <2>1, <2>2, <2>3, FS_Injection
<1>5. ToSet(Ids) = Lists
  BY <1>3, <1>4 DEF Surjection, ToSet
<1> QED
  BY <1>1, <1>3, <1>5

LEMMA RequiredCardsOfKeep ==
    ASSUME NEW T, NEW I, NEW tables \in [I -> Seq(T)]
    PROVE  \A ids \in Seq(I) : RequiredCardsOf(tables, ids) \in Seq(T)
<1> DEFINE op(all, id) == all \o RequiredCards(tables[id])
           P(ids) == RequiredCardsOf(tables, ids) \in Seq(T)
<1>1. \A ids : RequiredCardsOf(tables, ids) = FoldLeft(op, <<>>, ids)
  BY Zenon DEF RequiredCardsOf
<1>2. Steps(op, <<>>, I)
  BY FoldSteps
<1>3. P(<<>>)
  <2>1. RequiredCardsOf(tables, <<>>) = <<>>
    BY <1>1, <1>2, Zenon DEF Steps
  <2>2. <<>> \in Seq(T)
    OBVIOUS
  <2> QED
    BY <2>1, <2>2, Zenon
<1>4. ASSUME NEW ids \in Seq(I), NEW id \in I, P(ids) PROVE P(Append(ids, id))
  <2>1. RequiredCardsOf(tables, Append(ids, id)) = RequiredCardsOf(tables, ids) \o RequiredCards(tables[id])
    BY <1>1, <1>2, Zenon DEF Steps
  <2>2. RequiredCards(tables[id]) \in Seq(T)
    BY RequiredCardsKeep
  <2> QED
    BY <1>4, <2>1, <2>2
<1>5. Extending(P, I)
  BY <1>3, <1>4, Zenon DEF Extending
<1>6. OfAll(P, I)
  BY <1>5, SequenceInduction
<1> QED
  BY <1>6 DEF OfAll

(* The comparison of required rows with the collection is exact.           *)
LEMMA CompareIsExact ==
    ASSUME NEW mode \in Modes, NEW T, Rows(T), owned \in Seq(T), NEW U, Rows(U), NEW rows \in Seq(U)
    PROVE  Exact(Compare(owned, rows, mode), rows, mode)
<1> DEFINE result == Compare(owned, rows, mode)
           have(row) == QuantityFor(owned, row, mode)
           want(row) == QuantityFor(rows, row, mode)
           pool == OwnedPool(owned, mode)
           end == CompareLines(pool, rows, mode)
<1>1. IsPool(pool)
  BY PoolHolds DEF IsPool
<1>2. result.missing = end.missing /\ result.applied = end.applied /\ result.total = TotalQuantity(rows)
      /\ result.buildable = (end.missing = <<>>)
  BY DEF Compare, ComparePool
<1>3. \A row : have(row) = Have(pool, row, mode)
  BY PoolServes DEF Have
<1>4. \A row : have(row) \in Nat
  BY <1>1, <1>3 DEF Have, IsPool
<1>5. \A row : want(row) = IF HasKey(row, mode) THEN Demand(rows, Key(row, mode), mode) ELSE 0
  BY PoolServes DEF Demand
<1>6. \A row : want(row) \in Nat
  BY <1>5, PoolHolds DEF Demand
<1>7. ASSUME NEW row PROVE LackingFor(result.missing, row, mode) = Max({want(row) - have(row), 0})
  <2> DEFINE w == want(row)
             h == have(row)
             lacking == LackingFor(end.missing, row, mode)
  <2>1. lacking = IF w > h THEN w - h ELSE 0
    BY <1>1, <1>3, LackingIsExact
  <2>2. w \in Nat /\ h \in Nat
    BY <1>4, <1>6
  <2> HIDE DEF w, h, lacking
  <2>3. lacking = Max({w - h, 0})
    <3>1. w - h \in Int
      BY <2>2
    <3>2. Max({w - h, 0}) = IF w - h >= 0 THEN w - h ELSE 0
      BY <3>1, MaxOfTwo
    <3> QED
      BY <2>1, <2>2, <3>2
  <2> QED
    BY <1>2, <2>3 DEF w, h, lacking
<1>8. result.buildable <=> \A row \in ToSet(rows) : Serves(row, row, mode) /\ want(row) <= have(row)
  <2>1. result.buildable <=> Enough(pool, rows, mode)
    BY <1>1, <1>2, NothingMissing
  <2>2. ASSUME NEW row
        PROVE  Serves(row, row, mode) /\ want(row) <= have(row)
                   <=> HasKey(row, mode) /\ Demand(rows, Key(row, mode), mode) <= Held(pool, Key(row, mode))
    <3>1. Serves(row, row, mode) <=> HasKey(row, mode)
      BY ServesByKey
    <3> QED
      BY <1>3, <1>5, <3>1 DEF Have
  <2> QED
    BY <2>1, <2>2 DEF Enough
<1>9. result.applied + ShortOf(result.missing) = result.total
  <2>1. end.applied + ShortOf(end.missing) = TotalQuantity(rows)
    BY <1>1, LinesAddUp
  <2> HIDE DEF result, end
  <2> QED
    BY <1>2, <2>1
<1> QED
  BY <1>7, <1>8, <1>9 DEF Exact

(* In every state of the tables, in both modes, for each list and for all  *)
(* lists together: what is reported missing of a card is the demand less   *)
(* what is owned of it, a list is buildable exactly when no demand exceeds *)
(* what is owned, and every required copy is either applied or missing.    *)
THEOREM ComparisonExact == Spec => []ComparisonIsExact
<1>1. TypeOK => ComparisonIsExact
  <2> SUFFICES ASSUME TypeOK, NEW mode \in Modes,
                      NEW rows \in {RequiredCards(lists[id]) : id \in Lists} \cup {RequiredCardsOf(lists, Ids)}
               PROVE  Exact(Compare(owned, rows, mode), rows, mode)
    BY DEF ComparisonIsExact
  <2>1. Rows(OwnedRows) /\ Rows(ListRows)
    BY CatalogueAssumption DEF Rows
  <2>2. owned \in Seq(OwnedRows)
    BY DEF TypeOK
  <2>3. rows \in Seq(ListRows)
    <3>1. \A id \in Lists : RequiredCards(lists[id]) \in Seq(ListRows)
      BY RequiredCardsKeep DEF TypeOK
    <3>2. RequiredCardsOf(lists, Ids) \in Seq(ListRows)
      BY IdsKeep, RequiredCardsOfKeep DEF TypeOK
    <3> QED
      BY <3>1, <3>2
  <2> QED
    BY <2>1, <2>2, <2>3, CompareIsExact
<1> QED
  BY <1>1, TypeCorrect, PTL

-----------------------------------------------------------------------------
(* The first element that passes a test *)

\* The first element of a sequence that passes a test, or 0
IsFirst(i, seq, Test(_)) ==
    IF i = 0 THEN \A k \in 1..Len(seq) : ~Test(seq[k])
    ELSE i \in 1..Len(seq) /\ Test(seq[i]) /\ \A k \in 1..(i - 1) : ~Test(seq[k])

LEMMA SelectsFirst ==
    ASSUME NEW Test(_), NEW T, NEW seq \in Seq(T)
    PROVE  IsFirst(SelectInSeq(seq, Test), seq, Test)
<1> DEFINE I == {i \in 1..Len(seq) : Test(seq[i])}
           first == SelectInSeq(seq, Test)
<1>1. first = IF I # {} THEN Min(I) ELSE 0
  BY Zenon DEF SelectInSeq
<1>2. I \in SUBSET Nat
  OBVIOUS
<1>3. CASE I # {}
  <2>1. first \in I /\ \A y \in I : first <= y
    <3> HIDE DEF I, first
    <3> QED
      BY <1>1, <1>2, <1>3, MinIsFirst
  <2> HIDE DEF first
  <2>2. first \in 1..Len(seq) /\ Test(seq[first])
    BY <2>1
  <2>3. first # 0
    BY <2>2
  <2>4. ASSUME NEW k \in 1..(first - 1) PROVE ~Test(seq[k])
    <3>1. k \in 1..Len(seq) /\ ~(first <= k)
      BY <2>2
    <3>2. k \notin I
      BY <2>1, <3>1
    <3> QED
      BY <3>1, <3>2
  <2>5. IsFirst(first, seq, Test)
    BY <2>2, <2>3, <2>4, Zenon DEF IsFirst
  <2> QED
    BY <2>5 DEF first
<1>4. CASE I = {}
  <2>1. first = 0
    BY <1>1, <1>4
  <2>2. \A k \in 1..Len(seq) : ~Test(seq[k])
    BY <1>4
  <2> QED
    BY <2>1, <2>2, Zenon DEF IsFirst
<1> QED
  BY <1>3, <1>4

-----------------------------------------------------------------------------
(* Putting a sequence in order *)

\* A strict order, of which some elements may be equal
Orders(Before(_, _), T) ==
    /\ \A x, y \in T : Before(x, y) => ~Before(y, x)
    /\ \A x, y, z \in T : Before(x, z) => Before(x, y) \/ Before(y, z)

Ordered(s, Before(_, _)) == \A i, j \in 1..Len(s) : i < j => ~Before(s[j], s[i])

Inserts(s, x, T, Before(_, _)) ==
    LET t == Insert(s, x, Before)
    IN t \in Seq(T) /\ Len(t) = Len(s) + 1 /\ ToSet(t) = ToSet(s) \cup {x} /\ Ordered(t, Before)

(* An element inserted into an ordered sequence leaves it ordered. *)
LEMMA InsertKeepsOrder ==
    ASSUME NEW Before(_, _), NEW T, Orders(Before, T), NEW s \in Seq(T), Ordered(s, Before), NEW x \in T
    PROVE  Inserts(s, x, T, Before)
<1> DEFINE Test(other) == Before(x, other)
           n == Len(s)
           d == SelectInSeq(s, Test)
           t == InsertAt(s, d, x)
<1>1. Insert(s, x, Before) = IF d = 0 THEN Append(s, x) ELSE t
  BY Zenon DEF Insert
<1>2. IsFirst(d, s, Test)
  BY SelectsFirst
<1>3. n \in Nat /\ \A i \in 1..n : s[i] \in T
  OBVIOUS
<1>4. CASE d = 0
  <2> DEFINE u == Append(s, x)
  <2>1. u \in Seq(T) /\ Len(u) = n + 1 /\ u[n + 1] = x /\ \A i \in 1..n : u[i] = s[i]
    OBVIOUS
  <2>2. \A i \in 1..n : ~Before(x, s[i])
    BY <1>2, <1>4, Zenon DEF IsFirst
  <2>3. ToSet(u) = ToSet(s) \cup {x}
    BY ToSetAppend
  <2> HIDE DEF u
  <2>4. ASSUME NEW i \in 1..(n + 1), NEW j \in 1..(n + 1), i < j PROVE ~Before(u[j], u[i])
    <3>1. CASE j <= n
      <4>1. i \in 1..n /\ j \in 1..n
        BY <1>3, <2>4, <3>1
      <4>2. u[i] = s[i] /\ u[j] = s[j] /\ ~Before(s[j], s[i])
        BY <2>1, <2>4, <4>1 DEF Ordered, n
      <4> QED
        BY <4>2
    <3>2. CASE j = n + 1
      <4>1. i \in 1..n
        BY <1>3, <2>4, <3>2
      <4>2. u[i] = s[i] /\ u[j] = x /\ ~Before(x, s[i])
        BY <2>1, <2>2, <3>2, <4>1
      <4> QED
        BY <4>2
    <3> QED
      BY <1>3, <3>1, <3>2
  <2>5. Ordered(u, Before)
    BY <2>1, <2>4, Zenon DEF Ordered
  <2>6. Insert(s, x, Before) = u
    BY <1>1, <1>4 DEF u
  <2> HIDE DEF n
  <2> QED
    BY <2>1, <2>3, <2>5, <2>6, Zenon DEF Inserts, n
<1>5. CASE d # 0
  <2>1. d \in 1..n /\ Before(x, s[d]) /\ \A i \in 1..(d - 1) : ~Before(x, s[i])
    BY <1>2, <1>5, Zenon DEF IsFirst
  <2> HIDE DEF d
  <2>2. t \in Seq(T) /\ Len(t) = n + 1
        /\ \A i \in 1..(n + 1) : t[i] = IF i < d THEN s[i] ELSE IF i = d THEN x ELSE s[i - 1]
    <3> DEFINE low == SubSeq(s, 1, d - 1)
               high == SubSeq(s, d, n)
               mid == low \o <<x>>
    <3>1. low \in Seq(T) /\ Len(low) = d - 1 /\ \A i \in 1..(d - 1) : low[i] = s[i]
      BY <2>1, SubSeqProperties
    <3>2. high \in Seq(T) /\ Len(high) = n - d + 1 /\ \A i \in 1..(n - d + 1) : high[i] = s[d + i - 1]
      BY <2>1, SubSeqProperties
    <3> HIDE DEF low, high
    <3>3. mid \in Seq(T) /\ Len(mid) = d /\ mid[d] = x /\ \A i \in 1..(d - 1) : mid[i] = s[i]
      BY <2>1, <3>1
    <3>4. t = mid \o high
      BY DEF InsertAt, low, high
    <3> HIDE DEF mid, t
    <3>5. t \in Seq(T) /\ Len(t) = d + (n - d + 1)
      <4>1. mid \o high \in Seq(T) /\ Len(mid \o high) = Len(mid) + Len(high)
        <5>1. mid \in Seq(T) /\ high \in Seq(T)
          BY <3>2, <3>3
        <5> QED
          BY <5>1, ConcatProperties
      <4> QED
        BY <3>2, <3>3, <3>4, <4>1
    <3>6. \A i \in 1..d : t[i] = mid[i]
      BY <2>1, <3>2, <3>3, <3>4
    <3>7. \A i \in 1..(n - d + 1) : t[d + i] = high[i]
      BY <2>1, <3>2, <3>3, <3>4
    <3>8. ASSUME NEW i \in 1..(n + 1) PROVE t[i] = IF i < d THEN s[i] ELSE IF i = d THEN x ELSE s[i - 1]
      <4>1. CASE i <= d
        BY <2>1, <3>3, <3>6, <4>1
      <4>2. CASE i > d
        <5>1. i - d \in 1..(n - d + 1) /\ d + (i - d) = i /\ d + (i - d) - 1 = i - 1
          BY <2>1, <4>2
        <5>2. t[i] = high[i - d]
          BY <3>7, <5>1
        <5>3. high[i - d] = s[i - 1]
          BY <3>2, <5>1
        <5> QED
          BY <2>1, <4>2, <5>2, <5>3
      <4> QED
        BY <2>1, <4>1, <4>2
    <3> QED
      BY <2>1, <3>5, <3>8
  <2>3. ASSUME NEW i \in d..n PROVE ~Before(s[i], x)
    <3>1. i \in 1..n /\ d \in 1..n /\ s[i] \in T /\ s[d] \in T
      BY <1>3, <2>1
    <3>2. i = d \/ ~Before(s[i], s[d])
      BY <2>1, <3>1 DEF Ordered
    <3>3. Before(x, s[d]) => ~Before(s[d], x)
      BY <3>1 DEF Orders
    <3>4. Before(x, s[d]) => Before(x, s[i]) \/ Before(s[i], s[d])
      BY <3>1 DEF Orders
    <3>5. Before(x, s[i]) => ~Before(s[i], x)
      BY <3>1 DEF Orders
    <3>6. CASE i = d
      BY <2>1, <3>3, <3>6
    <3>7. CASE i # d
      BY <2>1, <3>2, <3>4, <3>5, <3>7
    <3> QED
      BY <3>6, <3>7
  <2> HIDE DEF t
  <2>4. ASSUME NEW i \in 1..(n + 1), NEW j \in 1..(n + 1), i < j PROVE ~Before(t[j], t[i])
    <3>1. CASE j < d
      <4>1. t[j] = s[j] /\ t[i] = s[i] /\ i \in 1..n /\ j \in 1..n
        BY <2>1, <2>2, <2>4, <3>1
      <4>2. ~Before(s[j], s[i])
        BY <2>4, <4>1 DEF Ordered
      <4> QED
        BY <4>1, <4>2
    <3>2. CASE j = d
      <4>1. t[j] = x /\ t[i] = s[i] /\ i \in 1..(d - 1)
        BY <2>1, <2>2, <2>4, <3>2
      <4> QED
        BY <2>1, <4>1
    <3>3. CASE j > d /\ i < d
      <4>1. t[j] = s[j - 1] /\ t[i] = s[i] /\ i \in 1..n /\ j - 1 \in 1..n /\ i < j - 1
        BY <1>3, <2>1, <2>2, <2>4, <3>3
      <4>2. ~Before(s[j - 1], s[i])
        BY <4>1 DEF Ordered
      <4> QED
        BY <4>1, <4>2
    <3>4. CASE j > d /\ i = d
      <4>1. t[j] = s[j - 1] /\ t[i] = x /\ j - 1 \in d..n
        BY <1>3, <2>1, <2>2, <3>4
      <4> QED
        BY <2>3, <4>1
    <3>5. CASE i > d
      <4>1. t[j] = s[j - 1] /\ t[i] = s[i - 1] /\ i - 1 \in 1..n /\ j - 1 \in 1..n /\ i - 1 < j - 1
        BY <1>3, <2>1, <2>2, <2>4, <3>5
      <4>2. ~Before(s[j - 1], s[i - 1])
        BY <4>1 DEF Ordered
      <4> QED
        BY <4>1, <4>2
    <3> QED
      BY <2>1, <3>1, <3>2, <3>3, <3>4, <3>5
  <2>5. Ordered(t, Before)
    BY <2>2, <2>4, Zenon DEF Ordered
  <2>6. ToSet(t) = ToSet(s) \cup {x}
    <3>1. ToSet(t) = {t[i] : i \in 1..(n + 1)} /\ ToSet(s) = {s[i] : i \in 1..n}
      BY <2>2 DEF ToSet
    <3>2. ASSUME NEW i \in 1..(n + 1) PROVE t[i] \in {s[k] : k \in 1..n} \cup {x}
      <4>1. CASE i < d
        BY <2>1, <2>2, <4>1
      <4>2. CASE i = d
        BY <2>1, <2>2, <4>2
      <4>3. CASE i > d
        <5>1. t[i] = s[i - 1] /\ i - 1 \in 1..n
          BY <2>1, <2>2, <4>3
        <5> QED
          BY <5>1
      <4> QED
        BY <2>1, <4>1, <4>2, <4>3
    <3>3. ASSUME NEW i \in 1..n PROVE s[i] \in {t[k] : k \in 1..(n + 1)}
      <4>1. CASE i < d
        <5>1. t[i] = s[i] /\ i \in 1..(n + 1)
          BY <2>1, <2>2, <4>1
        <5> QED
          BY <5>1
      <4>2. CASE i >= d
        <5>1. i + 1 \in 1..(n + 1) /\ (i + 1) - 1 = i /\ ~(i + 1 < d) /\ i + 1 # d
          BY <2>1, <4>2
        <5>2. t[i + 1] = s[i]
          BY <2>2, <5>1
        <5> QED
          BY <5>1, <5>2
      <4> QED
        BY <2>1, <4>1, <4>2
    <3>4. x \in {t[k] : k \in 1..(n + 1)}
      <4>1. d \in 1..(n + 1) /\ t[d] = x
        BY <2>1, <2>2
      <4> QED
        BY <4>1
    <3> QED
      BY <3>1, <3>2, <3>3, <3>4
  <2>7. Insert(s, x, Before) = t
    BY <1>1, <1>5 DEF d
  <2> QED
    BY <2>2, <2>5, <2>6, <2>7, Zenon DEF Inserts
<1> QED
  BY <1>4, <1>5

\* Putting in order keeps the elements, as often as they occur
Sorts(T, Before(_, _)) ==
    \A s \in Seq(T) : /\ InOrder(s, Before) \in Seq(T) /\ Len(InOrder(s, Before)) = Len(s)
                      /\ ToSet(InOrder(s, Before)) = ToSet(s)
                      /\ Ordered(InOrder(s, Before), Before)

LEMMA InOrderSorts ==
    ASSUME NEW Before(_, _), NEW T, Orders(Before, T)
    PROVE  Sorts(T, Before)
<1> DEFINE op(sorted, x) == Insert(sorted, x, Before)
           r(s) == FoldLeft(op, <<>>, s)
           P(s) == r(s) \in Seq(T) /\ Len(r(s)) = Len(s) /\ ToSet(r(s)) = ToSet(s) /\ Ordered(r(s), Before)
<1>1. Steps(op, <<>>, T)
  BY FoldSteps
<1>2. P(<<>>)
  <2>1. r(<<>>) = <<>>
    BY <1>1, Zenon DEF Steps
  <2> HIDE DEF r
  <2>2. <<>> \in Seq(T) /\ Len(<<>>) = 0
    OBVIOUS
  <2>3. Ordered(<<>>, Before)
    BY DEF Ordered
  <2> QED
    BY <2>1, <2>2, <2>3, Zenon
<1>3. ASSUME NEW s \in Seq(T), NEW x \in T, P(s) PROVE P(Append(s, x))
  <2>1. r(Append(s, x)) = Insert(r(s), x, Before)
    BY <1>1, Zenon DEF Steps
  <2> HIDE DEF r
  <2> DEFINE e == r(s)
  <2>2. e \in Seq(T) /\ Len(e) = Len(s) /\ ToSet(e) = ToSet(s) /\ Ordered(e, Before)
    BY <1>3
  <2> HIDE DEF e
  <2>3. Inserts(e, x, T, Before)
    BY <2>2, InsertKeepsOrder
  <2> DEFINE t == Insert(e, x, Before)
  <2>4. t \in Seq(T) /\ Len(t) = Len(e) + 1 /\ ToSet(t) = ToSet(e) \cup {x} /\ Ordered(t, Before)
    BY <2>3, Zenon DEF Inserts
  <2>5. r(Append(s, x)) = t
    BY <2>1 DEF e
  <2>6. Len(Append(s, x)) = Len(s) + 1 /\ ToSet(Append(s, x)) = ToSet(s) \cup {x}
    BY ToSetAppend
  <2> HIDE DEF t
  <2> QED
    BY <2>2, <2>4, <2>5, <2>6, Zenon
<1>4. Extending(P, T)
  BY <1>2, <1>3, Zenon DEF Extending
<1>5. OfAll(P, T)
  BY <1>4, SequenceInduction
<1>6. \A s : InOrder(s, Before) = r(s)
  BY Zenon DEF InOrder
<1> HIDE DEF r
<1> QED
  BY <1>5, <1>6, Zenon DEF OfAll, Sorts

-----------------------------------------------------------------------------
(* Prices *)

Priceable(quotes) == \A q \in quotes : q.price \in Nat

LEMMA CheapestIsOne ==
    ASSUME NEW quotes, Priceable(quotes)
    PROVE  /\ Cheapest(quotes) \in quotes \cup {None}
           /\ quotes # {} => /\ Cheapest(quotes) \in quotes
                             /\ \A q \in quotes : Cheapest(quotes).price <= q.price
<1>1. CASE quotes = {}
  BY <1>1 DEF Cheapest
<1>2. CASE quotes # {}
  <2> DEFINE prices == {q.price : q \in quotes}
  <2>1. prices \in SUBSET Nat
    BY DEF Priceable
  <2>2. prices # {}
    BY <1>2
  <2>3. PICK p \in prices : \A x \in prices : p <= x
    <3> HIDE DEF prices
    <3> QED
      BY <2>1, <2>2, MinIsFirst
  <2>4. PICK q \in quotes : q.price = p
    BY <2>3
  <2>5. \A r \in quotes : q.price <= r.price
    BY <2>3, <2>4
  <2> QED
    BY <1>2, <2>5 DEF Cheapest
<1> QED
  BY <1>1, <1>2

LEMMA ResolvesToQuote ==
    ASSUME NEW quotes, Priceable(quotes), NEW printing, NEW T, NEW profile, profile.priority \in Seq(T)
    PROVE  ResolvePrice(quotes, printing, profile) \in quotes \cup {None}
<1> DEFINE from(provider) == {o \in quotes : /\ o.card = printing
                                             /\ o.provider = provider
                                             /\ o.market = profile.market}
           Test(provider) == from(provider) # {}
           first == SelectInSeq(profile.priority, Test)
<1>1. ResolvePrice(quotes, printing, profile) =
          IF first = 0 THEN None ELSE CHOOSE o \in from(profile.priority[first]) : TRUE
  BY Zenon DEF ResolvePrice
<1>2. IsFirst(first, profile.priority, Test)
  BY SelectsFirst
<1>3. first # 0 => Test(profile.priority[first])
  <2> HIDE DEF first, Test
  <2> QED
    BY <1>2 DEF IsFirst
<1>4. CASE first = 0
  BY <1>1, <1>4
<1>5. CASE first # 0
  <2> DEFINE found == from(profile.priority[first])
  <2>1. found # {}
    BY <1>3, <1>5
  <2>2. (CHOOSE o \in found : TRUE) \in found
    <3> HIDE DEF found
    <3> QED
      BY <2>1
  <2>3. found \subseteq quotes
    OBVIOUS
  <2> HIDE DEF found
  <2>4. (CHOOSE o \in found : TRUE) \in quotes
    BY <2>2, <2>3
  <2> QED
    BY <1>1, <1>5, <2>4 DEF found
<1> QED
  BY <1>4, <1>5

LEMMA MissingCardPriced ==
    ASSUME NEW quotes, Priceable(quotes), NEW card, NEW T, NEW profile, profile.priority \in Seq(T), NEW mode
    PROVE  ResolvePriceForMissingCard(quotes, card, profile, mode) \in quotes \cup {None}
<1>1. \A printing : ResolvePrice(quotes, printing, profile) \in quotes \cup {None}
  BY ResolvesToQuote
<1>2. ResolveCheapestPriceForOracle(quotes, card.oracle, profile) \in quotes \cup {None}
  <2> DEFINE found == {ResolvePrice(quotes, printing, profile) : printing \in PrintingsOf(card.oracle)} \ {None}
  <2>1. found \subseteq quotes
    BY <1>1
  <2>2. Priceable(found)
    BY <2>1 DEF Priceable
  <2>3. Cheapest(found) \in found \cup {None}
    <3> HIDE DEF found
    <3> QED
      BY <2>2, CheapestIsOne
  <2>4. ResolveCheapestPriceForOracle(quotes, card.oracle, profile) = Cheapest(found)
    BY Zenon DEF ResolveCheapestPriceForOracle
  <2> HIDE DEF found
  <2> QED
    BY <2>1, <2>3, <2>4
<1> QED
  BY <1>1, <1>2 DEF ResolvePriceForMissingCard

\* Missing cards with the price found for them, if any; and those to be bought
Offers(T) == [card : T, quantity : Nat \ {0}, price : Nat \cup {None}]
Goods(T) == [card : T, quantity : Nat \ {0}, price : Nat]

LEMMA PricedMissingCards ==
    ASSUME NEW quotes, Priceable(quotes), NEW T, NEW missing \in Seq(MissingLines(T)),
           NEW U, NEW profile, profile.priority \in Seq(U), NEW mode
    PROVE  PriceMissingCards(quotes, missing, profile, mode) \in Seq(Offers(T))
<1> DEFINE quote(i) == ResolvePriceForMissingCard(quotes, missing[i].card, profile, mode)
           offer(i) == [card |-> missing[i].card, quantity |-> missing[i].short,
                        price |-> IF quote(i) = None THEN None ELSE quote(i).price]
<1>1. PriceMissingCards(quotes, missing, profile, mode) = [i \in 1..Len(missing) |-> offer(i)]
  <2>1. DOMAIN missing = 1..Len(missing)
    OBVIOUS
  <2> QED
    BY <2>1, Zenon DEF PriceMissingCards
<1>2. ASSUME NEW i \in 1..Len(missing) PROVE offer(i) \in Offers(T)
  <2>1. missing[i] \in MissingLines(T)
    OBVIOUS
  <2>2. missing[i].card \in T /\ missing[i].short \in Nat \ {0}
    BY <2>1 DEF MissingLines
  <2>3. quote(i) \in quotes \cup {None}
    BY MissingCardPriced
  <2> HIDE DEF quote
  <2>4. (IF quote(i) = None THEN None ELSE quote(i).price) \in Nat \cup {None}
    BY <2>3 DEF Priceable
  <2> QED
    BY <2>2, <2>4 DEF Offers
<1> HIDE DEF offer
<1>3. [i \in 1..Len(missing) |-> offer(i)] \in Seq(Offers(T))
  BY <1>2
<1> QED
  BY <1>1, <1>3

LEMMA WherePriced ==
    ASSUME NEW T
    PROVE  \A s \in Seq(Offers(T)) : Where(s, IsPriced) \in Seq(Goods(T))
<1> DEFINE P(s) == Where(s, IsPriced) \in Seq(Goods(T))
<1>1. Filters(IsPriced, Offers(T))
  BY WhereSteps
<1>2. P(<<>>)
  <2>1. Where(<<>>, IsPriced) = <<>>
    BY <1>1, Zenon DEF Filters
  <2>2. <<>> \in Seq(Goods(T))
    OBVIOUS
  <2> QED
    BY <2>1, <2>2, Zenon
<1>3. ASSUME NEW s \in Seq(Offers(T)), NEW x \in Offers(T), P(s) PROVE P(Append(s, x))
  <2>1. Where(Append(s, x), IsPriced) = IF IsPriced(x) THEN Append(Where(s, IsPriced), x) ELSE Where(s, IsPriced)
    BY <1>1, Zenon DEF Filters
  <2>2. IsPriced(x) => x \in Goods(T)
    BY DEF IsPriced, Offers, Goods
  <2> DEFINE w == Where(s, IsPriced)
  <2>3. w \in Seq(Goods(T))
    BY <1>3
  <2> HIDE DEF w
  <2>4. (IF IsPriced(x) THEN Append(w, x) ELSE w) \in Seq(Goods(T))
    BY <2>2, <2>3
  <2> QED
    BY <2>1, <2>4 DEF w
<1>4. Extending(P, Offers(T))
  BY <1>2, <1>3, Zenon DEF Extending
<1>5. OfAll(P, Offers(T))
  BY <1>4, SequenceInduction
<1> QED
  BY <1>5 DEF OfAll

-----------------------------------------------------------------------------
(* The cheapest first *)

Sorted(s) == \A i, j \in 1..Len(s) : i < j => s[i].price <= s[j].price

LEMMA CheapestFirstSorted ==
    ASSUME NEW T, NEW priced \in Seq(Offers(T))
    PROVE  /\ CheapestFirst(priced) \in Seq(Goods(T)) /\ Sorted(CheapestFirst(priced))
           /\ Len(CheapestFirst(priced)) = Len(Where(priced, IsPriced))
           /\ ToSet(CheapestFirst(priced)) = ToSet(Where(priced, IsPriced))
<1> DEFINE Before(l, m) == l.price < m.price
           goods == Where(priced, IsPriced)
           s == InOrder(goods, Before)
<1>1. \A g \in Goods(T) : g.price \in Nat
  BY DEF Goods
<1>2. Orders(Before, Goods(T))
  <2>1. \A x, y \in Goods(T) : Before(x, y) => ~Before(y, x)
    BY <1>1
  <2>2. \A x, y, z \in Goods(T) : Before(x, z) => Before(x, y) \/ Before(y, z)
    BY <1>1
  <2> QED
    BY <2>1, <2>2, Zenon DEF Orders
<1>3. Sorts(Goods(T), Before)
  BY <1>2, InOrderSorts
<1>4. goods \in Seq(Goods(T))
  BY WherePriced
<1>5. s \in Seq(Goods(T)) /\ Len(s) = Len(goods) /\ ToSet(s) = ToSet(goods) /\ Ordered(s, Before)
  <2> HIDE DEF goods, Before
  <2> QED
    BY <1>3, <1>4, Zenon DEF Sorts
<1>6. CheapestFirst(priced) = s
  BY Zenon DEF CheapestFirst
<1> HIDE DEF s
<1>7. \A i, j \in 1..Len(s) : i < j => ~(s[j].price < s[i].price)
  BY <1>5, Zenon DEF Ordered
<1>8. \A i \in 1..Len(s) : s[i] \in Goods(T)
  <2>1. s \in Seq(Goods(T))
    BY <1>5
  <2> HIDE DEF goods
  <2> QED
    BY <2>1
<1>9. Sorted(s)
  BY <1>1, <1>7, <1>8 DEF Sorted
<1> QED
  BY <1>5, <1>6, <1>9

-----------------------------------------------------------------------------
(* Buying *)

Purchases(T) == [line : Goods(T), bought : Nat]

LEMMA Division ==
    ASSUME NEW a \in Int, NEW b \in Nat \ {0}
    PROVE  a \div b \in Int /\ (a \div b) * b <= a /\ a < (a \div b) * b + b
OBVIOUS

LEMMA PaidForSteps ==
    /\ PaidFor(<<>>) = 0
    /\ \A T : \A s \in Seq(T), x \in T : PaidFor(Append(s, x)) = PaidFor(s) + x.bought * x.line.price
<1> DEFINE op(n, l) == n + l.bought * l.line.price
<1>1. \A s : PaidFor(s) = FoldLeft(op, 0, s)
  BY Zenon DEF PaidFor
<1>2. ASSUME NEW T PROVE Steps(op, 0, T)
  BY FoldSteps
<1> QED
  BY <1>1, <1>2, Zenon DEF Steps

NothingBought(budget) == [remaining |-> budget, lines |-> <<>>]

LEMMA BuyLinesSteps ==
    ASSUME NEW budget, NEW T
    PROVE  /\ BuyLines(<<>>, budget) = NothingBought(budget)
           /\ \A s \in Seq(T), x \in T : BuyLines(Append(s, x), budget) = BuyLine(BuyLines(s, budget), x)
<1>1. \A s : BuyLines(s, budget) = FoldLeft(BuyLine, NothingBought(budget), s)
  BY Zenon DEF BuyLines, NothingBought
<1>2. Steps(BuyLine, NothingBought(budget), T)
  BY FoldSteps
<1> QED
  BY <1>1, <1>2, Zenon DEF Steps

(* One line: as many copies as are wanted and left for; when fewer than    *)
(* are wanted, what is left buys no other.                                 *)
LEMMA BuysWhatItCan ==
    ASSUME NEW T, NEW x \in Goods(T), NEW acc, acc.remaining \in Int
    PROVE  \E b \in 0..x.quantity :
               /\ BuyLine(acc, x) = [remaining |-> acc.remaining - b * x.price,
                                     lines |-> Append(acc.lines, [line |-> x, bought |-> b])]
               /\ b * x.price \in Nat
               /\ b * x.price = 0 \/ b * x.price <= acc.remaining
               /\ b < x.quantity => x.price > acc.remaining - b * x.price
               /\ b > 0 => x.price = 0 \/ x.price <= acc.remaining
<1> DEFINE r == acc.remaining
           p == x.price
           q == x.quantity
           affordable == IF p > 0 THEN Max({r \div p, 0}) ELSE q
           b == Min({q, affordable})
<1>1. r \in Int /\ p \in Nat /\ q \in Nat \ {0}
  BY DEF Goods
<1>2. BuyLine(acc, x) = [remaining |-> r - b * p, lines |-> Append(acc.lines, [line |-> x, bought |-> b])]
  BY Zenon DEF BuyLine
<1> HIDE DEF r, p, q
<1>3. CASE p = 0
  <2>1. b = q
    BY <1>1, <1>3, MinOfTwo
  <2> HIDE DEF b
  <2>2. b \in 0..q /\ b * p = 0
    BY <1>1, <1>3, <2>1
  <2>3. b * p \in Nat /\ (b * p = 0 \/ b * p <= r) /\ (b < q => p > r - b * p) /\ (b > 0 => p = 0 \/ p <= r)
    BY <1>1, <1>3, <2>1, <2>2
  <2> QED
    BY <1>2, <2>2, <2>3 DEF r, p, q
<1>4. CASE p > 0
  <2> DEFINE d == r \div p
  <2>1. d \in Int /\ d * p <= r /\ r < d * p + p
    BY <1>1, <1>4, Division
  <2> HIDE DEF d
  <2>2. affordable = IF d >= 0 THEN d ELSE 0
    BY <1>4, <2>1, MaxOfTwo DEF d
  <2> HIDE DEF affordable
  <2>3. b = IF q <= affordable THEN q ELSE affordable
    BY <1>1, <2>1, <2>2, MinOfTwo
  <2> HIDE DEF b
  <2>4. b \in 0..q
    BY <1>1, <2>1, <2>2, <2>3
  <2>5. CASE d < 0
    <3>1. b = 0 /\ b * p = 0
      BY <1>1, <2>1, <2>2, <2>3, <2>5
    <3>2. d * p + p <= 0
      <4>1. d + 1 <= 0 /\ (d + 1) * p = d * p + p
        BY <1>1, <2>1, <2>5
      <4>2. (d + 1) * p <= 0
        BY <1>1, <2>1, <4>1
      <4> QED
        BY <4>1, <4>2
    <3>3. r < 0
      BY <1>1, <2>1, <3>2
    <3>4. b * p \in Nat /\ (b * p = 0 \/ b * p <= r) /\ (b < q => p > r - b * p) /\ (b > 0 => p = 0 \/ p <= r)
      BY <1>1, <3>1, <3>3
    <3> QED
      BY <1>2, <2>4, <3>4 DEF r, p, q
  <2>6. CASE d >= 0
    <3>1. b <= d /\ b \in Nat
      BY <1>1, <2>1, <2>2, <2>3, <2>6
    <3>2. b * p <= d * p /\ b * p \in Nat /\ d * p \in Nat
      BY <1>1, <2>1, <2>6, <3>1
    <3>3. b < q => b = d
      BY <1>1, <2>1, <2>2, <2>3, <2>6
    <3>4. b > 0 => p <= b * p
      BY <1>1, <3>1
    <3>5. b * p \in Nat /\ (b * p = 0 \/ b * p <= r) /\ (b < q => p > r - b * p) /\ (b > 0 => p = 0 \/ p <= r)
      BY <1>1, <2>1, <3>2, <3>3, <3>4
    <3> QED
      BY <1>2, <2>4, <3>5 DEF r, p, q
  <2> QED
    BY <2>1, <2>5, <2>6
<1> QED
  BY <1>1, <1>3, <1>4

\* What has been bought of the lines s when e is left of a budget
Bought(T, e, s, budget) ==
    /\ e.remaining \in Int
    /\ e.remaining = budget \/ e.remaining >= 0
    /\ e.lines \in Seq(Purchases(T))
    /\ PaidFor(e.lines) = budget - e.remaining
    /\ Len(e.lines) = Len(s)
    /\ \A i \in 1..Len(s) : e.lines[i].line = s[i] /\ e.lines[i].bought <= s[i].quantity
    /\ \A i \in 1..Len(s) : e.lines[i].bought < s[i].quantity
           => s[i].price > e.remaining /\ \A j \in 1..Len(s) : e.lines[j].bought > 0 => s[j].price <= s[i].price

LEMMA BuysCheapestFirst ==
    ASSUME NEW T, NEW budget \in Int
    PROVE  \A s \in Seq(Goods(T)) : Sorted(s) => Bought(T, BuyLines(s, budget), s, budget)
<1> DEFINE P(s) == Sorted(s) => Bought(T, BuyLines(s, budget), s, budget)
<1>1. P(<<>>)
  <2> DEFINE e == BuyLines(<<>>, budget)
  <2>1. e.remaining = budget /\ e.lines = <<>>
    BY BuyLinesSteps DEF NothingBought
  <2>2. <<>> \in Seq(Purchases(T))
    OBVIOUS
  <2> HIDE DEF e
  <2>3. e.lines \in Seq(Purchases(T)) /\ PaidFor(e.lines) = 0 /\ Len(e.lines) = 0
    BY <2>1, <2>2, PaidForSteps
  <2>4. Bought(T, e, <<>>, budget)
    BY <2>1, <2>3 DEF Bought
  <2> QED
    BY <2>4 DEF e
<1>2. ASSUME NEW s \in Seq(Goods(T)), NEW x \in Goods(T), P(s) PROVE P(Append(s, x))
  <2> SUFFICES ASSUME Sorted(Append(s, x)) PROVE Bought(T, BuyLines(Append(s, x), budget), Append(s, x), budget)
    OBVIOUS
  <2> DEFINE t == Append(s, x)
             n == Len(s)
             e == BuyLines(s, budget)
             f == BuyLines(t, budget)
             r == e.remaining
             p == x.price
  <2>1. n \in Nat /\ Len(t) = n + 1 /\ t[n + 1] = x /\ \A i \in 1..n : t[i] = s[i]
    OBVIOUS
  <2>2. \A i \in 1..n : s[i].price \in Nat /\ s[i].quantity \in Nat
    <3>1. \A g \in Goods(T) : g.price \in Nat /\ g.quantity \in Nat
      BY DEF Goods
    <3> QED
      BY <3>1
  <2>3. p \in Nat /\ x.quantity \in Nat
    BY DEF Goods
  <2>4. \A i \in 1..n : s[i].price <= p
    <3>1. \A i, j \in 1..(n + 1) : i < j => t[i].price <= t[j].price
      BY <2>1 DEF Sorted
    <3> HIDE DEF t, n
    <3>2. ASSUME NEW i \in 1..n PROVE t[i].price <= t[n + 1].price
      BY <2>1, <3>1
    <3> QED
      BY <2>1, <3>2
  <2>5. Sorted(s)
    <3>1. \A i, j \in 1..(n + 1) : i < j => t[i].price <= t[j].price
      BY <2>1 DEF Sorted
    <3> HIDE DEF t
    <3> QED
      BY <2>1, <3>1 DEF Sorted
  <2>6. Bought(T, e, s, budget)
    BY <1>2, <2>5
  <2>7. f = BuyLine(e, x)
    BY BuyLinesSteps
  <2>8. r \in Int
    BY <2>6 DEF Bought
  <2>9. PICK b \in 0..x.quantity :
             /\ f = [remaining |-> r - b * p, lines |-> Append(e.lines, [line |-> x, bought |-> b])]
             /\ b * p \in Nat
             /\ b * p = 0 \/ b * p <= r
             /\ b < x.quantity => p > r - b * p
             /\ b > 0 => p = 0 \/ p <= r
    <3> HIDE DEF e, f
    <3> QED
      BY <2>7, <2>8, BuysWhatItCan
  <2> DEFINE line == [line |-> x, bought |-> b]
             cost == b * p
             L == e.lines
             M == f.lines
             left == f.remaining
  <2>10. left = r - cost /\ M = Append(L, line)
    BY <2>9
  <2>11. line.line = x /\ line.bought = b /\ line \in Purchases(T)
    BY <2>9 DEF Purchases
  <2>12. L \in Seq(Purchases(T)) /\ Len(L) = n /\ PaidFor(L) = budget - r /\ (r = budget \/ r >= 0)
    BY <2>6 DEF Bought
  <2>13. \A i \in 1..n : L[i].line = s[i] /\ L[i].bought <= s[i].quantity
    BY <2>6 DEF Bought
  <2>14. \A i \in 1..n : L[i].bought < s[i].quantity
             => s[i].price > r /\ \A j \in 1..n : L[j].bought > 0 => s[j].price <= s[i].price
    BY <2>6 DEF Bought
  <2>15. \A i \in 1..n : L[i].bought \in Nat
    <3>1. \A l \in Purchases(T) : l.bought \in Nat
      BY DEF Purchases
    <3> HIDE DEF L, n
    <3>2. \A i \in 1..n : L[i] \in Purchases(T)
      BY <2>12
    <3> QED
      BY <3>1, <3>2
  <2>16. PaidFor(Append(L, line)) = PaidFor(L) + cost
    <3> HIDE DEF L, line
    <3>1. PaidFor(Append(L, line)) = PaidFor(L) + line.bought * line.line.price
      BY <2>11, <2>12, PaidForSteps, Zenon
    <3> QED
      BY <2>11, <3>1
  <2>17. cost \in Nat /\ (cost = 0 \/ cost <= r) /\ (b < x.quantity => p > r - cost) /\ (b > 0 => p = 0 \/ p <= r)
         /\ b \in Nat /\ b <= x.quantity
    BY <2>3, <2>9
  <2> HIDE DEF L, M, line, r, left, cost, p, t, n, e, f
  <2>18. M \in Seq(Purchases(T)) /\ Len(M) = n + 1 /\ M[n + 1] = line /\ \A i \in 1..n : M[i] = L[i]
    BY <2>1, <2>10, <2>11, <2>12
  <2>19. left \in Int /\ (left = budget \/ left >= 0) /\ PaidFor(M) = budget - left
    BY <2>8, <2>10, <2>12, <2>16, <2>17
  <2>20. ASSUME NEW i \in 1..(n + 1) PROVE M[i].line = t[i] /\ M[i].bought <= t[i].quantity
    <3>1. CASE i \in 1..n
      BY <2>1, <2>13, <2>18, <3>1
    <3>2. CASE i = n + 1
      BY <2>1, <2>11, <2>17, <2>18, <3>2
    <3> QED
      BY <2>1, <3>1, <3>2
  <2>21. ASSUME NEW i \in 1..(n + 1), M[i].bought < t[i].quantity PROVE t[i].price > left
    <3>1. CASE i \in 1..n
      <4>1. s[i].price > r /\ s[i].price \in Nat
        BY <2>1, <2>2, <2>14, <2>18, <2>21, <3>1
      <4> QED
        BY <2>1, <2>8, <2>10, <2>17, <3>1, <4>1
    <3>2. CASE i = n + 1
      BY <2>1, <2>10, <2>11, <2>17, <2>18, <2>21, <3>2 DEF p
    <3> QED
      BY <2>1, <3>1, <3>2
  <2>22. ASSUME NEW i \in 1..(n + 1), M[i].bought < t[i].quantity, NEW j \in 1..(n + 1), M[j].bought > 0
         PROVE  t[j].price <= t[i].price
    <3>1. CASE i \in 1..n /\ j \in 1..n
      BY <2>1, <2>14, <2>18, <2>22, <3>1
    <3>2. CASE i \in 1..n /\ j = n + 1
      <4>1. s[i].price > r /\ s[i].price \in Nat
        BY <2>1, <2>2, <2>14, <2>18, <2>22, <3>2
      <4>2. p = 0 \/ p <= r
        BY <2>11, <2>17, <2>18, <2>22, <3>2
      <4>3. p <= s[i].price
        BY <2>3, <2>8, <4>1, <4>2 DEF p
      <4> QED
        BY <2>1, <3>2, <4>3 DEF p
    <3>3. CASE i = n + 1 /\ j \in 1..n
      BY <2>1, <2>4, <3>3 DEF p
    <3>4. CASE i = n + 1 /\ j = n + 1
      BY <2>1, <2>3, <3>4 DEF p
    <3> QED
      BY <2>1, <3>1, <3>2, <3>3, <3>4
  <2>23. Bought(T, f, t, budget)
    <3>1. \A i \in 1..(n + 1) : f.lines[i].bought < t[i].quantity
              => t[i].price > f.remaining
                 /\ \A j \in 1..(n + 1) : f.lines[j].bought > 0 => t[j].price <= t[i].price
      BY <2>21, <2>22 DEF M, left
    <3> QED
      BY <2>1, <2>18, <2>19, <2>20, <3>1 DEF Bought, M, left
  <2> QED
    BY <2>23 DEF f, t
<1>3. Extending(P, Goods(T))
  BY <1>1, <1>2, Zenon DEF Extending
<1>4. OfAll(P, Goods(T))
  BY <1>3, SequenceInduction
<1> QED
  BY <1>4 DEF OfAll

(* What a budget buys of priced cards, whichever they are.                 *)
LEMMA BudgetWellSpent ==
    ASSUME NEW T, NEW priced \in Seq(Offers(T)), NEW budget \in Int
    PROVE  WellSpent(ApplyBudget(priced, budget), priced, budget)
<1> DEFINE s == CheapestFirst(priced)
           e == BuyLines(s, budget)
           n == Len(s)
           result == ApplyBudget(priced, budget)
           left == {i \in DOMAIN result.lines : result.lines[i].bought < result.lines[i].line.quantity}
           bought == {i \in DOMAIN result.lines : result.lines[i].bought > 0}
           price(i) == result.lines[i].line.price
<1>1. /\ s \in Seq(Goods(T)) /\ Sorted(s)
      /\ Len(s) = Len(Where(priced, IsPriced)) /\ ToSet(s) = ToSet(Where(priced, IsPriced))
  BY CheapestFirstSorted
<1>2. Bought(T, e, s, budget)
  <2> HIDE DEF s
  <2> QED
    BY <1>1, BuysCheapestFirst
<1>3. /\ result.lines = e.lines
      /\ result.spent = budget - e.remaining
      /\ result.remaining = e.remaining
      /\ result.covered = (/\ UnpricedOf(priced) = <<>>
                           /\ \A i \in DOMAIN e.lines : e.lines[i].bought = e.lines[i].line.quantity)
  BY DEF ApplyBudget
<1> HIDE DEF e, s, result
<1>4. /\ e.remaining \in Int /\ (e.remaining = budget \/ e.remaining >= 0)
      /\ e.lines \in Seq(Purchases(T)) /\ PaidFor(e.lines) = budget - e.remaining /\ Len(e.lines) = n
  BY <1>2 DEF Bought
<1>5. n \in Nat /\ DOMAIN e.lines = 1..n
  BY <1>1, <1>4
<1>6. \A i \in 1..n : e.lines[i].line = s[i] /\ e.lines[i].bought <= s[i].quantity
  BY <1>2 DEF Bought
<1>7. \A i \in 1..n : e.lines[i].bought < s[i].quantity
          => s[i].price > e.remaining /\ \A j \in 1..n : e.lines[j].bought > 0 => s[j].price <= s[i].price
  BY <1>2 DEF Bought
<1>8. result.spent <= Max({budget, 0})
  <2>1. Max({budget, 0}) = IF budget >= 0 THEN budget ELSE 0
    BY MaxOfTwo
  <2> QED
    BY <1>3, <1>4, <2>1
<1>9. result.spent = PaidFor(result.lines)
  BY <1>3, <1>4
<1>10. ASSUME NEW i \in left PROVE price(i) > result.remaining /\ \A j \in bought : price(j) <= price(i)
  <2>1. i \in 1..n /\ e.lines[i].bought < s[i].quantity /\ price(i) = s[i].price
    BY <1>3, <1>5, <1>6
  <2>2. \A j \in bought : j \in 1..n /\ e.lines[j].bought > 0 /\ price(j) = s[j].price
    BY <1>3, <1>5, <1>6
  <2> QED
    BY <1>3, <1>7, <2>1, <2>2
<1>11. result.covered <=> left = {} /\ UnpricedOf(priced) = <<>>
  <2>1. \A i \in 1..n : e.lines[i].bought \in Nat /\ s[i].quantity \in Nat
    <3>1. \A l \in Purchases(T) : l.bought \in Nat
      BY DEF Purchases
    <3>2. \A g \in Goods(T) : g.quantity \in Nat
      BY DEF Goods
    <3>3. \A i \in 1..n : e.lines[i] \in Purchases(T) /\ s[i] \in Goods(T)
      BY <1>1, <1>4
    <3> QED
      BY <3>1, <3>2, <3>3
  <2>2. (\A i \in DOMAIN e.lines : e.lines[i].bought = e.lines[i].line.quantity) <=> left = {}
    <3>1. left = {i \in 1..n : e.lines[i].bought < s[i].quantity}
      BY <1>3, <1>5, <1>6
    <3> HIDE DEF left, n
    <3>2. \A i \in 1..n : e.lines[i].bought = s[i].quantity <=> ~(e.lines[i].bought < s[i].quantity)
      BY <1>6, <2>1
    <3> QED
      BY <1>5, <1>6, <3>1, <3>2
  <2> HIDE DEF left
  <2> QED
    BY <1>3, <2>2
<1>12. /\ Len(result.lines) = Len(Where(priced, IsPriced))
       /\ {l.line : l \in ToSet(result.lines)} = ToSet(Where(priced, IsPriced))
  <2>1. ToSet(s) = {s[i] : i \in 1..n}
    BY <1>1 DEF ToSet
  <2>2. {l.line : l \in ToSet(e.lines)} = {s[i] : i \in 1..n}
    BY <1>5, <1>6 DEF ToSet
  <2> QED
    BY <1>1, <1>3, <1>4, <2>1, <2>2
<1> QED
  BY <1>8, <1>9, <1>10, <1>11, <1>12, Zenon DEF WellSpent, result

(* In every state of the tables, a budget of the shopping list is never    *)
(* overspent, what it buys is what is paid for, nothing dearer is bought   *)
(* while a cheaper copy is left out, what remains buys none of the copies  *)
(* left out, and the list is said to be covered exactly when every missing *)
(* card has a price and all copies are bought.                             *)
THEOREM BudgetWorks == Spec => []BudgetBuysMost
<1>1. TypeOK => BudgetBuysMost
  <2> SUFFICES ASSUME TypeOK, NEW mode \in Modes, NEW profile \in Profiles, NEW budget \in Budgets,
                      NEW page, page = GetShoppingList(owned, lists, observations, Ids, mode, profile, budget)
               PROVE  WellSpent(page.budget, page.priced, budget)
    BY DEF BudgetBuysMost
  <2> DEFINE rows == RequiredCardsOf(lists, Ids)
             missing == RunShoppingList(owned, lists, Ids, mode).missing
             priced == PriceMissingCards(observations, missing, profile, mode)
  <2>1. Rows(OwnedRows) /\ Rows(ListRows) /\ budget \in Int /\ budget # None /\ profile # None
    BY CatalogueAssumption DEF Rows
  <2>2. rows \in Seq(ListRows)
    BY IdsKeep, RequiredCardsOfKeep DEF TypeOK
  <2>3. missing = CompareLines(OwnedPool(owned, mode), rows, mode).missing
    BY DEF RunShoppingList, Compare, ComparePool
  <2>4. IsPool(OwnedPool(owned, mode))
    BY <2>1, PoolHolds DEF IsPool, TypeOK
  <2>5. missing \in Seq(MissingLines(ListRows))
    <3> HIDE DEF rows, missing
    <3> QED
      BY <2>1, <2>2, <2>3, <2>4, LinesAddUp
  <2>6. Priceable(observations) /\ profile.priority \in Seq(ToSet(profile.priority))
    BY CatalogueAssumption DEF TypeOK, Priceable
  <2>7. priced \in Seq(Offers(ListRows))
    <3> HIDE DEF missing
    <3> QED
      BY <2>5, <2>6, PricedMissingCards
  <2>8. page.priced = priced /\ page.budget = ApplyBudget(priced, budget)
    BY <2>1 DEF GetShoppingList, Answer, PriceAndBudgetMissingCards
  <2> HIDE DEF priced
  <2> QED
    BY <2>1, <2>7, <2>8, BudgetWellSpent
<1> QED
  BY <1>1, TypeCorrect, PTL

-----------------------------------------------------------------------------
(* What the missing lines are short of, by key *)

LEMMA ShortByKeySteps ==
    ASSUME NEW mode, NEW T
    PROVE  /\ ShortByKey(<<>>, mode) = EmptyBag
           /\ \A m \in Seq(T), line \in T :
                ShortByKey(Append(m, line), mode)
                    = ShortByKey(m, mode) (+) Copies(CandidateKey(line.card, mode), line.short)
<1> DEFINE op(bag, line) == bag (+) Copies(CandidateKey(line.card, mode), line.short)
<1>1. \A m : ShortByKey(m, mode) = FoldLeft(op, EmptyBag, m)
  BY Zenon DEF ShortByKey
<1>2. Steps(op, EmptyBag, T)
  BY FoldSteps
<1> QED
  BY <1>1, <1>2, Zenon DEF Steps

\* The keys a bag has are those it has copies of, and those of its lines
KeysOf(bag, m, mode) ==
    \A key : /\ Held(bag, key) \in Nat
             /\ key \in DOMAIN bag <=> Held(bag, key) > 0
             /\ key \in DOMAIN bag <=> \E line \in ToSet(m) : CandidateKey(line.card, mode) = key

LEMMA ShortKeysOfLines ==
    ASSUME NEW mode, NEW T
    PROVE  \A m \in Seq(MissingLines(T)) : KeysOf(ShortByKey(m, mode), m, mode)
<1> DEFINE P(m) == KeysOf(ShortByKey(m, mode), m, mode)
<1>1. P(<<>>)
  <2>1. ShortByKey(<<>>, mode) = EmptyBag
    BY ShortByKeySteps
  <2>2. DOMAIN EmptyBag = {}
    BY DEF EmptyBag, SetToBag
  <2>3. ToSet(<<>>) = {}
    BY DEF ToSet
  <2> QED
    BY <2>1, <2>2, <2>3, HeldEmpty DEF KeysOf
<1>2. ASSUME NEW m \in Seq(MissingLines(T)), NEW line \in MissingLines(T), P(m) PROVE P(Append(m, line))
  <2> DEFINE bag == ShortByKey(m, mode)
             more == ShortByKey(Append(m, line), mode)
             ck == CandidateKey(line.card, mode)
             n == line.short
  <2>1. more = bag (+) Copies(ck, n)
    BY ShortByKeySteps
  <2>2. n \in Nat \ {0}
    BY DEF MissingLines
  <2>3. DOMAIN Copies(ck, n) = {ck}
    BY DEF Copies
  <2>4. ToSet(Append(m, line)) = ToSet(m) \cup {line}
    BY ToSetAppend
  <2>5. KeysOf(bag, m, mode)
    BY <1>2
  <2> HIDE DEF n, bag, more
  <2>6. DOMAIN more = DOMAIN bag \cup {ck}
    <3> DEFINE one == Copies(ck, n)
    <3> HIDE DEF one
    <3>1. DOMAIN (bag (+) one) = DOMAIN bag \cup DOMAIN one
      BY DEF (+)
    <3> QED
      BY <2>1, <2>3, <3>1 DEF one
  <2>7. ASSUME NEW key PROVE Held(more, key) = Held(bag, key) + IF key = ck THEN n ELSE 0
    <3> DEFINE one == Copies(ck, n)
    <3>1. Held(one, key) = IF key = ck THEN n ELSE 0
      BY HeldCopies
    <3> HIDE DEF one
    <3>2. Held(bag (+) one, key) = Held(bag, key) + Held(one, key)
      BY HeldUnion
    <3> QED
      BY <2>1, <3>1, <3>2 DEF one
  <2>8. KeysOf(more, Append(m, line), mode)
    <3> SUFFICES ASSUME NEW key
                 PROVE  /\ Held(more, key) \in Nat
                        /\ key \in DOMAIN more <=> Held(more, key) > 0
                        /\ key \in DOMAIN more
                             <=> \E l \in ToSet(Append(m, line)) : CandidateKey(l.card, mode) = key
      BY DEF KeysOf
    <3>1. /\ Held(bag, key) \in Nat
          /\ key \in DOMAIN bag <=> Held(bag, key) > 0
          /\ key \in DOMAIN bag <=> \E l \in ToSet(m) : CandidateKey(l.card, mode) = key
      BY <2>5 DEF KeysOf
    <3> HIDE DEF ck
    <3>2. Held(more, key) \in Nat /\ (key \in DOMAIN more <=> Held(more, key) > 0)
      BY <2>2, <2>6, <2>7, <3>1
    <3>3. key \in DOMAIN more <=> \E l \in ToSet(Append(m, line)) : CandidateKey(l.card, mode) = key
      BY <2>4, <2>6, <3>1 DEF ck
    <3> QED
      BY <3>2, <3>3
  <2> QED
    BY <2>8 DEF more
<1>3. Extending(P, MissingLines(T))
  BY <1>1, <1>2, Zenon DEF Extending
<1>4. OfAll(P, MissingLines(T))
  BY <1>3, SequenceInduction
<1> QED
  BY <1>4 DEF OfAll

\* A key that exactly the rows that take copies of it are candidates for
Keyed(key, mode) == \A row : CandidateKey(row, mode) = key <=> HasKey(row, mode) /\ Key(row, mode) = key

LEMMA CandidatesAreKeyed ==
    ASSUME NEW mode \in Modes, NEW card, HasKey(card, mode)
    PROVE  CandidateKey(card, mode) = Key(card, mode) /\ Keyed(Key(card, mode), mode)
<1>1. CASE mode = "oracle"
  BY <1>1 DEF CandidateKey, Key, HasKey, Keyed
<1>2. CASE mode = "printing"
  <2>1. \A row : OracleKey(row) # <<"printing", card.printing>>
    BY DEF OracleKey
  <2> QED
    BY <1>2, <2>1 DEF CandidateKey, Key, HasKey, Keyed
<1> QED
  BY <1>1, <1>2 DEF Modes

(* What the lines are short of a key is the demand less what is owned.     *)
LEMMA ShortIsExact ==
    ASSUME NEW mode, NEW T, Rows(T), NEW pool, IsPool(pool), NEW key, Keyed(key, mode)
    PROVE  \A s \in Seq(T) :
               Held(ShortByKey(CompareLines(pool, s, mode).missing, mode), key) =
                   IF Demand(s, key, mode) > Held(pool, key) THEN Demand(s, key, mode) - Held(pool, key) ELSE 0
<1> DEFINE P(s) == Held(ShortByKey(CompareLines(pool, s, mode).missing, mode), key) =
                       IF Demand(s, key, mode) > Held(pool, key) THEN Demand(s, key, mode) - Held(pool, key) ELSE 0
           h == Held(pool, key)
<1>1. h \in Nat
  BY DEF IsPool
<1>2. P(<<>>)
  <2>1. CompareLines(pool, <<>>, mode).missing = <<>>
    BY CompareLinesSteps DEF NothingYet
  <2>2. ShortByKey(<<>>, mode) = EmptyBag
    BY ShortByKeySteps
  <2>3. Demand(<<>>, key, mode) = 0
    BY OwnedPoolSteps, HeldEmpty DEF Demand
  <2> QED
    BY <1>1, <2>1, <2>2, <2>3, HeldEmpty
<1>3. ASSUME NEW s \in Seq(T), NEW x \in T, P(s) PROVE P(Append(s, x))
  <2> DEFINE a == Applied(pool, s, x, mode)
             before == CompareLines(pool, s, mode)
             after == CompareLines(pool, Append(s, x), mode)
             line == [card |-> x, short |-> x.qty - a]
             want == Demand(s, key, mode)
             more == Demand(Append(s, x), key, mode)
             lacked == Held(ShortByKey(before.missing, mode), key)
             lacking == Held(ShortByKey(after.missing, mode), key)
  <2> SUFFICES lacking = IF more > h THEN more - h ELSE 0
    OBVIOUS
  <2>1. lacked = IF want > h THEN want - h ELSE 0
    BY <1>3
  <2>2. x.qty \in Nat \ {0} /\ a \in 0..x.qty
    BY AppliedTyped DEF Rows
  <2>3. want \in Nat
    BY PoolHolds DEF Demand
  <2>4. more = IF HasKey(x, mode) /\ Key(x, mode) = key THEN want + x.qty ELSE want
    BY PoolSteps DEF Demand
  <2>5. lacked \in Nat
    <3> HIDE DEF want, h
    <3> QED
      BY <1>1, <2>1, <2>3
  <2>6. lacking = IF CandidateKey(x, mode) = key /\ a < x.qty THEN lacked + (x.qty - a) ELSE lacked
    <3>1. TakesCopies(before, after, x, a, mode)
      BY TakesInOrder, LineTakes
    <3>2. before.missing \in Seq(MissingLines(T))
      BY LinesAddUp
    <3> HIDE DEF a, before, after
    <3>3. CASE a < x.qty
      <4>1. line \in MissingLines(T) /\ line.card = x /\ line.short = x.qty - a
        BY <2>2, <3>3 DEF MissingLines
      <4>2. after.missing = Append(before.missing, line)
        BY <3>1, <3>3 DEF TakesCopies
      <4> HIDE DEF line
      <4> DEFINE m == before.missing
                 one == Copies(CandidateKey(line.card, mode), line.short)
      <4>3. Held(one, key) = IF key = CandidateKey(line.card, mode) THEN line.short ELSE 0
        BY HeldCopies
      <4> HIDE DEF m
      <4>4. ShortByKey(Append(m, line), mode) = ShortByKey(m, mode) (+) one
        BY <3>2, <4>1, ShortByKeySteps DEF m
      <4> HIDE DEF one
      <4>5. Held(ShortByKey(m, mode) (+) one, key) = Held(ShortByKey(m, mode), key) + Held(one, key)
        BY HeldUnion
      <4>6. lacking = lacked + Held(one, key)
        BY <4>2, <4>4, <4>5 DEF m
      <4> HIDE DEF lacking, lacked
      <4> QED
        BY <2>2, <2>5, <3>3, <4>1, <4>3, <4>6
    <3>4. CASE ~(a < x.qty)
      BY <3>1, <3>4 DEF TakesCopies
    <3> QED
      BY <3>3, <3>4
  <2>7. CASE CandidateKey(x, mode) = key
    <3>1. HasKey(x, mode) /\ Key(x, mode) = key
      BY <2>7 DEF Keyed
    <3>2. Left(pool, s, x, mode) = IF h > want THEN h - want ELSE 0
      BY <3>1 DEF Left
    <3>3. a = IF Left(pool, s, x, mode) <= x.qty THEN Left(pool, s, x, mode) ELSE x.qty
      BY DEF Applied
    <3> HIDE DEF a, h, want, more, lacked, lacking
    <3> QED
      BY <1>1, <2>1, <2>2, <2>3, <2>4, <2>6, <2>7, <3>1, <3>2, <3>3
  <2>8. CASE CandidateKey(x, mode) # key
    <3>1. ~(HasKey(x, mode) /\ Key(x, mode) = key)
      BY <2>8 DEF Keyed
    <3> HIDE DEF a, h, want, more, lacked, lacking
    <3> QED
      BY <2>1, <2>4, <2>6, <2>8, <3>1
  <2> QED
    BY <2>7, <2>8
<1>4. Extending(P, T)
  BY <1>2, <1>3, Zenon DEF Extending
<1>5. OfAll(P, T)
  BY <1>4, SequenceInduction
<1> QED
  BY <1>5 DEF OfAll

\* A pool has all copies s wants of the key of a row
Served(pool, s, row, mode) ==
    HasKey(row, mode) /\ Demand(s, Key(row, mode), mode) <= Held(pool, Key(row, mode))

\* Lines are of rows of s, and every row of s without a key has one
LinesOf(m, s, mode) ==
    /\ \A line \in ToSet(m) : line.card \in ToSet(s)
    /\ \A row \in ToSet(s) : ~HasKey(row, mode) => \E line \in ToSet(m) : line.card = row

(* Missing lines are of required rows, and a row without a key is missing. *)
LEMMA LinesAreOfRows ==
    ASSUME NEW mode, NEW T, Rows(T), NEW pool, IsPool(pool)
    PROVE  \A s \in Seq(T) : LinesOf(CompareLines(pool, s, mode).missing, s, mode)
<1> DEFINE P(s) == LinesOf(CompareLines(pool, s, mode).missing, s, mode)
<1>1. P(<<>>)
  <2>1. CompareLines(pool, <<>>, mode).missing = <<>>
    BY CompareLinesSteps DEF NothingYet
  <2>2. ToSet(<<>>) = {}
    BY DEF ToSet
  <2> QED
    BY <2>1, <2>2 DEF LinesOf
<1>2. ASSUME NEW s \in Seq(T), NEW x \in T, P(s) PROVE P(Append(s, x))
  <2> DEFINE a == Applied(pool, s, x, mode)
             before == CompareLines(pool, s, mode)
             after == CompareLines(pool, Append(s, x), mode)
             line == [card |-> x, short |-> x.qty - a]
  <2>1. TakesCopies(before, after, x, a, mode)
    BY TakesInOrder, LineTakes
  <2>2. before.missing \in Seq(MissingLines(T))
    BY LinesAddUp
  <2>3. x.qty \in Nat \ {0} /\ a \in 0..x.qty
    BY AppliedTyped DEF Rows
  <2>4. ToSet(Append(s, x)) = ToSet(s) \cup {x}
    BY ToSetAppend
  <2>5. /\ \A l \in ToSet(before.missing) : l.card \in ToSet(s)
        /\ \A row \in ToSet(s) : ~HasKey(row, mode) => \E l \in ToSet(before.missing) : l.card = row
    BY <1>2 DEF LinesOf
  <2>6. ~HasKey(x, mode) => a < x.qty
    <3>1. ~HasKey(x, mode) => Left(pool, s, x, mode) = 0
      BY DEF Left
    <3> QED
      BY <2>3, <3>1 DEF Applied
  <2> HIDE DEF a, before, after
  <2>7. CASE a < x.qty
    <3>1. line \in MissingLines(T) /\ line.card = x
      BY <2>3, <2>7 DEF MissingLines
    <3>2. after.missing = Append(before.missing, line)
      BY <2>1, <2>7 DEF TakesCopies
    <3> HIDE DEF line
    <3>3. ToSet(after.missing) = ToSet(before.missing) \cup {line}
      BY <2>2, <3>1, <3>2, ToSetAppend
    <3>4. /\ \A l \in ToSet(after.missing) : l.card \in ToSet(Append(s, x))
          /\ \A row \in ToSet(Append(s, x)) : ~HasKey(row, mode) => \E l \in ToSet(after.missing) : l.card = row
      BY <2>4, <2>5, <3>1, <3>3
    <3> QED
      BY <3>4 DEF after, LinesOf
  <2>8. CASE ~(a < x.qty)
    <3>1. after.missing = before.missing
      BY <2>1, <2>8 DEF TakesCopies
    <3>2. /\ \A l \in ToSet(after.missing) : l.card \in ToSet(Append(s, x))
          /\ \A row \in ToSet(Append(s, x)) : ~HasKey(row, mode) => \E l \in ToSet(after.missing) : l.card = row
      BY <2>4, <2>5, <2>6, <2>8, <3>1
    <3> QED
      BY <3>2 DEF after, LinesOf
  <2> QED
    BY <2>7, <2>8
<1>3. Extending(P, T)
  BY <1>1, <1>2, Zenon DEF Extending
<1>4. OfAll(P, T)
  BY <1>3, SequenceInduction
<1> QED
  BY <1>4 DEF OfAll

(* A list is short of the keys of the rows that are not served.            *)
LEMMA ShortOfUnserved ==
    ASSUME NEW mode \in Modes, NEW T, Rows(T), NEW pool, IsPool(pool), NEW s \in Seq(T), NEW key
    PROVE  key \in DOMAIN ShortByKey(CompareLines(pool, s, mode).missing, mode)
               <=> \E row \in ToSet(s) : CandidateKey(row, mode) = key /\ ~Served(pool, s, row, mode)
<1> DEFINE m == CompareLines(pool, s, mode).missing
           short == ShortByKey(m, mode)
<1>1. m \in Seq(MissingLines(T))
  BY LinesAddUp
<1>2. /\ \A line \in ToSet(m) : line.card \in ToSet(s)
      /\ \A row \in ToSet(s) : ~HasKey(row, mode) => \E line \in ToSet(m) : line.card = row
  <2>1. LinesOf(m, s, mode)
    BY LinesAreOfRows
  <2> HIDE DEF m
  <2> QED
    BY <2>1 DEF LinesOf
<1>3. \A k : Keyed(k, mode) => Held(short, k) = IF Demand(s, k, mode) > Held(pool, k)
                                                THEN Demand(s, k, mode) - Held(pool, k) ELSE 0
  BY ShortIsExact
<1>4. \A k : Demand(s, k, mode) \in Nat /\ Held(pool, k) \in Nat
  BY PoolHolds DEF IsPool, Demand
<1> HIDE DEF m
<1>5. KeysOf(short, m, mode)
  BY <1>1, ShortKeysOfLines
<1> HIDE DEF short
<1>6. ASSUME NEW row, HasKey(row, mode)
      PROVE  CandidateKey(row, mode) \in DOMAIN short <=> ~Served(pool, s, row, mode)
  <2> DEFINE k == Key(row, mode)
  <2>1. CandidateKey(row, mode) = k /\ Keyed(k, mode)
    BY <1>6, CandidatesAreKeyed
  <2>2. k \in DOMAIN short <=> Held(short, k) > 0
    BY <1>5 DEF KeysOf
  <2>3. Served(pool, s, row, mode) <=> Demand(s, k, mode) <= Held(pool, k)
    BY <1>6 DEF Served
  <2> HIDE DEF k
  <2>4. Held(short, k) > 0 <=> ~(Demand(s, k, mode) <= Held(pool, k))
    <3>1. Demand(s, k, mode) \in Nat /\ Held(pool, k) \in Nat
      BY <1>4
    <3>2. Held(short, k) = IF Demand(s, k, mode) > Held(pool, k) THEN Demand(s, k, mode) - Held(pool, k) ELSE 0
      BY <1>3, <2>1
    <3> QED
      BY <3>1, <3>2
  <2> QED
    BY <2>1, <2>2, <2>3, <2>4
<1>7. ASSUME key \in DOMAIN short
      PROVE  \E row \in ToSet(s) : CandidateKey(row, mode) = key /\ ~Served(pool, s, row, mode)
  <2>1. PICK line \in ToSet(m) : CandidateKey(line.card, mode) = key
    BY <1>5, <1>7 DEF KeysOf
  <2>2. line.card \in ToSet(s)
    BY <1>2, <2>1
  <2>3. ~Served(pool, s, line.card, mode)
    <3>1. CASE HasKey(line.card, mode)
      BY <1>6, <1>7, <2>1, <3>1
    <3>2. CASE ~HasKey(line.card, mode)
      BY <3>2 DEF Served
    <3> QED
      BY <3>1, <3>2
  <2> QED
    BY <2>1, <2>2, <2>3
<1>8. ASSUME NEW row \in ToSet(s), CandidateKey(row, mode) = key, ~Served(pool, s, row, mode)
      PROVE  key \in DOMAIN short
  <2>1. CASE HasKey(row, mode)
    BY <1>6, <1>8, <2>1
  <2>2. CASE ~HasKey(row, mode)
    <3>1. PICK line \in ToSet(m) : line.card = row
      BY <1>2, <2>2
    <3> QED
      BY <1>5, <1>8, <3>1 DEF KeysOf
  <2> QED
    BY <2>1, <2>2
<1> QED
  BY <1>7, <1>8 DEF short, m

-----------------------------------------------------------------------------
(* What buying copies of one key does to a comparison *)

(* It completes a list when the key is all the list is short of.           *)
LEMMA PurchaseCompletes ==
    ASSUME NEW mode \in Modes, NEW T, Rows(T), NEW pool, IsPool(pool), NEW s \in Seq(T),
           NEW key, Keyed(key, mode), NEW n \in Nat, Demand(s, key, mode) <= Held(pool, key) + n,
           NEW after, after = pool (+) Copies(key, n)
    PROVE  /\ IsPool(after)
           /\ DOMAIN ShortByKey(CompareLines(pool, s, mode).missing, mode) = {key}
                  <=> Enough(after, s, mode) /\ ~Enough(pool, s, mode)
<1> DEFINE short == ShortByKey(CompareLines(pool, s, mode).missing, mode)
<1>1. \A k : Held(after, k) = Held(pool, k) + IF k = key THEN n ELSE 0
  <2> DEFINE one == Copies(key, n)
  <2>1. \A k : Held(one, k) = IF k = key THEN n ELSE 0
    BY HeldCopies
  <2> HIDE DEF one
  <2>2. \A k : Held(pool (+) one, k) = Held(pool, k) + Held(one, k)
    BY HeldUnion
  <2> QED
    BY <2>1, <2>2 DEF one
<1>2. \A k : Held(pool, k) \in Nat
  BY DEF IsPool
<1>3. IsPool(after)
  BY <1>1, <1>2 DEF IsPool
<1>4. \A k : k \in DOMAIN short
                 <=> \E row \in ToSet(s) : CandidateKey(row, mode) = k /\ ~Served(pool, s, row, mode)
  BY ShortOfUnserved
<1>5. \A p : Enough(p, s, mode) <=> \A row \in ToSet(s) : Served(p, s, row, mode)
  BY DEF Enough, Served
<1>6. ASSUME NEW row
      PROVE  Served(after, s, row, mode) <=> CandidateKey(row, mode) = key \/ Served(pool, s, row, mode)
  <2> DEFINE k == Key(row, mode)
  <2>1. CASE CandidateKey(row, mode) = key
    <3>1. HasKey(row, mode) /\ k = key
      BY <2>1 DEF Keyed
    <3>2. Held(after, key) = Held(pool, key) + n
      BY <1>1
    <3> QED
      BY <2>1, <3>1, <3>2 DEF Served
  <2>2. CASE CandidateKey(row, mode) # key
    <3>1. ~(HasKey(row, mode) /\ k = key)
      BY <2>2 DEF Keyed
    <3>2. k # key => Held(after, k) = Held(pool, k)
      <4> HIDE DEF k
      <4> QED
        BY <1>1, <1>2
    <3> QED
      BY <2>2, <3>1, <3>2 DEF Served
  <2> QED
    BY <2>1, <2>2
<1> HIDE DEF short
<1>7. ASSUME DOMAIN short = {key} PROVE Enough(after, s, mode) /\ ~Enough(pool, s, mode)
  <2>1. \A row \in ToSet(s) : CandidateKey(row, mode) = key \/ Served(pool, s, row, mode)
    BY <1>4, <1>7
  <2>2. \E row \in ToSet(s) : ~Served(pool, s, row, mode)
    BY <1>4, <1>7
  <2> QED
    BY <1>5, <1>6, <2>1, <2>2
<1>8. ASSUME Enough(after, s, mode), ~Enough(pool, s, mode) PROVE DOMAIN short = {key}
  <2>1. \A row \in ToSet(s) : CandidateKey(row, mode) = key \/ Served(pool, s, row, mode)
    BY <1>5, <1>6, <1>8
  <2>2. PICK row \in ToSet(s) : ~Served(pool, s, row, mode)
    BY <1>5, <1>8
  <2>3. key \in DOMAIN short
    BY <1>4, <2>1, <2>2
  <2>4. \A k \in DOMAIN short : k = key
    BY <1>4, <2>1
  <2> QED
    BY <2>3, <2>4
<1> QED
  BY <1>3, <1>7, <1>8 DEF short

(* It gains what the list is short of the key, and nothing of any other.   *)
LEMMA PurchaseGains ==
    ASSUME NEW mode, NEW T, Rows(T), NEW pool, IsPool(pool), NEW key, NEW n \in Nat,
           NEW after, after = pool (+) Copies(key, n), IsPool(after)
    PROVE  \A s \in Seq(T) :
               CompareLines(after, s, mode).applied =
                   CompareLines(pool, s, mode).applied
                       + (IF Demand(s, key, mode) <= Held(pool, key) THEN 0
                          ELSE IF Demand(s, key, mode) <= Held(pool, key) + n
                          THEN Demand(s, key, mode) - Held(pool, key) ELSE n)
<1> DEFINE gain(d) == IF d <= Held(pool, key) THEN 0
                      ELSE IF d <= Held(pool, key) + n THEN d - Held(pool, key) ELSE n
           P(s) == CompareLines(after, s, mode).applied
                       = CompareLines(pool, s, mode).applied + gain(Demand(s, key, mode))
           h == Held(pool, key)
<1>1. \A k : Held(after, k) = Held(pool, k) + IF k = key THEN n ELSE 0
  <2> DEFINE one == Copies(key, n)
  <2>1. \A k : Held(one, k) = IF k = key THEN n ELSE 0
    BY HeldCopies
  <2> HIDE DEF one
  <2>2. \A k : Held(pool (+) one, k) = Held(pool, k) + Held(one, k)
    BY HeldUnion
  <2> QED
    BY <2>1, <2>2 DEF one
<1>2. \A k : Held(pool, k) \in Nat
  BY DEF IsPool
<1>3. P(<<>>)
  <2>1. CompareLines(pool, <<>>, mode).applied = 0 /\ CompareLines(after, <<>>, mode).applied = 0
    BY CompareLinesSteps DEF NothingYet
  <2>2. Demand(<<>>, key, mode) = 0
    BY OwnedPoolSteps, HeldEmpty DEF Demand
  <2>3. 0 <= h
    BY <1>2
  <2>4. gain(0) = 0
    BY <2>3
  <2> HIDE DEF gain
  <2> QED
    BY <2>1, <2>2, <2>4
<1>4. ASSUME NEW s \in Seq(T), NEW x \in T, P(s) PROVE P(Append(s, x))
  <2> DEFINE a == Applied(pool, s, x, mode)
             b == Applied(after, s, x, mode)
             d == Demand(s, key, mode)
             e == Demand(Append(s, x), key, mode)
             A == CompareLines(pool, s, mode).applied
             B == CompareLines(after, s, mode).applied
             A2 == CompareLines(pool, Append(s, x), mode).applied
             B2 == CompareLines(after, Append(s, x), mode).applied
             q == x.qty
  <2> SUFFICES B2 = A2 + gain(e)
    OBVIOUS
  <2>1. B = A + gain(d)
    BY <1>4
  <2>2. A2 = A + a /\ B2 = B + b
    <3>1. TakesCopies(CompareLines(pool, s, mode), CompareLines(pool, Append(s, x), mode), x, a, mode)
      BY TakesInOrder, LineTakes
    <3>2. TakesCopies(CompareLines(after, s, mode), CompareLines(after, Append(s, x), mode), x, b, mode)
      BY TakesInOrder, LineTakes
    <3> HIDE DEF a, b
    <3> QED
      BY <3>1, <3>2 DEF TakesCopies
  <2>3. A \in Nat /\ B \in Nat
    BY LinesAddUp
  <2>4. q \in Nat \ {0} /\ a \in 0..q /\ b \in 0..q /\ d \in Nat /\ h \in Nat
    BY AppliedTyped, PoolHolds DEF Rows, Demand, IsPool
  <2>5. e = IF HasKey(x, mode) /\ Key(x, mode) = key THEN d + q ELSE d
    BY PoolSteps DEF Demand
  <2>6. a = (IF Left(pool, s, x, mode) <= q THEN Left(pool, s, x, mode) ELSE q)
        /\ b = (IF Left(after, s, x, mode) <= q THEN Left(after, s, x, mode) ELSE q)
    BY DEF Applied
  <2>7. CASE HasKey(x, mode) /\ Key(x, mode) = key
    <3>1. Left(pool, s, x, mode) = IF h > d THEN h - d ELSE 0
      BY <2>7 DEF Left
    <3>2. Left(after, s, x, mode) = IF h + n > d THEN h + n - d ELSE 0
      <4>1. Held(after, key) = h + n
        BY <1>1
      <4> DEFINE held == Held(after, key)
      <4>2. Left(after, s, x, mode) = IF held > d THEN held - d ELSE 0
        BY <2>7 DEF Left
      <4> HIDE DEF held, d
      <4> QED
        BY <2>4, <4>1, <4>2 DEF held
    <3> HIDE DEF a, b, d, e, A, B, A2, B2, q, h
    <3>3. gain(d) = IF d <= h THEN 0 ELSE IF d <= h + n THEN d - h ELSE n
      BY DEF h
    <3>4. gain(e) = IF e <= h THEN 0 ELSE IF e <= h + n THEN e - h ELSE n
      BY DEF h
    <3> HIDE DEF gain
    <3>5. e = d + q
      BY <2>5, <2>7
    <3>6. a = IF h > d THEN IF h - d <= q THEN h - d ELSE q ELSE 0
      BY <2>4, <2>6, <3>1
    <3>7. b = IF h + n > d THEN IF h + n - d <= q THEN h + n - d ELSE q ELSE 0
      BY <2>4, <2>6, <3>2
    <3> QED
      BY <2>1, <2>2, <2>3, <2>4, <3>3, <3>4, <3>5, <3>6, <3>7
  <2>8. CASE ~(HasKey(x, mode) /\ Key(x, mode) = key)
    <3>1. Left(after, s, x, mode) = Left(pool, s, x, mode)
      <4> DEFINE k == Key(x, mode)
      <4>1. k # key => Held(after, k) = Held(pool, k)
        <5> HIDE DEF k
        <5> QED
          BY <1>1, <1>2
      <4> QED
        BY <2>8, <4>1 DEF Left
    <3> HIDE DEF a, b, d, e, A, B, A2, B2, q
    <3>2. a = b /\ e = d
      BY <2>5, <2>6, <2>8, <3>1
    <3>3. gain(d) \in Int
      BY <2>4
    <3> HIDE DEF gain
    <3> QED
      BY <2>1, <2>2, <2>3, <2>4, <3>2, <3>3
  <2> QED
    BY <2>7, <2>8
<1>5. Extending(P, T)
  BY <1>3, <1>4, Zenon DEF Extending
<1>6. OfAll(P, T)
  BY <1>5, SequenceInduction
<1> QED
  BY <1>6 DEF OfAll

-----------------------------------------------------------------------------
(* All lists together want of a key at least what each of them wants *)

LEMMA DemandAdds ==
    ASSUME NEW mode, NEW T, Rows(T), NEW key, NEW s \in Seq(T)
    PROVE  \A t \in Seq(T) : Demand(s \o t, key, mode) = Demand(s, key, mode) + Demand(t, key, mode)
<1> DEFINE P(t) == Demand(s \o t, key, mode) = Demand(s, key, mode) + Demand(t, key, mode)
<1>1. \A t \in Seq(T) : Demand(t, key, mode) \in Nat
  BY PoolHolds DEF Demand
<1>2. P(<<>>)
  <2>1. s \o <<>> = s
    OBVIOUS
  <2>2. Demand(<<>>, key, mode) = 0
    BY OwnedPoolSteps, HeldEmpty DEF Demand
  <2>3. Demand(s, key, mode) = Demand(s, key, mode) + 0
    BY <1>1
  <2> QED
    BY <2>1, <2>2, <2>3, Zenon
<1>3. ASSUME NEW t \in Seq(T), NEW x \in T, P(t) PROVE P(Append(t, x))
  <2> DEFINE u == s \o t
  <2>1. s \o Append(t, x) = Append(u, x)
    OBVIOUS
  <2>2. u \in Seq(T)
    OBVIOUS
  <2>3. Demand(u, key, mode) = Demand(s, key, mode) + Demand(t, key, mode)
    BY <1>3
  <2> HIDE DEF u
  <2>4. Demand(Append(u, x), key, mode) =
            IF HasKey(x, mode) /\ Key(x, mode) = key THEN Demand(u, key, mode) + x.qty ELSE Demand(u, key, mode)
    BY <2>2, PoolSteps DEF Demand
  <2>5. Demand(Append(t, x), key, mode) =
            IF HasKey(x, mode) /\ Key(x, mode) = key THEN Demand(t, key, mode) + x.qty ELSE Demand(t, key, mode)
    BY PoolSteps DEF Demand
  <2>6. x.qty \in Nat /\ Demand(s, key, mode) \in Nat /\ Demand(t, key, mode) \in Nat
    BY <1>1 DEF Rows
  <2>7. Demand(Append(u, x), key, mode) = Demand(s, key, mode) + Demand(Append(t, x), key, mode)
    BY <2>3, <2>4, <2>5, <2>6
  <2> QED
    BY <2>1, <2>7, Zenon
<1>4. Extending(P, T)
  BY <1>2, <1>3, Zenon DEF Extending
<1>5. OfAll(P, T)
  BY <1>4, SequenceInduction
<1> QED
  BY <1>5 DEF OfAll

LEMMA RequiredCardsOfSteps ==
    ASSUME NEW tables, NEW I
    PROVE  /\ RequiredCardsOf(tables, <<>>) = <<>>
           /\ \A ids \in Seq(I), id \in I :
                RequiredCardsOf(tables, Append(ids, id)) = RequiredCardsOf(tables, ids) \o RequiredCards(tables[id])
<1> DEFINE op(all, id) == all \o RequiredCards(tables[id])
<1>1. \A ids : RequiredCardsOf(tables, ids) = FoldLeft(op, <<>>, ids)
  BY Zenon DEF RequiredCardsOf
<1>2. Steps(op, <<>>, I)
  BY FoldSteps
<1> QED
  BY <1>1, <1>2, Zenon DEF Steps

LEMMA EachWantsLess ==
    ASSUME NEW mode, NEW T, Rows(T), NEW I, NEW tables \in [I -> Seq(T)], NEW key
    PROVE  \A ids \in Seq(I) : \A id \in ToSet(ids) :
               Demand(RequiredCards(tables[id]), key, mode) <= Demand(RequiredCardsOf(tables, ids), key, mode)
<1> DEFINE wants(id) == Demand(RequiredCards(tables[id]), key, mode)
           all(ids) == Demand(RequiredCardsOf(tables, ids), key, mode)
           P(ids) == \A id \in ToSet(ids) : wants(id) <= all(ids)
<1>1. \A id \in I : RequiredCards(tables[id]) \in Seq(T)
  BY RequiredCardsKeep
<1>2. \A ids \in Seq(I) : RequiredCardsOf(tables, ids) \in Seq(T)
  BY RequiredCardsOfKeep
<1>3. P(<<>>)
  BY DEF ToSet
<1>4. ASSUME NEW ids \in Seq(I), NEW id \in I, P(ids) PROVE P(Append(ids, id))
  <2> DEFINE s == RequiredCardsOf(tables, ids)
             t == RequiredCards(tables[id])
  <2>1. RequiredCardsOf(tables, Append(ids, id)) = s \o t
    BY RequiredCardsOfSteps
  <2>2. s \in Seq(T) /\ t \in Seq(T)
    BY <1>1, <1>2
  <2> HIDE DEF s, t
  <2>3. Demand(s \o t, key, mode) = Demand(s, key, mode) + Demand(t, key, mode)
    BY <2>2, DemandAdds
  <2>4. Demand(s, key, mode) \in Nat /\ Demand(t, key, mode) \in Nat
    BY <2>2, PoolHolds DEF Demand
  <2>5. all(Append(ids, id)) = all(ids) + wants(id) /\ all(ids) \in Nat /\ wants(id) \in Nat
    BY <2>1, <2>3, <2>4 DEF s, t
  <2>6. ToSet(Append(ids, id)) = ToSet(ids) \cup {id}
    BY ToSetAppend
  <2> SUFFICES ASSUME NEW i \in ToSet(ids) \cup {id} PROVE wants(i) <= all(Append(ids, id))
    BY <2>6, Zenon
  <2> HIDE DEF all
  <2>7. CASE i \in ToSet(ids)
    <3>1. i \in I
      BY <2>7 DEF ToSet
    <3>2. wants(i) \in Nat
      BY <1>1, <3>1, PoolHolds DEF Demand
    <3>3. wants(i) <= all(ids)
      BY <1>4, <2>7, Zenon
    <3> HIDE DEF wants
    <3> QED
      BY <2>5, <3>2, <3>3
  <2>8. CASE i = id
    <3> HIDE DEF wants
    <3> QED
      BY <2>5, <2>8
  <2> QED
    BY <2>7, <2>8
<1>5. Extending(P, I)
  BY <1>3, <1>4, Zenon DEF Extending
<1>6. OfAll(P, I)
  BY <1>5, SequenceInduction
<1> QED
  BY <1>6, Zenon DEF OfAll

-----------------------------------------------------------------------------
(* The leverage ranking *)

LEMMA FieldsOfComparison ==
    ASSUME NEW pool, NEW rows, NEW mode
    PROVE  /\ ComparePool(pool, rows, mode).total = TotalQuantity(rows)
           /\ ComparePool(pool, rows, mode).applied = CompareLines(pool, rows, mode).applied
           /\ ComparePool(pool, rows, mode).buildable = (CompareLines(pool, rows, mode).missing = <<>>)
           /\ ComparePool(pool, rows, mode).missing = CompareLines(pool, rows, mode).missing
BY DEF ComparePool

(* What is told of a candidate: the key of a missing card, as many copies  *)
(* as all lists together are short of, and what buying them does to each.  *)
ToldOf(c, key, pool, short, mode) ==
    /\ Keyed(key, mode) /\ HasKey(c, mode) /\ Key(c, mode) = key
    /\ c.quantity \in Nat
    /\ \A id \in Lists : Demand(RequiredCards(lists[id]), key, mode) <= Held(pool, key) + c.quantity
    /\ c.unlocks = Cardinality({id \in Lists : DOMAIN short[id] = {key}})
    /\ c.gain = Hundredths(SumOfFractions([id \in {i \in Lists : key \in DOMAIN short[i]} |->
                               <<short[id][key], TotalQuantity(RequiredCards(lists[id]))>>]))

ShortPerList(pool, mode) ==
    [id \in Lists |-> ShortByKey(CompareLines(pool, RequiredCards(lists[id]), mode).missing, mode)]

LEMMA CandidateIsMissing ==
    ASSUME TypeOK, NEW mode \in Modes, NEW c \in ComputeLeverage(owned, lists, Ids, mode),
           mode = "printing" => c.printing # None
    PROVE  \E key : ToldOf(c, key, OwnedPool(owned, mode), ShortPerList(OwnedPool(owned, mode), mode), mode)
<1>a. PICK pool : pool = OwnedPool(owned, mode)
  OBVIOUS
<1>b. PICK short : short = [id \in Lists |->
                                ShortByKey(CompareLines(pool, RequiredCards(lists[id]), mode).missing, mode)]
  OBVIOUS
<1> DEFINE baseline == [id \in ToSet(Ids) |-> ComparePool(pool, RequiredCards(lists[id]), mode)]
           rows == RequiredCardsOf(lists, Ids)
           pooled == ComparePool(pool, rows, mode).missing
           aggregate == ShortByKey(pooled, mode)
           shorts == [id \in ToSet(Ids) |-> ShortByKey(baseline[id].missing, mode)]
           first(key) == SelectInSeq(pooled, LAMBDA line : CandidateKey(line.card, mode) = key)
           shortOf(key) == {i \in ToSet(Ids) : key \in DOMAIN shorts[i]}
           gain(key) == SumOfFractions([id \in shortOf(key) |-> <<shorts[id][key], baseline[id].total>>])
<1>1. PICK key \in DOMAIN aggregate :
           c = Candidate(pooled[first(key)].card, aggregate[key], Unlocks(key, baseline, shorts, mode),
                         Hundredths(gain(key)))
  BY <1>a, Zenon DEF ComputeLeverage
<1>2. Rows(OwnedRows) /\ Rows(ListRows)
  BY CatalogueAssumption DEF Rows
<1>3. IsPool(pool)
  BY <1>2, <1>a, PoolHolds DEF IsPool, TypeOK
<1>4. rows \in Seq(ListRows)
  BY IdsKeep, RequiredCardsOfKeep DEF TypeOK
<1>5. ToSet(Ids) = Lists
  BY IdsKeep
<1>6. pooled = CompareLines(pool, rows, mode).missing
  BY DEF ComparePool
<1>7. pooled \in Seq(MissingLines(ListRows))
  <2> HIDE DEF rows, pooled
  <2> QED
    BY <1>2, <1>3, <1>4, <1>6, LinesAddUp
<1>8. KeysOf(aggregate, pooled, mode)
  <2> HIDE DEF pooled
  <2> QED
    BY <1>7, ShortKeysOfLines
<1>9. CandidateKey(pooled[first(key)].card, mode) = key
  <2> DEFINE Test(line) == CandidateKey(line.card, mode) = key
             f == SelectInSeq(pooled, Test)
  <2>1. IsFirst(f, pooled, Test)
    <3> HIDE DEF pooled, Test
    <3> QED
      BY <1>7, SelectsFirst
  <2>2. PICK line \in ToSet(pooled) : CandidateKey(line.card, mode) = key
    BY <1>1, <1>8 DEF KeysOf
  <2> HIDE DEF pooled
  <2>3. PICK i \in 1..Len(pooled) : pooled[i] = line
    BY <1>7, <2>2 DEF ToSet
  <2>4. Test(pooled[i])
    BY <2>2, <2>3
  <2>5. f # 0
    <3> HIDE DEF f, Test
    <3> QED
      BY <2>1, <2>3, <2>4 DEF IsFirst
  <2>6. Test(pooled[f])
    <3> HIDE DEF f, Test
    <3> QED
      BY <2>1, <2>5 DEF IsFirst
  <2>7. first(key) = f
    BY Zenon
  <2> QED
    BY <2>6, <2>7
<1> DEFINE card == pooled[first(key)].card
           unlocks == Unlocks(key, baseline, shorts, mode)
           hundredths == Hundredths(gain(key))
           quantity == aggregate[key]
<1>10. /\ c.oracle = card.oracle /\ c.name = card.name /\ c.printing = card.printing
       /\ c.quantity = quantity /\ c.unlocks = unlocks /\ c.gain = hundredths
  <2> HIDE DEF card, unlocks, hundredths, quantity
  <2>1. c = Candidate(card, quantity, unlocks, hundredths)
    BY <1>1 DEF card, unlocks, hundredths, quantity
  <2> QED
    BY <2>1 DEF Candidate
<1>11. HasKey(c, mode) /\ Key(c, mode) = key /\ Keyed(key, mode)
  <2> HIDE DEF card
  <2>1. CandidateKey(c, mode) = key
    BY <1>9, <1>10 DEF CandidateKey, OracleKey, card
  <2>2. HasKey(c, mode)
    BY DEF HasKey, Modes
  <2> QED
    BY <2>1, <2>2, CandidatesAreKeyed
<1>12. Demand(rows, key, mode) \in Nat /\ Held(pool, key) \in Nat
  BY <1>2, <1>3, <1>4, PoolHolds DEF Demand, IsPool
<1>13. quantity \in Nat /\ Demand(rows, key, mode) <= Held(pool, key) + quantity
  <2>1. Held(aggregate, key) = IF Demand(rows, key, mode) > Held(pool, key)
                               THEN Demand(rows, key, mode) - Held(pool, key) ELSE 0
    <3> HIDE DEF rows
    <3> QED
      BY <1>2, <1>3, <1>4, <1>6, <1>11, ShortIsExact
  <2>2. quantity = Held(aggregate, key)
    BY <1>1 DEF Held
  <2> HIDE DEF quantity, aggregate, rows
  <2> QED
    BY <1>12, <2>1, <2>2
<1>14. ASSUME NEW id \in Lists
       PROVE  Demand(RequiredCards(lists[id]), key, mode) <= Held(pool, key) + quantity
  <2>1. Demand(RequiredCards(lists[id]), key, mode) <= Demand(rows, key, mode)
    BY <1>2, <1>5, IdsKeep, EachWantsLess DEF TypeOK
  <2>2. Demand(RequiredCards(lists[id]), key, mode) \in Nat
    BY <1>2, RequiredCardsKeep, PoolHolds DEF TypeOK, Demand
  <2> HIDE DEF rows, quantity
  <2> QED
    BY <1>12, <1>13, <2>1, <2>2
<1>15. /\ \A id \in Lists : baseline[id].total = TotalQuantity(RequiredCards(lists[id]))
       /\ \A id \in Lists : baseline[id].missing = CompareLines(pool, RequiredCards(lists[id]), mode).missing
  BY <1>5 DEF ComparePool
<1>16. shorts = short
  <2> HIDE DEF baseline
  <2> QED
    BY <1>5, <1>15, <1>b
<1>17. unlocks = Cardinality({id \in Lists : DOMAIN short[id] = {key}})
  <2>1. DOMAIN short = Lists
    BY <1>b
  <2> HIDE DEF shorts
  <2> QED
    BY <1>16, <2>1 DEF Unlocks
<1>18. [id \in shortOf(key) |-> <<shorts[id][key], baseline[id].total>>]
           = [id \in {i \in Lists : key \in DOMAIN short[i]} |->
                  <<short[id][key], TotalQuantity(RequiredCards(lists[id]))>>]
  <2>1. shortOf(key) = {i \in Lists : key \in DOMAIN short[i]}
    BY <1>5, <1>16
  <2> HIDE DEF shorts, baseline, shortOf
  <2> QED
    BY <1>15, <1>16, <2>1
<1>19. hundredths = Hundredths(SumOfFractions([id \in {i \in Lists : key \in DOMAIN short[i]} |->
                                                   <<short[id][key], TotalQuantity(RequiredCards(lists[id]))>>]))
  BY <1>18, Zenon
<1>20. ToldOf(c, key, pool, short, mode)
  <2> HIDE DEF unlocks, hundredths, quantity
  <2> QED
    BY <1>10, <1>11, <1>13, <1>14, <1>17, <1>19, Zenon DEF ToldOf
<1>21. short = ShortPerList(pool, mode)
  BY <1>b, Zenon DEF ShortPerList
<1> QED
  BY <1>20, <1>21, <1>a, Zenon

(* In every state of the tables, in both modes, whoever buys what a        *)
(* candidate of the leverage ranking says completes as many lists as it    *)
(* says and gains the coverage it says.                                    *)
THEOREM PurchasesDeliver == Spec => []PurchaseDelivers
<1>1. TypeOK => PurchaseDelivers
  <2> SUFFICES ASSUME TypeOK, NEW mode \in Modes, NEW c \in ComputeLeverage(owned, lists, Ids, mode),
                      mode = "printing" => c.printing # None
               PROVE  Delivers(c, mode)
    BY DEF PurchaseDelivers
  <2> DEFINE pool == OwnedPool(owned, mode)
             rows(id) == RequiredCards(lists[id])
             short == [id \in Lists |-> ShortByKey(CompareLines(pool, rows(id), mode).missing, mode)]
             bought == [name |-> c.name, oracle |-> c.oracle, printing |-> c.printing, qty |-> c.quantity]
             before == [id \in Lists |-> RunListComparison(owned, lists, id, mode)]
             after == [id \in Lists |-> RunListComparison(Append(owned, bought), lists, id, mode)]
             gains == {id \in Lists : after[id].applied > before[id].applied}
             completed == {id \in Lists : after[id].buildable /\ ~before[id].buildable}
  <2>a. PICK key : ToldOf(c, key, OwnedPool(owned, mode), ShortPerList(OwnedPool(owned, mode), mode), mode)
    BY CandidateIsMissing
  <2>b. short = ShortPerList(pool, mode)
    BY DEF ShortPerList
  <2>c. ToldOf(c, key, pool, short, mode)
    <3> HIDE DEF short
    <3> QED
      BY <2>a, <2>b, Zenon
  <2>1. /\ Keyed(key, mode) /\ HasKey(c, mode) /\ Key(c, mode) = key
        /\ c.quantity \in Nat
        /\ \A id \in Lists : Demand(rows(id), key, mode) <= Held(pool, key) + c.quantity
        /\ c.unlocks = Cardinality({id \in Lists : DOMAIN short[id] = {key}})
        /\ c.gain = Hundredths(SumOfFractions([id \in {i \in Lists : key \in DOMAIN short[i]} |->
                                   <<short[id][key], TotalQuantity(rows(id))>>]))
    <3> HIDE DEF short, pool
    <3> QED
      BY <2>c, Zenon DEF ToldOf
  <2> DEFINE n == c.quantity
             more == pool (+) Copies(key, n)
  <2>2. Rows(OwnedRows) /\ Rows(ListRows)
    BY CatalogueAssumption DEF Rows
  <2>3. IsPool(pool)
    BY <2>2, PoolHolds DEF IsPool, TypeOK
  <2>4. OwnedPool(Append(owned, bought), mode) = more
    <3>1. HasKey(bought, mode) /\ Key(bought, mode) = key /\ bought.qty = n
      BY <2>1 DEF HasKey, Key, OracleKey
    <3> HIDE DEF bought
    <3>2. owned \in Seq(OwnedRows \cup {bought}) /\ bought \in OwnedRows \cup {bought}
      BY DEF TypeOK
    <3>3. OwnedPool(Append(owned, bought), mode) =
              IF HasKey(bought, mode) THEN OwnedPool(owned, mode) (+) Copies(Key(bought, mode), bought.qty)
              ELSE OwnedPool(owned, mode)
      BY <3>2, OwnedPoolSteps
    <3> QED
      BY <3>1, <3>3
  <2>5. \A id \in Lists : rows(id) \in Seq(ListRows)
    BY RequiredCardsKeep DEF TypeOK
  <2>6. \A id \in Lists : before[id] = ComparePool(pool, rows(id), mode)
    BY DEF RunListComparison, Compare
  <2>7. \A id \in Lists : after[id] = ComparePool(more, rows(id), mode)
    <3> HIDE DEF bought, more
    <3> QED
      BY <2>4 DEF RunListComparison, Compare
  <2> HIDE DEF before, after, pool, more, rows
  <2>8. ASSUME NEW id \in Lists
        PROVE  /\ id \in completed <=> DOMAIN short[id] = {key}
               /\ id \in gains <=> key \in DOMAIN short[id]
               /\ id \in gains => after[id].applied - before[id].applied = short[id][key]
               /\ after[id].total = TotalQuantity(rows(id))
    <3> DEFINE s == rows(id)
               d == Demand(s, key, mode)
               h == Held(pool, key)
               A == CompareLines(pool, s, mode).applied
               B == CompareLines(more, s, mode).applied
               bag == ShortByKey(CompareLines(pool, s, mode).missing, mode)
    <3>1. s \in Seq(ListRows) /\ Keyed(key, mode) /\ n \in Nat /\ d <= h + n
      BY <2>1, <2>5
    <3>2. /\ IsPool(more)
          /\ DOMAIN bag = {key} <=> Enough(more, s, mode) /\ ~Enough(pool, s, mode)
      <4> HIDE DEF s
      <4> QED
        BY <2>2, <2>3, <3>1, PurchaseCompletes DEF more
    <3>3. /\ before[id].applied = A /\ after[id].applied = B
          /\ before[id].buildable = (CompareLines(pool, s, mode).missing = <<>>)
          /\ after[id].buildable = (CompareLines(more, s, mode).missing = <<>>)
          /\ after[id].total = TotalQuantity(s)
      <4>1. before[id] = ComparePool(pool, s, mode) /\ after[id] = ComparePool(more, s, mode)
        BY <2>6, <2>7
      <4> HIDE DEF s
      <4> QED
        BY <4>1, FieldsOfComparison
    <3>4. id \in completed <=> Enough(more, s, mode) /\ ~Enough(pool, s, mode)
      <4>1. CompareLines(pool, s, mode).missing = <<>> <=> Enough(pool, s, mode)
        BY <2>2, <2>3, <3>1, NothingMissing
      <4>2. CompareLines(more, s, mode).missing = <<>> <=> Enough(more, s, mode)
        BY <2>2, <3>1, <3>2, NothingMissing
      <4> QED
        BY <3>3, <4>1, <4>2
    <3>5. B = A + (IF d <= h THEN 0 ELSE IF d <= h + n THEN d - h ELSE n)
      <4> HIDE DEF s
      <4> QED
        BY <2>2, <2>3, <3>1, <3>2, PurchaseGains DEF more
    <3>6. A \in Nat /\ B \in Nat
      BY <2>2, <2>3, <3>1, <3>2, LinesAddUp
    <3>7. d \in Nat /\ h \in Nat
      BY <2>2, <2>3, <3>1, PoolHolds DEF Demand, IsPool
    <3>8. Held(bag, key) = IF d > h THEN d - h ELSE 0
      BY <2>2, <2>3, <3>1, ShortIsExact
    <3>9. key \in DOMAIN bag <=> Held(bag, key) > 0
      <4>1. CompareLines(pool, s, mode).missing \in Seq(MissingLines(ListRows))
        BY <2>2, <2>3, <3>1, LinesAddUp
      <4>2. KeysOf(bag, CompareLines(pool, s, mode).missing, mode)
        BY <4>1, ShortKeysOfLines
      <4> QED
        BY <4>2 DEF KeysOf
    <3>10. key \in DOMAIN bag => Held(bag, key) = bag[key]
      BY DEF Held
    <3>11. short[id] = bag
      OBVIOUS
    <3>12. id \in gains <=> B > A
      BY <3>3
    <3> HIDE DEF A, B, d, h, bag, short, gains, completed, n, s
    <3>13. B > A <=> d > h
      BY <3>1, <3>5, <3>6, <3>7
    <3>14. d > h => B - A = d - h
      BY <3>1, <3>5, <3>6, <3>7
    <3>15. key \in DOMAIN bag <=> d > h
      BY <3>7, <3>8, <3>9
    <3>16. d > h => bag[key] = d - h
      BY <3>8, <3>10, <3>15
    <3> QED
      BY <3>2, <3>3, <3>4, <3>11, <3>12, <3>13, <3>14, <3>15, <3>16 DEF s
  <2> HIDE DEF short
  <2>9. completed = {id \in Lists : DOMAIN short[id] = {key}}
    BY <2>8
  <2>10. gains = {id \in Lists : key \in DOMAIN short[id]}
    BY <2>8
  <2> DEFINE told == [id \in gains |-> <<after[id].applied - before[id].applied, after[id].total>>]
             short2 == [id \in {i \in Lists : key \in DOMAIN short[i]} |-> <<short[id][key], TotalQuantity(rows(id))>>]
  <2>11. told = short2
    <3>1. \A id \in gains : <<after[id].applied - before[id].applied, after[id].total>>
                                = <<short[id][key], TotalQuantity(rows(id))>>
      BY <2>8
    <3> HIDE DEF gains
    <3> QED
      BY <2>10, <3>1
  <2>12. c.unlocks = Cardinality(completed) /\ c.gain = Hundredths(SumOfFractions(told))
    <3>1. c.gain = Hundredths(SumOfFractions(short2))
      BY <2>1, Zenon
    <3> HIDE DEF told, short2, completed
    <3> QED
      BY <2>1, <2>9, <2>11, <3>1
  <2> QED
    BY <2>12 DEF Delivers, before, after
<1> QED
  BY <1>1, TypeCorrect, PTL


-----------------------------------------------------------------------------
(* Finite sets, one element after the other *)

\* P holds of the empty set, and of a set if of the set without any one element
Growing(P(_), S) == P({}) /\ \A T \in SUBSET S : T # {} /\ (\A x \in T : P(T \ {x})) => P(T)

OfSubsets(P(_), S) == \A T \in SUBSET S : P(T)

(* What holds of the empty set and of a larger set when of the smaller     *)
(* ones holds of all subsets of a finite set.                              *)
LEMMA SubsetInduction ==
    ASSUME NEW P(_), NEW S, IsFiniteSet(S), Growing(P, S)
    PROVE  OfSubsets(P, S)
<1> DEFINE Q(n) == \A T \in SUBSET S : Cardinality(T) = n => P(T)
<1>1. \A T \in SUBSET S : IsFiniteSet(T) /\ Cardinality(T) \in Nat
  BY FS_Subset, FS_CardinalityType
<1>2. Inductive(Q)
  <2>1. Q(0)
    <3>1. \A T \in SUBSET S : Cardinality(T) = 0 => T = {}
      BY <1>1, FS_EmptySet
    <3> QED
      BY <3>1, Zenon DEF Growing
  <2>2. ASSUME NEW n \in Nat, Q(n) PROVE Q(n + 1)
    <3> SUFFICES ASSUME NEW T \in SUBSET S, Cardinality(T) = n + 1 PROVE P(T)
      OBVIOUS
    <3>1. T # {}
      BY <2>2, FS_EmptySet
    <3>2. ASSUME NEW x \in T PROVE P(T \ {x})
      <4>1. Cardinality(T \ {x}) = Cardinality(T) - 1
        BY <1>1, FS_RemoveElement
      <4>2. T \ {x} \in SUBSET S /\ Cardinality(T \ {x}) = n
        BY <2>2, <4>1
      <4> QED
        BY <2>2, <4>2
    <3> QED
      BY <3>1, <3>2, Zenon DEF Growing
  <2> QED
    BY <2>1, <2>2, Zenon DEF Inductive
<1>3. Everywhere(Q)
  BY <1>2, Induction
<1>4. ASSUME NEW T \in SUBSET S PROVE P(T)
  BY <1>1, <1>3, Zenon DEF Everywhere
<1> QED
  BY <1>4, Zenon DEF OfSubsets

\* A fold over a finite set takes the elements one by one, in some order
UnfoldsSet(op(_,_), base, f(_), folded, S) ==
    \E iter : /\ folded = iter[S]
              /\ iter[{}] = base
              /\ \A T \in SUBSET S : T # {} => \E x \in T : iter[T] = op(f(x), iter[T \ {x}])

LEMMA FoldSetDef ==
    ASSUME NEW op(_,_), NEW base, NEW f(_), NEW S, IsFiniteSet(S)
    PROVE  UnfoldsSet(op, base, f, MapThenFoldSet(op, base, f, LAMBDA T : CHOOSE x \in T : TRUE, S), S)
<1> DEFINE choose(T) == CHOOSE x \in T : TRUE
           Def(iter, t) == IF t = {} THEN base ELSE op(f(choose(t)), iter[t \ {choose(t)}])
           D == SUBSET S
           R == StrictSubsetOrdering(S)
           g == CHOOSE h : h = [t \in D |-> Def(h, t)]
<1>1. MapThenFoldSet(op, base, f, LAMBDA T : CHOOSE x \in T : TRUE, S) = g[S]
  BY Zenon DEF MapThenFoldSet
<1>2. OpDefinesFcn(g, D, Def)
  BY Zenon DEF OpDefinesFcn
<1>3. IsWellFoundedOn(R, D)
  <2>1. FiniteSubsetsOf(S) = D
    BY FS_Subset DEF FiniteSubsetsOf
  <2> QED
    BY <2>1, FS_StrictSubsetOrderingWellFounded
<1>4. \A t \in D : t # {} => choose(t) \in t
  OBVIOUS
<1>5. WFDefOn(R, D, Def)
  <2> SUFFICES ASSUME NEW h, NEW i, NEW t \in D, \A y \in SetLessThan(t, R, D) : h[y] = i[y]
               PROVE  Def(h, t) = Def(i, t)
    BY DEF WFDefOn
  <2>1. t # {} => t \ {choose(t)} \in SetLessThan(t, R, D)
    <3> HIDE DEF choose
    <3> QED
      BY <1>4 DEF SetLessThan, StrictSubsetOrdering
  <2> HIDE DEF choose
  <2> QED
    BY <2>1
<1>6. WFInductiveDefines(g, D, Def)
  <2> HIDE DEF g, D, R, Def, choose
  <2> QED
    BY <1>2, <1>3, <1>5, WFInductiveDef, ZenonT(60)
<1>7. \A t \in D : g[t] = Def(g, t)
  BY <1>6 DEF WFInductiveDefines
<1> HIDE DEF g, choose
<1>8. g[{}] = base
  BY <1>7
<1>9. \A T \in D : T # {} => \E x \in T : g[T] = op(f(x), g[T \ {x}])
  BY <1>4, <1>7
<1> QED
  BY <1>1, <1>8, <1>9, Zenon DEF UnfoldsSet

-----------------------------------------------------------------------------
(* Sums over a finite set *)

\* iter is the sum of f over each subset of S, taken in some order
Sums(iter, f, S) ==
    /\ iter[{}] = 0
    /\ \A T \in SUBSET S : T # {} => \E x \in T : iter[T] = f[x] + iter[T \ {x}]

LEMMA SumDef ==
    ASSUME NEW f, IsFiniteSet(DOMAIN f)
    PROVE  \E iter : SumFunction(f) = iter[DOMAIN f] /\ Sums(iter, f, DOMAIN f)
<1> DEFINE plus(x, y) == x + y
           at(i) == f[i]
<1>1. SumFunction(f) = MapThenFoldSet(plus, 0, at, LAMBDA T : CHOOSE x \in T : TRUE, DOMAIN f)
  BY Zenon DEF SumFunction, SumFunctionOnSet, FoldFunctionOnSet
<1>2. UnfoldsSet(plus, 0, at, SumFunction(f), DOMAIN f)
  BY <1>1, FoldSetDef
<1> QED
  BY <1>2, Zenon DEF UnfoldsSet, Sums

\* Any element of a subset can be the first that is taken
AnyFirst(iter, f, S) ==
    \A T \in SUBSET S : iter[T] \in Int /\ \A x \in T : iter[T] = f[x] + iter[T \ {x}]

(* The order does not matter *)
LEMMA SumAnyOrder ==
    ASSUME NEW S, IsFiniteSet(S), NEW f, \A x \in S : f[x] \in Int, NEW iter, Sums(iter, f, S)
    PROVE  AnyFirst(iter, f, S)
<1> DEFINE P(T) == iter[T] \in Int /\ \A x \in T : iter[T] = f[x] + iter[T \ {x}] /\ iter[T \ {x}] \in Int
<1>1. P({})
  BY DEF Sums
<1>2. ASSUME NEW T \in SUBSET S, T # {}, \A x \in T : P(T \ {x}) PROVE P(T)
  <2>1. PICK y \in T : iter[T] = f[y] + iter[T \ {y}]
    BY <1>2 DEF Sums
  <2>2. f[y] \in Int /\ iter[T \ {y}] \in Int
    BY <1>2
  <2>3. ASSUME NEW x \in T PROVE iter[T] = f[x] + iter[T \ {x}]
    <3>1. CASE x = y
      BY <2>1, <3>1
    <3>2. CASE x # y
      <4>1. x \in T \ {y} /\ y \in T \ {x} /\ (T \ {y}) \ {x} = (T \ {x}) \ {y}
        BY <3>2
      <4> DEFINE rest == (T \ {x}) \ {y}
      <4>2. iter[T \ {y}] = f[x] + iter[rest]
        BY <1>2, <4>1
      <4>3. iter[T \ {x}] = f[y] + iter[rest]
        BY <1>2, <4>1
      <4>4. iter[rest] \in Int /\ f[x] \in Int
        <5>1. P(T \ {x})
          BY <1>2
        <5> QED
          BY <4>1, <5>1
      <4> HIDE DEF rest
      <4> QED
        BY <2>1, <2>2, <4>2, <4>3, <4>4
    <3> QED
      BY <3>1, <3>2
  <2>4. iter[T] \in Int
    <3> DEFINE a == f[y]
               b == iter[T \ {y}]
    <3> HIDE DEF a, b
    <3> QED
      BY <2>1, <2>2 DEF a, b
  <2>5. \A x \in T : iter[T \ {x}] \in Int
    BY <1>2
  <2> QED
    BY <2>3, <2>4, <2>5
<1>3. Growing(P, S)
  BY <1>1, <1>2, Zenon DEF Growing
<1>4. OfSubsets(P, S)
  BY <1>3, SubsetInduction
<1> QED
  BY <1>4, Zenon DEF OfSubsets, AnyFirst

LEMMA SumEmpty == \A f : DOMAIN f = {} => SumFunction(f) = 0
<1> SUFFICES ASSUME NEW f, DOMAIN f = {} PROVE SumFunction(f) = 0
  OBVIOUS
<1>1. IsFiniteSet(DOMAIN f)
  BY FS_EmptySet
<1>2. PICK iter : SumFunction(f) = iter[DOMAIN f] /\ Sums(iter, f, DOMAIN f)
  BY <1>1, SumDef
<1> QED
  BY <1>2 DEF Sums

(* A sum is any one term and the sum of the others.                        *)
LEMMA SumSplit ==
    ASSUME NEW D, IsFiniteSet(D), NEW f \in [D -> Int], NEW x \in D
    PROVE  /\ SumFunction(f) = f[x] + SumFunction([y \in D \ {x} |-> f[y]])
           /\ SumFunction([y \in D \ {x} |-> f[y]]) \in Int
<1> DEFINE g == [y \in D \ {x} |-> f[y]]
<1>1. DOMAIN f = D /\ DOMAIN g = D \ {x} /\ IsFiniteSet(D \ {x}) /\ \A y \in D \ {x} : g[y] = f[y]
  BY FS_RemoveElement
<1>2. \A y \in D : f[y] \in Int
  OBVIOUS
<1> HIDE DEF g
<1>3. PICK iter : SumFunction(f) = iter[D] /\ Sums(iter, f, D)
  BY <1>1, SumDef
<1>4. PICK jter : SumFunction(g) = jter[D \ {x}] /\ Sums(jter, g, D \ {x})
  <2>1. \E jter : SumFunction(g) = jter[DOMAIN g] /\ Sums(jter, g, DOMAIN g)
    BY <1>1, SumDef
  <2> QED
    BY <1>1, <2>1
<1>5. \A T \in SUBSET D : iter[T] \in Int /\ \A y \in T : iter[T] = f[y] + iter[T \ {y}]
  <2>1. AnyFirst(iter, f, D)
    BY <1>2, <1>3, SumAnyOrder
  <2> QED
    BY <2>1, Zenon DEF AnyFirst
<1> DEFINE P(T) == iter[T] = jter[T]
<1>6. P({})
  BY <1>3, <1>4 DEF Sums
<1>7. ASSUME NEW T \in SUBSET (D \ {x}), T # {}, \A y \in T : P(T \ {y}) PROVE P(T)
  <2>1. PICK y \in T : jter[T] = g[y] + jter[T \ {y}]
    BY <1>4, <1>7 DEF Sums
  <2>2. iter[T] = f[y] + iter[T \ {y}]
    BY <1>5
  <2>3. g[y] = f[y] /\ iter[T \ {y}] = jter[T \ {y}]
    BY <1>1, <1>7
  <2> QED
    BY <2>1, <2>2, <2>3
<1>8. Growing(P, D \ {x})
  BY <1>6, <1>7, Zenon DEF Growing
<1>9. OfSubsets(P, D \ {x})
  BY <1>1, <1>8, SubsetInduction
<1>10. iter[D \ {x}] = jter[D \ {x}]
  BY <1>9, Zenon DEF OfSubsets
<1>11. SumFunction(f) = f[x] + SumFunction(g) /\ SumFunction(g) \in Int
  BY <1>3, <1>4, <1>5, <1>10
<1> QED
  BY <1>11 DEF g

LEMMA SumTyped ==
    ASSUME NEW D, IsFiniteSet(D), NEW f \in [D -> Int]
    PROVE  SumFunction(f) \in Int
<1>1. CASE D = {}
  BY <1>1, SumEmpty
<1>2. CASE D # {}
  <2>1. PICK x \in D : TRUE
    BY <1>2
  <2> DEFINE a == SumFunction([y \in D \ {x} |-> f[y]])
  <2>2. SumFunction(f) = f[x] + a /\ a \in Int
    BY SumSplit
  <2>3. f[x] \in Int
    OBVIOUS
  <2> HIDE DEF a
  <2> QED
    BY <2>2, <2>3
<1> QED
  BY <1>1, <1>2

\* g is f with another or a new value at k
ChangesAt(D, f, k, g) ==
    /\ IsFiniteSet(D) /\ f \in [D -> Int] /\ g \in [D \cup {k} -> Int]
    /\ \A y \in D \ {k} : g[y] = f[y]

(* A sum of which one term changes, or is new.                             *)
LEMMA SumChange ==
    ASSUME NEW D, NEW f, NEW k, NEW g, ChangesAt(D, f, k, g)
    PROVE  SumFunction(g) = SumFunction(f) + g[k] - (IF k \in D THEN f[k] ELSE 0)
<1> USE DEF ChangesAt
<1> DEFINE rest == SumFunction([y \in D \ {k} |-> f[y]])
<1>1. IsFiniteSet(D \cup {k})
  BY FS_AddElement
<1>2. [y \in (D \cup {k}) \ {k} |-> g[y]] = [y \in D \ {k} |-> f[y]]
  OBVIOUS
<1>3. SumFunction(g) = g[k] + rest /\ rest \in Int
  <2>1. k \in D \cup {k}
    OBVIOUS
  <2>2. SumFunction(g) = g[k] + SumFunction([y \in (D \cup {k}) \ {k} |-> g[y]])
        /\ SumFunction([y \in (D \cup {k}) \ {k} |-> g[y]]) \in Int
    BY <1>1, <2>1, SumSplit
  <2> QED
    BY <1>2, <2>2
<1>4. g[k] \in Int
  OBVIOUS
<1>5. CASE k \in D
  <2>1. SumFunction(f) = f[k] + rest
    BY <1>5, SumSplit
  <2>2. f[k] \in Int
    BY <1>5
  <2> HIDE DEF rest
  <2> QED
    BY <1>3, <1>4, <1>5, <2>1, <2>2
<1>6. CASE k \notin D
  <2>1. f = [y \in D \ {k} |-> f[y]]
    BY <1>6
  <2>2. SumFunction(f) = rest
    BY <2>1, Zenon
  <2> HIDE DEF rest
  <2> QED
    BY <1>3, <1>4, <1>6, <2>2
<1> QED
  BY <1>5, <1>6

-----------------------------------------------------------------------------
(* The aggregates of one list *)

\* A bag of the keys of some rows
IsBagOf(B, s) ==
    /\ B = [k \in DOMAIN B |-> B[k]] /\ IsFiniteSet(DOMAIN B)
    /\ \A k \in DOMAIN B : B[k] \in Nat \ {0}
    /\ DOMAIN B = {OracleKey(row) : row \in ToSet(s)}

LEMMA PoolIsBag ==
    ASSUME NEW T, Rows(T)
    PROVE  \A s \in Seq(T) : IsBagOf(OwnedPool(s, "oracle"), s)
<1> DEFINE P(s) == IsBagOf(OwnedPool(s, "oracle"), s)
<1>1. P(<<>>)
  <2>1. OwnedPool(<<>>, "oracle") = EmptyBag
    BY OwnedPoolSteps
  <2>2. EmptyBag = [k \in {} |-> EmptyBag[k]] /\ DOMAIN EmptyBag = {}
    BY DEF EmptyBag, SetToBag
  <2>3. ToSet(<<>>) = {}
    BY DEF ToSet
  <2> QED
    BY <2>1, <2>2, <2>3, FS_EmptySet DEF IsBagOf
<1>2. ASSUME NEW s \in Seq(T), NEW x \in T, P(s) PROVE P(Append(s, x))
  <2> DEFINE B == OwnedPool(s, "oracle")
             key == OracleKey(x)
             one == Copies(key, x.qty)
             C == B (+) one
  <2>1. OwnedPool(Append(s, x), "oracle") = C
    <3>1. HasKey(x, "oracle") /\ Key(x, "oracle") = key
      BY DEF HasKey, Key
    <3>2. OwnedPool(Append(s, x), "oracle") =
              IF HasKey(x, "oracle") THEN OwnedPool(s, "oracle") (+) Copies(Key(x, "oracle"), x.qty)
              ELSE OwnedPool(s, "oracle")
      BY OwnedPoolSteps
    <3> QED
      BY <3>1, <3>2
  <2>2. IsBagOf(B, s)
    BY <1>2
  <2>3. DOMAIN one = {key} /\ one[key] = x.qty /\ x.qty \in Nat \ {0}
    BY DEF Copies, Rows
  <2>4. ToSet(Append(s, x)) = ToSet(s) \cup {x}
    BY ToSetAppend
  <2> HIDE DEF B, one
  <2>5. DOMAIN C = DOMAIN B \cup {key} /\ C = [k \in DOMAIN C |-> C[k]]
    BY <2>3 DEF (+)
  <2>6. \A k \in DOMAIN C : C[k] = (IF k \in DOMAIN B THEN B[k] ELSE 0) + (IF k = key THEN x.qty ELSE 0)
    BY <2>3, <2>5 DEF (+)
  <2>7. ASSUME NEW k \in DOMAIN C PROVE C[k] \in Nat \ {0}
    <3>1. k \in DOMAIN B => B[k] \in Nat \ {0}
      BY <2>2 DEF IsBagOf
    <3>2. k \in DOMAIN B \/ k = key
      BY <2>5
    <3>3. C[k] = (IF k \in DOMAIN B THEN B[k] ELSE 0) + (IF k = key THEN x.qty ELSE 0)
      BY <2>6
    <3> HIDE DEF C, key
    <3> QED
      BY <2>3, <3>1, <3>2, <3>3
  <2>8. IsFiniteSet(DOMAIN C)
    <3>1. IsFiniteSet(DOMAIN B)
      BY <2>2 DEF IsBagOf
    <3> QED
      BY <2>5, <3>1, FS_AddElement
  <2>9. DOMAIN C = {OracleKey(row) : row \in ToSet(Append(s, x))}
    <3>1. DOMAIN B = {OracleKey(row) : row \in ToSet(s)}
      BY <2>2 DEF IsBagOf
    <3> HIDE DEF C
    <3> QED
      BY <2>4, <2>5, <3>1
  <2>10. IsBagOf(C, Append(s, x))
    <3> HIDE DEF C
    <3> QED
      BY <2>5, <2>7, <2>8, <2>9 DEF IsBagOf
  <2> QED
    BY <2>1, <2>10
<1>3. Extending(P, T)
  BY <1>1, <1>2, Zenon DEF Extending
<1>4. OfAll(P, T)
  BY <1>3, SequenceInduction
<1> QED
  BY <1>4 DEF OfAll


-----------------------------------------------------------------------------
(* The required cards of a list, grouped by key, are its pool              *)

LEMMA RequiredIsPool ==
    ASSUME NEW T
    PROVE  \A s \in Seq(T) : RequiredByKey(s) = OwnedPool(RequiredCards(s), "oracle")
<1> DEFINE op(bag, row) == bag (+) Copies(OracleKey(row), row.qty)
           P(s) == FoldLeft(op, EmptyBag, s) = OwnedPool(s, "oracle")
<1>1. Steps(op, EmptyBag, T)
  BY FoldSteps
<1>2. P(<<>>)
  <2>1. FoldLeft(op, EmptyBag, <<>>) = EmptyBag
    BY <1>1, Zenon DEF Steps
  <2> QED
    BY <2>1, OwnedPoolSteps
<1>3. ASSUME NEW s \in Seq(T), NEW x \in T, P(s) PROVE P(Append(s, x))
  <2>1. FoldLeft(op, EmptyBag, Append(s, x)) = FoldLeft(op, EmptyBag, s) (+) Copies(OracleKey(x), x.qty)
    BY <1>1, Zenon DEF Steps
  <2>2. HasKey(x, "oracle") /\ Key(x, "oracle") = OracleKey(x)
    BY DEF HasKey, Key
  <2>3. OwnedPool(Append(s, x), "oracle") =
            IF HasKey(x, "oracle") THEN OwnedPool(s, "oracle") (+) Copies(Key(x, "oracle"), x.qty)
            ELSE OwnedPool(s, "oracle")
    BY OwnedPoolSteps
  <2> QED
    BY <1>3, <2>1, <2>2, <2>3, Zenon
<1>4. Extending(P, T)
  BY <1>2, <1>3, Zenon DEF Extending
<1>5. OfAll(P, T)
  BY <1>4, SequenceInduction
<1>6. \A s : RequiredByKey(s) = FoldLeft(op, EmptyBag, RequiredCards(s))
  BY Zenon DEF RequiredByKey
<1>7. \A s \in Seq(T) : RequiredCards(s) \in Seq(T)
  BY RequiredCardsKeep
<1> QED
  BY <1>5, <1>6, <1>7, Zenon DEF OfAll

\* What of a bag of required keys a pool has
TakenByKey(pool, B) == [key \in DOMAIN B |-> Min({B[key], Held(pool, key)})]

(* The quantities of the keys add up to those of the rows, and what the    *)
(* pool has of each key to what the lines are given.                       *)
LEMMA KeysAddUp ==
    ASSUME NEW T, Rows(T), NEW pool, IsPool(pool)
    PROVE  \A s \in Seq(T) :
               /\ SumFunction(OwnedPool(s, "oracle")) = TotalQuantity(s)
               /\ SumFunction(TakenByKey(pool, OwnedPool(s, "oracle"))) = CompareLines(pool, s, "oracle").applied
<1> DEFINE P(s) == /\ SumFunction(OwnedPool(s, "oracle")) = TotalQuantity(s)
                   /\ SumFunction(TakenByKey(pool, OwnedPool(s, "oracle"))) = CompareLines(pool, s, "oracle").applied
<1>1. P(<<>>)
  <2>1. OwnedPool(<<>>, "oracle") = EmptyBag
    BY OwnedPoolSteps
  <2>2. DOMAIN EmptyBag = {} /\ DOMAIN TakenByKey(pool, EmptyBag) = {}
    BY DEF EmptyBag, SetToBag, TakenByKey
  <2>3. SumFunction(EmptyBag) = 0 /\ SumFunction(TakenByKey(pool, EmptyBag)) = 0
    BY <2>2, SumEmpty
  <2>4. TotalQuantity(<<>>) = 0
    BY TotalQuantitySteps
  <2>5. CompareLines(pool, <<>>, "oracle").applied = 0
    BY CompareLinesSteps DEF NothingYet
  <2> QED
    BY <2>1, <2>3, <2>4, <2>5, Zenon
<1>2. ASSUME NEW s \in Seq(T), NEW x \in T, P(s) PROVE P(Append(s, x))
  <2> DEFINE B == OwnedPool(s, "oracle")
             C == OwnedPool(Append(s, x), "oracle")
             key == OracleKey(x)
             d == Demand(s, key, "oracle")
             h == Held(pool, key)
             q == x.qty
             a == Applied(pool, s, x, "oracle")
             f == TakenByKey(pool, B)
             g == TakenByKey(pool, C)
  <2>1. IsBagOf(B, s) /\ IsBagOf(C, Append(s, x))
    <3>1. Append(s, x) \in Seq(T)
      OBVIOUS
    <3> QED
      BY <3>1, PoolIsBag
  <2>2. HasKey(x, "oracle") /\ Key(x, "oracle") = key
    BY DEF HasKey, Key
  <2>3. \A k : Held(C, k) = IF k = key THEN Held(B, k) + q ELSE Held(B, k)
    <3>1. \A k : Held(C, k) = IF HasKey(x, "oracle") /\ Key(x, "oracle") = k THEN Held(B, k) + q ELSE Held(B, k)
      BY PoolSteps
    <3> HIDE DEF B, C, key, q
    <3> QED
      BY <2>2, <3>1
  <2>4. d \in Nat /\ h \in Nat /\ q \in Nat \ {0} /\ d = Held(B, key)
    BY PoolHolds DEF IsPool, Demand, Rows
  <2>5. ToSet(Append(s, x)) = ToSet(s) \cup {x}
    BY ToSetAppend
  <2>6. \A k : Held(pool, k) \in Nat
    BY DEF IsPool
  <2>7. TakesCopies(CompareLines(pool, s, "oracle"), CompareLines(pool, Append(s, x), "oracle"), x, a, "oracle")
    BY TakesInOrder, LineTakes
  <2>8. Left(pool, s, x, "oracle") = IF h > d THEN h - d ELSE 0
    BY <2>2 DEF Left
  <2>9. a = IF Left(pool, s, x, "oracle") <= q THEN Left(pool, s, x, "oracle") ELSE q
    BY DEF Applied
  <2>10. TotalQuantity(Append(s, x)) = TotalQuantity(s) + q
    BY TotalQuantitySteps, Zenon
  <2>11. TotalQuantity(s) \in Nat /\ CompareLines(pool, s, "oracle").applied \in Nat
    BY TotalTyped, LinesAddUp
  <2>12. CompareLines(pool, Append(s, x), "oracle").applied = CompareLines(pool, s, "oracle").applied + a
    <3> HIDE DEF a
    <3> QED
      BY <2>7 DEF TakesCopies
  <2>13. SumFunction(B) = TotalQuantity(s) /\ SumFunction(f) = CompareLines(pool, s, "oracle").applied
    BY <1>2
  <2> HIDE DEF B, C, h, d, q, a
  <2>14. DOMAIN C = DOMAIN B \cup {key} /\ IsFiniteSet(DOMAIN B)
    BY <2>1, <2>5 DEF IsBagOf
  <2>15. B \in [DOMAIN B -> Int] /\ C \in [DOMAIN C -> Int]
    BY <2>1 DEF IsBagOf
  <2>16. \A k \in DOMAIN B : B[k] = Held(B, k)
    BY DEF Held
  <2>17. \A k \in DOMAIN C : C[k] = Held(C, k)
    BY DEF Held
  <2>18. SumFunction(C) = SumFunction(B) + q
    <3>1. \A k \in DOMAIN B \ {key} : C[k] = B[k]
      BY <2>3, <2>14, <2>16, <2>17
    <3>2. SumFunction(C) = SumFunction(B) + C[key] - (IF key \in DOMAIN B THEN B[key] ELSE 0)
      <4>1. C \in [DOMAIN B \cup {key} -> Int]
        BY <2>14, <2>15
      <4>2. ChangesAt(DOMAIN B, B, key, C)
        BY <2>14, <2>15, <3>1, <4>1 DEF ChangesAt
      <4> HIDE DEF key
      <4> QED
        BY <4>2, SumChange
    <3>3. C[key] = d + q
      BY <2>3, <2>4, <2>14, <2>17
    <3>4. (IF key \in DOMAIN B THEN B[key] ELSE 0) = d
      BY <2>4 DEF Held
    <3> HIDE DEF key
    <3> QED
      BY <2>4, <2>11, <2>13, <3>2, <3>3, <3>4
  <2>19. SumFunction(g) = SumFunction(f) + a
    <3>1. \A D : IsBagOf(D, s) \/ IsBagOf(D, Append(s, x)) =>
              \A k \in DOMAIN D : TakenByKey(pool, D)[k] = IF D[k] <= Held(pool, k) THEN D[k] ELSE Held(pool, k)
      <4> SUFFICES ASSUME NEW D, IsBagOf(D, s) \/ IsBagOf(D, Append(s, x)), NEW k \in DOMAIN D
                   PROVE  TakenByKey(pool, D)[k] = IF D[k] <= Held(pool, k) THEN D[k] ELSE Held(pool, k)
        OBVIOUS
      <4>1. D[k] \in Int /\ Held(pool, k) \in Int
        BY <2>6 DEF IsBagOf
      <4>2. TakenByKey(pool, D)[k] = Min({D[k], Held(pool, k)})
        BY DEF TakenByKey
      <4> QED
        BY <4>1, <4>2, MinOfTwo
    <3>2. /\ \A k \in DOMAIN B : f[k] = IF B[k] <= Held(pool, k) THEN B[k] ELSE Held(pool, k)
          /\ \A k \in DOMAIN C : g[k] = IF C[k] <= Held(pool, k) THEN C[k] ELSE Held(pool, k)
      BY <2>1, <3>1
    <3>3. f = [k \in DOMAIN B |-> f[k]] /\ g = [k \in DOMAIN C |-> g[k]]
      BY DEF TakenByKey
    <3> HIDE DEF f, g
    <3>4. \A k \in DOMAIN B : B[k] \in Int
      BY <2>15
    <3>5. \A k \in DOMAIN C : C[k] \in Int
      BY <2>15
    <3>6. f \in [DOMAIN B -> Int]
      <4>1. \A k \in DOMAIN B : f[k] \in Int
        BY <2>6, <3>2, <3>4
      <4> QED
        BY <3>3, <4>1
    <3>7. g \in [DOMAIN B \cup {key} -> Int]
      <4>1. \A k \in DOMAIN C : g[k] \in Int
        BY <2>6, <3>2, <3>5
      <4> QED
        BY <2>14, <3>3, <4>1
    <3>8. \A k \in DOMAIN B \ {key} : g[k] = f[k]
      BY <2>3, <2>14, <2>16, <2>17, <3>2
    <3>9. SumFunction(g) = SumFunction(f) + g[key] - (IF key \in DOMAIN B THEN f[key] ELSE 0)
      <4>1. ChangesAt(DOMAIN B, f, key, g)
        BY <2>14, <3>6, <3>7, <3>8 DEF ChangesAt
      <4> HIDE DEF key
      <4> QED
        BY <4>1, SumChange
    <3>10. g[key] = IF d + q <= h THEN d + q ELSE h
      <4>1. C[key] = d + q /\ key \in DOMAIN C
        BY <2>3, <2>4, <2>14, <2>17
      <4> HIDE DEF key
      <4> QED
        BY <3>2, <4>1 DEF h
    <3>11. (IF key \in DOMAIN B THEN f[key] ELSE 0) = IF d <= h THEN d ELSE h
      <4>1. CASE key \in DOMAIN B
        <5>1. B[key] = d
          BY <2>4, <4>1 DEF Held
        <5> HIDE DEF key
        <5> QED
          BY <3>2, <4>1, <5>1 DEF h
      <4>2. CASE key \notin DOMAIN B
        <5>1. d = 0
          BY <2>4, <4>2 DEF Held
        <5> QED
          BY <2>4, <4>2, <5>1
      <4> QED
        BY <4>1, <4>2
    <3>12. SumFunction(f) \in Int
      BY <2>14, <3>6, SumTyped
    <3> HIDE DEF key
    <3> QED
      BY <2>4, <2>8, <2>9, <3>9, <3>10, <3>11, <3>12
  <2> HIDE DEF f, g
  <2>20. SumFunction(C) = TotalQuantity(Append(s, x))
         /\ SumFunction(g) = CompareLines(pool, Append(s, x), "oracle").applied
    BY <2>10, <2>12, <2>13, <2>18, <2>19
  <2> QED
    BY <2>20, Zenon DEF C, g
<1>3. Extending(P, T)
  BY <1>1, <1>2, Zenon DEF Extending
<1>4. OfAll(P, T)
  BY <1>3, SequenceInduction
<1> QED
  BY <1>4 DEF OfAll

LEMMA OracleKeyed == \A key : Keyed(key, "oracle")
BY DEF Keyed, CandidateKey, HasKey, Key

LEMMA ShortIsFunction ==
    ASSUME NEW mode, NEW T
    PROVE  \A m \in Seq(T) : LET bag == ShortByKey(m, mode) IN bag = [k \in DOMAIN bag |-> bag[k]]
<1> DEFINE P(m) == LET bag == ShortByKey(m, mode) IN bag = [k \in DOMAIN bag |-> bag[k]]
<1>1. P(<<>>)
  BY ShortByKeySteps DEF EmptyBag, SetToBag
<1>2. ASSUME NEW m \in Seq(T), NEW line \in T, P(m) PROVE P(Append(m, line))
  <2> DEFINE one == Copies(CandidateKey(line.card, mode), line.short)
             bag == ShortByKey(m, mode)
  <2>1. ShortByKey(Append(m, line), mode) = bag (+) one
    BY ShortByKeySteps
  <2> HIDE DEF one, bag
  <2>2. bag (+) one = [k \in DOMAIN (bag (+) one) |-> (bag (+) one)[k]]
    BY DEF (+)
  <2> QED
    BY <2>1, <2>2
<1>3. Extending(P, T)
  BY <1>1, <1>2, Zenon DEF Extending
<1>4. OfAll(P, T)
  BY <1>3, SequenceInduction
<1> QED
  BY <1>4 DEF OfAll

(* What the lines of a list are short of, by key, is what SQL counts as    *)
(* its shortfalls, and there are none exactly when no line is missing.     *)
LEMMA ShortfallsOfLines ==
    ASSUME NEW T, Rows(T), NEW pool, IsPool(pool), NEW s \in Seq(T)
    PROVE  /\ ShortByKey(CompareLines(pool, s, "oracle").missing, "oracle") = Shortfalls(pool, OwnedPool(s, "oracle"))
           /\ DOMAIN Shortfalls(pool, OwnedPool(s, "oracle")) = {} <=> CompareLines(pool, s, "oracle").missing = <<>>
<1> DEFINE m == CompareLines(pool, s, "oracle").missing
           B == OwnedPool(s, "oracle")
           bag == ShortByKey(m, "oracle")
<1>1. m \in Seq(MissingLines(T))
  BY LinesAddUp
<1>2. \A k : Held(bag, k) = IF Held(B, k) > Held(pool, k) THEN Held(B, k) - Held(pool, k) ELSE 0
  <2>1. \A k : Keyed(k, "oracle")
    BY OracleKeyed
  <2> QED
    BY <2>1, ShortIsExact DEF Demand
<1>3. \A k : Held(B, k) \in Nat /\ Held(pool, k) \in Nat
  BY PoolHolds DEF IsPool
<1> HIDE DEF m, B
<1>4. KeysOf(bag, m, "oracle")
  BY <1>1, ShortKeysOfLines
<1>5. bag = [k \in DOMAIN bag |-> bag[k]]
  BY <1>1, ShortIsFunction
<1> HIDE DEF bag
<1> DEFINE short == {key \in DOMAIN B : B[key] > Held(pool, key)}
<1>6. \A k : k \in short <=> Held(B, k) > Held(pool, k)
  <2> SUFFICES ASSUME NEW k PROVE k \in short <=> Held(B, k) > Held(pool, k)
    OBVIOUS
  <2>1. CASE k \in DOMAIN B
    BY <2>1 DEF Held
  <2>2. CASE k \notin DOMAIN B
    <3>1. Held(B, k) = 0
      BY <2>2 DEF Held
    <3> QED
      BY <1>3, <2>2, <3>1
  <2> QED
    BY <2>1, <2>2
<1>7. DOMAIN bag = short
  <2>1. \A k : k \in DOMAIN bag <=> Held(bag, k) > 0
    BY <1>4 DEF KeysOf
  <2>2. ASSUME NEW k PROVE Held(bag, k) > 0 <=> Held(B, k) > Held(pool, k)
    BY <1>2, <1>3
  <2> HIDE DEF short
  <2> QED
    BY <1>6, <2>1, <2>2
<1>8. ASSUME NEW k \in short PROVE bag[k] = B[k] - Held(pool, k)
  <2>1. bag[k] = Held(bag, k) /\ B[k] = Held(B, k)
    BY <1>7 DEF Held
  <2>2. Held(B, k) > Held(pool, k)
    BY <1>6
  <2> QED
    BY <1>2, <2>1, <2>2
<1>9. Shortfalls(pool, B) = [k \in short |-> B[k] - Held(pool, k)]
  BY DEF Shortfalls
<1> HIDE DEF short
<1>10. bag = Shortfalls(pool, B)
  BY <1>5, <1>7, <1>8, <1>9
<1>11. DOMAIN bag = {} <=> m = <<>>
  <2>1. \A k : k \in DOMAIN bag <=> \E line \in ToSet(m) : CandidateKey(line.card, "oracle") = k
    BY <1>4 DEF KeysOf
  <2>2. DOMAIN bag = {} <=> ToSet(m) = {}
    BY <2>1
  <2>3. ToSet(m) = {} <=> m = <<>>
    <3>1. ToSet(<<>>) = {}
      BY DEF ToSet
    <3>2. m # <<>> => m[1] \in ToSet(m)
      <4>1. m # <<>> => 1 \in DOMAIN m
        BY <1>1
      <4> QED
        BY <4>1 DEF ToSet
    <3> QED
      BY <3>1, <3>2
  <2> QED
    BY <2>2, <2>3
<1> QED
  BY <1>10, <1>11 DEF bag, m, B

-----------------------------------------------------------------------------
(* A finite set one element after the other, and the first of them         *)

Injects(s) == \A i, j \in 1..Len(s) : s[i] = s[j] => i = j

LEMMA SetToSeqLists ==
    ASSUME NEW S, IsFiniteSet(S)
    PROVE  /\ SetToSeq(S) \in Seq(S) /\ ToSet(SetToSeq(S)) = S
           /\ Len(SetToSeq(S)) = Cardinality(S) /\ Injects(SetToSeq(S))
<1> DEFINE n == Cardinality(S)
           s == SetToSeq(S)
<1>1. n \in Nat /\ ExistsBijection(1..n, S)
  BY FS_CardinalityType
<1>2. \E f \in [1..n -> S] : IsInjective(f)
  BY <1>1 DEF ExistsBijection, Bijection, Injection
<1>3. s \in [1..n -> S] /\ IsInjective(s)
  BY <1>2 DEF SetToSeq
<1>4. s \in Surjection(1..n, S)
  <2>1. IsFiniteSet(1..n) /\ Cardinality(1..n) = n
    BY <1>1, FS_Interval
  <2>2. s \in Injection(1..n, S)
    BY <1>3 DEF Injection
  <2> HIDE DEF s
  <2> QED
    BY <2>1, <2>2, FS_Injection
<1> HIDE DEF s
<1>5. ToSet(s) = S
  BY <1>3, <1>4 DEF Surjection, ToSet
<1>6. s \in Seq(S) /\ Len(s) = n
  BY <1>1, <1>3
<1>7. Injects(s)
  BY <1>3, <1>6 DEF IsInjective, Injects
<1> QED
  BY <1>5, <1>6, <1>7 DEF s

\* The first n of S in an order, or all of them when there are fewer
IsTop(top, S, n, Before(_, _)) ==
    /\ top \subseteq S /\ Cardinality(top) = Min({n, Cardinality(S)})
    /\ \A x \in S \ top, y \in top : ~Before(x, y)

FirstOf(S, n, Before(_, _)) ==
    LET ranked == InOrder(SetToSeq(S), Before) IN ToSet(SubSeq(ranked, 1, Min({n, Len(ranked)})))

LEMMA TopIsBest ==
    ASSUME NEW Before(_, _), NEW S, IsFiniteSet(S), Orders(Before, S), NEW n \in Nat
    PROVE  IsTop(FirstOf(S, n, Before), S, n, Before)
<1> DEFINE all == SetToSeq(S)
           ranked == InOrder(all, Before)
           m == Min({n, Len(ranked)})
           top == ToSet(SubSeq(ranked, 1, m))
<1>1. all \in Seq(S) /\ ToSet(all) = S /\ Len(all) = Cardinality(S)
  BY SetToSeqLists
<1>2. Sorts(S, Before)
  BY InOrderSorts
<1> HIDE DEF all
<1>3. ranked \in Seq(S) /\ Len(ranked) = Cardinality(S) /\ ToSet(ranked) = S /\ Ordered(ranked, Before)
  BY <1>1, <1>2, Zenon DEF Sorts
<1> HIDE DEF ranked
<1>4. Cardinality(S) \in Nat
  BY FS_CardinalityType
<1>5. m = (IF n <= Len(ranked) THEN n ELSE Len(ranked)) /\ m \in 0..Len(ranked) /\ m = Min({n, Cardinality(S)})
  BY <1>3, <1>4, MinOfTwo
<1> HIDE DEF m
<1> DEFINE first == SubSeq(ranked, 1, m)
<1>6. Len(first) = m /\ \A i \in 1..m : first[i] = ranked[i]
  <2>1. 1 \in 1..(Len(ranked) + 1) /\ m \in (1 - 1)..Len(ranked)
    BY <1>3, <1>4, <1>5
  <2> QED
    BY <1>3, <1>5, <2>1, SubSeqProperties
<1>7. DOMAIN first = 1..m
  <2>1. first \in Seq(S)
    BY <1>3, <1>5
  <2> HIDE DEF first
  <2> QED
    BY <1>6, <2>1
<1> HIDE DEF first
<1>8. top = {ranked[i] : i \in 1..m}
  <2>1. top = {first[i] : i \in DOMAIN first}
    BY DEF ToSet, first
  <2> HIDE DEF top
  <2> QED
    BY <1>6, <1>7, <2>1
<1>9. S = {ranked[i] : i \in 1..Len(ranked)}
  BY <1>3 DEF ToSet
<1>10. 1..m \subseteq 1..Len(ranked)
  BY <1>3, <1>4, <1>5
<1> HIDE DEF top
<1>11. top \subseteq S
  BY <1>8, <1>9, <1>10
<1>12. ranked \in Injection(1..Len(ranked), S)
  <2>1. ranked \in Surjection(1..Len(ranked), S)
    <3>1. ranked \in [1..Len(ranked) -> S]
      BY <1>3
    <3>2. \A x \in S : \E i \in 1..Len(ranked) : ranked[i] = x
      BY <1>9
    <3> QED
      BY <3>1, <3>2 DEF Surjection
  <2>2. IsFiniteSet(1..Len(ranked)) /\ Cardinality(1..Len(ranked)) = Cardinality(S)
    BY <1>3, <1>4, FS_Interval
  <2> QED
    BY <2>1, <2>2, FS_Surjection
<1>13. Cardinality(top) = m
  <2> DEFINE f == [i \in 1..m |-> ranked[i]]
  <2>1. f \in [1..m -> top]
    BY <1>8
  <2>2. \A i, j \in 1..m : ranked[i] = ranked[j] => i = j
    BY <1>10, <1>12 DEF Injection, IsInjective
  <2>3. f \in Injection(1..m, top)
    BY <2>1, <2>2 DEF Injection, IsInjective
  <2>4. f \in Surjection(1..m, top)
    BY <1>8, <2>1 DEF Surjection
  <2>5. IsFiniteSet(1..m) /\ Cardinality(1..m) = m
    <3>1. m \in Nat
      BY <1>3, <1>4, <1>5
    <3>2. IsFiniteSet(1..m) /\ Cardinality(1..m) = IF 1 > m THEN 0 ELSE m - 1 + 1
      BY <3>1, FS_Interval
    <3> QED
      BY <3>1, <3>2
  <2> HIDE DEF f
  <2>6. Cardinality(top) = Cardinality(1..m)
    BY <2>3, <2>4, <2>5, FS_Surjection
  <2> QED
    BY <2>5, <2>6
<1>14. ASSUME NEW x \in S \ top, NEW y \in top PROVE ~Before(x, y)
  <2>1. PICK j \in 1..m : y = ranked[j]
    BY <1>8
  <2>2. PICK i \in 1..Len(ranked) : x = ranked[i]
    BY <1>9
  <2>3. i \notin 1..m
    BY <1>8, <2>2
  <2>4. j < i /\ j \in 1..Len(ranked)
    BY <1>5, <1>10, <2>3
  <2> QED
    BY <1>3, <2>1, <2>2, <2>4 DEF Ordered
<1>15. FirstOf(S, n, Before) = top
  BY Zenon DEF FirstOf, top, first, m, ranked, all
<1> QED
  BY <1>5, <1>11, <1>13, <1>14, <1>15, Zenon DEF IsTop

\* n others of S are no worse than x
NoWorse(x, S, n, Before(_, _)) == Cardinality({y \in S \ {x} : ~Before(x, y)}) >= n

(* Whoever is not among the first n leaves n others that are no worse.     *)
LEMMA OthersNoWorse ==
    ASSUME NEW Before(_, _), NEW S, IsFiniteSet(S), NEW n \in Nat, NEW top, IsTop(top, S, n, Before), NEW x \in S \ top
    PROVE  NoWorse(x, S, n, Before)
<1> DEFINE others == {y \in S \ {x} : ~Before(x, y)}
<1>1. IsFiniteSet(others) /\ IsFiniteSet(top)
  <2>1. others \in SUBSET S /\ top \in SUBSET S
    BY Zenon DEF IsTop
  <2> HIDE DEF others
  <2> QED
    BY <2>1, FS_Subset
<1>2. top \subseteq others
  <2> SUFFICES ASSUME NEW y \in top PROVE y \in others
    OBVIOUS
  <2>1. y \in S /\ ~Before(x, y)
    BY Zenon DEF IsTop
  <2>2. y # x
    OBVIOUS
  <2> QED
    BY <2>1, <2>2
<1> HIDE DEF others
<1>3. Cardinality(top) <= Cardinality(others)
  BY <1>1, <1>2, FS_Subset
<1>4. Cardinality(top) = Min({n, Cardinality(S)}) /\ top \subseteq S
  BY Zenon DEF IsTop
<1>5. Cardinality(S) \in Nat /\ Cardinality(top) \in Nat /\ Cardinality(others) \in Nat
  BY <1>1, FS_CardinalityType
<1>6. Cardinality(top) # Cardinality(S)
  BY <1>4, FS_Subset
<1>7. Cardinality(top) = n
  BY <1>4, <1>5, <1>6, MinOfTwo
<1>8. Cardinality(others) >= n
  BY <1>3, <1>5, <1>7
<1> QED
  BY <1>8, Zenon DEF NoWorse, others

-----------------------------------------------------------------------------
(* All lists together: their rows, and what they want of a key             *)

RowsOfAll(tables, ids) == UNION {ToSet(RequiredCards(tables[id])) : id \in ToSet(ids)}

LEMMA RowsOfLists ==
    ASSUME NEW T, NEW I, NEW tables \in [I -> Seq(T)]
    PROVE  \A ids \in Seq(I) : ToSet(RequiredCardsOf(tables, ids)) = RowsOfAll(tables, ids)
<1> DEFINE P(ids) == ToSet(RequiredCardsOf(tables, ids)) = RowsOfAll(tables, ids)
<1>1. \A id \in I : RequiredCards(tables[id]) \in Seq(T)
  BY RequiredCardsKeep
<1>2. \A ids \in Seq(I) : RequiredCardsOf(tables, ids) \in Seq(T)
  BY RequiredCardsOfKeep
<1>3. P(<<>>)
  <2>1. RequiredCardsOf(tables, <<>>) = <<>>
    BY RequiredCardsOfSteps
  <2>2. ToSet(<<>>) = {}
    BY DEF ToSet
  <2>3. RowsOfAll(tables, <<>>) = {}
    BY <2>2 DEF RowsOfAll
  <2> QED
    BY <2>1, <2>2, <2>3
<1>4. ASSUME NEW ids \in Seq(I), NEW id \in I, P(ids) PROVE P(Append(ids, id))
  <2> DEFINE s == RequiredCardsOf(tables, ids)
             t == RequiredCards(tables[id])
  <2>1. RequiredCardsOf(tables, Append(ids, id)) = s \o t
    BY RequiredCardsOfSteps
  <2>2. s \in Seq(T) /\ t \in Seq(T)
    BY <1>1, <1>2
  <2>3. ToSet(s) = RowsOfAll(tables, ids)
    BY <1>4
  <2>4. ToSet(Append(ids, id)) = ToSet(ids) \cup {id}
    BY ToSetAppend
  <2>5. RowsOfAll(tables, Append(ids, id)) = RowsOfAll(tables, ids) \cup ToSet(t)
    BY <2>4 DEF RowsOfAll
  <2> HIDE DEF s, t
  <2>6. ToSet(s \o t) = ToSet(s) \cup ToSet(t)
    <3> DEFINE u == s \o t
    <3>1. Len(s) \in Nat /\ Len(t) \in Nat /\ DOMAIN s = 1..Len(s) /\ DOMAIN t = 1..Len(t)
      BY <2>2
    <3>2. DOMAIN u = 1..(Len(s) + Len(t))
      BY <2>2, ConcatProperties
    <3>3. \A i \in 1..(Len(s) + Len(t)) : u[i] = IF i <= Len(s) THEN s[i] ELSE t[i - Len(s)]
      BY <2>2, ConcatProperties
    <3> HIDE DEF u
    <3>4. ASSUME NEW x \in ToSet(u) PROVE x \in ToSet(s) \cup ToSet(t)
      <4>1. PICK i \in 1..(Len(s) + Len(t)) : u[i] = x
        BY <3>2 DEF ToSet
      <4>2. CASE i <= Len(s)
        <5>1. i \in DOMAIN s /\ x = s[i]
          BY <3>1, <3>3, <4>1, <4>2
        <5> QED
          BY <5>1 DEF ToSet
      <4>3. CASE ~(i <= Len(s))
        <5>1. i - Len(s) \in DOMAIN t /\ x = t[i - Len(s)]
          BY <3>1, <3>3, <4>1, <4>3
        <5> QED
          BY <5>1 DEF ToSet
      <4> QED
        BY <4>2, <4>3
    <3>5. ASSUME NEW x \in ToSet(s) PROVE x \in ToSet(u)
      <4>1. PICK i \in DOMAIN s : s[i] = x
        BY DEF ToSet
      <4>2. i \in DOMAIN u /\ u[i] = x
        BY <3>1, <3>2, <3>3, <4>1
      <4> QED
        BY <4>2 DEF ToSet
    <3>6. ASSUME NEW x \in ToSet(t) PROVE x \in ToSet(u)
      <4>1. PICK i \in DOMAIN t : t[i] = x
        BY DEF ToSet
      <4>2. i + Len(s) \in DOMAIN u /\ u[i + Len(s)] = x
        BY <3>1, <3>2, <3>3, <4>1
      <4> QED
        BY <4>2 DEF ToSet
    <3>7. ToSet(u) = ToSet(s) \cup ToSet(t)
      BY <3>4, <3>5, <3>6
    <3> QED
      BY <3>7 DEF u
  <2> QED
    BY <2>1, <2>3, <2>5, <2>6
<1>5. Extending(P, I)
  BY <1>3, <1>4, Zenon DEF Extending
<1>6. OfAll(P, I)
  BY <1>5, SequenceInduction
<1> QED
  BY <1>6 DEF OfAll

\* What each of some lists wants of a key
WantedBy(tables, ids, key, mode) == [id \in ids |-> Demand(RequiredCards(tables[id]), key, mode)]

LEMMA WantedOfLists ==
    ASSUME NEW mode, NEW T, Rows(T), NEW I, NEW tables \in [I -> Seq(T)], NEW key
    PROVE  \A ids \in Seq(I) : Injects(ids) =>
               /\ IsFiniteSet(ToSet(ids))
               /\ Demand(RequiredCardsOf(tables, ids), key, mode) = SumFunction(WantedBy(tables, ToSet(ids), key, mode))
<1> DEFINE wanted(D) == WantedBy(tables, D, key, mode)
           all(ids) == Demand(RequiredCardsOf(tables, ids), key, mode)
           P(ids) == Injects(ids) => IsFiniteSet(ToSet(ids)) /\ all(ids) = SumFunction(wanted(ToSet(ids)))
<1>1. \A id \in I : RequiredCards(tables[id]) \in Seq(T)
  BY RequiredCardsKeep
<1>2. \A ids \in Seq(I) : RequiredCardsOf(tables, ids) \in Seq(T)
  BY RequiredCardsOfKeep
<1>3. P(<<>>)
  <2>1. RequiredCardsOf(tables, <<>>) = <<>>
    BY RequiredCardsOfSteps
  <2>2. all(<<>>) = 0
    BY <2>1, OwnedPoolSteps, HeldEmpty DEF Demand
  <2>3. ToSet(<<>>) = {}
    BY DEF ToSet
  <2>4. SumFunction(wanted({})) = 0
    <3>1. DOMAIN wanted({}) = {}
      BY DEF WantedBy
    <3> QED
      BY <3>1, SumEmpty
  <2> HIDE DEF all, wanted
  <2> QED
    BY <2>2, <2>3, <2>4, FS_EmptySet
<1>4. ASSUME NEW ids \in Seq(I), NEW id \in I, P(ids) PROVE P(Append(ids, id))
  <2> SUFFICES ASSUME Injects(Append(ids, id))
               PROVE  IsFiniteSet(ToSet(Append(ids, id)))
                      /\ all(Append(ids, id)) = SumFunction(wanted(ToSet(Append(ids, id))))
    OBVIOUS
  <2> DEFINE more == Append(ids, id)
             n == Len(ids)
             D == ToSet(ids)
             s == RequiredCardsOf(tables, ids)
             t == RequiredCards(tables[id])
  <2>1. n \in Nat /\ Len(more) = n + 1 /\ more[n + 1] = id /\ (\A i \in 1..n : more[i] = ids[i]) /\ DOMAIN ids = 1..n
    BY AppendProperties
  <2>2. ToSet(more) = D \cup {id}
    BY ToSetAppend
  <2> HIDE DEF more, n
  <2>3. \A i, j \in 1..(n + 1) : more[i] = more[j] => i = j
    BY <2>1 DEF Injects, more
  <2>4. Injects(ids)
    <3>1. \A i, j \in 1..n : ids[i] = ids[j] => i = j
      BY <2>1, <2>3
    <3> QED
      BY <3>1 DEF Injects, n
  <2>5. id \notin D
    <3> SUFFICES ASSUME id \in D PROVE FALSE
      OBVIOUS
    <3>1. PICK i \in 1..n : ids[i] = id
      BY <2>1 DEF ToSet
    <3>2. more[i] = more[n + 1] /\ i \in 1..(n + 1) /\ n + 1 \in 1..(n + 1) /\ i # n + 1
      BY <2>1, <3>1
    <3> QED
      BY <2>3, <3>2
  <2>6. RequiredCardsOf(tables, more) = s \o t
    BY RequiredCardsOfSteps DEF more
  <2>7. s \in Seq(T) /\ t \in Seq(T)
    BY <1>1, <1>2
  <2>8. Demand(s \o t, key, mode) = Demand(s, key, mode) + Demand(t, key, mode)
    <3> HIDE DEF s, t
    <3> QED
      BY <2>7, DemandAdds
  <2>9. Demand(s, key, mode) = SumFunction(wanted(D)) /\ IsFiniteSet(D)
    BY <1>4, <2>4
  <2>10. \A i \in I : Demand(RequiredCards(tables[i]), key, mode) \in Nat
    BY <1>1, PoolHolds DEF Demand
  <2>11. D \subseteq I
    BY DEF ToSet
  <2>12. ChangesAt(D, wanted(D), id, wanted(D \cup {id}))
    <3>1. wanted(D) \in [D -> Int] /\ wanted(D \cup {id}) \in [D \cup {id} -> Int]
      BY <2>10, <2>11 DEF WantedBy
    <3>2. \A y \in D \ {id} : wanted(D \cup {id})[y] = wanted(D)[y]
      BY DEF WantedBy
    <3> HIDE DEF wanted, D
    <3> QED
      BY <2>9, <3>1, <3>2 DEF ChangesAt
  <2>13. SumFunction(wanted(D \cup {id})) = SumFunction(wanted(D)) + wanted(D \cup {id})[id] - 0
    <3>1. SumFunction(wanted(D \cup {id})) = SumFunction(wanted(D)) + wanted(D \cup {id})[id]
                                                 - (IF id \in D THEN wanted(D)[id] ELSE 0)
      <4> HIDE DEF wanted, D
      <4> QED
        BY <2>12, SumChange
    <3> QED
      BY <2>5, <3>1
  <2>14. wanted(D \cup {id})[id] = Demand(t, key, mode)
    BY DEF WantedBy
  <2>15. Demand(s, key, mode) \in Nat /\ Demand(t, key, mode) \in Nat
    BY <2>7, PoolHolds DEF Demand
  <2>16. IsFiniteSet(D \cup {id})
    BY <2>9, FS_AddElement
  <2> HIDE DEF D, wanted
  <2>17. all(more) = Demand(s \o t, key, mode)
    BY <2>6
  <2> HIDE DEF all, s, t
  <2>18. all(more) = SumFunction(wanted(ToSet(more))) /\ IsFiniteSet(ToSet(more))
    BY <2>2, <2>8, <2>9, <2>13, <2>14, <2>15, <2>16, <2>17
  <2> QED
    BY <2>18 DEF more
<1>5. Extending(P, I)
  BY <1>3, <1>4, Zenon DEF Extending
<1>6. OfAll(P, I)
  BY <1>5, SequenceInduction
<1> QED
  BY <1>6 DEF OfAll

-----------------------------------------------------------------------------
(* The candidates for a purchase, counted by SQL and by the engine         *)

LEMMA SumIsOne ==
    ASSUME NEW S, IsFiniteSet(S), NEW f \in [S -> Int], NEW jter, Sums(jter, f, S)
    PROVE  jter[S] = SumFunction(f)
<1>1. DOMAIN f = S
  OBVIOUS
<1>8. \A x \in S : f[x] \in Int
  OBVIOUS
<1>2. PICK iter : SumFunction(f) = iter[S] /\ Sums(iter, f, S)
  BY <1>1, SumDef
<1>3. \A T \in SUBSET S : iter[T] \in Int /\ \A x \in T : iter[T] = f[x] + iter[T \ {x}]
  <2>1. AnyFirst(iter, f, S)
    BY <1>2, <1>8, SumAnyOrder
  <2> QED
    BY <2>1, Zenon DEF AnyFirst
<1> DEFINE P(T) == jter[T] = iter[T]
<1>4. P({})
  BY <1>2 DEF Sums
<1>5. ASSUME NEW T \in SUBSET S, T # {}, \A x \in T : P(T \ {x}) PROVE P(T)
  <2>1. PICK x \in T : jter[T] = f[x] + jter[T \ {x}]
    BY <1>5 DEF Sums
  <2> QED
    BY <1>3, <1>5, <2>1
<1>6. Growing(P, S)
  BY <1>4, <1>5, Zenon DEF Growing
<1>7. OfSubsets(P, S)
  BY <1>6, SubsetInduction
<1> QED
  BY <1>2, <1>7, Zenon DEF OfSubsets

\* The bags of all ids in one
TotalOf(bags, S) == FoldSet(LAMBDA id, bag : bag (+) bags[id], EmptyBag, S)

LEMMA TotalHolds ==
    ASSUME NEW S, IsFiniteSet(S), NEW bags, NEW key, \A id \in S : Held(bags[id], key) \in Nat
    PROVE  Held(TotalOf(bags, S), key) = SumFunction([id \in S |-> Held(bags[id], key)])
<1> DEFINE op(id, bag) == bag (+) bags[id]
           self(id) == id
           f == [id \in S |-> Held(bags[id], key)]
<1>1. TotalOf(bags, S) = MapThenFoldSet(op, EmptyBag, self, LAMBDA T : CHOOSE x \in T : TRUE, S)
  BY Zenon DEF TotalOf, FoldSet
<1>2. UnfoldsSet(op, EmptyBag, self, TotalOf(bags, S), S)
  BY <1>1, FoldSetDef
<1>3. PICK iter : /\ TotalOf(bags, S) = iter[S]
                  /\ iter[{}] = EmptyBag
                  /\ \A T \in SUBSET S : T # {} => \E x \in T : iter[T] = iter[T \ {x}] (+) bags[x]
  BY <1>2, Zenon DEF UnfoldsSet
<1> DEFINE jter == [T \in SUBSET S |-> Held(iter[T], key)]
<1>8. \A T \in SUBSET S : Held(iter[T], key) \in Nat
  <2> DEFINE P(T) == Held(iter[T], key) \in Nat
  <2>1. P({})
    BY <1>3, HeldEmpty
  <2>2. ASSUME NEW T \in SUBSET S, T # {}, \A x \in T : P(T \ {x}) PROVE P(T)
    <3>1. PICK x \in T : iter[T] = iter[T \ {x}] (+) bags[x]
      BY <1>3, <2>2
    <3>2. Held(iter[T], key) = Held(iter[T \ {x}], key) + Held(bags[x], key)
      BY <3>1, HeldUnion
    <3>3. Held(iter[T \ {x}], key) \in Nat /\ Held(bags[x], key) \in Nat
      BY <2>2
    <3> QED
      BY <3>2, <3>3
  <2>3. Growing(P, S)
    BY <2>1, <2>2, Zenon DEF Growing
  <2>4. OfSubsets(P, S)
    BY <2>3, SubsetInduction
  <2> QED
    BY <2>4, Zenon DEF OfSubsets
<1>4. Sums(jter, f, S)
  <2>1. jter[{}] = 0
    BY <1>3, HeldEmpty
  <2>2. ASSUME NEW T \in SUBSET S, T # {} PROVE \E x \in T : jter[T] = f[x] + jter[T \ {x}]
    <3>1. PICK x \in T : iter[T] = iter[T \ {x}] (+) bags[x]
      BY <1>3, <2>2
    <3>2. Held(iter[T], key) = Held(iter[T \ {x}], key) + Held(bags[x], key)
      BY <3>1, HeldUnion
    <3>3. Held(iter[T \ {x}], key) \in Nat /\ Held(bags[x], key) \in Nat
      BY <1>8
    <3>4. jter[T] = Held(iter[T], key) /\ jter[T \ {x}] = Held(iter[T \ {x}], key) /\ f[x] = Held(bags[x], key)
      <4>1. T \ {x} \in SUBSET S /\ x \in S
        OBVIOUS
      <4> QED
        BY <2>2, <4>1
    <3> HIDE DEF jter, f
    <3>5. jter[T] = f[x] + jter[T \ {x}]
      BY <3>2, <3>3, <3>4
    <3> QED
      BY <3>5
  <2> HIDE DEF jter, f
  <2> QED
    BY <2>1, <2>2 DEF Sums
<1>5. f \in [S -> Int]
  OBVIOUS
<1> HIDE DEF f
<1>6. jter[S] = SumFunction(f)
  BY <1>4, <1>5, SumIsOne
<1>7. jter[S] = Held(TotalOf(bags, S), key)
  BY <1>3
<1> QED
  BY <1>6, <1>7 DEF f

-----------------------------------------------------------------------------
(* The figures of a key that the lists together are short of               *)

AllRows == RequiredCardsOf(lists, Ids)

ShortKeys(pool) ==
    {key \in DOMAIN OwnedPool(AllRows, "oracle") : Demand(AllRows, key, "oracle") > Held(pool, key)}

UnlocksOf(pool, key) == Cardinality({id \in Lists : DOMAIN ShortPerList(pool, "oracle")[id] = {key}})

GainsOf(pool, key) ==
    [id \in {i \in Lists : key \in DOMAIN ShortPerList(pool, "oracle")[i]} |->
        <<ShortPerList(pool, "oracle")[id][key], TotalQuantity(RequiredCards(lists[id]))>>]

Told(pool, key, card) ==
    Candidate(card, Demand(AllRows, key, "oracle") - Held(pool, key), UnlocksOf(pool, key),
              Hundredths(SumOfFractions(GainsOf(pool, key))))

(* What the lists want together, key by key, is what they want of it one   *)
(* by one.                                                                 *)
LEMMA TotalIsDemand ==
    ASSUME TypeOK, NEW bags, \A id \in Lists : bags[id] = OwnedPool(RequiredCards(lists[id]), "oracle"), NEW key
    PROVE  Held(TotalOf(bags, Lists), key) = Demand(AllRows, key, "oracle")
<1>1. Rows(ListRows) /\ IsFiniteSet(Lists)
  BY CatalogueAssumption DEF Rows
<1>2. \A id \in Lists : Held(bags[id], key) = Demand(RequiredCards(lists[id]), key, "oracle")
  BY DEF Demand
<1>3. \A id \in Lists : RequiredCards(lists[id]) \in Seq(ListRows)
  BY RequiredCardsKeep DEF TypeOK
<1>4. \A id \in Lists : Held(bags[id], key) \in Nat
  BY <1>1, <1>2, <1>3, PoolHolds DEF Demand
<1>5. Held(TotalOf(bags, Lists), key) = SumFunction([id \in Lists |-> Held(bags[id], key)])
  BY <1>1, <1>4, TotalHolds
<1>6. [id \in Lists |-> Held(bags[id], key)] = WantedBy(lists, Lists, key, "oracle")
  BY <1>2 DEF WantedBy
<1>7. Ids \in Seq(Lists) /\ ToSet(Ids) = Lists /\ Injects(Ids)
  BY <1>1, SetToSeqLists DEF Ids
<1>8. Demand(AllRows, key, "oracle") = SumFunction(WantedBy(lists, ToSet(Ids), key, "oracle"))
  <2>1. lists \in [Lists -> Seq(ListRows)]
    BY DEF TypeOK
  <2> QED
    BY <1>1, <1>7, <2>1, WantedOfLists DEF AllRows
<1> QED
  BY <1>5, <1>6, <1>7, <1>8

LEMMA AllRowsTyped ==
    ASSUME TypeOK
    PROVE  /\ AllRows \in Seq(ListRows)
           /\ ToSet(AllRows) = UNION {ToSet(RequiredCards(lists[id])) : id \in Lists}
<1>1. Ids \in Seq(Lists) /\ ToSet(Ids) = Lists
  BY IdsKeep
<1>2. lists \in [Lists -> Seq(ListRows)]
  BY DEF TypeOK
<1>3. AllRows \in Seq(ListRows)
  BY <1>1, <1>2, RequiredCardsOfKeep DEF AllRows
<1>4. ToSet(AllRows) = RowsOfAll(lists, Ids)
  BY <1>1, <1>2, RowsOfLists DEF AllRows
<1> QED
  BY <1>1, <1>3, <1>4 DEF RowsOfAll

(* The candidates of the SQL queries.                                      *)
LEMMA ScaleCandidates ==
    ASSUME TypeOK, NEW pool, IsPool(pool)
    PROVE  ComputeLeverageAtScale(pool, lists)
               = {Told(pool, key, Representative(lists, key)) : key \in ShortKeys(pool)}
<1> DEFINE required == [id \in DOMAIN lists |-> RequiredByKey(lists[id])]
           short == [id \in DOMAIN lists |-> Shortfalls(pool, required[id])]
           total == FoldSet(LAMBDA id, bag : bag (+) required[id], EmptyBag, DOMAIN lists)
           shortOf(key) == {id \in DOMAIN lists : key \in DOMAIN short[id]}
           gains(key) == [id \in shortOf(key) |-> GainOfKey(required[id], short[id], key)]
           unlocking(key) == {id \in shortOf(key) : DOMAIN short[id] = {key}}
           keys == {k \in DOMAIN total : total[k] > Held(pool, k)}
           candidate(key) == Candidate(Representative(lists, key), total[key] - Held(pool, key),
                                       Cardinality(unlocking(key)), Hundredths(SumOfFractions(gains(key))))
<1>1. ComputeLeverageAtScale(pool, lists) = {candidate(key) : key \in keys}
  BY Zenon DEF ComputeLeverageAtScale
<1>2. Rows(ListRows) /\ DOMAIN lists = Lists
  BY CatalogueAssumption DEF Rows, TypeOK
<1>3. \A id \in Lists : lists[id] \in Seq(ListRows) /\ RequiredCards(lists[id]) \in Seq(ListRows)
  BY RequiredCardsKeep DEF TypeOK
<1>4. \A id \in Lists : required[id] = OwnedPool(RequiredCards(lists[id]), "oracle")
  BY <1>2, <1>3, RequiredIsPool
<1>5. \A id \in Lists : SumFunction(required[id]) = TotalQuantity(RequiredCards(lists[id]))
  BY <1>2, <1>3, <1>4, KeysAddUp
<1>6. short = ShortPerList(pool, "oracle")
  <2>1. \A id \in Lists : short[id] = ShortByKey(CompareLines(pool, RequiredCards(lists[id]), "oracle").missing, "oracle")
    <3> SUFFICES ASSUME NEW id \in Lists
                 PROVE  short[id] = ShortByKey(CompareLines(pool, RequiredCards(lists[id]), "oracle").missing, "oracle")
      OBVIOUS
    <3>1. short[id] = Shortfalls(pool, OwnedPool(RequiredCards(lists[id]), "oracle"))
      BY <1>2, <1>4
    <3> QED
      BY <1>2, <1>3, <3>1, ShortfallsOfLines
  <2>2. short = [id \in Lists |-> short[id]]
    BY <1>2
  <2> HIDE DEF short
  <2> QED
    BY <2>1, <2>2 DEF ShortPerList
<1>7. \A key : Held(total, key) = Demand(AllRows, key, "oracle")
  <2>1. total = TotalOf(required, Lists)
    BY <1>2, Zenon DEF TotalOf
  <2> HIDE DEF total, required
  <2> QED
    BY <1>4, <2>1, TotalIsDemand
<1> HIDE DEF required, short, total
<1>8. keys = ShortKeys(pool) /\ \A key \in keys : total[key] = Demand(AllRows, key, "oracle")
  <2>1. \A key : Held(pool, key) \in Nat
    BY DEF IsPool
  <2>2. \A key : key \in keys <=> Held(total, key) > Held(pool, key)
    <3> SUFFICES ASSUME NEW key PROVE key \in keys <=> Held(total, key) > Held(pool, key)
      OBVIOUS
    <3>1. key \notin DOMAIN total => Held(total, key) = 0
      BY DEF Held
    <3>2. key \in DOMAIN total => Held(total, key) = total[key]
      BY DEF Held
    <3> QED
      BY <2>1, <3>1, <3>2
  <2>3. \A key : key \in ShortKeys(pool) <=> Demand(AllRows, key, "oracle") > Held(pool, key)
    <3> SUFFICES ASSUME NEW key PROVE key \in ShortKeys(pool) <=> Demand(AllRows, key, "oracle") > Held(pool, key)
      OBVIOUS
    <3>1. key \notin DOMAIN OwnedPool(AllRows, "oracle") => Demand(AllRows, key, "oracle") = 0
      BY DEF Held, Demand
    <3> QED
      BY <2>1, <3>1 DEF ShortKeys
  <2>4. \A key \in keys : total[key] = Held(total, key)
    BY DEF Held
  <2> HIDE DEF keys
  <2>5. \A key : key \in keys <=> key \in ShortKeys(pool)
    BY <1>7, <2>2, <2>3
  <2> QED
    BY <1>7, <2>4, <2>5
<1>9. ASSUME NEW key \in keys PROVE candidate(key) = Told(pool, key, Representative(lists, key))
  <2>1. unlocking(key) = {id \in Lists : DOMAIN ShortPerList(pool, "oracle")[id] = {key}}
    BY <1>2, <1>6
  <2>2. gains(key) = GainsOf(pool, key)
    <3>1. shortOf(key) = {i \in Lists : key \in DOMAIN ShortPerList(pool, "oracle")[i]}
      BY <1>2, <1>6
    <3>2. \A id \in Lists : GainOfKey(required[id], short[id], key)
                                = <<ShortPerList(pool, "oracle")[id][key], TotalQuantity(RequiredCards(lists[id]))>>
      BY <1>5, <1>6 DEF GainOfKey
    <3> HIDE DEF shortOf
    <3> QED
      BY <3>1, <3>2 DEF GainsOf
  <2>3. total[key] = Demand(AllRows, key, "oracle")
    BY <1>8
  <2> HIDE DEF unlocking, gains
  <2> QED
    BY <2>1, <2>2, <2>3, Zenon DEF Told, UnlocksOf
<1> HIDE DEF candidate, keys
<1>10. {candidate(key) : key \in keys} = {Told(pool, key, Representative(lists, key)) : key \in ShortKeys(pool)}
  BY <1>8, <1>9
<1> QED
  BY <1>1, <1>10

\* A card a key is missing, as the engine finds it
CardOf(pool, key) ==
    LET pooled == CompareLines(pool, AllRows, "oracle").missing
    IN pooled[SelectInSeq(pooled, LAMBDA line : CandidateKey(line.card, "oracle") = key)].card

(* The candidates of the engine.                                           *)
LEMMA EngineCandidates ==
    ASSUME TypeOK, NEW pool, pool = OwnedPool(owned, "oracle"), IsPool(pool)
    PROVE  /\ ComputeLeverage(owned, lists, Ids, "oracle")
                  = {Told(pool, key, CardOf(pool, key)) : key \in ShortKeys(pool)}
           /\ \A key \in ShortKeys(pool) : OracleKey(CardOf(pool, key)) = key
<1> DEFINE baseline == [id \in ToSet(Ids) |-> ComparePool(pool, RequiredCards(lists[id]), "oracle")]
           pooled == ComparePool(pool, RequiredCardsOf(lists, Ids), "oracle").missing
           aggregate == ShortByKey(pooled, "oracle")
           short == [id \in ToSet(Ids) |-> ShortByKey(baseline[id].missing, "oracle")]
           first(key) == SelectInSeq(pooled, LAMBDA line : CandidateKey(line.card, "oracle") = key)
           gains(key) == [id \in {i \in ToSet(Ids) : key \in DOMAIN short[i]} |->
                             <<short[id][key], baseline[id].total>>]
           candidate(key) == Candidate(pooled[first(key)].card, aggregate[key],
                                       Unlocks(key, baseline, short, "oracle"),
                                       Hundredths(SumOfFractions(gains(key))))
<1>1. ComputeLeverage(owned, lists, Ids, "oracle") = {candidate(key) : key \in DOMAIN aggregate}
  BY Zenon DEF ComputeLeverage
<1>2. Rows(ListRows) /\ ToSet(Ids) = Lists
  BY CatalogueAssumption, IdsKeep DEF Rows
<1>3. AllRows \in Seq(ListRows)
  BY AllRowsTyped
<1>4. pooled = CompareLines(pool, AllRows, "oracle").missing
  BY DEF ComparePool, AllRows
<1>5. pooled \in Seq(MissingLines(ListRows))
  <2> HIDE DEF pooled
  <2> QED
    BY <1>2, <1>3, <1>4, LinesAddUp
<1>6. \A id \in Lists : baseline[id].total = TotalQuantity(RequiredCards(lists[id]))
                        /\ baseline[id].missing = CompareLines(pool, RequiredCards(lists[id]), "oracle").missing
  BY <1>2 DEF ComparePool
<1>7. short = ShortPerList(pool, "oracle")
  <2> HIDE DEF baseline
  <2> QED
    BY <1>2, <1>6 DEF ShortPerList
<1>8. \A key : first(key) = SelectInSeq(CompareLines(pool, AllRows, "oracle").missing,
                                        LAMBDA line : CandidateKey(line.card, "oracle") = key)
  BY <1>4, Zenon
<1>9. \A key : pooled[first(key)].card = CardOf(pool, key)
  BY <1>4, Zenon DEF CardOf
<1> HIDE DEF pooled
<1>10. KeysOf(aggregate, pooled, "oracle")
  BY <1>5, ShortKeysOfLines
<1>11. \A key : Held(aggregate, key) = IF Demand(AllRows, key, "oracle") > Held(pool, key)
                                       THEN Demand(AllRows, key, "oracle") - Held(pool, key) ELSE 0
  <2>1. \A key : Keyed(key, "oracle")
    BY OracleKeyed
  <2> QED
    BY <1>2, <1>3, <1>4, <2>1, ShortIsExact
<1>12. \A key : Demand(AllRows, key, "oracle") \in Nat /\ Held(pool, key) \in Nat
  BY <1>2, <1>3, PoolHolds DEF Demand, IsPool
<1> HIDE DEF aggregate, short, baseline
<1>13. DOMAIN aggregate = ShortKeys(pool)
  <2>1. \A key : key \in DOMAIN aggregate <=> Held(aggregate, key) > 0
    BY <1>10 DEF KeysOf
  <2>2. ASSUME NEW key PROVE Held(aggregate, key) > 0 <=> Demand(AllRows, key, "oracle") > Held(pool, key)
    BY <1>11, <1>12
  <2>3. ASSUME NEW key PROVE key \in ShortKeys(pool) <=> Demand(AllRows, key, "oracle") > Held(pool, key)
    <3>1. key \notin DOMAIN OwnedPool(AllRows, "oracle") => Demand(AllRows, key, "oracle") = 0
      BY DEF Held, Demand
    <3> QED
      BY <1>12, <3>1 DEF ShortKeys
  <2> QED
    BY <2>1, <2>2, <2>3
<1>14. ASSUME NEW key \in ShortKeys(pool) PROVE candidate(key) = Told(pool, key, CardOf(pool, key))
  <2>1. aggregate[key] = Demand(AllRows, key, "oracle") - Held(pool, key)
    <3>1. Held(aggregate, key) = aggregate[key]
      BY <1>13 DEF Held
    <3>2. Demand(AllRows, key, "oracle") > Held(pool, key)
      BY DEF ShortKeys
    <3> QED
      BY <1>11, <3>1, <3>2
  <2>2. Unlocks(key, baseline, short, "oracle") = UnlocksOf(pool, key)
    <3>1. DOMAIN short = Lists
      BY <1>7 DEF ShortPerList
    <3> QED
      BY <1>7, <3>1 DEF Unlocks, UnlocksOf
  <2>3. gains(key) = GainsOf(pool, key)
    BY <1>2, <1>6, <1>7 DEF GainsOf
  <2> HIDE DEF gains, first
  <2> QED
    BY <1>9, <2>1, <2>2, <2>3, Zenon DEF Told
<1>15. ASSUME NEW key \in ShortKeys(pool) PROVE OracleKey(CardOf(pool, key)) = key
  <2> DEFINE Test(line) == CandidateKey(line.card, "oracle") = key
             f == SelectInSeq(pooled, Test)
  <2>1. IsFirst(f, pooled, Test)
    <3> HIDE DEF Test
    <3> QED
      BY <1>5, SelectsFirst
  <2>2. PICK line \in ToSet(pooled) : CandidateKey(line.card, "oracle") = key
    BY <1>10, <1>13 DEF KeysOf
  <2>3. PICK i \in 1..Len(pooled) : pooled[i] = line
    BY <1>5, <2>2 DEF ToSet
  <2>4. Test(pooled[i])
    BY <2>2, <2>3
  <2>5. f # 0
    <3> HIDE DEF f, Test
    <3> QED
      BY <2>1, <2>3, <2>4 DEF IsFirst
  <2>6. Test(pooled[f])
    <3> HIDE DEF f, Test
    <3> QED
      BY <2>1, <2>5 DEF IsFirst
  <2>7. first(key) = f
    BY Zenon
  <2>8. CandidateKey(CardOf(pool, key), "oracle") = key
    BY <1>9, <2>6, <2>7
  <2> QED
    BY <2>8 DEF CandidateKey
<1> HIDE DEF candidate
<1>16. {candidate(key) : key \in DOMAIN aggregate} = {Told(pool, key, CardOf(pool, key)) : key \in ShortKeys(pool)}
  BY <1>13, <1>14
<1> QED
  BY <1>1, <1>15, <1>16

-----------------------------------------------------------------------------
(* The row that stands for a key                                           *)

LEMMA GreatestIsOne ==
    ASSUME NEW S, IsFiniteSet(S), S # {}, \A x \in S : Collation[x] \in Int
    PROVE  Greatest(S) \in S
<1> DEFINE P(T) == T = {} \/ \E x \in T : \A y \in T : Collation[y] <= Collation[x]
<1>1. P({})
  OBVIOUS
<1>2. ASSUME NEW T \in SUBSET S, T # {}, \A x \in T : P(T \ {x}) PROVE P(T)
  <2>1. PICK x \in T : TRUE
    BY <1>2
  <2>2. CASE T \ {x} = {}
    <3>1. T = {x} /\ Collation[x] \in Int
      BY <2>2
    <3> QED
      BY <3>1
  <2>3. CASE T \ {x} # {}
    <3>1. PICK z \in T \ {x} : \A y \in T \ {x} : Collation[y] <= Collation[z]
      BY <1>2, <2>3
    <3>2. Collation[x] \in Int /\ Collation[z] \in Int /\ \A y \in T : Collation[y] \in Int
      OBVIOUS
    <3>3. CASE Collation[x] <= Collation[z]
      <4>1. \A y \in T : Collation[y] <= Collation[z]
        BY <3>1, <3>3
      <4> QED
        BY <4>1
    <3>4. CASE ~(Collation[x] <= Collation[z])
      <4>1. ASSUME NEW y \in T PROVE Collation[y] <= Collation[x]
        <5>1. y = x \/ Collation[y] <= Collation[z]
          BY <3>1
        <5>2. Collation[y] \in Int
          BY <3>2
        <5> QED
          BY <3>2, <3>4, <5>1, <5>2
      <4> QED
        BY <4>1
    <3> QED
      BY <3>3, <3>4
  <2> QED
    BY <2>2, <2>3
<1>3. Growing(P, S)
  BY <1>1, <1>2, Zenon DEF Growing
<1>4. OfSubsets(P, S)
  BY <1>3, SubsetInduction
<1>5. P(S)
  BY <1>4, Zenon DEF OfSubsets
<1> QED
  BY <1>5 DEF Greatest

LEMMA ImageFinite ==
    ASSUME NEW S, IsFiniteSet(S), NEW f
    PROVE  IsFiniteSet({f[x] : x \in S})
<1> DEFINE g == [x \in S |-> f[x]]
           T == {f[x] : x \in S}
<1>1. g \in Surjection(S, T)
  <2>1. g \in [S -> T]
    OBVIOUS
  <2>2. \A t \in T : \E x \in S : g[x] = t
    OBVIOUS
  <2> HIDE DEF g, T
  <2> QED
    BY <2>1, <2>2 DEF Surjection
<1> HIDE DEF g, T
<1>2. IsFiniteSet(T)
  BY <1>1, FS_Surjection
<1> QED
  BY <1>2 DEF T

LEMMA ToSetFinite ==
    ASSUME NEW T, NEW s \in Seq(T)
    PROVE  IsFiniteSet(ToSet(s)) /\ ToSet(s) \subseteq T
<1>1. DOMAIN s = 1..Len(s) /\ Len(s) \in Nat
  OBVIOUS
<1>2. IsFiniteSet(1..Len(s))
  BY <1>1, FS_Interval
<1>3. IsFiniteSet({s[i] : i \in 1..Len(s)})
  BY <1>2, ImageFinite
<1>4. ToSet(s) = {s[i] : i \in 1..Len(s)}
  BY <1>1 DEF ToSet
<1>5. ToSet(s) \subseteq T
  BY <1>1 DEF ToSet
<1> QED
  BY <1>3, <1>4, <1>5

LEMMA RepresentativeHasKey ==
    ASSUME TypeOK, NEW key, key \in {OracleKey(row) : row \in ToSet(AllRows)}
    PROVE  OracleKey(Representative(lists, key)) = key
<1> DEFINE rows == {row \in UNION {ToSet(RequiredCards(lists[id])) : id \in DOMAIN lists} : OracleKey(row) = key}
           names == {row.name : row \in rows}
           some == CHOOSE row \in rows : TRUE
           name == Greatest(names)
           rep == Representative(lists, key)
<1>1. AllRows \in Seq(ListRows) /\ ToSet(AllRows) = UNION {ToSet(RequiredCards(lists[id])) : id \in DOMAIN lists}
  <2>1. DOMAIN lists = Lists
    BY DEF TypeOK
  <2> QED
    BY <2>1, AllRowsTyped
<1>2. rows = {row \in ToSet(AllRows) : OracleKey(row) = key}
  BY <1>1
<1>3. rep.oracle = some.oracle /\ rep.name = name
  <2> DEFINE printing == Greatest({row.printing : row \in rows} \ {None})
  <2>1. rep = [name |-> name, oracle |-> some.oracle, printing |-> printing]
    BY Zenon DEF Representative
  <2> HIDE DEF rep, name, some, printing
  <2> QED
    BY <2>1
<1>4. IsFiniteSet(rows) /\ rows \subseteq ListRows
  <2>1. IsFiniteSet(ToSet(AllRows)) /\ ToSet(AllRows) \subseteq ListRows
    BY <1>1, ToSetFinite
  <2>2. rows \in SUBSET ToSet(AllRows)
    BY <1>2
  <2> HIDE DEF rows
  <2> QED
    BY <2>1, <2>2, FS_Subset
<1>5. rows # {}
  BY <1>2
<1>6. \A row \in rows : OracleKey(row) = key
  BY <1>2
<1> HIDE DEF rows, rep
<1>7. some \in rows
  BY <1>5
<1>8. name \in names
  <2> DEFINE nameOf == [row \in rows |-> row.name]
  <2>1. IsFiniteSet({nameOf[row] : row \in rows})
    <3> HIDE DEF nameOf
    <3> QED
      BY <1>4, ImageFinite
  <2>2. IsFiniteSet(names)
    <3>1. names = {nameOf[row] : row \in rows}
      OBVIOUS
    <3> QED
      BY <2>1, <3>1
  <2>3. names # {}
    BY <1>5
  <2>4. \A x \in names : Collation[x] \in Int
    BY <1>4, CatalogueAssumption
  <2> HIDE DEF names
  <2> QED
    BY <2>2, <2>3, <2>4, GreatestIsOne
<1> HIDE DEF some, name
<1>9. CASE some.oracle # None
  <2>1. OracleKey(some) = key
    BY <1>6, <1>7
  <2>2. OracleKey(rep) = key
    BY <1>3, <1>9, <2>1 DEF OracleKey
  <2> QED
    BY <2>2 DEF rep
<1>10. CASE some.oracle = None
  <2>1. OracleKey(some) = key
    BY <1>6, <1>7
  <2>2. PICK row \in rows : name = row.name
    BY <1>8
  <2>3. OracleKey(row) = key
    BY <1>6
  <2>4. key = <<"name", NormalName[some.name]>>
    BY <1>10, <2>1 DEF OracleKey
  <2>5. row.oracle = None /\ key = <<"name", NormalName[row.name]>>
    BY <2>3, <2>4 DEF OracleKey
  <2>6. OracleKey(rep) = key
    BY <1>3, <1>10, <2>2, <2>5 DEF OracleKey
  <2> QED
    BY <2>6 DEF rep
<1> QED
  BY <1>9, <1>10

(* Both name the same candidates, with the same figures.                   *)
LEMMA FiguresAgree ==
    ASSUME TypeOK, NEW pool, pool = OwnedPool(owned, "oracle"), IsPool(pool)
    PROVE  {Figures(c) : c \in ComputeLeverageAtScale(pool, lists)}
               = {Figures(c) : c \in ComputeLeverage(owned, lists, Ids, "oracle")}
<1> DEFINE scale(key) == Told(pool, key, Representative(lists, key))
           engine(key) == Told(pool, key, CardOf(pool, key))
           K == ShortKeys(pool)
<1>1. ComputeLeverageAtScale(pool, lists) = {scale(key) : key \in K}
  BY ScaleCandidates
<1>2. ComputeLeverage(owned, lists, Ids, "oracle") = {engine(key) : key \in K}
  BY EngineCandidates
<1>3. \A key \in K : OracleKey(CardOf(pool, key)) = key
  BY EngineCandidates
<1>4. \A key \in K : OracleKey(Representative(lists, key)) = key
  <2>1. AllRows \in Seq(ListRows) /\ Rows(ListRows)
    BY AllRowsTyped, CatalogueAssumption DEF Rows
  <2>2. IsBagOf(OwnedPool(AllRows, "oracle"), AllRows)
    BY <2>1, PoolIsBag
  <2>3. \A key \in K : key \in {OracleKey(row) : row \in ToSet(AllRows)}
    BY <2>2 DEF IsBagOf, ShortKeys
  <2> QED
    BY <2>3, RepresentativeHasKey
<1>5. ASSUME NEW key, NEW card, OracleKey(card) = key
      PROVE  Figures(Told(pool, key, card))
                 = <<key, Demand(AllRows, key, "oracle") - Held(pool, key), UnlocksOf(pool, key),
                     Hundredths(SumOfFractions(GainsOf(pool, key)))>>
  <2> DEFINE q == Demand(AllRows, key, "oracle") - Held(pool, key)
             u == UnlocksOf(pool, key)
             g == Hundredths(SumOfFractions(GainsOf(pool, key)))
             c == Told(pool, key, card)
  <2>1. c = Candidate(card, q, u, g)
    BY Zenon DEF Told
  <2> HIDE DEF q, u, g, c
  <2>2. c.oracle = card.oracle /\ c.name = card.name /\ c.quantity = q /\ c.unlocks = u /\ c.gain = g
    BY <2>1 DEF Candidate
  <2>3. OracleKey(c) = key
    BY <1>5, <2>2 DEF OracleKey
  <2>4. Figures(c) = <<key, q, u, g>>
    BY <2>2, <2>3 DEF Figures
  <2> QED
    BY <2>4 DEF q, u, g, c
<1>6. \A key \in K : Figures(scale(key)) = Figures(engine(key))
  <2> SUFFICES ASSUME NEW key \in K PROVE Figures(scale(key)) = Figures(engine(key))
    OBVIOUS
  <2>1. OracleKey(Representative(lists, key)) = key /\ OracleKey(CardOf(pool, key)) = key
    BY <1>3, <1>4
  <2> QED
    BY <1>5, <2>1
<1> HIDE DEF scale, engine, K
<1> QED
  BY <1>1, <1>2, <1>6

-----------------------------------------------------------------------------
(* Figures are numbers                                                     *)

LEMMA HundredthsTyped ==
    ASSUME NEW f, f[1] \in Nat, f[2] \in Nat
    PROVE  Hundredths(f) \in Int
<1>1. CASE f[2] = 0
  BY <1>1 DEF Hundredths
<1>2. CASE f[2] # 0
  <2> DEFINE a == 10000 * f[1]
             b == f[2]
             up == 2 * (a % b) > b \/ (2 * (a % b) = b /\ (a \div b) % 2 = 1)
  <2>1. a \in Int /\ b \in Nat \ {0}
    BY <1>2
  <2>2. Hundredths(f) = IF up THEN (a \div b) + 1 ELSE a \div b
    BY <1>2 DEF Hundredths
  <2> HIDE DEF a, b, up
  <2>3. a \div b \in Int
    BY <2>1
  <2> QED
    BY <2>2, <2>3
<1> QED
  BY <1>1, <1>2

LEMMA FractionsTyped ==
    ASSUME NEW S, IsFiniteSet(S), NEW f, DOMAIN f = S, \A x \in S : f[x][1] \in Nat /\ f[x][2] \in Nat
    PROVE  SumOfFractions(f)[1] \in Nat /\ SumOfFractions(f)[2] \in Nat
<1> DEFINE add(x, sum) == <<sum[1] * x[2] + x[1] * sum[2], sum[2] * x[2]>>
           at(i) == f[i]
<1>1. SumOfFractions(f) = MapThenFoldSet(add, <<0, 1>>, at, LAMBDA T : CHOOSE x \in T : TRUE, DOMAIN f)
  BY Zenon DEF SumOfFractions, FoldFunction, FoldFunctionOnSet
<1>2. UnfoldsSet(add, <<0, 1>>, at, SumOfFractions(f), S)
  <2>1. SumOfFractions(f) = MapThenFoldSet(add, <<0, 1>>, at, LAMBDA T : CHOOSE x \in T : TRUE, S)
    BY <1>1, Zenon
  <2> QED
    BY <2>1, FoldSetDef
<1>3. PICK iter : /\ SumOfFractions(f) = iter[S]
                  /\ iter[{}] = <<0, 1>>
                  /\ \A T \in SUBSET S : T # {} => \E x \in T : iter[T] = add(f[x], iter[T \ {x}])
  BY <1>2, Zenon DEF UnfoldsSet
<1> DEFINE P(T) == iter[T][1] \in Nat /\ iter[T][2] \in Nat
<1>4. P({})
  BY <1>3
<1>5. ASSUME NEW T \in SUBSET S, T # {}, \A x \in T : P(T \ {x}) PROVE P(T)
  <2>1. PICK x \in T : iter[T] = add(f[x], iter[T \ {x}])
    BY <1>3, <1>5
  <2> DEFINE a == f[x][1]
             b == f[x][2]
             c == iter[T \ {x}][1]
             d == iter[T \ {x}][2]
  <2>2. a \in Nat /\ b \in Nat
    OBVIOUS
  <2>3. c \in Nat /\ d \in Nat
    BY <1>5
  <2>4. iter[T] = <<c * b + a * d, d * b>>
    BY <2>1
  <2> HIDE DEF a, b, c, d
  <2>5. \A m, n \in Nat : m * n \in Nat
    OBVIOUS
  <2>6. c * b \in Nat /\ a * d \in Nat /\ d * b \in Nat
    BY <2>2, <2>3, <2>5
  <2>7. c * b + a * d \in Nat
    BY <2>6
  <2> QED
    BY <2>4, <2>6, <2>7
<1>6. Growing(P, S)
  BY <1>4, <1>5, Zenon DEF Growing
<1>7. OfSubsets(P, S)
  BY <1>6, SubsetInduction
<1>8. P(S)
  BY <1>7, Zenon DEF OfSubsets
<1> QED
  BY <1>3, <1>8

\* What is told of a candidate can be compared
Comparable(c) == c.unlocks \in Nat /\ c.gain \in Int

LEMMA BetterOrders ==
    ASSUME NEW S, \A c \in S : Comparable(c)
    PROVE  Orders(Better, S)
<1>1. ASSUME NEW x \in S, NEW y \in S, Better(x, y) PROVE ~Better(y, x)
  BY <1>1 DEF Comparable, Better
<1>2. ASSUME NEW x \in S, NEW y \in S, NEW z \in S, Better(x, z) PROVE Better(x, y) \/ Better(y, z)
  BY <1>2 DEF Comparable, Better
<1> QED
  BY <1>1, <1>2, Zenon DEF Orders

LEMMA ScaleComparable ==
    ASSUME TypeOK, NEW pool, IsPool(pool)
    PROVE  /\ IsFiniteSet(ComputeLeverageAtScale(pool, lists))
           /\ \A c \in ComputeLeverageAtScale(pool, lists) : Comparable(c)
<1> DEFINE K == ShortKeys(pool)
           told == [key \in K |-> Told(pool, key, Representative(lists, key))]
<1>1. ComputeLeverageAtScale(pool, lists) = {told[key] : key \in K}
  BY ScaleCandidates
<1>2. AllRows \in Seq(ListRows) /\ Rows(ListRows) /\ IsFiniteSet(Lists)
  BY AllRowsTyped, CatalogueAssumption DEF Rows
<1>3. IsFiniteSet(K)
  <2>1. IsFiniteSet(DOMAIN OwnedPool(AllRows, "oracle"))
    BY <1>2, PoolIsBag DEF IsBagOf
  <2>2. K \in SUBSET DOMAIN OwnedPool(AllRows, "oracle")
    BY DEF ShortKeys
  <2> HIDE DEF K
  <2> QED
    BY <2>1, <2>2, FS_Subset
<1>4. IsFiniteSet({told[key] : key \in K})
  <2> HIDE DEF told, K
  <2> QED
    BY <1>3, ImageFinite
<1>5. ASSUME NEW key \in K PROVE Comparable(told[key])
  <2> DEFINE short == ShortPerList(pool, "oracle")
             S == {i \in Lists : key \in DOMAIN short[i]}
             gains == GainsOf(pool, key)
             u == UnlocksOf(pool, key)
             g == Hundredths(SumOfFractions(gains))
             q == Demand(AllRows, key, "oracle") - Held(pool, key)
  <2>1. told[key] = Candidate(Representative(lists, key), q, u, g)
    BY Zenon DEF Told
  <2>2. u \in Nat
    <3> DEFINE D == {id \in Lists : DOMAIN short[id] = {key}}
    <3>1. D \in SUBSET Lists
      OBVIOUS
    <3>2. u = Cardinality(D)
      BY DEF UnlocksOf
    <3> HIDE DEF D, u
    <3>3. IsFiniteSet(D)
      BY <1>2, <3>1, FS_Subset
    <3> QED
      BY <3>2, <3>3, FS_CardinalityType
  <2>3. IsFiniteSet(S) /\ DOMAIN gains = S
    <3>1. S \in SUBSET Lists
      OBVIOUS
    <3>2. DOMAIN gains = S
      BY DEF GainsOf
    <3> HIDE DEF S, gains
    <3> QED
      BY <1>2, <3>1, <3>2, FS_Subset
  <2>4. ASSUME NEW id \in S PROVE gains[id][1] \in Nat /\ gains[id][2] \in Nat
    <3> DEFINE rows == RequiredCards(lists[id])
               m == CompareLines(pool, rows, "oracle").missing
    <3>1. rows \in Seq(ListRows)
      BY RequiredCardsKeep DEF TypeOK
    <3>2. gains[id] = <<short[id][key], TotalQuantity(rows)>>
      BY DEF GainsOf
    <3>3. short[id] = ShortByKey(m, "oracle") /\ key \in DOMAIN short[id]
      BY DEF ShortPerList
    <3>4. m \in Seq(MissingLines(ListRows))
      <4> HIDE DEF rows
      <4> QED
        BY <1>2, <3>1, LinesAddUp
    <3> HIDE DEF m
    <3>5. KeysOf(short[id], m, "oracle")
      BY <3>3, <3>4, ShortKeysOfLines
    <3>6. Held(short[id], key) \in Nat /\ Held(short[id], key) = short[id][key]
      BY <3>3, <3>5 DEF KeysOf, Held
    <3>7. TotalQuantity(rows) \in Nat
      <4> HIDE DEF rows
      <4> QED
        BY <1>2, <3>1, TotalTyped
    <3> HIDE DEF short, gains, rows, S
    <3> QED
      BY <3>2, <3>6, <3>7
  <2> HIDE DEF gains, S
  <2>5. SumOfFractions(gains)[1] \in Nat /\ SumOfFractions(gains)[2] \in Nat
    BY <2>3, <2>4, FractionsTyped
  <2>6. g \in Int
    BY <2>5, HundredthsTyped
  <2> HIDE DEF g, u, q, told
  <2>7. told[key].unlocks = u /\ told[key].gain = g
    BY <2>1 DEF Candidate
  <2> QED
    BY <2>2, <2>6, <2>7 DEF Comparable
<1> HIDE DEF told, K
<1> QED
  BY <1>1, <1>4, <1>5

-----------------------------------------------------------------------------
(* The candidates that are shown                                           *)

LEMMA ShownIsBest ==
    ASSUME TypeOK, NEW pool, IsPool(pool), NEW profile
    PROVE  ShowsBest({top.candidate : top \in ToSet(TopLeverage(pool, lists, observations, profile))},
                     ComputeLeverageAtScale(pool, lists))
<1> DEFINE all == ComputeLeverageAtScale(pool, lists)
           advised == {c \in all : NormalName[c.name] \notin BasicLands}
           ranked == Ranked(advised)
           first == SubSeq(ranked, 1, Min({LeverageSize, Len(ranked)}))
           tops == TopLeverage(pool, lists, observations, profile)
           shown == {top.candidate : top \in ToSet(tops)}
<1>1. tops = PriceLeverageCandidates(first, observations, profile)
  BY Zenon DEF TopLeverage
<1>2. \A cs : {top.candidate : top \in ToSet(PriceLeverageCandidates(cs, observations, profile))} = ToSet(cs)
  <2> SUFFICES ASSUME NEW cs
               PROVE  {top.candidate : top \in ToSet(PriceLeverageCandidates(cs, observations, profile))} = ToSet(cs)
    OBVIOUS
  <2> DEFINE batch == BatchPricesFor(observations, ToSet(cs), profile)
             told == [i \in DOMAIN cs |-> [candidate |-> cs[i], price |-> BatchPrice(batch, cs[i])]]
  <2>1. PriceLeverageCandidates(cs, observations, profile) = told
    BY Zenon DEF PriceLeverageCandidates
  <2>2. DOMAIN told = DOMAIN cs /\ \A i \in DOMAIN cs : told[i].candidate = cs[i]
    OBVIOUS
  <2> HIDE DEF told
  <2>3. {top.candidate : top \in ToSet(told)} = ToSet(cs)
    BY <2>2 DEF ToSet
  <2> QED
    BY <2>1, <2>3
<1>3. shown = FirstOf(advised, LeverageSize, Better)
  <2>1. shown = ToSet(first)
    BY <1>1, <1>2
  <2> QED
    BY <2>1, Zenon DEF FirstOf, Ranked
<1>4. IsFiniteSet(all) /\ \A c \in all : Comparable(c)
  BY ScaleComparable
<1> HIDE DEF all, shown
<1>5. IsFiniteSet(advised) /\ \A c \in advised : Comparable(c)
  <2>1. advised \in SUBSET all
    OBVIOUS
  <2> HIDE DEF advised
  <2> QED
    BY <1>4, <2>1, FS_Subset
<1> HIDE DEF advised
<1>6. Orders(Better, advised)
  BY <1>5, BetterOrders
<1>7. LeverageSize \in Nat
  BY CatalogueAssumption
<1>8. IsTop(FirstOf(advised, LeverageSize, Better), advised, LeverageSize, Better)
  BY <1>5, <1>6, <1>7, TopIsBest
<1>9. ShowsBest(shown, all)
  BY <1>3, <1>8, Zenon DEF IsTop, ShowsBest, advised
<1> QED
  BY <1>9 DEF shown, all

-----------------------------------------------------------------------------
(* Batch prices are prices                                                 *)

\* The quotes of the cards, each settled
SettledOf(fetched, cards, profile) == {Settled(fetched, card, profile) : card \in cards} \ {None}

LEMMA SettledByQuote ==
    ASSUME NEW fetched, NEW card, NEW T, NEW profile, profile.priority \in Seq(T)
    PROVE  Settled(fetched, card, profile) \in fetched \cup {None}
<1> DEFINE Test(provider) == \E o \in fetched : o.card = card /\ o.provider = provider
           first == SelectInSeq(profile.priority, Test)
<1>1. Settled(fetched, card, profile) =
          IF first = 0 THEN None
          ELSE CHOOSE o \in fetched : o.card = card /\ o.provider = profile.priority[first]
  BY Zenon DEF Settled
<1>2. IsFirst(first, profile.priority, Test)
  BY SelectsFirst
<1>3. first # 0 => Test(profile.priority[first])
  <2> HIDE DEF first, Test
  <2> QED
    BY <1>2 DEF IsFirst
<1> HIDE DEF first
<1>4. CASE first = 0
  BY <1>1, <1>4
<1>5. CASE first # 0
  <2>1. \E o \in fetched : o.card = card /\ o.provider = profile.priority[first]
    BY <1>3, <1>5
  <2> QED
    BY <1>1, <1>5, <2>1
<1> QED
  BY <1>4, <1>5

LEMMA CheapestSettled ==
    ASSUME NEW fetched, Priceable(fetched), NEW cards, NEW T, NEW profile, profile.priority \in Seq(T),
           Cheapest(SettledOf(fetched, cards, profile)) # None
    PROVE  Cheapest(SettledOf(fetched, cards, profile)).price \in Nat
<1> DEFINE quotes == SettledOf(fetched, cards, profile)
<1>1. quotes \subseteq fetched
  BY SettledByQuote DEF SettledOf
<1> HIDE DEF quotes
<1>2. Priceable(quotes)
  BY <1>1 DEF Priceable
<1>3. Cheapest(quotes) \in quotes
  <2>1. Cheapest(quotes) \in quotes \cup {None}
    BY <1>2, CheapestIsOne
  <2> QED
    BY <2>1 DEF quotes
<1> QED
  BY <1>2, <1>3 DEF quotes, Priceable

LEMMA BatchPriced ==
    ASSUME NEW quotes, Priceable(quotes), NEW cards, NEW T, NEW profile, profile.priority \in Seq(T), NEW card
    PROVE  BatchPrice(BatchPricesFor(quotes, cards, profile), card) \in Nat \cup {None}
<1> DEFINE oracles == {c.oracle : c \in cards} \ {None}
           printings == {c.printing : c \in {d \in cards : d.oracle = None}} \ {None}
           fetched == {o \in quotes : /\ o.market = profile.market
                                      /\ OracleOf[o.card] \in oracles \/ o.card \in printings}
           cheapest(some) == Cheapest({Settled(fetched, c, profile) : c \in some} \ {None})
           priced(oracle) == {o.card : o \in {p \in fetched : OracleOf[p.card] = oracle}}
           byOracle == [k \in {x \in oracles : cheapest(priced(x)) # None} |-> cheapest(priced(k)).price]
           byPrinting == [k \in {x \in printings : cheapest({x}) # None} |-> cheapest({k}).price]
           batch == BatchPricesFor(quotes, cards, profile)
<1>1. batch = [oracle |-> byOracle, printing |-> byPrinting]
  BY Zenon DEF BatchPricesFor, BatchCheapestPrices
<1>2. Priceable(fetched)
  BY DEF Priceable
<1>3. \A some : cheapest(some) # None => cheapest(some).price \in Nat
  <2>1. \A some : cheapest(some) = Cheapest(SettledOf(fetched, some, profile))
    BY Zenon DEF SettledOf
  <2> HIDE DEF fetched, cheapest
  <2> QED
    BY <1>2, <2>1, CheapestSettled
<1> HIDE DEF cheapest, priced, oracles, printings
<1>4. \A k \in DOMAIN byOracle : byOracle[k] \in Nat
  BY <1>3
<1>5. \A k \in DOMAIN byPrinting : byPrinting[k] \in Nat
  BY <1>3
<1> HIDE DEF byOracle, byPrinting, batch
<1>6. batch.oracle = byOracle /\ batch.printing = byPrinting
  BY <1>1
<1>7. BatchPrice(batch, card) \in Nat \cup {None}
  BY <1>4, <1>5, <1>6 DEF BatchPrice
<1> QED
  BY <1>7 DEF batch

LEMMA CostsTyped ==
    ASSUME TypeOK, NEW pool, IsPool(pool), NEW profile \in Profiles,
           NEW cost, cost = ComputeListMissingCost(pool, lists, observations, profile)
    PROVE  DOMAIN cost \subseteq Lists /\ \A id \in DOMAIN cost : cost[id] \in Int
<1> DEFINE keys == UNION {DOMAIN RequiredByKey(lists[id]) : id \in DOMAIN lists}
           batch == BatchPricesFor(observations, {Representative(lists, key) : key \in keys}, profile)
           price == [key \in keys |-> BatchPrice(batch, Representative(lists, key))]
           short == [id \in DOMAIN lists |-> Shortfalls(pool, RequiredByKey(lists[id]))]
           terms(id) == [key \in DOMAIN short[id] |->
                            short[id][key] * IF price[key] = None THEN 0 ELSE price[key]]
           costed == {id \in DOMAIN lists : DOMAIN short[id] # {} /\ AllPriced(short[id], price)}
<1>1. cost = [id \in costed |-> SumFunction(terms(id))]
  BY Zenon DEF ComputeListMissingCost
<1>2. DOMAIN cost = costed /\ costed \subseteq Lists /\ DOMAIN lists = Lists
  BY <1>1 DEF TypeOK
<1>3. Rows(ListRows)
  BY CatalogueAssumption DEF Rows
<1>4. \A key \in keys : price[key] \in Nat \cup {None}
  <2>1. Priceable(observations)
    BY CatalogueAssumption DEF Priceable, TypeOK
  <2>2. profile.priority \in Seq(ToSet(profile.priority))
    BY CatalogueAssumption
  <2>3. \A card : BatchPrice(batch, card) \in Nat \cup {None}
    <3> HIDE DEF keys
    <3> QED
      BY <2>1, <2>2, BatchPriced
  <2> HIDE DEF batch, keys
  <2> QED
    BY <2>3
<1> HIDE DEF price, batch
<1>5. ASSUME NEW id \in Lists PROVE SumFunction(terms(id)) \in Int
  <2> DEFINE rows == RequiredCards(lists[id])
             B == RequiredByKey(lists[id])
             D == DOMAIN short[id]
             amount(key) == IF price[key] = None THEN 0 ELSE price[key]
  <2>1. lists[id] \in Seq(ListRows) /\ rows \in Seq(ListRows)
    BY RequiredCardsKeep DEF TypeOK
  <2>2. B = OwnedPool(rows, "oracle")
    BY <2>1, RequiredIsPool
  <2>3. IsBagOf(B, rows)
    <3> HIDE DEF rows, B
    <3> QED
      BY <1>3, <2>1, <2>2, PoolIsBag
  <2>4. DOMAIN B \subseteq keys
    BY <1>2
  <2> HIDE DEF B, rows, keys
  <2>5. short[id] = Shortfalls(pool, B)
    BY <1>2 DEF B
  <2> HIDE DEF short
  <2>6. D \subseteq DOMAIN B /\ \A key \in D : short[id][key] = B[key] - Held(pool, key)
    BY <2>5 DEF Shortfalls
  <2>7. IsFiniteSet(D)
    <3>1. IsFiniteSet(DOMAIN B) /\ D \in SUBSET DOMAIN B
      BY <2>3, <2>6 DEF IsBagOf
    <3> HIDE DEF D
    <3> QED
      BY <3>1, FS_Subset
  <2>8. \A key \in D : short[id][key] \in Int
    <3>1. \A key \in DOMAIN B : B[key] \in Int
      BY <2>3 DEF IsBagOf
    <3>2. \A key : Held(pool, key) \in Int
      BY DEF IsPool
    <3> HIDE DEF D
    <3> QED
      BY <2>6, <3>1, <3>2
  <2>9. \A key \in D : amount(key) \in Int
    BY <1>4, <2>4, <2>6
  <2>10. \A m, n \in Int : m * n \in Int
    OBVIOUS
  <2>11. terms(id) = [key \in D |-> short[id][key] * amount(key)]
    OBVIOUS
  <2> HIDE DEF terms, amount, D
  <2>12. terms(id) \in [D -> Int]
    BY <2>8, <2>9, <2>10, <2>11
  <2> QED
    BY <2>7, <2>12, SumTyped
<1> HIDE DEF terms, costed
<1> QED
  BY <1>1, <1>2, <1>5

-----------------------------------------------------------------------------
(* The lists that are exported                                             *)

LEMMA LeftOut ==
    ASSUME NEW Before(_, _), NEW S, IsFiniteSet(S), Orders(Before, S), NEW x \in S, x \notin FirstOf(S, SeriesLimit, Before)
    PROVE  NoWorse(x, S, SeriesLimit, Before)
<1> DEFINE top == FirstOf(S, SeriesLimit, Before)
<1>1. SeriesLimit \in Nat
  BY CatalogueAssumption
<1>2. IsTop(top, S, SeriesLimit, Before)
  BY <1>1, TopIsBest
<1>3. x \in S \ top
  OBVIOUS
<1> HIDE DEF top
<1> QED
  BY <1>1, <1>2, <1>3, OthersNoWorse

-----------------------------------------------------------------------------
(* The coverage of a list, and that of a precon deck of the same cards     *)

\* Coverage and buildability as the aggregates compute them
CoveredByKey(pool, B) ==
    [coverage |-> Hundredths(<<SumFunction(TakenByKey(pool, B)), SumFunction(B)>>),
     buildable |-> DOMAIN Shortfalls(pool, B) = {}]

LEMMA CoverageOfRows ==
    ASSUME NEW T, Rows(T), NEW pool, IsPool(pool), NEW s \in Seq(T), NEW r, r = ComparePool(pool, s, "oracle")
    PROVE  /\ CoveredByKey(pool, OwnedPool(s, "oracle")) = [coverage |-> r.coverage, buildable |-> r.buildable]
           /\ r.coverage \in Int /\ r.buildable \in BOOLEAN
<1> DEFINE end == CompareLines(pool, s, "oracle")
           B == OwnedPool(s, "oracle")
<1>1. /\ r.coverage = Hundredths(<<end.applied, TotalQuantity(s)>>)
      /\ r.buildable = (end.missing = <<>>)
  BY Zenon DEF ComparePool
<1>2. SumFunction(B) = TotalQuantity(s) /\ SumFunction(TakenByKey(pool, B)) = end.applied
  BY KeysAddUp
<1>3. DOMAIN Shortfalls(pool, B) = {} <=> end.missing = <<>>
  BY ShortfallsOfLines
<1>4. end.applied \in Nat /\ TotalQuantity(s) \in Nat
  BY LinesAddUp, TotalTyped
<1> HIDE DEF end, B
<1>5. Hundredths(<<end.applied, TotalQuantity(s)>>) \in Int
  BY <1>4, HundredthsTyped
<1>6. CoveredByKey(pool, B) = [coverage |-> Hundredths(<<end.applied, TotalQuantity(s)>>),
                               buildable |-> end.missing = <<>>]
  BY <1>2, <1>3 DEF CoveredByKey
<1> QED
  BY <1>1, <1>5, <1>6 DEF B

LEMMA BuiltAgrees ==
    ASSUME TypeOK, NEW pool, pool = OwnedPool(owned, "oracle"), IsPool(pool),
           NEW built, built = ComputeListBuildability(pool, lists)
    PROVE  /\ DOMAIN built = Lists
           /\ \A id \in Lists : LET result == RunListComparison(owned, lists, id, "oracle")
                                IN /\ built[id] = [coverage |-> result.coverage, buildable |-> result.buildable]
                                   /\ result.coverage \in Int /\ result.buildable \in BOOLEAN
<1>1. built = [id \in DOMAIN lists |-> CoveredByKey(pool, RequiredByKey(lists[id]))]
  BY Zenon DEF ComputeListBuildability, CoveredByKey, TakenByKey
<1>2. DOMAIN lists = Lists
  BY DEF TypeOK
<1>3. ASSUME NEW id \in Lists
      PROVE  LET result == RunListComparison(owned, lists, id, "oracle")
             IN /\ built[id] = [coverage |-> result.coverage, buildable |-> result.buildable]
                /\ result.coverage \in Int /\ result.buildable \in BOOLEAN
  <2> DEFINE rows == RequiredCards(lists[id])
             result == RunListComparison(owned, lists, id, "oracle")
  <2>1. Rows(ListRows) /\ lists[id] \in Seq(ListRows) /\ rows \in Seq(ListRows)
    BY CatalogueAssumption, RequiredCardsKeep DEF Rows, TypeOK
  <2>2. RequiredByKey(lists[id]) = OwnedPool(rows, "oracle")
    BY <2>1, RequiredIsPool
  <2>3. result = ComparePool(pool, rows, "oracle")
    BY Zenon DEF RunListComparison, Compare
  <2>4. built[id] = CoveredByKey(pool, OwnedPool(rows, "oracle"))
    BY <1>1, <1>2, <2>2
  <2> HIDE DEF rows, result
  <2>5. /\ CoveredByKey(pool, OwnedPool(rows, "oracle")) = [coverage |-> result.coverage, buildable |-> result.buildable]
        /\ result.coverage \in Int /\ result.buildable \in BOOLEAN
    BY <2>1, <2>3, CoverageOfRows
  <2> QED
    BY <2>4, <2>5 DEF result
<1> QED
  BY <1>1, <1>2, <1>3

\* A sequence of what a function makes of each element
Mapped(s, f) == [i \in DOMAIN s |-> f[s[i]]]

LEMMA MappedSteps ==
    ASSUME NEW T, NEW U, NEW f \in [T -> U]
    PROVE  /\ Mapped(<<>>, f) = <<>>
           /\ \A s \in Seq(T) : Mapped(s, f) \in Seq(U)
           /\ \A s \in Seq(T), x \in T : Mapped(Append(s, x), f) = Append(Mapped(s, f), f[x])
<1>1. Mapped(<<>>, f) = <<>>
  BY DEF Mapped
<1>2. ASSUME NEW s \in Seq(T) PROVE Mapped(s, f) \in Seq(U) /\ Mapped(s, f) = [i \in 1..Len(s) |-> f[s[i]]]
  <2>1. Len(s) \in Nat /\ DOMAIN s = 1..Len(s) /\ \A i \in 1..Len(s) : s[i] \in T
    OBVIOUS
  <2>2. Mapped(s, f) = [i \in 1..Len(s) |-> f[s[i]]]
    BY <2>1 DEF Mapped
  <2>3. Mapped(s, f) \in [1..Len(s) -> U]
    BY <2>1, <2>2
  <2> QED
    BY <2>1, <2>2, <2>3
<1>3. ASSUME NEW s \in Seq(T), NEW x \in T PROVE Mapped(Append(s, x), f) = Append(Mapped(s, f), f[x])
  <2> DEFINE more == Append(s, x)
             n == Len(s)
             m == Mapped(s, f)
             y == f[x]
  <2>1. more \in Seq(T) /\ Len(more) = n + 1 /\ more[n + 1] = x /\ n \in Nat /\ \A i \in 1..n : more[i] = s[i]
    OBVIOUS
  <2>2. m \in Seq(U) /\ m = [i \in 1..n |-> f[s[i]]] /\ y \in U
    BY <1>2
  <2>3. m \in Seq(U) /\ Len(m) = n
    BY <2>1, <2>2
  <2> HIDE DEF more
  <2>4. Mapped(more, f) = [i \in 1..(n + 1) |-> f[more[i]]]
    BY <1>2, <2>1
  <2> HIDE DEF m, y, n
  <2>5. Append(m, y) \in Seq(U) /\ Len(Append(m, y)) = n + 1 /\ Append(m, y)[n + 1] = y
        /\ \A i \in 1..n : Append(m, y)[i] = m[i]
    <3>1. y \in U
      BY <2>2
    <3> QED
      BY <2>3, <3>1, AppendProperties
  <2> DEFINE u == Append(m, y)
             v == Mapped(more, f)
  <2>6. \A i \in 1..(n + 1) : u[i] = f[more[i]]
    BY <2>1, <2>2, <2>5 DEF y
  <2> HIDE DEF u
  <2>7. u \in [1..(n + 1) -> U]
    <3>1. u \in Seq(U) /\ Len(u) = n + 1
      BY <2>5 DEF u
    <3> QED
      BY <3>1
  <2>8. v = u
    <3> HIDE DEF v
    <3> QED
      BY <2>4, <2>6, <2>7 DEF v
  <2> QED
    BY <2>8 DEF u, v, more, m, y
<1> QED
  BY <1>1, <1>2, <1>3

\* The rows without their printings, as the precon decks list them
WithoutPrinting(s) == [i \in DOMAIN s |-> [s[i] EXCEPT !.printing = None]]

\* The rows of which nothing but the printing is left out
BareRows(T) == {[row EXCEPT !.printing = None] : row \in T}

LEMMA BareRowsCount ==
    ASSUME NEW row \in ListRows, NEW b, b = [row EXCEPT !.printing = None]
    PROVE  OracleKey(b) = OracleKey(row) /\ b.qty = row.qty
<1>1. DOMAIN row = {"name", "oracle", "printing", "qty", "section"}
  BY CatalogueAssumption
<1>2. b.oracle = row.oracle /\ b.name = row.name /\ b.qty = row.qty
  BY <1>1
<1> QED
  BY <1>2 DEF OracleKey

LEMMA BareRowsKeyed ==
    \A s \in Seq(ListRows) : /\ WithoutPrinting(s) \in Seq(BareRows(ListRows))
                             /\ OwnedPool(WithoutPrinting(s), "oracle") = OwnedPool(s, "oracle")
<1> DEFINE U == BareRows(ListRows)
           f == [row \in ListRows |-> [row EXCEPT !.printing = None]]
           P(s) == OwnedPool(Mapped(s, f), "oracle") = OwnedPool(s, "oracle")
<1>1. f \in [ListRows -> U]
  BY DEF BareRows
<1>2. /\ Mapped(<<>>, f) = <<>>
      /\ \A s \in Seq(ListRows) : Mapped(s, f) \in Seq(U)
      /\ \A s \in Seq(ListRows), x \in ListRows : Mapped(Append(s, x), f) = Append(Mapped(s, f), f[x])
  <2> HIDE DEF f, U
  <2> QED
    BY <1>1, MappedSteps
<1>3. ASSUME NEW s \in Seq(ListRows) PROVE WithoutPrinting(s) = Mapped(s, f)
  <2>1. \A i \in DOMAIN s : f[s[i]] = [s[i] EXCEPT !.printing = None]
    OBVIOUS
  <2> HIDE DEF f
  <2> QED
    BY <2>1 DEF WithoutPrinting, Mapped
<1>4. \A row \in ListRows : OracleKey(f[row]) = OracleKey(row) /\ f[row].qty = row.qty /\ f[row] \in U
  BY <1>1, BareRowsCount
<1> HIDE DEF f, U
<1>5. P(<<>>)
  BY <1>2
<1>6. ASSUME NEW s \in Seq(ListRows), NEW row \in ListRows, P(s) PROVE P(Append(s, row))
  <2> DEFINE t == Mapped(s, f)
             b == f[row]
  <2>1. t \in Seq(U) /\ b \in U /\ Mapped(Append(s, row), f) = Append(t, b)
    BY <1>2, <1>4
  <2>2. OwnedPool(Append(s, row), "oracle") = OwnedPool(s, "oracle") (+) Copies(OracleKey(row), row.qty)
    BY OwnedPoolSteps DEF HasKey, Key
  <2>3. OwnedPool(t, "oracle") = OwnedPool(s, "oracle") /\ OracleKey(b) = OracleKey(row) /\ b.qty = row.qty
    BY <1>4, <1>6
  <2> HIDE DEF t, b
  <2>4. OwnedPool(Append(t, b), "oracle") = OwnedPool(t, "oracle") (+) Copies(OracleKey(b), b.qty)
    BY <2>1, OwnedPoolSteps DEF HasKey, Key
  <2> QED
    BY <2>1, <2>2, <2>3, <2>4
<1>7. Extending(P, ListRows)
  BY <1>5, <1>6, Zenon DEF Extending
<1>8. OfAll(P, ListRows)
  BY <1>7, SequenceInduction
<1>9. \A s \in Seq(ListRows) : OwnedPool(Mapped(s, f), "oracle") = OwnedPool(s, "oracle")
  BY <1>8 DEF OfAll
<1>10. \A s \in Seq(ListRows) : Mapped(s, f) \in Seq(U) /\ WithoutPrinting(s) = Mapped(s, f)
  BY <1>2, <1>3
<1>11. ASSUME NEW s \in Seq(ListRows)
       PROVE  WithoutPrinting(s) \in Seq(U) /\ OwnedPool(WithoutPrinting(s), "oracle") = OwnedPool(s, "oracle")
  BY <1>9, <1>10
<1> QED
  BY <1>11 DEF U

\* A precon deck of the required cards of a list, as it is listed
PreconEntry(id) ==
    LET result == Compare(owned, WithoutPrinting(RequiredCards(lists[id])), "oracle")
    IN [deck |-> id, coverage |-> result.coverage, buildable |-> result.buildable]

LEMMA PreconCovered ==
    ASSUME TypeOK, NEW pool, pool = OwnedPool(owned, "oracle"), IsPool(pool),
           NEW built, built = ComputeListBuildability(pool, lists), NEW id \in Lists
    PROVE  /\ PreconEntry(id).deck = id /\ PreconEntry(id).coverage = built[id].coverage
           /\ PreconEntry(id).coverage \in Int
<1> DEFINE rows == RequiredCards(lists[id])
           bare == WithoutPrinting(rows)
           result == RunListComparison(owned, lists, id, "oracle")
           deck == Compare(owned, bare, "oracle")
<1>1. Rows(ListRows) /\ rows \in Seq(ListRows)
  BY CatalogueAssumption, RequiredCardsKeep DEF Rows, TypeOK
<1>2. Rows(BareRows(ListRows))
  <2>1. \A row \in ListRows : [row EXCEPT !.printing = None].qty = row.qty
    BY BareRowsCount
  <2> QED
    BY <1>1, <2>1 DEF Rows, BareRows
<1>3. bare \in Seq(BareRows(ListRows)) /\ OwnedPool(bare, "oracle") = OwnedPool(rows, "oracle")
  BY <1>1, BareRowsKeyed
<1>4. deck = ComparePool(pool, bare, "oracle") /\ result = ComparePool(pool, rows, "oracle")
  BY Zenon DEF RunListComparison, Compare
<1>5. PreconEntry(id) = [deck |-> id, coverage |-> deck.coverage, buildable |-> deck.buildable]
  BY Zenon DEF PreconEntry
<1>6. built[id] = [coverage |-> result.coverage, buildable |-> result.buildable]
  BY BuiltAgrees
<1> HIDE DEF rows, bare, result, deck
<1>7. CoveredByKey(pool, OwnedPool(rows, "oracle")) = [coverage |-> result.coverage, buildable |-> result.buildable]
  BY <1>1, <1>4, CoverageOfRows
<1>8. CoveredByKey(pool, OwnedPool(bare, "oracle")) = [coverage |-> deck.coverage, buildable |-> deck.buildable]
      /\ deck.coverage \in Int
  BY <1>2, <1>3, <1>4, CoverageOfRows
<1>9. [coverage |-> deck.coverage, buildable |-> deck.buildable].coverage
          = [coverage |-> result.coverage, buildable |-> result.buildable].coverage
  BY <1>3, <1>7, <1>8
<1> QED
  BY <1>5, <1>6, <1>8, <1>9

LEMMA CoverageAgrees ==
    ASSUME TypeOK, NEW pool, pool = OwnedPool(owned, "oracle"), IsPool(pool)
    PROVE  SameCoverage(ComputeListBuildability(pool, lists),
                        ListPreconDecksWithCoverage(owned, [id \in Lists |-> RequiredCards(lists[id])]))
<1> DEFINE decks == [id \in Lists |-> RequiredCards(lists[id])]
           precons == ListPreconDecksWithCoverage(owned, decks)
           built == ComputeListBuildability(pool, lists)
           entries == {PreconEntry(id) : id \in Lists}
           More(d, e) == d.coverage > e.coverage
           n == Len(precons)
<1>1. precons = InOrder(SetToSeq(entries), More)
  <2> DEFINE entry(id) == LET result == Compare(owned, [i \in DOMAIN decks[id] |-> [decks[id][i] EXCEPT !.printing = None]], "oracle")
                          IN [deck |-> id, coverage |-> result.coverage, buildable |-> result.buildable]
  <2>1. precons = InOrder(SetToSeq({entry(id) : id \in DOMAIN decks}), More)
    BY Zenon DEF ListPreconDecksWithCoverage
  <2>2. \A id \in Lists : entry(id) = PreconEntry(id)
    BY DEF PreconEntry, WithoutPrinting
  <2>3. DOMAIN decks = Lists
    OBVIOUS
  <2> HIDE DEF entry, decks
  <2>4. {entry(id) : id \in DOMAIN decks} = entries
    BY <2>2, <2>3
  <2> QED
    BY <2>1, <2>4
<1>2. \A id \in Lists : /\ PreconEntry(id).deck = id /\ PreconEntry(id).coverage = built[id].coverage
                        /\ PreconEntry(id).coverage \in Int
  BY PreconCovered
<1>3. IsFiniteSet(entries)
  <2> DEFINE f == [id \in Lists |-> PreconEntry(id)]
  <2>1. IsFiniteSet({f[id] : id \in Lists})
    BY CatalogueAssumption, ImageFinite
  <2>2. {f[id] : id \in Lists} = entries
    OBVIOUS
  <2> QED
    BY <2>1, <2>2
<1>4. \A e \in entries : e.coverage \in Int
  BY <1>2
<1> HIDE DEF precons
<1>5. Orders(More, entries)
  <2> HIDE DEF entries
  <2>1. ASSUME NEW a \in entries, NEW b \in entries, More(a, b) PROVE ~More(b, a)
    BY <1>4, <2>1
  <2>2. ASSUME NEW a \in entries, NEW b \in entries, NEW c \in entries, More(a, c) PROVE More(a, b) \/ More(b, c)
    BY <1>4, <2>2
  <2> QED
    BY <2>1, <2>2, Zenon DEF Orders
<1>6. Sorts(entries, More)
  BY <1>5, InOrderSorts
<1>7. SetToSeq(entries) \in Seq(entries) /\ ToSet(SetToSeq(entries)) = entries
  BY <1>3, SetToSeqLists
<1> HIDE DEF entries
<1>8. precons \in Seq(entries) /\ ToSet(precons) = entries /\ Ordered(precons, More)
  BY <1>1, <1>6, <1>7, Zenon DEF Sorts
<1>9. n \in Nat /\ DOMAIN precons = 1..n /\ \A i \in 1..n : precons[i] \in entries
  <2>1. precons \in Seq(entries)
    BY <1>8
  <2> QED
    BY <2>1
<1>10. \A i, j \in 1..n : i < j => ~More(precons[j], precons[i])
  BY <1>8, Zenon DEF Ordered
<1>11. \A id \in Lists : \E i \in DOMAIN precons : precons[i].deck = id
  <2> SUFFICES ASSUME NEW id \in Lists PROVE \E i \in DOMAIN precons : precons[i].deck = id
    OBVIOUS
  <2>1. PreconEntry(id) \in ToSet(precons)
    BY <1>8 DEF entries
  <2>2. PICK i \in DOMAIN precons : precons[i] = PreconEntry(id)
    BY <2>1 DEF ToSet
  <2> QED
    BY <1>2, <2>2
<1>12. ASSUME NEW i \in DOMAIN precons
       PROVE  /\ built[precons[i].deck].coverage = precons[i].coverage
              /\ \A j \in 1..i : precons[j].coverage >= precons[i].coverage
  <2>1. PICK id \in Lists : precons[i] = PreconEntry(id)
    BY <1>9 DEF entries
  <2>2. built[precons[i].deck].coverage = precons[i].coverage
    BY <1>2, <2>1
  <2>3. ASSUME NEW j \in 1..i PROVE precons[j].coverage >= precons[i].coverage
    <3>1. j \in 1..n /\ i \in 1..n
      BY <1>9
    <3>2. precons[j].coverage \in Int /\ precons[i].coverage \in Int
      BY <1>4, <1>9, <3>1
    <3>3. CASE i = j
      BY <3>2, <3>3
    <3>4. CASE i # j
      <4>1. j < i
        BY <3>1, <3>4
      <4>2. ~More(precons[i], precons[j])
        BY <1>10, <3>1, <4>1
      <4> QED
        BY <3>2, <4>2
    <3> QED
      BY <3>3, <3>4
  <2> QED
    BY <2>2, <2>3
<1>13. \A id \in Lists : LET result == RunListComparison(owned, lists, id, "oracle")
                         IN built[id] = [coverage |-> result.coverage, buildable |-> result.buildable]
  BY BuiltAgrees
<1> HIDE DEF built
<1>14. SameCoverage(built, precons)
  BY <1>11, <1>12, <1>13, Zenon DEF SameCoverage
<1> QED
  BY <1>14 DEF built, precons, decks

-----------------------------------------------------------------------------
(* The dashboard and the exporter                                          *)

LEMMA ExportsTheTop ==
    ASSUME NEW summary
    PROVE  ExportedLists(summary) =
               FirstOf(DOMAIN summary.buildability, SeriesLimit,
                       LAMBDA i, j : summary.buildability[i].coverage > summary.buildability[j].coverage)
               \cup FirstOf(DOMAIN summary.missingCost, SeriesLimit,
                            LAMBDA i, j : summary.missingCost[i] < summary.missingCost[j])
BY Zenon DEF ExportedLists, Top, FirstOf

LEMMA NamesTheBest ==
    ASSUME NEW summary,
           DOMAIN summary.buildability = Lists, \A id \in Lists : summary.buildability[id].coverage \in Int,
           DOMAIN summary.missingCost \subseteq Lists,
           \A id \in DOMAIN summary.missingCost : summary.missingCost[id] \in Int
    PROVE  NamesBest(ExportedLists(summary), summary.buildability, summary.missingCost)
<1> DEFINE built == summary.buildability
           cost == summary.missingCost
           exported == ExportedLists(summary)
           More(i, j) == built[i].coverage > built[j].coverage
           Less(i, j) == cost[i] < cost[j]
<1>1. exported = FirstOf(Lists, SeriesLimit, More) \cup FirstOf(DOMAIN cost, SeriesLimit, Less)
  BY ExportsTheTop
<1>2. IsFiniteSet(Lists) /\ IsFiniteSet(DOMAIN cost)
  <2>1. IsFiniteSet(Lists) /\ DOMAIN cost \in SUBSET Lists
    BY CatalogueAssumption
  <2> QED
    BY <2>1, FS_Subset
<1> HIDE DEF exported
<1>3. Orders(More, Lists)
  <2>1. ASSUME NEW a \in Lists, NEW b \in Lists, More(a, b) PROVE ~More(b, a)
    BY <2>1
  <2>2. ASSUME NEW a \in Lists, NEW b \in Lists, NEW c \in Lists, More(a, c) PROVE More(a, b) \/ More(b, c)
    BY <2>2
  <2> QED
    BY <2>1, <2>2, Zenon DEF Orders
<1>4. Orders(Less, DOMAIN cost)
  <2>1. ASSUME NEW a \in DOMAIN cost, NEW b \in DOMAIN cost, Less(a, b) PROVE ~Less(b, a)
    BY <2>1
  <2>2. ASSUME NEW a \in DOMAIN cost, NEW b \in DOMAIN cost, NEW c \in DOMAIN cost, Less(a, c)
        PROVE  Less(a, b) \/ Less(b, c)
    BY <2>2
  <2> QED
    BY <2>1, <2>2, Zenon DEF Orders
<1>5. ASSUME NEW id \in Lists \ exported
      PROVE  Cardinality({l \in Lists \ {id} : built[l].coverage >= built[id].coverage}) >= SeriesLimit
  <2>1. id \in Lists /\ id \notin FirstOf(Lists, SeriesLimit, More)
    BY <1>1
  <2>2. NoWorse(id, Lists, SeriesLimit, More)
    BY <1>2, <1>3, <2>1, LeftOut
  <2>3. Cardinality({l \in Lists \ {id} : ~More(id, l)}) >= SeriesLimit
    BY <2>2, Zenon DEF NoWorse
  <2>4. {l \in Lists \ {id} : ~More(id, l)} = {l \in Lists \ {id} : built[l].coverage >= built[id].coverage}
    OBVIOUS
  <2> QED
    BY <2>3, <2>4
<1>6. ASSUME NEW id \in Lists \ exported, id \in DOMAIN cost
      PROVE  Cardinality({l \in DOMAIN cost \ {id} : cost[l] <= cost[id]}) >= SeriesLimit
  <2>1. id \notin FirstOf(DOMAIN cost, SeriesLimit, Less)
    BY <1>1
  <2>2. NoWorse(id, DOMAIN cost, SeriesLimit, Less)
    BY <1>2, <1>4, <1>6, <2>1, LeftOut
  <2>3. Cardinality({l \in DOMAIN cost \ {id} : ~Less(id, l)}) >= SeriesLimit
    BY <2>2, Zenon DEF NoWorse
  <2>4. {l \in DOMAIN cost \ {id} : ~Less(id, l)} = {l \in DOMAIN cost \ {id} : cost[l] <= cost[id]}
    BY <1>6
  <2> QED
    BY <2>3, <2>4
<1> QED
  BY <1>5, <1>6, Zenon DEF NamesBest, exported

(* The dashboard's aggregates say what the engine says row by row; a precon *)
(* deck of the same cards has the same coverage; and the candidates shown   *)
(* and the lists exported are the best ones.                                *)
THEOREM DashboardAgreement == Spec => []DashboardAgrees
<1>1. TypeOK => DashboardAgrees
  <2> SUFFICES ASSUME TypeOK PROVE DashboardAgrees
    OBVIOUS
  <2> DEFINE pool == OwnedPool(owned, "oracle")
             built == ComputeListBuildability(pool, lists)
  <2>1. IsPool(pool)
    <3>1. Rows(OwnedRows) /\ owned \in Seq(OwnedRows)
      BY CatalogueAssumption DEF Rows, TypeOK
    <3> QED
      BY <3>1, PoolHolds DEF IsPool
  <2>2. SameCoverage(built, ListPreconDecksWithCoverage(owned, [id \in Lists |-> RequiredCards(lists[id])]))
    BY <2>1, CoverageAgrees
  <2>3. {Figures(c) : c \in ComputeLeverageAtScale(pool, lists)}
            = {Figures(c) : c \in ComputeLeverage(owned, lists, Ids, "oracle")}
    BY <2>1, FiguresAgree
  <2>4. /\ DOMAIN built = Lists
        /\ \A id \in Lists : /\ built[id].buildable = RunListComparison(owned, lists, id, "oracle").buildable
                              /\ built[id].coverage \in Int
    <3>1. DOMAIN built = Lists /\ \A id \in Lists :
             LET result == RunListComparison(owned, lists, id, "oracle")
             IN /\ built[id] = [coverage |-> result.coverage, buildable |-> result.buildable]
                /\ result.coverage \in Int /\ result.buildable \in BOOLEAN
      BY <2>1, BuiltAgrees
    <3> HIDE DEF built
    <3> QED
      BY <3>1
  <2>5. ASSUME NEW profile \in Profiles, NEW summary, summary = DashboardSummary(owned, lists, observations, profile)
        PROVE  /\ summary.fullyBuildable
                       = Cardinality({id \in Lists : RunListComparison(owned, lists, id, "oracle").buildable})
               /\ ShowsBest({top.candidate : top \in ToSet(summary.topLeverage)}, ComputeLeverageAtScale(pool, lists))
               /\ NamesBest(ExportedLists(summary), summary.buildability, summary.missingCost)
    <3> DEFINE tops == TopLeverage(pool, lists, observations, profile)
               cost == ComputeListMissingCost(pool, lists, observations, profile)
    <3>1. /\ summary.buildability = built /\ summary.topLeverage = tops /\ summary.missingCost = cost
          /\ summary.fullyBuildable = Cardinality({id \in DOMAIN lists : built[id].buildable})
      BY <2>5, Zenon DEF DashboardSummary
    <3>2. DOMAIN cost \subseteq Lists /\ \A id \in DOMAIN cost : cost[id] \in Int
      BY <2>1, CostsTyped
    <3>3. ShowsBest({top.candidate : top \in ToSet(tops)}, ComputeLeverageAtScale(pool, lists))
      BY <2>1, ShownIsBest
    <3>4. DOMAIN lists = Lists
      BY DEF TypeOK
    <3> HIDE DEF built, cost, tops, pool
    <3>5. NamesBest(ExportedLists(summary), summary.buildability, summary.missingCost)
      BY <2>4, <3>1, <3>2, NamesTheBest
    <3>6. {id \in DOMAIN lists : built[id].buildable}
             = {id \in Lists : RunListComparison(owned, lists, id, "oracle").buildable}
      BY <2>4, <3>4
    <3> QED
      BY <3>1, <3>3, <3>5, <3>6
  <2> HIDE DEF built
  <2> QED
    BY <2>2, <2>3, <2>5, Zenon DEF DashboardAgrees, built
<1> QED
  BY <1>1, TypeCorrect, PTL

-----------------------------------------------------------------------------
(* One price for one card                                                  *)

PriceOf(quote) == IF quote = None THEN None ELSE quote.price

\* At most one quote per card, provider and market; and all of known printings
OneQuoteEach(quotes) == \A o, p \in quotes : SamePrice(o, p) => o = p
Known(quotes) == \A o \in quotes : o.card \in DOMAIN OracleOf

\* A card with a printing has an oracle id
Resolved(card) == card.oracle = None => card.printing = None

(* What settles a printing in the batch is what resolves it by itself.     *)
LEMMA SettledIsResolved ==
    ASSUME NEW quotes, OneQuoteEach(quotes), NEW T, NEW profile, profile.priority \in Seq(T), NEW card,
           NEW fetched, fetched \subseteq quotes, \A o \in fetched : o.market = profile.market,
           \A o \in quotes : o.card = card /\ o.market = profile.market => o \in fetched
    PROVE  Settled(fetched, card, profile) = ResolvePrice(quotes, card, profile)
<1> DEFINE from(provider) == {o \in quotes : /\ o.card = card
                                             /\ o.provider = provider
                                             /\ o.market = profile.market}
           Has(provider) == from(provider) # {}
           Quotes1(provider) == \E o \in fetched : o.card = card /\ o.provider = provider
           i == SelectInSeq(profile.priority, Has)
           j == SelectInSeq(profile.priority, Quotes1)
<1>1. ResolvePrice(quotes, card, profile) =
          IF i = 0 THEN None ELSE CHOOSE o \in from(profile.priority[i]) : TRUE
  BY Zenon DEF ResolvePrice
<1>2. Settled(fetched, card, profile) =
          IF j = 0 THEN None
          ELSE CHOOSE o \in fetched : o.card = card /\ o.provider = profile.priority[j]
  BY Zenon DEF Settled
<1>3. IsFirst(i, profile.priority, Has) /\ IsFirst(j, profile.priority, Quotes1)
  BY SelectsFirst
<1>4. \A provider : Has(provider) <=> Quotes1(provider)
  OBVIOUS
<1>5. Len(profile.priority) \in Nat
  OBVIOUS
<1>6. i = j /\ (i # 0 => Has(profile.priority[i]))
  <2> DEFINE n == Len(profile.priority)
  <2>1. IF i = 0 THEN \A k \in 1..n : ~Has(profile.priority[k])
        ELSE i \in 1..n /\ Has(profile.priority[i]) /\ \A k \in 1..(i - 1) : ~Has(profile.priority[k])
    BY <1>3, Zenon DEF IsFirst
  <2>2. IF j = 0 THEN \A k \in 1..n : ~Quotes1(profile.priority[k])
        ELSE j \in 1..n /\ Quotes1(profile.priority[j]) /\ \A k \in 1..(j - 1) : ~Quotes1(profile.priority[k])
    BY <1>3, Zenon DEF IsFirst
  <2> HIDE DEF i, j, n, Has, Quotes1
  <2>3. n \in Nat
    BY <1>5 DEF n
  <2>4. CASE i = 0
    <3>1. ~(j # 0)
      BY <1>4, <2>1, <2>2, <2>4
    <3> QED
      BY <2>4, <3>1
  <2>5. CASE i # 0
    <3>1. i \in 1..n /\ Has(profile.priority[i]) /\ \A k \in 1..(i - 1) : ~Has(profile.priority[k])
      BY <2>1, <2>5
    <3>2. j # 0
      BY <1>4, <2>2, <3>1
    <3>3. j \in 1..n /\ Has(profile.priority[j]) /\ \A k \in 1..(j - 1) : ~Has(profile.priority[k])
      BY <1>4, <2>2, <3>2
    <3>4. ~(i < j)
      <4> SUFFICES ASSUME i < j PROVE FALSE
        OBVIOUS
      <4>1. i \in 1..(j - 1)
        BY <2>3, <3>1, <3>3
      <4> QED
        BY <3>1, <3>3, <4>1
    <3>5. ~(j < i)
      <4> SUFFICES ASSUME j < i PROVE FALSE
        OBVIOUS
      <4>1. j \in 1..(i - 1)
        BY <2>3, <3>1, <3>3
      <4> QED
        BY <3>1, <3>3, <4>1
    <3> QED
      BY <2>3, <3>1, <3>3, <3>4, <3>5
  <2> QED
    BY <2>4, <2>5
<1> HIDE DEF i, j
<1>7. CASE i = 0
  BY <1>1, <1>2, <1>6, <1>7
<1>8. CASE i # 0
  <2> DEFINE provider == profile.priority[i]
             a == CHOOSE o \in from(provider) : TRUE
             b == CHOOSE o \in fetched : o.card = card /\ o.provider = provider
  <2>1. a \in from(provider)
    BY <1>6, <1>8
  <2>2. b \in fetched /\ b.card = card /\ b.provider = provider
    BY <1>4, <1>6, <1>8
  <2> HIDE DEF a, b
  <2>3. SamePrice(a, b) /\ a \in quotes /\ b \in quotes
    BY <2>1, <2>2 DEF SamePrice
  <2>4. a = b
    BY <2>3 DEF OneQuoteEach
  <2> QED
    BY <1>1, <1>2, <1>6, <1>8, <2>4 DEF a, b
<1> QED
  BY <1>7, <1>8

\* What the batch fetches
Fetched(quotes, oracles, printings, profile) ==
    {o \in quotes : /\ o.market = profile.market
                    /\ OracleOf[o.card] \in oracles \/ o.card \in printings}

CardsOf(fetched, oracle) == {o.card : o \in {p \in fetched : OracleOf[p.card] = oracle}}

LEMMA SettledPerOracle ==
    ASSUME NEW quotes, OneQuoteEach(quotes), Known(quotes), NEW T, NEW profile, profile.priority \in Seq(T),
           NEW oracles, NEW printings, NEW oracle \in oracles,
           NEW fetched, fetched = Fetched(quotes, oracles, printings, profile)
    PROVE  SettledOf(fetched, CardsOf(fetched, oracle), profile)
               = {ResolvePrice(quotes, printing, profile) : printing \in PrintingsOf(oracle)} \ {None}
<1>1. ASSUME NEW card \in PrintingsOf(oracle)
      PROVE  Settled(fetched, card, profile) = ResolvePrice(quotes, card, profile)
  <2>1. \A o \in quotes : o.card = card /\ o.market = profile.market => o \in fetched
    BY DEF PrintingsOf, Fetched
  <2>2. fetched \subseteq quotes /\ \A o \in fetched : o.market = profile.market
    BY DEF Fetched
  <2> QED
    BY <2>1, <2>2, SettledIsResolved
<1>2. CardsOf(fetched, oracle) \subseteq PrintingsOf(oracle)
  BY DEF CardsOf, Fetched, PrintingsOf, Known
<1>3. ASSUME NEW card \in PrintingsOf(oracle), Settled(fetched, card, profile) # None
      PROVE  card \in CardsOf(fetched, oracle)
  <2> DEFINE Test(provider) == \E o \in fetched : o.card = card /\ o.provider = provider
             first == SelectInSeq(profile.priority, Test)
  <2>1. first # 0
    BY <1>3, Zenon DEF Settled
  <2>2. IsFirst(first, profile.priority, Test)
    BY SelectsFirst
  <2>3. Test(profile.priority[first])
    <3> HIDE DEF first, Test
    <3> QED
      BY <2>1, <2>2 DEF IsFirst
  <2>4. \E o \in fetched : o.card = card
    BY <2>3
  <2> QED
    BY <2>4 DEF CardsOf, PrintingsOf
<1> DEFINE settled == SettledOf(fetched, CardsOf(fetched, oracle), profile)
           resolved == {ResolvePrice(quotes, printing, profile) : printing \in PrintingsOf(oracle)} \ {None}
<1>4. settled \subseteq resolved
  BY <1>1, <1>2 DEF SettledOf
<1>5. resolved \subseteq settled
  BY <1>1, <1>3 DEF SettledOf
<1> QED
  BY <1>4, <1>5

(* The batch gives a card the price that it has by itself.                 *)
LEMMA BatchPriceIsPrice ==
    ASSUME NEW quotes, OneQuoteEach(quotes), Known(quotes), NEW T, NEW profile, profile.priority \in Seq(T),
           NEW cards, \A c \in cards : Resolved(c), NEW card \in cards
    PROVE  BatchPrice(BatchPricesFor(quotes, cards, profile), card)
               = PriceOf(ResolvePriceForMissingCard(quotes, card, profile, "oracle"))
<1> DEFINE oracles == {c.oracle : c \in cards} \ {None}
           printings == {c.printing : c \in {d \in cards : d.oracle = None}} \ {None}
           fetched == Fetched(quotes, oracles, printings, profile)
           cheapest(some) == Cheapest(SettledOf(fetched, some, profile))
           byOracle == [k \in {x \in oracles : cheapest(CardsOf(fetched, x)) # None} |->
                            cheapest(CardsOf(fetched, k)).price]
           byPrinting == [k \in {x \in printings : cheapest({x}) # None} |-> cheapest({k}).price]
           batch == BatchPricesFor(quotes, cards, profile)
<1>1. batch = [oracle |-> byOracle, printing |-> byPrinting]
  BY Zenon DEF BatchPricesFor, BatchCheapestPrices, Fetched, CardsOf, SettledOf
<1>2. printings = {}
  BY DEF Resolved
<1>3. DOMAIN byPrinting = {}
  BY <1>2
<1>4. \A k \in oracles :
         cheapest(CardsOf(fetched, k)) = ResolveCheapestPriceForOracle(quotes, k, profile)
  <2> SUFFICES ASSUME NEW k \in oracles
               PROVE  cheapest(CardsOf(fetched, k)) = ResolveCheapestPriceForOracle(quotes, k, profile)
    OBVIOUS
  <2> HIDE DEF oracles, printings
  <2>1. SettledOf(fetched, CardsOf(fetched, k), profile)
            = {ResolvePrice(quotes, printing, profile) : printing \in PrintingsOf(k)} \ {None}
    BY SettledPerOracle
  <2> HIDE DEF fetched
  <2> QED
    BY <2>1, Zenon DEF ResolveCheapestPriceForOracle
<1> HIDE DEF cheapest, fetched, printings
<1>5. batch.oracle = byOracle /\ batch.printing = byPrinting
  <2> HIDE DEF batch, byOracle, byPrinting
  <2> QED
    BY <1>1
<1>6. CASE card.oracle = None
  <2>1. card.printing = None
    BY <1>6 DEF Resolved
  <2>2. card.oracle \notin DOMAIN byOracle
    BY <1>6
  <2> HIDE DEF batch, byOracle, byPrinting, oracles
  <2>3. BatchPrice(batch, card) = None
    BY <1>3, <1>5, <2>2 DEF BatchPrice
  <2>4. ResolvePriceForMissingCard(quotes, card, profile, "oracle") = None
    BY <1>6, <2>1 DEF ResolvePriceForMissingCard
  <2> QED
    BY <2>3, <2>4 DEF PriceOf, batch
<1>7. CASE card.oracle # None
  <2> DEFINE k == card.oracle
             quote == ResolveCheapestPriceForOracle(quotes, k, profile)
  <2>1. k \in oracles
    BY <1>7
  <2>2. ResolvePriceForMissingCard(quotes, card, profile, "oracle") = quote
    BY <1>7, Zenon DEF ResolvePriceForMissingCard
  <2>3. cheapest(CardsOf(fetched, k)) = quote
    BY <1>4, <2>1
  <2>4. k \in DOMAIN byOracle <=> quote # None
    BY <2>1, <2>3
  <2>5. quote # None => byOracle[k] = quote.price
    BY <2>1, <2>3
  <2> HIDE DEF batch, byOracle, byPrinting, quote, oracles
  <2>6. BatchPrice(batch, card) = IF quote = None THEN None ELSE quote.price
    BY <1>3, <1>5, <2>4, <2>5 DEF BatchPrice
  <2> QED
    BY <2>2, <2>6 DEF PriceOf, batch
<1> QED
  BY <1>6, <1>7

-----------------------------------------------------------------------------
(* The cost of the missing lines is that of the missing keys               *)

LEMMA CostOfSteps ==
    ASSUME NEW T
    PROVE  /\ CostOf(<<>>) = 0
           /\ \A s \in Seq(T), x \in T :
                CostOf(Append(s, x)) = IF IsPriced(x) THEN CostOf(s) + x.price * x.quantity ELSE CostOf(s)
<1> DEFINE op(n, line) == n + line.price * line.quantity
           cost(s) == FoldLeft(op, 0, s)
<1>1. \A s : CostOf(s) = cost(Where(s, IsPriced))
  BY Zenon DEF CostOf
<1>2. Filters(IsPriced, T) /\ Keeps(IsPriced, T)
  BY WhereSteps, WhereKeeps
<1>3. Steps(op, 0, T)
  BY FoldSteps
<1>4. CostOf(<<>>) = 0
  BY <1>1, <1>2, <1>3, Zenon DEF Filters, Steps
<1>5. ASSUME NEW s \in Seq(T), NEW x \in T
      PROVE  CostOf(Append(s, x)) = IF IsPriced(x) THEN CostOf(s) + x.price * x.quantity ELSE CostOf(s)
  <2>1. Where(s, IsPriced) \in Seq(T)
    BY <1>2, Zenon DEF Keeps
  <2>2. Where(Append(s, x), IsPriced) = IF IsPriced(x) THEN Append(Where(s, IsPriced), x) ELSE Where(s, IsPriced)
    BY <1>2, Zenon DEF Filters
  <2>3. cost(Append(Where(s, IsPriced), x)) = cost(Where(s, IsPriced)) + x.price * x.quantity
    BY <1>3, <2>1, Zenon DEF Steps
  <2> HIDE DEF cost
  <2> QED
    BY <1>1, <2>2, <2>3, Zenon
<1> QED
  BY <1>4, <1>5, Zenon

\* A missing line with its price
Offer(quotes, profile, line) ==
    [card |-> line.card, quantity |-> line.short,
     price |-> PriceOf(ResolvePriceForMissingCard(quotes, line.card, profile, "oracle"))]

LEMMA OffersMapped ==
    ASSUME NEW quotes, NEW profile, NEW T, NEW m \in Seq(T)
    PROVE  PriceMissingCards(quotes, m, profile, "oracle")
               = Mapped(m, [line \in T |-> Offer(quotes, profile, line)])
<1> DEFINE f == [line \in T |-> Offer(quotes, profile, line)]
<1>1. PriceMissingCards(quotes, m, profile, "oracle") = [i \in DOMAIN m |-> Offer(quotes, profile, m[i])]
  BY Zenon DEF PriceMissingCards, Offer, PriceOf
<1>2. \A i \in DOMAIN m : f[m[i]] = Offer(quotes, profile, m[i])
  OBVIOUS
<1> HIDE DEF f
<1>3. Mapped(m, f) = [i \in DOMAIN m |-> Offer(quotes, profile, m[i])]
  BY <1>2 DEF Mapped
<1> QED
  BY <1>1, <1>3 DEF f

CostOfKeys(bag, rate) == [k \in DOMAIN bag |-> bag[k] * rate[k]]

LEMMA CostByKey ==
    ASSUME NEW quotes, NEW profile, NEW T, NEW rate,
           \A row \in T : LET price == PriceOf(ResolvePriceForMissingCard(quotes, row, profile, "oracle"))
                          IN price # None /\ price \in Int /\ rate[OracleKey(row)] = price
    PROVE  \A m \in Seq(MissingLines(T)) :
               CostOf(PriceMissingCards(quotes, m, profile, "oracle"))
                   = SumFunction(CostOfKeys(ShortByKey(m, "oracle"), rate))
<1> DEFINE L == MissingLines(T)
           f == [line \in L |-> Offer(quotes, profile, line)]
           O == {Offer(quotes, profile, line) : line \in L}
           bag(m) == ShortByKey(m, "oracle")
           total(m) == SumFunction(CostOfKeys(bag(m), rate))
           P(m) == CostOf(Mapped(m, f)) = total(m)
<1>1. f \in [L -> O]
  OBVIOUS
<1>2. /\ Mapped(<<>>, f) = <<>>
      /\ \A m \in Seq(L) : Mapped(m, f) \in Seq(O)
      /\ \A m \in Seq(L), x \in L : Mapped(Append(m, x), f) = Append(Mapped(m, f), f[x])
  <2> HIDE DEF f, L, O
  <2> QED
    BY <1>1, MappedSteps
<1>3. ASSUME NEW m \in Seq(L) PROVE /\ IsFiniteSet(DOMAIN bag(m)) /\ CostOfKeys(bag(m), rate) \in [DOMAIN bag(m) -> Int]
                                    /\ \A k \in DOMAIN bag(m) : bag(m)[k] \in Nat /\ rate[k] \in Int
                                    /\ total(m) \in Int
  <2>1. KeysOf(bag(m), m, "oracle")
    BY ShortKeysOfLines
  <2> DEFINE B == bag(m)
             g == [line \in L |-> OracleKey(line.card)]
  <2>2. DOMAIN B = {OracleKey(line.card) : line \in ToSet(m)}
    BY <2>1 DEF KeysOf, CandidateKey
  <2>3. IsFiniteSet(ToSet(m)) /\ ToSet(m) \subseteq L
    <3> HIDE DEF L
    <3> QED
      BY ToSetFinite
  <2>4. {g[line] : line \in ToSet(m)} = DOMAIN B
    <3> HIDE DEF B
    <3> QED
      BY <2>2, <2>3
  <2>5. IsFiniteSet(DOMAIN B)
    <3>1. IsFiniteSet({g[line] : line \in ToSet(m)})
      <4> HIDE DEF g
      <4> QED
        BY <2>3, ImageFinite
    <3> QED
      BY <2>4, <3>1
  <2>6. \A k \in DOMAIN B : B[k] \in Nat
    <3>1. \A k : Held(B, k) \in Nat
      BY <2>1 DEF KeysOf
    <3> HIDE DEF B
    <3> QED
      BY <3>1 DEF Held
  <2>7. \A k \in DOMAIN B : rate[k] \in Int
    <3> SUFFICES ASSUME NEW k \in DOMAIN B PROVE rate[k] \in Int
      OBVIOUS
    <3>1. PICK line \in ToSet(m) : k = OracleKey(line.card)
      BY <2>2
    <3>2. line.card \in T
      BY <2>3 DEF MissingLines
    <3> QED
      BY <3>1, <3>2
  <2> HIDE DEF B
  <2>8. \A a, b \in Int : a * b \in Int
    OBVIOUS
  <2>9. CostOfKeys(B, rate) \in [DOMAIN B -> Int]
    BY <2>6, <2>7, <2>8 DEF CostOfKeys
  <2>10. SumFunction(CostOfKeys(B, rate)) \in Int
    BY <2>5, <2>9, SumTyped
  <2> QED
    BY <2>5, <2>6, <2>7, <2>9, <2>10 DEF B
<1>4. P(<<>>)
  <2>1. bag(<<>>) = EmptyBag
    BY ShortByKeySteps
  <2>2. DOMAIN CostOfKeys(EmptyBag, rate) = {}
    BY DEF CostOfKeys, EmptyBag, SetToBag
  <2>3. total(<<>>) = 0
    BY <2>1, <2>2, SumEmpty
  <2>4. CostOf(<<>>) = 0
    BY CostOfSteps
  <2> QED
    BY <1>2, <2>3, <2>4
<1>5. ASSUME NEW m \in Seq(L), NEW x \in L, P(m) PROVE P(Append(m, x))
  <2> DEFINE more == Append(m, x)
             key == OracleKey(x.card)
             price == PriceOf(ResolvePriceForMissingCard(quotes, x.card, profile, "oracle"))
             B == bag(m)
             C == bag(more)
             F == CostOfKeys(B, rate)
             G == CostOfKeys(C, rate)
             q == x.short
             h == Held(B, key)
  <2>1. more \in Seq(L)
    OBVIOUS
  <2>2. x.card \in T /\ q \in Nat \ {0}
    BY DEF MissingLines
  <2>3. price # None /\ price \in Int /\ rate[key] = price
    BY <2>2
  <2>4. CostOf(Mapped(more, f)) = CostOf(Mapped(m, f)) + price * q
    <3>1. f[x] \in O /\ f[x].price = price /\ f[x].quantity = q
      BY DEF Offer
    <3>2. IsPriced(f[x])
      BY <2>3, <3>1 DEF IsPriced
    <3> HIDE DEF f, O, price, q, L
    <3>3. Mapped(more, f) = Append(Mapped(m, f), f[x]) /\ Mapped(m, f) \in Seq(O)
      BY <1>2
    <3> QED
      BY <3>1, <3>2, <3>3, CostOfSteps
  <2>5. C = B (+) Copies(key, q)
    BY ShortByKeySteps DEF CandidateKey
  <2>6. \A k : Held(C, k) = Held(B, k) + (IF k = key THEN q ELSE 0)
    BY <2>5, HeldUnion, HeldCopies
  <2>7. /\ KeysOf(B, m, "oracle") /\ KeysOf(C, more, "oracle")
        /\ IsFiniteSet(DOMAIN B) /\ F \in [DOMAIN B -> Int] /\ G \in [DOMAIN C -> Int]
        /\ \A k \in DOMAIN C : rate[k] \in Int
    BY <1>3, <2>1, ShortKeysOfLines
  <2>8. total(m) \in Int
    BY <1>3
  <2>9. total(m) = SumFunction(F) /\ total(more) = SumFunction(G)
    OBVIOUS
  <2> HIDE DEF B, C, q, key, price, L, more, total
  <2>10. \A k : Held(B, k) \in Nat /\ Held(C, k) \in Nat /\ (k \in DOMAIN B <=> Held(B, k) > 0)
                /\ (k \in DOMAIN C <=> Held(C, k) > 0)
    BY <2>7 DEF KeysOf
  <2>11. DOMAIN C = DOMAIN B \cup {key}
    <3>1. \A k : k \in DOMAIN C <=> k \in DOMAIN B \/ k = key
      <4> SUFFICES ASSUME NEW k PROVE k \in DOMAIN C <=> k \in DOMAIN B \/ k = key
        OBVIOUS
      <4>1. Held(C, k) = Held(B, k) + (IF k = key THEN q ELSE 0) /\ Held(B, k) \in Nat
        BY <2>6, <2>10
      <4>2. Held(C, k) > 0 <=> Held(B, k) > 0 \/ k = key
        BY <2>2, <4>1
      <4> QED
        BY <2>10, <4>2
    <3> QED
      BY <3>1
  <2>12. \A k \in DOMAIN B : F[k] = Held(B, k) * rate[k]
    BY DEF CostOfKeys, Held
  <2>13. \A k \in DOMAIN C : G[k] = Held(C, k) * rate[k]
    BY DEF CostOfKeys, Held
  <2> HIDE DEF F, G
  <2>14. \A k \in DOMAIN B \ {key} : G[k] = F[k]
    <3> SUFFICES ASSUME NEW k \in DOMAIN B \ {key} PROVE G[k] = F[k]
      OBVIOUS
    <3>1. Held(C, k) = Held(B, k) /\ k \in DOMAIN C /\ k \in DOMAIN B
      BY <2>6, <2>10, <2>11
    <3> QED
      BY <2>12, <2>13, <3>1
  <2>15. ChangesAt(DOMAIN B, F, key, G)
    BY <2>7, <2>11, <2>14 DEF ChangesAt
  <2>16. SumFunction(G) = SumFunction(F) + G[key] - (IF key \in DOMAIN B THEN F[key] ELSE 0)
    BY <2>15, SumChange
  <2>17. h \in Nat /\ G[key] = (h + q) * price /\ (key \in DOMAIN B => F[key] = h * price) /\ (key \notin DOMAIN B => h = 0)
    BY <2>3, <2>6, <2>10, <2>11, <2>12, <2>13
  <2> HIDE DEF h
  <2>18. (h + q) * price = h * price + price * q /\ h * price \in Int /\ price * q \in Int
    <3>1. \A a, b, c \in Int : (a + b) * c = a * c + c * b /\ a * c \in Int /\ c * b \in Int
      OBVIOUS
    <3> QED
      BY <2>2, <2>3, <2>17, <3>1
  <2>19. SumFunction(G) = SumFunction(F) + price * q
    <3>1. CASE key \in DOMAIN B
      BY <2>8, <2>9, <2>16, <2>17, <2>18, <3>1
    <3>2. CASE key \notin DOMAIN B
      <4>1. h * price = 0
        BY <2>3, <2>17, <3>2
      <4> QED
        BY <2>8, <2>9, <2>16, <2>17, <2>18, <3>2, <4>1
    <3> QED
      BY <3>1, <3>2
  <2> QED
    BY <1>5, <2>4, <2>9, <2>19 DEF more
<1>6. Extending(P, L)
  BY <1>4, <1>5, Zenon DEF Extending
<1>7. OfAll(P, L)
  <2> HIDE DEF P
  <2> QED
    BY <1>6, SequenceInduction
<1>8. \A m \in Seq(L) : CostOf(Mapped(m, f)) = total(m)
  BY <1>7 DEF OfAll
<1>9. \A m \in Seq(L) : PriceMissingCards(quotes, m, profile, "oracle") = Mapped(m, f)
  BY OffersMapped
<1> HIDE DEF total, f
<1>10. \A m \in Seq(L) : CostOf(PriceMissingCards(quotes, m, profile, "oracle")) = total(m)
  BY <1>8, <1>9
<1> QED
  BY <1>10 DEF total

-----------------------------------------------------------------------------
(* The cost of completing a list                                           *)

\* Nothing is found where nothing passes; everything is kept where all pass
FindsNone(Test(_), T) == \A s \in Seq(T) : Where(s, Test) = <<>> <=> \A x \in ToSet(s) : ~Test(x)
KeepsAll(Test(_), T) == \A s \in Seq(T) : (\A x \in ToSet(s) : Test(x)) => Where(s, Test) = s

LEMMA WhereFindsNone ==
    ASSUME NEW Test(_), NEW T
    PROVE  FindsNone(Test, T) /\ KeepsAll(Test, T)
<1> DEFINE P(s) == /\ Where(s, Test) = <<>> <=> \A x \in ToSet(s) : ~Test(x)
                   /\ (\A x \in ToSet(s) : Test(x)) => Where(s, Test) = s
<1>1. Filters(Test, T) /\ Keeps(Test, T)
  BY WhereSteps, WhereKeeps
<1>2. P(<<>>)
  <2>1. Where(<<>>, Test) = <<>>
    BY <1>1, Zenon DEF Filters
  <2>2. ToSet(<<>>) = {}
    BY DEF ToSet
  <2> QED
    BY <2>1, <2>2, Zenon
<1>3. ASSUME NEW s \in Seq(T), NEW x \in T, P(s) PROVE P(Append(s, x))
  <2>1. ToSet(Append(s, x)) = ToSet(s) \cup {x}
    BY ToSetAppend
  <2>2. CASE Test(x)
    <3>1. Where(Append(s, x), Test) = Append(Where(s, Test), x)
      BY <1>1, <2>2, Zenon DEF Filters
    <3>2. Where(s, Test) \in Seq(T)
      BY <1>1, Zenon DEF Keeps
    <3> DEFINE w == Where(s, Test)
    <3> HIDE DEF w
    <3>3. Append(w, x) # <<>>
      BY <3>2 DEF w
    <3>4. ~(\A y \in ToSet(Append(s, x)) : ~Test(y))
      BY <2>1, <2>2
    <3>5. (\A y \in ToSet(Append(s, x)) : Test(y)) => Where(Append(s, x), Test) = Append(s, x)
      BY <1>3, <2>1, <3>1
    <3> QED
      BY <3>1, <3>3, <3>4, <3>5 DEF w
  <2>3. CASE ~Test(x)
    <3>1. Where(Append(s, x), Test) = Where(s, Test)
      BY <1>1, <2>3, Zenon DEF Filters
    <3>2. ~(\A y \in ToSet(Append(s, x)) : Test(y))
      BY <2>1, <2>3
    <3>3. (\A y \in ToSet(Append(s, x)) : ~Test(y)) <=> (\A y \in ToSet(s) : ~Test(y))
      BY <2>1, <2>3
    <3> QED
      BY <1>3, <3>1, <3>2, <3>3
  <2> QED
    BY <2>2, <2>3
<1>4. Extending(P, T)
  BY <1>2, <1>3, Zenon DEF Extending
<1>5. OfAll(P, T)
  BY <1>4, SequenceInduction
<1> QED
  BY <1>5, Zenon DEF OfAll, FindsNone, KeepsAll

LEMMA SameKeySamePrice ==
    ASSUME NEW a, NEW b, OracleKey(a) = OracleKey(b), Resolved(a), Resolved(b), NEW quotes, NEW profile
    PROVE  ResolvePriceForMissingCard(quotes, a, profile, "oracle")
               = ResolvePriceForMissingCard(quotes, b, profile, "oracle")
<1>1. a.oracle = b.oracle
  BY DEF OracleKey
<1> QED
  BY <1>1 DEF ResolvePriceForMissingCard, Resolved

LEMMA RepresentativeResolved ==
    ASSUME TypeOK, NEW key, key \in {OracleKey(row) : row \in ToSet(AllRows)}
    PROVE  Resolved(Representative(lists, key))
<1> DEFINE rows == {row \in UNION {ToSet(RequiredCards(lists[id])) : id \in DOMAIN lists} : OracleKey(row) = key}
           some == CHOOSE row \in rows : TRUE
           printings == {row.printing : row \in rows} \ {None}
           rep == Representative(lists, key)
<1>1. rep.oracle = some.oracle /\ rep.printing = Greatest(printings)
  <2> DEFINE name == Greatest({row.name : row \in rows})
             printing == Greatest(printings)
  <2>1. rep = [name |-> name, oracle |-> some.oracle, printing |-> printing]
    BY Zenon DEF Representative
  <2> HIDE DEF rep, name, some, printing
  <2> QED
    BY <2>1 DEF printing
<1>2. AllRows \in Seq(ListRows) /\ ToSet(AllRows) = UNION {ToSet(RequiredCards(lists[id])) : id \in DOMAIN lists}
  <2>1. DOMAIN lists = Lists
    BY DEF TypeOK
  <2> QED
    BY <2>1, AllRowsTyped
<1>3. rows = {row \in ToSet(AllRows) : OracleKey(row) = key}
  BY <1>2
<1>4. ToSet(AllRows) \subseteq ListRows
  BY <1>2, ToSetFinite
<1>5. some \in rows
  <2>1. rows # {}
    BY <1>3
  <2> HIDE DEF rows
  <2> QED
    BY <2>1
<1>6. \A row \in rows : OracleKey(row) = key /\ Resolved(row)
  BY <1>3, <1>4, CatalogueAssumption DEF Resolved
<1> HIDE DEF rows, some, rep
<1>7. ASSUME some.oracle = None PROVE Greatest(printings) = None
  <2>1. \A row \in rows : row.oracle = None
    BY <1>5, <1>6, <1>7 DEF OracleKey
  <2>2. printings = {}
    BY <1>6, <2>1 DEF Resolved
  <2> QED
    BY <2>2 DEF Greatest
<1>8. Resolved(rep)
  BY <1>1, <1>7 DEF Resolved
<1> QED
  BY <1>8 DEF rep

LEMMA PriceTyped ==
    ASSUME NEW quotes, Priceable(quotes), NEW card, NEW T, NEW profile, profile.priority \in Seq(T)
    PROVE  PriceOf(ResolvePriceForMissingCard(quotes, card, profile, "oracle")) \in Nat \cup {None}
<1> DEFINE quote == ResolvePriceForMissingCard(quotes, card, profile, "oracle")
<1>1. quote \in quotes \cup {None}
  BY MissingCardPriced
<1> HIDE DEF quote
<1>2. PriceOf(quote) \in Nat \cup {None}
  BY <1>1 DEF Priceable, PriceOf
<1> QED
  BY <1>2 DEF quote

\* The required keys of all lists, and the price of each
AllKeys == UNION {DOMAIN RequiredByKey(lists[id]) : id \in DOMAIN lists}

KeyPrice(profile) ==
    LET batch == BatchPricesFor(observations, {Representative(lists, key) : key \in AllKeys}, profile)
    IN [key \in AllKeys |-> BatchPrice(batch, Representative(lists, key))]

LEMMA RowsOfAllKeys ==
    ASSUME TypeOK
    PROVE  /\ AllKeys = {OracleKey(row) : row \in ToSet(AllRows)}
           /\ \A id \in Lists : \A row \in ToSet(RequiredCards(lists[id])) :
                  OracleKey(row) \in AllKeys /\ row \in ListRows /\ Resolved(row)
<1>1. \A id \in Lists : /\ DOMAIN RequiredByKey(lists[id]) = {OracleKey(row) : row \in ToSet(RequiredCards(lists[id]))}
                        /\ ToSet(RequiredCards(lists[id])) \subseteq ListRows
  <2> SUFFICES ASSUME NEW id \in Lists
               PROVE  /\ DOMAIN RequiredByKey(lists[id]) = {OracleKey(row) : row \in ToSet(RequiredCards(lists[id]))}
                      /\ ToSet(RequiredCards(lists[id])) \subseteq ListRows
    OBVIOUS
  <2> DEFINE rows == RequiredCards(lists[id])
             B == RequiredByKey(lists[id])
  <2>1. Rows(ListRows) /\ lists[id] \in Seq(ListRows) /\ rows \in Seq(ListRows)
    BY CatalogueAssumption, RequiredCardsKeep DEF Rows, TypeOK
  <2>2. B = OwnedPool(rows, "oracle")
    BY <2>1, RequiredIsPool
  <2> HIDE DEF rows, B
  <2>3. IsBagOf(B, rows)
    BY <2>1, <2>2, PoolIsBag
  <2>4. ToSet(rows) \subseteq ListRows
    BY <2>1, ToSetFinite
  <2> QED
    BY <2>3, <2>4 DEF IsBagOf, rows, B
<1>2. DOMAIN lists = Lists
  BY DEF TypeOK
<1>3. ToSet(AllRows) = UNION {ToSet(RequiredCards(lists[id])) : id \in Lists}
  BY AllRowsTyped
<1>4. AllKeys = {OracleKey(row) : row \in ToSet(AllRows)}
  <2> DEFINE rows(id) == ToSet(RequiredCards(lists[id]))
             keys(id) == DOMAIN RequiredByKey(lists[id])
  <2>1. AllKeys = UNION {keys(id) : id \in Lists}
    BY <1>2 DEF AllKeys
  <2>2. ToSet(AllRows) = UNION {rows(id) : id \in Lists}
    BY <1>3
  <2>3. \A id \in Lists : keys(id) = {OracleKey(row) : row \in rows(id)}
    BY <1>1
  <2> HIDE DEF rows, keys
  <2>4. \A key : key \in AllKeys <=> \E id \in Lists : key \in keys(id)
    BY <2>1
  <2>5. \A row : row \in ToSet(AllRows) <=> \E id \in Lists : row \in rows(id)
    BY <2>2
  <2>6. \A key : key \in AllKeys <=> \E row \in ToSet(AllRows) : key = OracleKey(row)
    BY <2>3, <2>4, <2>5
  <2> QED
    BY <2>6
<1>5. \A row \in ListRows : Resolved(row)
  BY CatalogueAssumption DEF Resolved
<1> QED
  BY <1>1, <1>3, <1>4, <1>5

LEMMA KeyPriceIsPrice ==
    ASSUME TypeOK, OneQuoteEach(observations), NEW profile \in Profiles,
           NEW id \in Lists, NEW row \in ToSet(RequiredCards(lists[id]))
    PROVE  KeyPrice(profile)[OracleKey(row)]
               = PriceOf(ResolvePriceForMissingCard(observations, row, profile, "oracle"))
<1> DEFINE key == OracleKey(row)
           reps == {Representative(lists, k) : k \in AllKeys}
           rep == Representative(lists, key)
           batch == BatchPricesFor(observations, reps, profile)
<1>1. key \in AllKeys /\ Resolved(row)
  BY RowsOfAllKeys
<1>2. KeyPrice(profile) = [k \in AllKeys |-> BatchPrice(batch, Representative(lists, k))]
  BY Zenon DEF KeyPrice
<1>3. KeyPrice(profile)[key] = BatchPrice(batch, rep)
  <2> HIDE DEF batch
  <2> QED
    BY <1>1, <1>2
<1>4. \A k \in AllKeys : Resolved(Representative(lists, k)) /\ OracleKey(Representative(lists, k)) = k
  BY RowsOfAllKeys, RepresentativeHasKey, RepresentativeResolved
<1>5. (\A c \in reps : Resolved(c)) /\ rep \in reps
  BY <1>1, <1>4
<1>6. Known(observations) /\ profile.priority \in Seq(ToSet(profile.priority))
  BY CatalogueAssumption DEF TypeOK, Known
<1> HIDE DEF reps
<1>7. BatchPrice(batch, rep) = PriceOf(ResolvePriceForMissingCard(observations, rep, profile, "oracle"))
  BY <1>5, <1>6, BatchPriceIsPrice
<1>8. ResolvePriceForMissingCard(observations, rep, profile, "oracle")
          = ResolvePriceForMissingCard(observations, row, profile, "oracle")
  BY <1>1, <1>4, SameKeySamePrice
<1> QED
  BY <1>3, <1>7, <1>8


(* The dashboard's cost of a list is that of its missing lines.            *)
LEMMA CostOfList ==
    ASSUME TypeOK, OneQuoteEach(observations), NEW pool, IsPool(pool), NEW profile \in Profiles, NEW id \in Lists,
           NEW cost, cost = ComputeListMissingCost(pool, lists, observations, profile),
           NEW m, m = CompareLines(pool, RequiredCards(lists[id]), "oracle").missing,
           NEW priced, priced = PriceMissingCards(observations, m, profile, "oracle")
    PROVE  /\ id \in DOMAIN cost <=> m # <<>> /\ UnpricedOf(priced) = <<>>
           /\ id \in DOMAIN cost => cost[id] = CostOf(priced)
<1> DEFINE rate == KeyPrice(profile)
           short == [i \in DOMAIN lists |-> Shortfalls(pool, RequiredByKey(lists[i]))]
           S == short[id]
           terms(i) == [key \in DOMAIN short[i] |-> short[i][key] * IF rate[key] = None THEN 0 ELSE rate[key]]
           costed == {i \in DOMAIN lists : DOMAIN short[i] # {} /\ AllPriced(short[i], rate)}
           rows == RequiredCards(lists[id])
           T == ToSet(rows)
           price(row) == PriceOf(ResolvePriceForMissingCard(observations, row, profile, "oracle"))
           f == [line \in MissingLines(T) |-> Offer(observations, profile, line)]
           Unpriced(line) == ~IsPriced(line)
<1>1. cost = [i \in costed |-> SumFunction(terms(i))]
  BY Zenon DEF ComputeListMissingCost, KeyPrice, AllKeys
<1>2. DOMAIN lists = Lists
  BY DEF TypeOK
<1>3. /\ id \in DOMAIN cost <=> DOMAIN S # {} /\ AllPriced(S, rate)
      /\ id \in DOMAIN cost => cost[id] = SumFunction(terms(id))
  <2> HIDE DEF terms, short
  <2> QED
    BY <1>1, <1>2
<1>4. rows \in Seq(T) /\ Rows(T)
  <2>1. lists[id] \in Seq(ListRows) /\ rows \in Seq(ListRows)
    BY RequiredCardsKeep DEF TypeOK
  <2> HIDE DEF rows
  <2>2. rows \in Seq(T)
    BY <2>1 DEF ToSet
  <2>3. T \subseteq ListRows
    BY <2>1, ToSetFinite
  <2> QED
    BY <2>2, <2>3, CatalogueAssumption DEF Rows
<1>5. m \in Seq(MissingLines(T))
  <2> HIDE DEF T, rows
  <2>1. m = CompareLines(pool, rows, "oracle").missing
    BY DEF rows
  <2> QED
    BY <1>4, <2>1, LinesAddUp
<1>6. S = ShortByKey(m, "oracle") /\ (DOMAIN S = {} <=> m = <<>>)
  <2>1. RequiredByKey(lists[id]) = OwnedPool(rows, "oracle")
    <3>1. lists[id] \in Seq(ListRows)
      BY DEF TypeOK
    <3> QED
      BY <3>1, RequiredIsPool
  <2>2. S = Shortfalls(pool, OwnedPool(rows, "oracle"))
    BY <1>2, <2>1
  <2> HIDE DEF T, rows, short
  <2>3. m = CompareLines(pool, rows, "oracle").missing
    BY DEF rows
  <2> QED
    BY <1>4, <2>2, <2>3, ShortfallsOfLines
<1>7. DOMAIN S = {OracleKey(line.card) : line \in ToSet(m)}
  <2>1. KeysOf(ShortByKey(m, "oracle"), m, "oracle")
    <3> HIDE DEF T
    <3> QED
      BY <1>5, ShortKeysOfLines
  <2> HIDE DEF S
  <2> QED
    BY <1>6, <2>1 DEF KeysOf, CandidateKey
<1>8. \A row \in T : rate[OracleKey(row)] = price(row) /\ price(row) \in Nat \cup {None}
  <2>1. Priceable(observations) /\ profile.priority \in Seq(ToSet(profile.priority))
    BY CatalogueAssumption DEF TypeOK, Priceable
  <2>2. \A row \in T : rate[OracleKey(row)] = price(row)
    BY KeyPriceIsPrice
  <2>3. \A row : price(row) \in Nat \cup {None}
    BY <2>1, PriceTyped
  <2> QED
    BY <2>2, <2>3
<1> HIDE DEF rate, price, short, S
<1>9. \A line \in ToSet(m) : line.card \in T
  <2>1. ToSet(m) \subseteq MissingLines(T)
    <3> HIDE DEF T
    <3> QED
      BY <1>5, ToSetFinite
  <2> QED
    BY <2>1 DEF MissingLines
<1>10. AllPriced(S, rate) <=> \A line \in ToSet(m) : price(line.card) # None
  BY <1>7, <1>8, <1>9 DEF AllPriced
<1>11. priced = Mapped(m, f)
  <2> HIDE DEF T
  <2> QED
    BY <1>5, OffersMapped
<1>12. UnpricedOf(priced) = <<>> <=> \A line \in ToSet(m) : price(line.card) # None
  <2> DEFINE O == {Offer(observations, profile, line) : line \in MissingLines(T)}
  <2>1. f \in [MissingLines(T) -> O]
    OBVIOUS
  <2>2. priced \in Seq(O)
    <3> HIDE DEF f, O, T
    <3> QED
      BY <1>5, <1>11, <2>1, MappedSteps
  <2>3. FindsNone(Unpriced, O)
    <3> HIDE DEF O
    <3> QED
      BY WhereFindsNone
  <2>4. UnpricedOf(priced) = Where(priced, Unpriced)
    BY Zenon DEF UnpricedOf
  <2>5. UnpricedOf(priced) = <<>> <=> \A offer \in ToSet(priced) : ~Unpriced(offer)
    <3> HIDE DEF O
    <3> QED
      BY <2>2, <2>3, <2>4, Zenon DEF FindsNone
  <2>6. ToSet(priced) = {Offer(observations, profile, line) : line \in ToSet(m)}
    <3>1. \A i \in DOMAIN m : m[i] \in MissingLines(T)
      <4> HIDE DEF T
      <4> QED
        BY <1>5
    <3>2. \A i \in DOMAIN m : f[m[i]] = Offer(observations, profile, m[i])
      BY <3>1
    <3> HIDE DEF f
    <3>3. DOMAIN priced = DOMAIN m /\ \A i \in DOMAIN m : priced[i] = Offer(observations, profile, m[i])
      BY <1>11, <3>2 DEF Mapped
    <3> QED
      BY <3>3 DEF ToSet
  <2>7. \A line : Unpriced(Offer(observations, profile, line)) <=> price(line.card) = None
    BY DEF IsPriced, Offer, price
  <2> QED
    BY <2>5, <2>6, <2>7
<1>13. ASSUME AllPriced(S, rate) PROVE SumFunction(terms(id)) = CostOf(priced)
  <2> DEFINE U == {line.card : line \in ToSet(m)}
  <2>1. m \in Seq(MissingLines(U))
    <3>1. \A i \in DOMAIN m : m[i] \in MissingLines(T) /\ m[i] \in ToSet(m)
      <4> HIDE DEF T
      <4> QED
        BY <1>5 DEF ToSet
    <3>2. \A i \in DOMAIN m : m[i] \in MissingLines(U)
      BY <3>1 DEF MissingLines
    <3>3. Len(m) \in Nat /\ DOMAIN m = 1..Len(m) /\ m = [i \in 1..Len(m) |-> m[i]]
      <4> HIDE DEF T
      <4> QED
        BY <1>5
    <3> HIDE DEF U
    <3> QED
      BY <3>2, <3>3
  <2>2. \A row \in U : price(row) # None /\ price(row) \in Int /\ rate[OracleKey(row)] = price(row)
    BY <1>8, <1>9, <1>10, <1>13
  <2>3. CostOf(priced) = SumFunction(CostOfKeys(S, rate))
    <3>1. \A row \in U : LET p == PriceOf(ResolvePriceForMissingCard(observations, row, profile, "oracle"))
                         IN p # None /\ p \in Int /\ rate[OracleKey(row)] = p
      BY <2>2 DEF price
    <3> HIDE DEF U
    <3>2. CostOf(PriceMissingCards(observations, m, profile, "oracle"))
              = SumFunction(CostOfKeys(ShortByKey(m, "oracle"), rate))
      BY <2>1, <3>1, CostByKey
    <3> QED
      BY <1>6, <3>2
  <2>4. terms(id) = CostOfKeys(S, rate)
    <3>1. \A key \in DOMAIN S : rate[key] # None
      BY <1>13 DEF AllPriced
    <3>2. terms(id) = [key \in DOMAIN S |-> S[key] * IF rate[key] = None THEN 0 ELSE rate[key]]
      BY DEF S
    <3> HIDE DEF terms
    <3> QED
      BY <3>1, <3>2 DEF CostOfKeys
  <2> HIDE DEF terms
  <2> QED
    BY <2>3, <2>4
<1> HIDE DEF terms
<1> QED
  BY <1>3, <1>6, <1>10, <1>12, <1>13


(* A deck of the required cards of a list is compared as the list is.      *)
LEMMA DeckIsList ==
    ASSUME TypeOK, NEW id \in Lists
    PROVE  RunComparison(owned, Append(RequiredCards(lists[id]), None), "oracle")
               = RunListComparison(owned, lists, id, "oracle")
<1> DEFINE rows == RequiredCards(lists[id])
           T == ListRows \cup {None}
           Read(row) == row # None
<1>1. rows \in Seq(ListRows)
  BY RequiredCardsKeep DEF TypeOK
<1> HIDE DEF rows
<1>2. rows \in Seq(T) /\ \A row \in ToSet(rows) : Read(row)
  <2>1. ToSet(rows) \subseteq ListRows
    BY <1>1, ToSetFinite
  <2>2. None \notin ListRows
    BY CatalogueAssumption
  <2>3. rows \in Seq(T)
    BY <1>1
  <2> QED
    BY <2>1, <2>2, <2>3
<1>3. None \in T /\ ~Read(None)
  OBVIOUS
<1>4. Filters(Read, T) /\ KeepsAll(Read, T)
  <2> HIDE DEF T
  <2> QED
    BY WhereSteps, WhereFindsNone
<1> HIDE DEF T
<1>5. Where(Append(rows, None), Read) = Where(rows, Read)
  BY <1>2, <1>3, <1>4, Zenon DEF Filters
<1>6. Where(rows, Read) = rows
  BY <1>2, <1>4, Zenon DEF KeepsAll
<1>7. RunComparison(owned, Append(rows, None), "oracle") = Compare(owned, Where(Append(rows, None), Read), "oracle")
  BY Zenon DEF RunComparison
<1>8. RunListComparison(owned, lists, id, "oracle") = Compare(owned, rows, "oracle")
  BY Zenon DEF RunListComparison, rows
<1> QED
  BY <1>5, <1>6, <1>7, <1>8 DEF rows

LEMMA ListCostAgrees ==
    ASSUME TypeOK, OneQuoteEach(observations), NEW pool, pool = OwnedPool(owned, "oracle"), IsPool(pool),
           NEW profile \in Profiles, NEW id \in Lists,
           NEW summary, summary = DashboardSummary(owned, lists, observations, profile)
    PROVE  CostAgrees(CompareList(owned, lists, observations, id, "oracle", profile, None),
                      PricePopularDeck(owned, observations, Append(RequiredCards(lists[id]), None), profile),
                      summary, id)
<1> DEFINE page == CompareList(owned, lists, observations, id, "oracle", profile, None)
           deck == PricePopularDeck(owned, observations, Append(RequiredCards(lists[id]), None), profile)
           result == RunListComparison(owned, lists, id, "oracle")
           m == result.missing
           priced == PriceMissingCards(observations, m, profile, "oracle")
           built == ComputeListBuildability(pool, lists)
           cost == ComputeListMissingCost(pool, lists, observations, profile)
<1>1. summary.buildability = built /\ summary.missingCost = cost
  BY Zenon DEF DashboardSummary
<1>2. page.comparison = result /\ page.priced = priced
  <2>1. profile # None
    BY CatalogueAssumption
  <2> QED
    BY <2>1 DEF CompareList, Answer, PriceAndBudgetMissingCards
<1>3. /\ deck.coverage = result.coverage /\ deck.cost = CostOf(priced)
      /\ deck.unpriced = Len(UnpricedOf(priced))
  <2>1. RunComparison(owned, Append(RequiredCards(lists[id]), None), "oracle") = result
    BY DeckIsList
  <2> HIDE DEF result
  <2>2. deck = [coverage |-> result.coverage, cost |-> CostOf(priced), unpriced |-> Len(UnpricedOf(priced))]
    BY <2>1, Zenon DEF PricePopularDeck
  <2> HIDE DEF deck
  <2> QED
    BY <2>2
<1>4. built[id].coverage = result.coverage
  <2>1. built[id] = [coverage |-> result.coverage, buildable |-> result.buildable]
    BY BuiltAgrees
  <2> HIDE DEF built, result
  <2> QED
    BY <2>1
<1>5. m = CompareLines(pool, RequiredCards(lists[id]), "oracle").missing
  BY FieldsOfComparison DEF RunListComparison, Compare
<1> HIDE DEF m, result, page, deck, cost, built
<1>6. /\ id \in DOMAIN cost <=> m # <<>> /\ UnpricedOf(priced) = <<>>
      /\ id \in DOMAIN cost => cost[id] = CostOf(priced)
  BY <1>5, CostOfList DEF cost
<1>7. UnpricedOf(priced) = <<>> => Len(UnpricedOf(priced)) = 0
  <2>1. Len(<<>>) = 0
    OBVIOUS
  <2> QED
    BY <2>1
<1> HIDE DEF priced
<1>8. CostAgrees(page, deck, summary, id)
  BY <1>1, <1>2, <1>3, <1>4, <1>6, <1>7 DEF CostAgrees, m
<1> QED
  BY <1>8 DEF page, deck

LEMMA TopPriceAgrees ==
    ASSUME TypeOK, OneQuoteEach(observations), NEW pool, pool = OwnedPool(owned, "oracle"), IsPool(pool),
           NEW profile \in Profiles, NEW top \in ToSet(TopLeverage(pool, lists, observations, profile))
    PROVE  top.price = PriceOf(ResolvePriceForMissingCard(observations, top.candidate, profile, "oracle"))
<1> DEFINE all == ComputeLeverageAtScale(pool, lists)
           advised == {c \in all : NormalName[c.name] \notin BasicLands}
           ranked == Ranked(advised)
           n == Min({LeverageSize, Len(ranked)})
           first == SubSeq(ranked, 1, n)
           tops == TopLeverage(pool, lists, observations, profile)
           batch == BatchPricesFor(observations, ToSet(first), profile)
<1>1. tops = [i \in DOMAIN first |-> [candidate |-> first[i], price |-> BatchPrice(batch, first[i])]]
  BY Zenon DEF TopLeverage, PriceLeverageCandidates
<1>2. \A c \in all : Resolved(c)
  <2> SUFFICES ASSUME NEW c \in all PROVE Resolved(c)
    OBVIOUS
  <2>1. PICK key \in ShortKeys(pool) : c = Told(pool, key, Representative(lists, key))
    BY ScaleCandidates
  <2>2. key \in {OracleKey(row) : row \in ToSet(AllRows)}
    <3>1. Rows(ListRows) /\ AllRows \in Seq(ListRows)
      BY AllRowsTyped, CatalogueAssumption DEF Rows
    <3>2. IsBagOf(OwnedPool(AllRows, "oracle"), AllRows)
      BY <3>1, PoolIsBag
    <3> QED
      BY <3>2 DEF IsBagOf, ShortKeys
  <2>3. Resolved(Representative(lists, key))
    BY <2>2, RepresentativeResolved
  <2> DEFINE rep == Representative(lists, key)
  <2>4. c.oracle = rep.oracle /\ c.printing = rep.printing
    BY <2>1 DEF Told, Candidate
  <2> QED
    BY <2>3, <2>4 DEF Resolved
<1>3. IsFiniteSet(all) /\ \A c \in all : Comparable(c)
  BY ScaleComparable
<1> HIDE DEF all, tops
<1>4. IsFiniteSet(advised) /\ \A c \in advised : Comparable(c) /\ Resolved(c)
  <2>1. advised \in SUBSET all
    OBVIOUS
  <2> HIDE DEF advised
  <2> QED
    BY <1>2, <1>3, <2>1, FS_Subset
<1> HIDE DEF advised
<1>5. ranked \in Seq(advised)
  <2>1. Orders(Better, advised)
    BY <1>4, BetterOrders
  <2>2. Sorts(advised, Better)
    BY <2>1, InOrderSorts
  <2>3. SetToSeq(advised) \in Seq(advised)
    BY <1>4, SetToSeqLists
  <2> QED
    BY <2>2, <2>3, Zenon DEF Sorts, Ranked
<1> HIDE DEF ranked
<1>6. first \in Seq(advised)
  <2>1. LeverageSize \in Nat /\ Len(ranked) \in Nat
    BY <1>5, CatalogueAssumption
  <2>2. n \in 0..Len(ranked)
    BY <2>1, MinOfTwo
  <2> HIDE DEF n
  <2> QED
    BY <1>5, <2>1, <2>2
<1> HIDE DEF first
<1>7. ToSet(first) \subseteq advised
  BY <1>6, ToSetFinite
<1> HIDE DEF batch
<1>8. PICK i \in DOMAIN first : top.candidate = first[i] /\ top.price = BatchPrice(batch, first[i])
  <2>1. top \in ToSet(tops)
    BY DEF tops
  <2> QED
    BY <1>1, <2>1 DEF ToSet
<1>9. first[i] \in ToSet(first) /\ \A c \in ToSet(first) : Resolved(c)
  BY <1>4, <1>7 DEF ToSet
<1>10. Known(observations) /\ profile.priority \in Seq(ToSet(profile.priority))
  BY CatalogueAssumption DEF TypeOK, Known
<1>11. BatchPrice(batch, first[i]) = PriceOf(ResolvePriceForMissingCard(observations, first[i], profile, "oracle"))
  BY <1>9, <1>10, BatchPriceIsPrice DEF batch
<1> QED
  BY <1>8, <1>11

\* The unique constraint of the observations
OneObservation == OneQuoteEach(observations)

(* A price that is recorded again replaces the one before.                 *)
LEMMA OneQuoteAlways == Spec => []OneObservation
<1>1. Init => OneObservation
  BY DEF Init, OneObservation, OneQuoteEach
<1>2. OneObservation /\ [Next]_vars => OneObservation'
  <2> SUFFICES ASSUME OneObservation, [Next]_vars PROVE OneObservation'
    OBVIOUS
  <2>1. CASE \E quote \in Quotes : RecordPrice(quote)
    BY <2>1 DEF RecordPrice, SamePrice, OneQuoteEach, OneObservation
  <2>2. CASE UNCHANGED observations
    BY <2>2 DEF OneQuoteEach, OneObservation
  <2> QED
    BY <2>1, <2>2 DEF Next, vars, ImportOwned, ImportListed
<1> QED
  BY <1>1, <1>2, PTL DEF Spec

(* One price for one card, whoever asks: what completing a list costs is   *)
(* the same on the dashboard, by keys and batch prices, and on the page of *)
(* the list, by lines and single prices; a deck of the same cards has the  *)
(* same coverage and cost; a candidate has the price of its card.          *)
THEOREM CostsAgreement == Spec => []CostsAgree
<1>1. TypeOK /\ OneObservation => CostsAgree
  <2> SUFFICES ASSUME TypeOK, OneQuoteEach(observations), NEW profile \in Profiles
               PROVE  /\ \A id \in Lists :
                           CostAgrees(CompareList(owned, lists, observations, id, "oracle", profile, None),
                                      PricePopularDeck(owned, observations, Append(RequiredCards(lists[id]), None), profile),
                                      DashboardSummary(owned, lists, observations, profile), id)
                      /\ \A top \in ToSet(TopLeverage(OwnedPool(owned, "oracle"), lists, observations, profile)) :
                           top.price = PriceOf(ResolvePriceForMissingCard(observations, top.candidate, profile, "oracle"))
    BY Zenon DEF CostsAgree, PriceOf, OneObservation
  <2> DEFINE pool == OwnedPool(owned, "oracle")
  <2>1. IsPool(pool)
    <3>1. Rows(OwnedRows) /\ owned \in Seq(OwnedRows)
      BY CatalogueAssumption DEF Rows, TypeOK
    <3> QED
      BY <3>1, PoolHolds DEF IsPool
  <2> QED
    BY <2>1, ListCostAgrees, TopPriceAgrees
<1> QED
  BY <1>1, TypeCorrect, OneQuoteAlways, PTL

=============================================================================
