---------------------------- MODULE FoldTheorems ----------------------------
(***************************************************************************)
(* Induction over the natural numbers and over finite sets, for sets that  *)
(* are given by what they contain; and with it what two operators of the   *)
(* community modules compute: MapThenSumSet of FiniteSetsExt, a sum that   *)
(* does not depend on the order of the elements, and FlattenSeq of         *)
(* SequencesExt.                                                           *)
(***************************************************************************)
EXTENDS Integers, SequencesExt, FiniteSetTheorems, SequenceTheorems, TLAPS

-----------------------------------------------------------------------------
(* Induction.                                                              *)

LEMMA SmallerSet ==
  \A S : \A x, y \in SUBSET S :
     <<y, x>> \in StrictSubsetOrdering(S) <=> y \subseteq x /\ y # x
BY DEF StrictSubsetOrdering

(* What holds of every set whose smaller sets have it holds of all subsets *)
(* of a finite set.                                                        *)
LEMMA RemovalInduct ==
  ASSUME NEW S, IsFiniteSet(S), NEW P,
         \A T \in SUBSET S : (\A x \in T : T \ {x} \in P) => T \in P
  PROVE  SUBSET S \subseteq P
<1> DEFINE F == {T \in SUBSET S : T \notin P}
<1> SUFFICES ASSUME F # {} PROVE FALSE
  OBVIOUS
<1>1. \A T \in SUBSET S : T \in FiniteSubsetsOf(S)
  BY FS_Subset DEF FiniteSubsetsOf
<1>2. F \subseteq FiniteSubsetsOf(S)
  BY <1>1
<1>3. PICK T \in F : \A V \in F : ~ (<<V, T>> \in StrictSubsetOrdering(S))
  <2> HIDE DEF F
  <2> QED
    BY <1>2, FS_StrictSubsetOrderingWellFounded, WFMin
<1>4. PICK x \in T : T \ {x} \notin P
  OBVIOUS
<1>5. <<T \ {x}, T>> \in StrictSubsetOrdering(S)
  <2>1. /\ T \ {x} # T /\ T \ {x} \subseteq T
        /\ T \in SUBSET S /\ T \ {x} \in SUBSET S
    BY <1>4
  <2>2. QED
    BY <2>1, SmallerSet
<1>6. QED
  BY <1>3, <1>4, <1>5

(* Every set of natural numbers that is not empty has a least element.     *)
LEMMA LeastNat ==
  ASSUME NEW T \in SUBSET Nat, T # {}
  PROVE  \E t \in T : \A u \in T : t <= u
<1> DEFINE Below(t) == {u \in T : u <= t}
           F == {Below(t) : t \in T}
<1>1. F \subseteq FiniteSubsetsOf(Nat) /\ F # {}
  <2>1. ASSUME NEW t \in T PROVE Below(t) \in FiniteSubsetsOf(Nat)
    <3>1. IsFiniteSet(Below(t))
      <4>1. Below(t) \in SUBSET Nat /\ \A u \in Below(t) : u <= t
        OBVIOUS
      <4> HIDE DEF Below
      <4>2. QED
        BY <4>1, FS_BoundedSetOfNaturals
    <3>2. QED
      BY <3>1 DEF FiniteSubsetsOf
  <2>2. QED
    BY <2>1
<1>2. PICK U \in F : \A V \in F : ~ (<<V, U>> \in StrictSubsetOrdering(Nat))
  <2> HIDE DEF F
  <2> QED
    BY <1>1, FS_StrictSubsetOrderingWellFounded, WFMin
<1>3. PICK t \in T : U = Below(t)
  OBVIOUS
<1>4. ASSUME NEW u \in T, u < t PROVE FALSE
  <2>1. Below(u) \in F
    OBVIOUS
  <2>2. <<Below(u), Below(t)>> \in StrictSubsetOrdering(Nat)
    <3>1. Below(u) \subseteq Below(t) /\ t \in Below(t) /\ t \notin Below(u)
      <4>1. u \in Nat /\ t \in Nat /\ \A v \in T : v \in Nat
        OBVIOUS
      <4>2. t <= t /\ ~ (t <= u) /\ \A v \in Nat : v <= u => v <= t
        BY <1>4, <4>1
      <4>3. QED
        BY <1>4, <4>1, <4>2
    <3>2. Below(u) \in SUBSET Nat /\ Below(t) \in SUBSET Nat
      OBVIOUS
    <3> HIDE DEF Below
    <3>3. QED
      BY <3>1, <3>2, SmallerSet
  <2>3. QED
    BY <1>2, <1>3, <2>1, <2>2
<1>5. QED
  BY <1>4

(* A set with 0 and every successor has every natural number.              *)
LEMMA NatInduct ==
  ASSUME NEW S, 0 \in S, \A n \in Nat : n \in S => n + 1 \in S
  PROVE  Nat \subseteq S
<1> DEFINE T == Nat \ S
<1> SUFFICES ASSUME T # {} PROVE FALSE
  OBVIOUS
<1>1. PICK t \in T : \A u \in T : t <= u
  BY LeastNat
<1>2. t # 0 /\ t - 1 \in Nat /\ t - 1 \in S
  BY <1>1
<1>3. (t - 1) + 1 \in S
  BY <1>2
<1>4. QED
  BY <1>1, <1>3

(* The same up to a bound.                                                 *)
LEMMA IntervalInduct ==
  ASSUME NEW k \in Nat, NEW P, k # 0 => 1 \in P,
         \A i \in 2 .. k : i - 1 \in P => i \in P
  PROVE  1 .. k \subseteq P
<1> DEFINE S == {n \in Nat : n \in 1 .. k => n \in P}
<1>1. 0 \in S
  OBVIOUS
<1>2. ASSUME NEW n \in Nat, n \in S PROVE n + 1 \in S
  <2>1. CASE n = 0
    BY <2>1
  <2>2. CASE n # 0 /\ n + 1 <= k
    <3>1. PICK i \in 2 .. k : i = n + 1 /\ i - 1 = n
      BY <2>2
    <3>2. n \in P
      BY <1>2, <2>2
    <3>3. QED
      BY <3>1, <3>2
  <2>3. QED
    BY <2>1, <2>2
<1>3. Nat \subseteq S
  <2> HIDE DEF S
  <2>1. QED
    BY <1>1, <1>2, NatInduct
<1>4. QED
  BY <1>3

-----------------------------------------------------------------------------
(* Sums.                                                                   *)

Some(T) == CHOOSE x \in T : TRUE

(* it is the function MapThenFoldSet computes sums with.                   *)
IsSum(it, f, S) ==
  it = [T \in SUBSET S |->
          IF T = {} THEN 0 ELSE f[Some(T)] + it[T \ {Some(T)}]]

Sigma(f, S) == MapThenSumSet(LAMBDA x : f[x], S)

(* Some picks an element.                                                  *)
LEMMA SomeIn == \A T : T # {} => Some(T) \in T
BY DEF Some

(* There is one: built for sets of up to n elements, one n after the other.*)
LEMMA SumExists ==
  ASSUME NEW S, IsFiniteSet(S), NEW f, \A x \in S : f[x] \in Int
  PROVE  \E it : IsSum(it, f, S)
<1> DEFINE B(n) == {T \in SUBSET S : Cardinality(T) <= n}
           Good(g, n) == \A T \in B(n) :
              g[T] = IF T = {} THEN 0 ELSE f[Some(T)] + g[T \ {Some(T)}]
           Q == {n \in Nat : \E g : Good(g, n)}
<1>1. \A T \in SUBSET S : /\ Cardinality(T) \in Nat /\ Cardinality(T) <= Cardinality(S)
                          /\ (Cardinality(T) = 0 <=> T = {})
                          /\ \A x \in T : Cardinality(T \ {x}) = Cardinality(T) - 1
  BY FS_Subset, FS_CardinalityType, FS_RemoveElement, FS_EmptySet
<1>2. 0 \in Q
  <2> DEFINE g == [T \in SUBSET S |-> 0]
  <2>1. Good(g, 0)
    BY <1>1
  <2> HIDE DEF Good, g
  <2>2. QED
    BY <2>1
<1>3. ASSUME NEW n \in Nat, n \in Q PROVE n + 1 \in Q
  <2>1. PICK g : Good(g, n)
    BY <1>3
  <2> DEFINE h == [T \in SUBSET S |->
                     IF T \in B(n) THEN g[T] ELSE f[Some(T)] + g[T \ {Some(T)}]]
  <2>2. ASSUME NEW T \in B(n + 1)
        PROVE  h[T] = IF T = {} THEN 0 ELSE f[Some(T)] + h[T \ {Some(T)}]
    <3>1. CASE T = {}
      <4>1. T \in B(n)
        BY <1>1, <3>1
      <4>2. QED
        BY <2>1, <3>1, <4>1
    <3>2. CASE T # {}
      <4>1. Some(T) \in T /\ T \ {Some(T)} \in SUBSET S
        BY <3>2, SomeIn
      <4>2. T \ {Some(T)} \in B(n)
        BY <1>1, <4>1
      <4>3. h[T \ {Some(T)}] = g[T \ {Some(T)}]
        BY <4>1, <4>2
      <4>4. h[T] = f[Some(T)] + g[T \ {Some(T)}]
        BY <2>1, <3>2
      <4>5. QED
        BY <3>2, <4>3, <4>4
    <3>3. QED
      BY <3>1, <3>2
  <2>3. Good(h, n + 1)
    BY <2>2
  <2> HIDE DEF Good, h
  <2>4. QED
    BY <2>3
<1>4. Nat \subseteq Q
  <2> HIDE DEF Q
  <2>1. QED
    BY <1>2, <1>3, NatInduct
<1>5. PICK g : Good(g, Cardinality(S))
  BY <1>4, FS_CardinalityType
<1> DEFINE it == [T \in SUBSET S |-> g[T]]
<1>6. ASSUME NEW T \in SUBSET S
      PROVE  it[T] = IF T = {} THEN 0 ELSE f[Some(T)] + it[T \ {Some(T)}]
  <2>1. g[T] = IF T = {} THEN 0 ELSE f[Some(T)] + g[T \ {Some(T)}]
    BY <1>1, <1>5
  <2>2. QED
    BY <2>1
<1>7. IsSum(it, f, S)
  BY <1>6 DEF IsSum
<1>8. QED
  BY <1>7

Adds(it, f, S) ==
  \A T \in SUBSET S : /\ it[T] \in Int
                      /\ T = {} => it[T] = 0
                      /\ \A x \in T : it[T] = f[x] + it[T \ {x}]

(* Whichever element is taken first, the sum is the same.                  *)
LEMMA SumAdds ==
  ASSUME NEW S, IsFiniteSet(S), NEW f, \A x \in S : f[x] \in Int,
         NEW it, IsSum(it, f, S)
  PROVE  Adds(it, f, S)
<1> DEFINE Ok(T) == /\ it[T] \in Int
                    /\ \A x \in T : /\ it[T \ {x}] \in Int
                                    /\ it[T] = f[x] + it[T \ {x}]
           P == {T \in SUBSET S : Ok(T)}
<1>1. \A T \in SUBSET S :
        it[T] = IF T = {} THEN 0 ELSE f[Some(T)] + it[T \ {Some(T)}]
  BY DEF IsSum
<1>2. ASSUME NEW T \in SUBSET S, \A x \in T : T \ {x} \in P PROVE T \in P
  <2> SUFFICES Ok(T)
    OBVIOUS
  <2>1. CASE T = {}
    <3>1. it[T] = 0
      BY <1>1, <2>1
    <3>2. QED
      BY <2>1, <3>1
  <2>2. CASE T # {}
    <3>1. PICK y \in T : y = Some(T)
      BY <2>2, SomeIn
    <3>2. it[T] = f[y] + it[T \ {y}] /\ f[y] \in Int /\ Ok(T \ {y})
      BY <1>1, <1>2, <2>2, <3>1
    <3>3. ASSUME NEW x \in T PROVE it[T] = f[x] + it[T \ {x}]
      <4>1. CASE x = y
        BY <3>2, <4>1
      <4>2. CASE x # y
        <5>1. x \in T \ {y} /\ y \in T \ {x} /\ (T \ {y}) \ {x} = (T \ {x}) \ {y}
          BY <4>2
        <5>2. Ok(T \ {x}) /\ f[x] \in Int
          BY <1>2
        <5>3. it[T \ {y}] = f[x] + it[(T \ {x}) \ {y}]
          BY <3>2, <5>1
        <5>4. it[T \ {x}] = f[y] + it[(T \ {x}) \ {y}]
          BY <5>1, <5>2
        <5>5. it[(T \ {x}) \ {y}] \in Int
          BY <5>1, <5>2
        <5>6. QED
          BY <3>2, <5>2, <5>3, <5>4, <5>5
      <4>3. QED
        BY <4>1, <4>2
    <3>4. \A x \in T : it[T \ {x}] \in Int
      BY <1>2
    <3>5. it[T] \in Int
      BY <3>2
    <3>6. QED
      BY <3>3, <3>4, <3>5
  <2>3. QED
    BY <2>1, <2>2
<1>3. SUBSET S \subseteq P
  <2> HIDE DEF P
  <2>1. QED
    BY <1>2, RemovalInduct
<1>4. QED
  BY <1>1, <1>3 DEF Adds

(* Only the values on the set count.                                       *)
LEMMA SumAgrees ==
  ASSUME NEW S, IsFiniteSet(S), NEW R \in SUBSET S, NEW f, NEW g,
         \A x \in R : f[x] = g[x],
         NEW it, IsSum(it, f, S), NEW ot, IsSum(ot, g, R)
  PROVE  it[R] = ot[R]
<1> DEFINE P == {T \in SUBSET R : it[T] = ot[T]}
<1>1. IsFiniteSet(R)
  BY FS_Subset
<1>2. \A T \in SUBSET R :
        /\ it[T] = IF T = {} THEN 0 ELSE f[Some(T)] + it[T \ {Some(T)}]
        /\ ot[T] = IF T = {} THEN 0 ELSE g[Some(T)] + ot[T \ {Some(T)}]
  BY DEF IsSum
<1>3. ASSUME NEW T \in SUBSET R, \A x \in T : T \ {x} \in P PROVE T \in P
  <2>1. CASE T = {}
    <3>1. it[T] = 0 /\ ot[T] = 0
      BY <1>2, <2>1
    <3>2. QED
      BY <3>1
  <2>2. CASE T # {}
    <3>1. PICK y \in T : y = Some(T)
      BY <2>2, SomeIn
    <3>2. it[T] = f[y] + it[T \ {y}] /\ ot[T] = g[y] + ot[T \ {y}]
      BY <1>2, <2>2, <3>1
    <3>3. it[T \ {y}] = ot[T \ {y}] /\ f[y] = g[y]
      BY <1>3
    <3>4. QED
      BY <3>2, <3>3
  <2>3. QED
    BY <2>1, <2>2
<1>4. SUBSET R \subseteq P
  <2> HIDE DEF P
  <2>1. QED
    BY <1>1, <1>3, RemovalInduct
<1>5. QED
  BY <1>4

(* MapThenSumSet computes with one of these functions.                     *)
LEMMA SigmaIs ==
  ASSUME NEW S, IsFiniteSet(S), NEW f, \A x \in S : f[x] \in Int
  PROVE  \E it : IsSum(it, f, S) /\ Sigma(f, S) = it[S]
<1> DEFINE it == CHOOSE i : IsSum(i, f, S)
<1>1. Sigma(f, S) = it[S]
  BY DEF Sigma, MapThenSumSet, MapThenFoldSet, IsSum, Some
<1>2. IsSum(it, f, S)
  BY SumExists
<1>3. QED
  BY <1>1, <1>2

(* The sum over a set: nothing, or the sum over the rest and one more.     *)
THEOREM SigmaAdds ==
  ASSUME NEW S, IsFiniteSet(S), NEW f, \A x \in S : f[x] \in Int
  PROVE  /\ Sigma(f, S) \in Int
         /\ S = {} => Sigma(f, S) = 0
         /\ \A x \in S : Sigma(f, S) = f[x] + Sigma(f, S \ {x})
<1>1. PICK it : IsSum(it, f, S) /\ Sigma(f, S) = it[S]
  BY SigmaIs
<1>2. /\ it[S] \in Int
      /\ S = {} => it[S] = 0
      /\ \A x \in S : it[S] = f[x] + it[S \ {x}]
  <2>1. Adds(it, f, S)
    BY <1>1, SumAdds
  <2>2. QED
    BY <2>1 DEF Adds
<1>3. ASSUME NEW x \in S PROVE Sigma(f, S \ {x}) = it[S \ {x}]
  <2>1. IsFiniteSet(S \ {x})
    BY FS_RemoveElement
  <2>2. PICK ot : IsSum(ot, f, S \ {x}) /\ Sigma(f, S \ {x}) = ot[S \ {x}]
    BY <2>1, SigmaIs
  <2>3. QED
    BY <1>1, <2>2, SumAgrees
<1>4. QED
  BY <1>1, <1>2, <1>3

(* The sum depends only on what the function is on the set.                *)
THEOREM SigmaAgrees ==
  ASSUME NEW S, IsFiniteSet(S), NEW f, NEW g,
         \A x \in S : f[x] \in Int /\ f[x] = g[x]
  PROVE  Sigma(f, S) = Sigma(g, S)
<1>1. PICK it : IsSum(it, f, S) /\ Sigma(f, S) = it[S]
  BY SigmaIs
<1>2. PICK ot : IsSum(ot, g, S) /\ Sigma(g, S) = ot[S]
  BY SigmaIs
<1>3. QED
  BY <1>1, <1>2, SumAgrees

-----------------------------------------------------------------------------
(* Sequences of sequences, one after the other.                            *)

(* it is the function FlattenSeq computes with.                            *)
IsFlat(it, ss) ==
  it = [i \in 1 .. Len(ss) |-> IF i = 1 THEN ss[i] ELSE it[i - 1] \o ss[i]]

(* There is one: built for the first n sequences, one n after the other.   *)
LEMMA FlatExists ==
  ASSUME NEW S, NEW ss \in Seq(Seq(S)) PROVE \E it : IsFlat(it, ss)
<1> DEFINE Good(g, n) == \A i \in 1 .. Len(ss) : i <= n =>
                           g[i] = IF i = 1 THEN ss[i] ELSE g[i - 1] \o ss[i]
           Q == {n \in Nat : \E g : Good(g, n)}
<1>1. 0 \in Q
  OBVIOUS
<1>2. ASSUME NEW n \in Nat, n \in Q PROVE n + 1 \in Q
  <2>1. PICK g : Good(g, n)
    BY <1>2
  <2> DEFINE h == [i \in 1 .. Len(ss) |->
                     IF i <= n THEN g[i]
                     ELSE IF i = 1 THEN ss[i] ELSE g[i - 1] \o ss[i]]
  <2>2. ASSUME NEW i \in 1 .. Len(ss), i <= n + 1
        PROVE  h[i] = IF i = 1 THEN ss[i] ELSE h[i - 1] \o ss[i]
    <3>1. i # 1 => i - 1 \in 1 .. Len(ss) /\ i - 1 <= n
      BY <2>2
    <3>2. i # 1 => h[i - 1] = g[i - 1]
      BY <3>1
    <3>3. h[i] = IF i = 1 THEN ss[i] ELSE g[i - 1] \o ss[i]
      BY <2>1
    <3>4. QED
      BY <3>2, <3>3
  <2>3. Good(h, n + 1)
    BY <2>2
  <2> HIDE DEF Good, h
  <2>4. QED
    BY <2>3
<1>3. Nat \subseteq Q
  <2> HIDE DEF Q
  <2>1. QED
    BY <1>1, <1>2, NatInduct
<1>4. PICK g : Good(g, Len(ss))
  <2>1. Len(ss) \in Nat
    OBVIOUS
  <2>2. Len(ss) \in Q
    BY <1>3, <2>1
  <2>3. QED
    BY <2>2
<1> DEFINE it == [i \in 1 .. Len(ss) |-> g[i]]
<1>5. ASSUME NEW i \in 1 .. Len(ss)
      PROVE  it[i] = IF i = 1 THEN ss[i] ELSE it[i - 1] \o ss[i]
  <2>1. i # 1 => i - 1 \in 1 .. Len(ss)
    OBVIOUS
  <2>2. QED
    BY <1>4, <2>1
<1>6. IsFlat(it, ss)
  BY <1>5 DEF IsFlat
<1>7. QED
  BY <1>6

(* What one of these functions holds, step by step.                        *)
Unrolls(it, ss) ==
  /\ Len(ss) # 0 => it[1] = ss[1]
  /\ \A i \in 2 .. Len(ss) : it[i] = it[i - 1] \o ss[i]

(* FlattenSeq unrolled from the left.                                      *)
LEMMA FlatUnrolls ==
  ASSUME NEW ss, Len(ss) \in Nat, NEW it, IsFlat(it, ss)
  PROVE  Unrolls(it, ss)
<1>1. \A i \in 1 .. Len(ss) : it[i] = IF i = 1 THEN ss[i] ELSE it[i - 1] \o ss[i]
  BY DEF IsFlat
<1>2. Len(ss) # 0 => 1 \in 1 .. Len(ss)
  OBVIOUS
<1>3. \A i \in 2 .. Len(ss) : i \in 1 .. Len(ss) /\ i # 1
  OBVIOUS
<1>4. QED
  BY <1>1, <1>2, <1>3 DEF Unrolls

(* FlattenSeq computes with one of these functions.                        *)
LEMMA FlatIs ==
  ASSUME NEW S, NEW ss \in Seq(Seq(S))
  PROVE  \E it : Unrolls(it, ss) /\ (Len(ss) # 0 => FlattenSeq(ss) = it[Len(ss)])
<1> DEFINE it == CHOOSE i : IsFlat(i, ss)
<1>1. Len(ss) # 0 => FlattenSeq(ss) = it[Len(ss)]
  BY DEF FlattenSeq, IsFlat
<1>2. IsFlat(it, ss)
  BY FlatExists
<1>3. Len(ss) \in Nat
  OBVIOUS
<1> HIDE DEF it
<1>4. QED
  BY <1>1, <1>2, <1>3, FlatUnrolls

(* It holds sequences.                                                     *)
LEMMA FlatHolds ==
  ASSUME NEW S, NEW ss \in Seq(Seq(S)), NEW it, Unrolls(it, ss)
  PROVE  \A i \in 1 .. Len(ss) : it[i] \in Seq(S)
<1> DEFINE P == {i \in 1 .. Len(ss) : it[i] \in Seq(S)}
           k == Len(ss)
<1>1. k \in Nat
  OBVIOUS
<1>2. k # 0 => 1 \in P
  BY DEF Unrolls
<1>3. ASSUME NEW i \in 2 .. k, i - 1 \in P PROVE i \in P
  <2>1. it[i - 1] \in Seq(S) /\ ss[i] \in Seq(S)
    BY <1>3
  <2>2. it[i] = it[i - 1] \o ss[i]
    BY DEF Unrolls
  <2>3. it[i] \in Seq(S)
    BY <2>1, <2>2
  <2>4. QED
    BY <2>3
<1>4. 1 .. k \subseteq P
  <2> HIDE DEF P, k
  <2>1. QED
    BY <1>1, <1>2, <1>3, IntervalInduct
<1>5. QED
  BY <1>4

(* Nothing flattens to nothing.                                            *)
LEMMA FlatEmpty == FlattenSeq(<<>>) = <<>>
BY DEF FlattenSeq

(* What is flattened has the elements of the parts.                        *)
LEMMA FlatType ==
  ASSUME NEW S, NEW ss \in Seq(Seq(S)) PROVE FlattenSeq(ss) \in Seq(S)
<1>1. CASE ss = <<>>
  <2>1. <<>> \in Seq(S)
    OBVIOUS
  <2>2. QED
    BY <1>1, <2>1, FlatEmpty
<1>2. CASE ss # <<>>
  <2>1. PICK it : Unrolls(it, ss) /\ (Len(ss) # 0 => FlattenSeq(ss) = it[Len(ss)])
    BY FlatIs
  <2>2. Len(ss) \in 1 .. Len(ss) /\ Len(ss) # 0
    BY <1>2
  <2>3. it[Len(ss)] \in Seq(S)
    BY <2>1, <2>2, FlatHolds
  <2>4. QED
    BY <2>1, <2>2, <2>3
<1>3. QED
  BY <1>1, <1>2

(* A sequence more at the end comes at the end.                            *)
THEOREM FlatAppend ==
  ASSUME NEW S, NEW ss \in Seq(Seq(S)), NEW s \in Seq(S)
  PROVE  FlattenSeq(Append(ss, s)) = FlattenSeq(ss) \o s
<1>1. PICK tt \in Seq(Seq(S)) : tt = Append(ss, s)
  <2>1. Append(ss, s) \in Seq(Seq(S))
    OBVIOUS
  <2>2. QED
    BY <2>1
<1>2. PICK m \in Nat : m = Len(ss)
  OBVIOUS
<1>3. /\ Len(tt) = m + 1 /\ tt[m + 1] = s /\ Len(tt) # 0
      /\ \A i \in 1 .. m : tt[i] = ss[i]
  BY <1>1, <1>2
<1>4. PICK ot : Unrolls(ot, tt) /\ (Len(tt) # 0 => FlattenSeq(tt) = ot[Len(tt)])
  BY FlatIs
<1>5. FlattenSeq(tt) = ot[m + 1]
  BY <1>3, <1>4
<1>6. CASE m = 0
  <2>1. ot[1] = tt[1]
    BY <1>3, <1>4 DEF Unrolls
  <2>2. FlattenSeq(tt) = s
    BY <1>3, <1>5, <1>6, <2>1
  <2>3. ss = <<>>
    BY <1>2, <1>6, EmptySeq
  <2>4. QED
    BY <1>1, <2>2, <2>3, FlatEmpty
<1>7. CASE m # 0
  <2>1. PICK it : Unrolls(it, ss) /\ (Len(ss) # 0 => FlattenSeq(ss) = it[Len(ss)])
    BY FlatIs
  <2>2. FlattenSeq(ss) = it[m]
    BY <1>2, <1>7, <2>1
  <2> DEFINE P == {i \in 1 .. m : it[i] = ot[i]}
  <2>3. 1 \in P
    BY <1>2, <1>3, <1>4, <1>7, <2>1 DEF Unrolls
  <2>4. ASSUME NEW i \in 2 .. m, i - 1 \in P PROVE i \in P
    <3>1. i \in 1 .. m /\ i \in 2 .. Len(ss) /\ i \in 2 .. Len(tt)
      BY <1>2, <1>3
    <3>2. it[i] = it[i - 1] \o ss[i] /\ ot[i] = ot[i - 1] \o tt[i]
      BY <1>4, <2>1, <3>1 DEF Unrolls
    <3>3. tt[i] = ss[i] /\ it[i - 1] = ot[i - 1]
      BY <1>3, <2>4, <3>1
    <3>4. QED
      BY <3>1, <3>2, <3>3
  <2>5. 1 .. m \subseteq P
    <3> HIDE DEF P
    <3>1. QED
      BY <2>3, <2>4, IntervalInduct
  <2>6. it[m] = ot[m]
    <3>1. m \in 1 .. m
      BY <1>7
    <3>2. QED
      BY <2>5, <3>1
  <2>7. ot[m + 1] = ot[m] \o tt[m + 1]
    <3>1. PICK j \in 2 .. Len(tt) : j = m + 1 /\ j - 1 = m
      BY <1>3, <1>7
    <3>2. ot[j] = ot[j - 1] \o tt[j]
      BY <1>4 DEF Unrolls
    <3>3. QED
      BY <3>1, <3>2
  <2>8. QED
    BY <1>1, <1>3, <1>5, <2>2, <2>6, <2>7
<1>8. QED
  BY <1>6, <1>7

(* One more at the front comes at the front.                               *)
THEOREM FlatCons ==
  ASSUME NEW S, NEW ss \in Seq(Seq(S)), NEW s \in Seq(S)
  PROVE  FlattenSeq(<<s>> \o ss) = s \o FlattenSeq(ss)
<1>1. PICK tt \in Seq(Seq(S)) : tt = <<s>> \o ss
  <2>1. <<s>> \o ss \in Seq(Seq(S))
    OBVIOUS
  <2>2. QED
    BY <2>1
<1>2. PICK m \in Nat : m = Len(ss)
  OBVIOUS
<1>3. /\ Len(tt) = m + 1 /\ tt[1] = s /\ Len(tt) # 0
      /\ \A i \in 2 .. m + 1 : tt[i] = ss[i - 1]
  BY <1>1, <1>2
<1>4. PICK ot : Unrolls(ot, tt) /\ (Len(tt) # 0 => FlattenSeq(tt) = ot[Len(tt)])
  BY FlatIs
<1>5. FlattenSeq(tt) = ot[m + 1] /\ ot[1] = s
  BY <1>3, <1>4 DEF Unrolls
<1>6. CASE m = 0
  <2>1. ss = <<>>
    BY <1>2, <1>6, EmptySeq
  <2>2. s \o <<>> = s
    OBVIOUS
  <2>3. QED
    BY <1>1, <1>5, <1>6, <2>1, <2>2, FlatEmpty
<1>7. CASE m # 0
  <2>1. PICK it : Unrolls(it, ss) /\ (Len(ss) # 0 => FlattenSeq(ss) = it[Len(ss)])
    BY FlatIs
  <2>2. FlattenSeq(ss) = it[m]
    BY <1>2, <1>7, <2>1
  <2>3. \A i \in 1 .. m : it[i] \in Seq(S) /\ ss[i] \in Seq(S)
    BY <1>2, <2>1, FlatHolds
  <2> DEFINE P == {i \in 1 .. m : ot[i + 1] = s \o it[i]}
  <2>4. ASSUME NEW i \in 1 .. m PROVE ot[i + 1] = ot[i] \o ss[i]
    <3>1. PICK j \in 2 .. Len(tt) : j = i + 1 /\ j - 1 = i
      <4>1. i + 1 \in 2 .. Len(tt) /\ (i + 1) - 1 = i
        BY <1>3
      <4>2. QED
        BY <4>1
    <3>2. ot[j] = ot[j - 1] \o tt[j] /\ tt[j] = ss[j - 1]
      BY <1>3, <1>4 DEF Unrolls
    <3>3. QED
      BY <3>1, <3>2
  <2>5. 1 \in P
    <3>1. it[1] = ss[1] /\ 1 \in 1 .. m
      BY <1>2, <1>7, <2>1 DEF Unrolls
    <3>2. ot[1 + 1] = ot[1] \o ss[1]
      BY <2>4, <3>1
    <3>3. QED
      BY <1>5, <3>1, <3>2
  <2>6. ASSUME NEW i \in 2 .. m, i - 1 \in P PROVE i \in P
    <3>1. i \in 1 .. m /\ i - 1 \in 1 .. m /\ i \in 2 .. Len(ss) /\ (i - 1) + 1 = i
      BY <1>2
    <3>2. it[i] = it[i - 1] \o ss[i]
      BY <2>1, <3>1 DEF Unrolls
    <3>3. ot[i + 1] = ot[i] \o ss[i] /\ ot[i] = s \o it[i - 1]
      BY <2>4, <2>6, <3>1
    <3>4. (s \o it[i - 1]) \o ss[i] = s \o (it[i - 1] \o ss[i])
      <4>1. it[i - 1] \in Seq(S) /\ ss[i] \in Seq(S)
        BY <2>3, <3>1
      <4>2. PICK u \in Seq(S), v \in Seq(S) : u = it[i - 1] /\ v = ss[i]
        BY <4>1
      <4>3. (s \o u) \o v = s \o (u \o v)
        OBVIOUS
      <4>4. QED
        BY <4>2, <4>3
    <3>5. QED
      BY <3>1, <3>2, <3>3, <3>4
  <2>7. 1 .. m \subseteq P
    <3> HIDE DEF P
    <3>1. QED
      BY <2>5, <2>6, IntervalInduct
  <2>8. m \in 1 .. m
    BY <1>7
  <2>9. QED
    BY <1>1, <1>5, <2>2, <2>7, <2>8
<1>8. QED
  BY <1>6, <1>7

-----------------------------------------------------------------------------
(* The images of the elements of a sequence, one after the other.          *)

Image(f, q) == FlattenSeq([n \in DOMAIN q |-> f[q[n]]])

(* The parts of an image are sequences,                                    *)
LEMMA ImageParts ==
  ASSUME NEW S, NEW T, NEW f \in [T -> Seq(S)], NEW q \in Seq(T)
  PROVE  [n \in DOMAIN q |-> f[q[n]]] \in Seq(Seq(S))
<1>1. PICK Q : Q = Seq(S)
  OBVIOUS
<1>2. DOMAIN q = 1 .. Len(q) /\ Len(q) \in Nat
  OBVIOUS
<1>3. \A n \in 1 .. Len(q) : f[q[n]] \in Q
  BY <1>1
<1>4. [n \in 1 .. Len(q) |-> f[q[n]]] \in Seq(Q)
  BY <1>2, <1>3, IsASeq
<1>5. QED
  BY <1>1, <1>2, <1>4

(* and so is the image.                                                    *)
LEMMA ImageType ==
  ASSUME NEW S, NEW T, NEW f \in [T -> Seq(S)], NEW q \in Seq(T)
  PROVE  Image(f, q) \in Seq(S)
<1>1. PICK ss \in Seq(Seq(S)) : ss = [n \in DOMAIN q |-> f[q[n]]]
  BY ImageParts
<1>2. FlattenSeq(ss) \in Seq(S)
  BY FlatType
<1>3. QED
  BY <1>1, <1>2 DEF Image

(* The image of nothing is nothing.                                        *)
LEMMA ImageEmpty == \A f : Image(f, <<>>) = <<>>
<1> TAKE f
<1>1. [n \in DOMAIN <<>> |-> f[<<>>[n]]] = <<>>
  OBVIOUS
<1>2. QED
  BY <1>1, FlatEmpty DEF Image

(* One element more gives the image of one more.                           *)
Extends(f, S, T) ==
  \A q \in Seq(T), t \in T : /\ Image(f, q) \in Seq(S) /\ f[t] \in Seq(S)
                             /\ Image(f, Append(q, t)) = Image(f, q) \o f[t]

(* With one element more at the end the image is one part longer.          *)
THEOREM ImageAppend ==
  ASSUME NEW S, NEW T, NEW f \in [T -> Seq(S)] PROVE Extends(f, S, T)
<1> SUFFICES ASSUME NEW q \in Seq(T), NEW t \in T
             PROVE  /\ Image(f, q) \in Seq(S) /\ f[t] \in Seq(S)
                    /\ Image(f, Append(q, t)) = Image(f, q) \o f[t]
  BY DEF Extends
<1>1. PICK ss \in Seq(Seq(S)) : ss = [n \in DOMAIN q |-> f[q[n]]]
  BY ImageParts
<1>2. PICK s \in Seq(S) : s = f[t]
  OBVIOUS
<1>3. PICK r \in Seq(T) : r = Append(q, t)
  <2>1. Append(q, t) \in Seq(T)
    OBVIOUS
  <2>2. QED
    BY <2>1
<1>4. [n \in DOMAIN r |-> f[r[n]]] = Append(ss, s)
  <2>1. /\ Len(r) = Len(q) + 1 /\ r[Len(q) + 1] = t
        /\ \A n \in 1 .. Len(q) : r[n] = q[n]
    BY <1>3
  <2>2. Len(ss) = Len(q) /\ \A n \in 1 .. Len(q) : ss[n] = f[q[n]]
    BY <1>1
  <2>3. QED
    BY <1>2, <2>1, <2>2
<1>5. FlattenSeq(Append(ss, s)) = FlattenSeq(ss) \o s
  BY FlatAppend
<1>6. Image(f, q) \in Seq(S) /\ f[t] \in Seq(S)
  BY ImageType
<1>7. QED
  BY <1>1, <1>2, <1>3, <1>4, <1>5, <1>6 DEF Image

(* The image of the head comes before that of the tail.                    *)
Splits(f, S, T) ==
  \A q \in Seq(T) : q # <<>> =>
     /\ Image(f, Tail(q)) \in Seq(S) /\ f[Head(q)] \in Seq(S)
     /\ Image(f, q) = f[Head(q)] \o Image(f, Tail(q))

(* An image is the part of the head and the image of the tail.             *)
THEOREM ImageTail ==
  ASSUME NEW S, NEW T, NEW f \in [T -> Seq(S)] PROVE Splits(f, S, T)
<1> SUFFICES ASSUME NEW q \in Seq(T), q # <<>>
             PROVE  /\ Image(f, Tail(q)) \in Seq(S) /\ f[Head(q)] \in Seq(S)
                    /\ Image(f, q) = f[Head(q)] \o Image(f, Tail(q))
  BY DEF Splits
<1>1. PICK r \in Seq(T) : r = Tail(q)
  <2>1. Tail(q) \in Seq(T)
    OBVIOUS
  <2>2. QED
    BY <2>1
<1>2. PICK ss \in Seq(Seq(S)) : ss = [n \in DOMAIN r |-> f[r[n]]]
  BY ImageParts
<1>3. PICK s \in Seq(S) : s = f[Head(q)]
  <2>1. Head(q) \in T
    OBVIOUS
  <2>2. f[Head(q)] \in Seq(S)
    BY <2>1
  <2>3. QED
    BY <2>2
<1>4. [n \in DOMAIN q |-> f[q[n]]] = <<s>> \o ss
  <2>1. /\ Len(q) = Len(r) + 1 /\ f[q[1]] = s
        /\ \A n \in 2 .. Len(q) : q[n] = r[n - 1]
    BY <1>1, <1>3
  <2>2. Len(ss) = Len(r) /\ \A n \in 1 .. Len(r) : ss[n] = f[r[n]]
    BY <1>2
  <2>3. PICK tt \in Seq(Seq(S)) : tt = <<s>> \o ss
    <3>1. <<s>> \o ss \in Seq(Seq(S))
      OBVIOUS
    <3>2. QED
      BY <3>1
  <2>4. /\ Len(tt) = Len(q) /\ tt[1] = s
        /\ \A n \in 2 .. Len(q) : tt[n] = ss[n - 1]
    BY <2>1, <2>2, <2>3
  <2>5. ASSUME NEW n \in 1 .. Len(q) PROVE tt[n] = f[q[n]]
    <3>1. CASE n = 1
      BY <2>1, <2>4, <3>1
    <3>2. CASE n # 1
      <4>1. n \in 2 .. Len(q) /\ n - 1 \in 1 .. Len(r)
        BY <2>1, <3>2
      <4>2. QED
        BY <2>1, <2>2, <2>4, <4>1
    <3>3. QED
      BY <3>1, <3>2
  <2>6. tt = [n \in DOMAIN q |-> f[q[n]]]
    BY <2>4, <2>5
  <2>7. QED
    BY <2>3, <2>6
<1>5. FlattenSeq(<<s>> \o ss) = s \o FlattenSeq(ss)
  BY FlatCons
<1>6. Image(f, r) \in Seq(S)
  BY ImageType
<1>7. QED
  BY <1>1, <1>2, <1>3, <1>4, <1>5, <1>6 DEF Image

(* The image of two sequences is that of the one and then of the other.    *)
Joins(f, S, T) ==
  \A q, r \in Seq(T) : /\ Image(f, q) \in Seq(S) /\ Image(f, r) \in Seq(S)
                       /\ Image(f, q \o r) = Image(f, q) \o Image(f, r)

(* The image of two sequences, one after the other.                        *)
THEOREM ImageConcat ==
  ASSUME NEW S, NEW T, NEW f \in [T -> Seq(S)] PROVE Joins(f, S, T)
<1> SUFFICES ASSUME NEW q \in Seq(T), NEW r \in Seq(T)
             PROVE  /\ Image(f, q) \in Seq(S) /\ Image(f, r) \in Seq(S)
                    /\ Image(f, q \o r) = Image(f, q) \o Image(f, r)
  BY DEF Joins
<1> DEFINE Ok(u) == Image(f, q \o u) = Image(f, q) \o Image(f, u)
           P == {n \in Nat : \A u \in Seq(T) : Len(u) = n => Ok(u)}
<1>1. Image(f, q) \in Seq(S)
  BY ImageType
<1>2. 0 \in P
  <2>1. ASSUME NEW u \in Seq(T), Len(u) = 0 PROVE Ok(u)
    <3>1. u = <<>>
      BY <2>1, EmptySeq
    <3>2. Image(f, u) = <<>>
      BY <3>1, ImageEmpty
    <3>3. q \o u = q
      BY <3>1
    <3>4. QED
      BY <1>1, <3>2, <3>3
  <2>2. QED
    BY <2>1
<1>3. ASSUME NEW n \in Nat, n \in P PROVE n + 1 \in P
  <2>1. ASSUME NEW u \in Seq(T), Len(u) = n + 1 PROVE Ok(u)
    <3>1. PICK v \in Seq(T), t \in T : u = Append(v, t)
      <4>1. u # <<>>
        BY <2>1
      <4>2. QED
        BY <4>1, SequenceEmptyOrAppend
    <3>2. Len(v) = n
      BY <2>1, <3>1
    <3>3. Ok(v)
      BY <1>3, <3>2
    <3>4. PICK w \in Seq(T) : w = q \o v
      <4>1. q \o v \in Seq(T)
        OBVIOUS
      <4>2. QED
        BY <4>1
    <3>5. q \o u = Append(w, t)
      BY <3>1, <3>4
    <3>6. /\ Image(f, Append(w, t)) = Image(f, w) \o f[t]
          /\ Image(f, Append(v, t)) = Image(f, v) \o f[t]
      <4>1. Extends(f, S, T)
        BY ImageAppend
      <4>2. QED
        BY <4>1 DEF Extends
    <3>7. PICK a \in Seq(S), b \in Seq(S), d \in Seq(S) :
            a = Image(f, q) /\ b = Image(f, v) /\ d = f[t]
      <4>1. Image(f, v) \in Seq(S) /\ f[t] \in Seq(S)
        BY ImageType
      <4>2. QED
        BY <1>1, <4>1
    <3>8. (a \o b) \o d = a \o (b \o d)
      OBVIOUS
    <3>9. QED
      BY <3>1, <3>3, <3>4, <3>5, <3>6, <3>7, <3>8
  <2>2. QED
    BY <2>1
<1>4. Nat \subseteq P
  <2> HIDE DEF P
  <2>1. QED
    BY <1>2, <1>3, NatInduct
<1>5. Len(r) \in P
  <2> HIDE DEF P
  <2>1. Len(r) \in Nat
    OBVIOUS
  <2>2. QED
    BY <1>4, <2>1
<1>6. Image(f, r) \in Seq(S)
  BY ImageType
<1>7. QED
  BY <1>1, <1>5, <1>6
=============================================================================
