--------------------------- MODULE OperatorProofs ---------------------------
(***************************************************************************)
(* Facts about the operators the models are built from: the severity of an *)
(* error, the deque of SlidingWindowBuffer, and the sums that the books    *)
(* are compared with.                                                      *)
(***************************************************************************)
EXTENDS Severity, WindowBuffer, FiniteSetsExt, SequenceTheorems, FiniteSetTheorems,
        NaturalsInduction, WellFoundedInduction, TLAPS

-----------------------------------------------------------------------------
(* Severities.                                                             *)

Rank(severity) ==
    CASE severity = "CRITICAL" -> 2 [] severity = "WARNING" -> 1 [] OTHER -> 0

\* x is no larger than y, as IEEE compares them: nothing compares with a NaN.
NoLarger(x, y) == y = Inf \/ (x \in Int /\ y \in Int /\ x <= y)

\* What passes a threshold still passes it when it is larger.
LEMMA LargerPasses ==
    ASSUME NEW x \in Errors, NEW y \in Errors, NoLarger(x, y),
           NEW threshold \in Doubles, NEW lower \in Doubles, lower <= threshold,
           AtLeast(x, threshold)
    PROVE  AtLeast(y, lower)
  BY FloatAssumption DEF Errors, AtLeast, NoLarger

\* classify_severity is monotone, in whichever order the two thresholds are: a
\* larger error, or the same error under lower thresholds, is never less severe.
THEOREM SeverityMonotone ==
    ASSUME NEW x \in Errors, NEW y \in Errors, NoLarger(x, y),
           NEW w1 \in Doubles, NEW w2 \in Doubles, w2 <= w1,
           NEW c1 \in Doubles, NEW c2 \in Doubles, c2 <= c1
    PROVE  Rank(classify_severity(x, w1, c1)) <= Rank(classify_severity(y, w2, c2))
<1>1. AtLeast(x, c1) => AtLeast(y, c2)
  BY LargerPasses
<1>2. AtLeast(x, w1) => AtLeast(y, w2)
  BY LargerPasses
<1>3. Rank("CRITICAL") = 2 /\ Rank("WARNING") = 1 /\ Rank("NORMAL") = 0
  BY DEF Rank
<1> QED
  BY <1>1, <1>2, <1>3 DEF classify_severity

\* Rounding to the single grid cannot pass over a single.
LEMMA RoundedThreshold ==
    ASSUME NEW error \in Errors, NEW threshold \in Doubles, AtLeast(error, threshold)
    PROVE  AtLeast(error, Real32[threshold])
  BY FloatAssumption DEF Errors, AtLeast

\* A stored row classified again, from its own REAL columns, is never less
\* severe than it was when the detector classified it in 64 bits.
THEOREM ReclassifiedNotMilder ==
    ASSUME NEW x \in Errors, NEW w \in Doubles, NEW c \in Doubles
    PROVE  Rank(classify_severity(x, w, c))
               <= Rank(classify_severity(x, Real32[w], Real32[c]))
<1>1. /\ AtLeast(x, c) => AtLeast(x, Real32[c])
      /\ AtLeast(x, w) => AtLeast(x, Real32[w])
  BY RoundedThreshold
<1>2. Rank("CRITICAL") = 2 /\ Rank("WARNING") = 1 /\ Rank("NORMAL") = 0
  BY DEF Rank
<1> QED
  BY <1>1, <1>2 DEF classify_severity

-----------------------------------------------------------------------------
(* The deque is the end of what was pushed.                                *)

\* push() returns a buffer that is never longer than its maxlen.
LEMMA PushType ==
    ASSUME NEW S, NEW buf \in Seq(S), NEW x \in S, Len(buf) <= window_size
    PROVE  /\ push(buf, x) \in Seq(S)
           /\ Len(push(buf, x)) <= window_size
           /\ Len(push(buf, x)) \in 1 .. window_size
  BY WindowSizeAssumption DEF push

\* What the newest n values of a history are, once there are that many.
LEMMA LastOfElements ==
    ASSUME NEW S, NEW h \in Seq(S), NEW n \in Nat, n <= Len(h)
    PROVE  /\ LastOf(h, n) \in Seq(S) /\ Len(LastOf(h, n)) = n
           /\ \A k \in 1 .. n : LastOf(h, n)[k] = h[Len(h) - n + k]
<1>1. Len(h) \in Nat
  OBVIOUS
<1>2. CASE Len(h) = n
  BY <1>1, <1>2 DEF LastOf
<1>3. CASE Len(h) > n
  <2> DEFINE d == Len(h) - n
  <2>1. d \in Nat /\ d + n = Len(h) /\ LastOf(h, n) = SubSeq(h, d + 1, Len(h))
    BY <1>1, <1>3 DEF LastOf
  <2>2. \A i \in d + 1 .. Len(h) : h[i] \in S
    BY <2>1, <1>1
  <2> HIDE DEF d
  <2>3. /\ SubSeq(h, d + 1, Len(h)) \in Seq(S) /\ Len(SubSeq(h, d + 1, Len(h))) = n
        /\ \A k \in 1 .. n : SubSeq(h, d + 1, Len(h))[k] = h[d + 1 + k - 1]
    BY <2>1, <2>2, <1>1, SubSeqProperties
  <2>4. \A k \in 1 .. n : d + 1 + k - 1 = d + k
    BY <2>1
  <2> QED
    BY <2>1, <2>3, <2>4 DEF d
<1> QED
  BY <1>1, <1>2, <1>3

\* A history that is too short is all there is.
LEMMA LastOfLength ==
    ASSUME NEW S, NEW h \in Seq(S), NEW n \in Nat, Len(LastOf(h, n)) = n
    PROVE  n <= Len(h)
  BY DEF LastOf

\* A deque that holds the newest window_size values of a history holds the
\* newest window_size values of the longer history after push().
THEOREM PushKeepsNewest ==
    ASSUME NEW S, NEW h \in Seq(S), NEW x \in S
    PROVE  push(LastOf(h, window_size), x) = LastOf(Append(h, x), window_size)
<1> DEFINE W == window_size
           old == LastOf(h, W)
           new == LastOf(Append(h, x), W)
<1>0. W \in Nat /\ W >= 1 /\ Len(h) \in Nat
  BY WindowSizeAssumption
<1>1. CASE Len(h) < W
  <2>1. old = h /\ new = Append(h, x)
    BY <1>0, <1>1 DEF LastOf
  <2>2. Len(old) # window_size
    BY <2>1, <1>1, <1>0
  <2> QED
    BY <2>1, <2>2 DEF push
<1>2. CASE Len(h) >= W
  <2> DEFINE d == Len(h) - W
  <2>1. d \in Nat /\ d + W = Len(h)
    BY <1>0, <1>2
  <2>2. /\ old \in Seq(S) /\ Len(old) = W
        /\ \A k \in 1 .. W : old[k] = h[d + k]
    BY <1>0, <1>2, LastOfElements
  <2>3. /\ Append(h, x) \in Seq(S) /\ Len(Append(h, x)) = Len(h) + 1
        /\ \A i \in 1 .. Len(h) : Append(h, x)[i] = h[i]
        /\ Append(h, x)[Len(h) + 1] = x
    BY AppendProperties
  <2>4. /\ new \in Seq(S) /\ Len(new) = W
        /\ \A k \in 1 .. W : new[k] = Append(h, x)[d + 1 + k]
    <3> DEFINE g == Append(h, x)
    <3>1. g \in Seq(S) /\ Len(g) = Len(h) + 1 /\ W <= Len(g)
      BY <2>3, <1>0, <1>2
    <3>2. \A k \in 1 .. W : Len(g) - W + k = d + 1 + k
      BY <3>1, <2>1, <1>0
    <3> HIDE DEF g
    <3>3. /\ LastOf(g, W) \in Seq(S) /\ Len(LastOf(g, W)) = W
          /\ \A k \in 1 .. W : LastOf(g, W)[k] = g[Len(g) - W + k]
      BY <3>1, <1>0, LastOfElements
    <3> QED
      BY <3>2, <3>3 DEF g
  <2>5. push(old, x) = Append(Tail(old), x)
    BY <2>2 DEF push
  <2> HIDE DEF old, new, d, W
  <2>6. /\ Tail(old) \in Seq(S) /\ Len(Tail(old)) = W - 1
        /\ \A k \in 1 .. W - 1 : Tail(old)[k] = old[k + 1]
    BY <2>2, <1>0, HeadTailProperties
  <2>7. /\ Append(Tail(old), x) \in Seq(S) /\ Len(Append(Tail(old), x)) = W
        /\ \A k \in 1 .. W - 1 : Append(Tail(old), x)[k] = h[d + 1 + k]
        /\ Append(Tail(old), x)[W] = x
    BY <2>6, <2>2, <2>1, <1>0, AppendProperties
  <2>8. /\ \A k \in 1 .. W - 1 : new[k] = h[d + 1 + k]
        /\ new[W] = x
    BY <2>4, <2>3, <2>1, <1>0
  <2>9. \A k \in 1 .. W : Append(Tail(old), x)[k] = new[k]
    BY <2>7, <2>8, <1>0
  <2>10. Append(Tail(old), x) = new
    BY <2>7, <2>4, <2>9, SeqEqual
  <2> QED
    BY <2>5, <2>10 DEF old, new, W
<1> QED
  BY <1>0, <1>1, <1>2

-----------------------------------------------------------------------------
(* Sums.  SumFunctionOnSet picks one term after the other, so what it      *)
(* yields is shown by induction over the parts of a finite set.            *)

\* A set of numbers that is not empty has a least one.
LEMMA Least ==
    ASSUME NEW T \in SUBSET Nat, T # {}
    PROVE  \E n \in T : \A m \in T : n <= m
  <1>1. IsWellFoundedOn({ss \in Nat \X Nat : ss[1] < ss[2]}, Nat)
    BY NatLessThanWellFounded DEF OpToRel
  <1>2. PICK n \in T : \A m \in T : ~(<<m, n>> \in {ss \in Nat \X Nat : ss[1] < ss[2]})
    BY <1>1, WFMin
  <1>3. \A m \in T : ~(m < n)
    BY <1>2
  <1> QED
    BY <1>3

\* Induction over the subsets of a finite set: a family G that contains a
\* subset whenever it contains all smaller ones contains them all.
LEMMA SubsetInduction ==
    ASSUME NEW S, IsFiniteSet(S), NEW G,
           ASSUME NEW T \in SUBSET S, \A U \in SUBSET T : U # T => U \in G
           PROVE  T \in G
    PROVE  \A T \in SUBSET S : T \in G
  <1> SUFFICES ASSUME NEW T0 \in SUBSET S, T0 \notin G PROVE FALSE
    OBVIOUS
  <1> DEFINE Bad == {T \in SUBSET S : T \notin G}
             Sizes == {Cardinality(T) : T \in Bad}
  <1>1. \A T \in SUBSET S : IsFiniteSet(T) /\ Cardinality(T) \in Nat
    BY FS_Subset, FS_CardinalityType
  <1>2. Sizes \in SUBSET Nat /\ Sizes # {}
    BY <1>1
  <1>3. PICK n \in Sizes : \A m \in Sizes : n <= m
    BY <1>2, Least
  <1>4. PICK T \in Bad : n = Cardinality(T)
    BY <1>3
  <1>5. ASSUME NEW U \in SUBSET T, U # T PROVE U \in G
    <2>1. Cardinality(U) < Cardinality(T) /\ Cardinality(U) \in Nat
      BY <1>1, <1>4, <1>5, FS_Subset
    <2>2. ~(n <= Cardinality(U))
      BY <1>1, <1>4, <2>1
    <2>3. U \notin Bad
      BY <1>3, <2>2
    <2> QED
      BY <1>4, <2>3
  <1> QED
    BY <1>4, <1>5

\* Finitely many natural numbers have a sum.
Summable(f, S) == IsFiniteSet(S) /\ \A x \in S : f[x] \in Nat

LEMMA SummablePart ==
    ASSUME NEW f, NEW S, Summable(f, S), NEW T \in SUBSET S
    PROVE  Summable(f, T) /\ IsFiniteSet(T)
  BY FS_Subset DEF Summable

\* Two functions agree on S.
Agree(f, g, S) == \A x \in S : f[x] = g[x]

\* How a sum is taken: g[T] is the sum of f over the part T of S.
Picked(T) == CHOOSE x \in T : TRUE
Partial(f, S) ==
    CHOOSE g : g = [T \in SUBSET S |-> IF T = {} THEN 0
                                       ELSE f[Picked(T)] + g[T \ {Picked(T)}]]

LEMMA SumIsPartial ==
    ASSUME NEW f, NEW S
    PROVE  SumFunctionOnSet(f, S) = Partial(f, S)[S]
  BY DEF SumFunctionOnSet, FoldFunctionOnSet, MapThenFoldSet, Partial, Picked

LEMMA PickedType == \A T : T # {} => Picked(T) \in T
  BY DEF Picked

\* Such a function exists: on the parts of n + 1 elements it is made from
\* the one on those of n.
LEMMA PartialStep ==
    ASSUME NEW f, NEW S, Summable(f, S), NEW T0 \in SUBSET S
    PROVE  /\ T0 = {} => Partial(f, S)[T0] = 0
           /\ T0 # {} => Partial(f, S)[T0] = f[Picked(T0)] + Partial(f, S)[T0 \ {Picked(T0)}]
  <1> DEFINE Upto(n) == {T \in SUBSET S : Cardinality(T) <= n}
             Step(g, T) == IF T = {} THEN 0 ELSE f[Picked(T)] + g[T \ {Picked(T)}]
             Good(g, n) == g = [T \in Upto(n) |-> Step(g, T)]
             Bad == {n \in Nat : ~ \E g : Good(g, n)}
  <1>1. \A T \in SUBSET S : IsFiniteSet(T) /\ Cardinality(T) \in Nat
    BY FS_Subset, FS_CardinalityType DEF Summable
  <1>2. \A T \in SUBSET S : T # {} => /\ T \ {Picked(T)} \in SUBSET S
                                      /\ Cardinality(T \ {Picked(T)}) = Cardinality(T) - 1
    BY <1>1, PickedType, FS_RemoveElement
  <1>3. Bad = {}
    <2> HIDE DEF Good
    <2> SUFFICES ASSUME Bad # {} PROVE FALSE
      OBVIOUS
    <2>1. PICK n \in Bad : \A m \in Bad : n <= m
      BY Least
    <2>2. n # 0
      <3> SUFFICES ASSUME n = 0 PROVE \E g : Good(g, 0)
        BY <2>1
      <3> DEFINE g0 == [T \in Upto(0) |-> 0]
      <3>1. \A T \in Upto(0) : T = {}
        BY <1>1, FS_EmptySet
      <3>2. \A T \in Upto(0) : Step(g0, T) = 0
        BY <3>1
      <3>3. Good(g0, 0)
        BY <3>2 DEF Good
      <3> QED
        BY <3>3
    <2>3. n - 1 \in Nat /\ n - 1 \notin Bad
      BY <2>1, <2>2
    <2>4. PICK g : Good(g, n - 1)
      BY <2>3
    <2> DEFINE h == [T \in Upto(n) |-> Step(g, T)]
    <2>5. ASSUME NEW T \in Upto(n) PROVE Step(g, T) = Step(h, T)
      <3>1. CASE T = {}
        BY <3>1
      <3>2. CASE T # {}
        <4> DEFINE U == T \ {Picked(T)}
        <4>1. U \in Upto(n - 1) /\ U \in Upto(n)
          BY <1>1, <1>2, <2>1, <3>2
        <4>2. g[U] = Step(g, U)
          BY <2>4, <4>1 DEF Good
        <4>3. h[U] = Step(g, U)
          BY <4>1
        <4> QED
          BY <3>2, <4>2, <4>3
      <3> QED
        BY <3>1, <3>2
    <2>6. Good(h, n)
      BY <2>5 DEF Good
    <2> QED
      BY <2>1, <2>6
  <1>4. PICK g : Good(g, Cardinality(S))
    BY <1>1, <1>3
  <1>5. Upto(Cardinality(S)) = SUBSET S
    BY FS_Subset DEF Summable
  <1>6. g = [T \in SUBSET S |-> Step(g, T)]
    BY <1>4, <1>5
  <1> DEFINE P == Partial(f, S)
  <1>7. P = [T \in SUBSET S |-> Step(P, T)]
    BY <1>6, Zenon DEF Partial
  <1> HIDE DEF P
  <1>8. \A T \in SUBSET S : P[T] = Step(P, T)
    BY <1>7
  <1>9. \A T \in SUBSET S : /\ T = {} => P[T] = 0
                            /\ T # {} => P[T] = f[Picked(T)] + P[T \ {Picked(T)}]
    BY <1>8
  <1> QED
    BY <1>9 DEF P

\* The sum over a part depends neither on the set it is a part of, nor on
\* the values elsewhere.
LEMMA PartialSame ==
    ASSUME NEW f, NEW S, Summable(f, S), NEW g, NEW R, Summable(g, R),
           NEW V \in SUBSET S, V \in SUBSET R, Agree(f, g, V)
    PROVE  Partial(f, S)[V] = Partial(g, R)[V]
  <1> DEFINE G == {T \in SUBSET V : Partial(f, S)[T] = Partial(g, R)[T]}
  <1> HIDE DEF G
  <1>1. ASSUME NEW T \in SUBSET V, \A U \in SUBSET T : U # T => U \in G
        PROVE  Partial(f, S)[T] = Partial(g, R)[T]
    <2>1. T \in SUBSET S /\ T \in SUBSET R
      OBVIOUS
    <2>2. CASE T = {}
      <3>1. Partial(f, S)[T] = 0
        BY <2>1, <2>2, PartialStep
      <3>2. Partial(g, R)[T] = 0
        BY <2>1, <2>2, PartialStep
      <3> QED
        BY <3>1, <3>2
    <2>3. CASE T # {}
      <3>1. PICK c : c = Picked(T)
        OBVIOUS
      <3>2. c \in T /\ T \ {c} \in SUBSET T /\ T \ {c} # T
        BY <2>3, <3>1, PickedType
      <3>3. T \ {c} \in G
        BY <1>1, <3>2
      <3>4. Partial(f, S)[T] = f[c] + Partial(f, S)[T \ {c}]
        BY <2>1, <2>3, <3>1, PartialStep
      <3>5. Partial(g, R)[T] = g[c] + Partial(g, R)[T \ {c}]
        BY <2>1, <2>3, <3>1, PartialStep
      <3>6. f[c] = g[c]
        BY <3>2 DEF Agree
      <3> QED
        BY <3>3, <3>4, <3>5, <3>6 DEF G
    <2> QED
      BY <2>2, <2>3
  <1>2. IsFiniteSet(V)
    BY SummablePart
  <1>3. \A T \in SUBSET V : T \in G
    <2>1. ASSUME NEW T \in SUBSET V, \A U \in SUBSET T : U # T => U \in G PROVE T \in G
      BY <1>1, <2>1 DEF G
    <2> QED
      BY <1>2, <2>1, SubsetInduction
  <1> QED
    BY <1>3 DEF G

\* The sum of nothing is 0, and a sum starts with the term that is picked.
LEMMA SumPicked ==
    ASSUME NEW f, NEW S, Summable(f, S)
    PROVE  /\ S = {} => SumFunctionOnSet(f, S) = 0
           /\ S # {} => SumFunctionOnSet(f, S) =
                            f[Picked(S)] + SumFunctionOnSet(f, S \ {Picked(S)})
  <1>1. PICK R : R = S \ {Picked(S)}
    OBVIOUS
  <1>2. R \in SUBSET S /\ R \in SUBSET R /\ S \in SUBSET S /\ Agree(f, f, R)
    BY <1>1 DEF Agree
  <1>3. Partial(f, S)[R] = Partial(f, R)[R]
    BY <1>2, SummablePart, PartialSame
  <1>4. /\ S = {} => Partial(f, S)[S] = 0
        /\ S # {} => Partial(f, S)[S] = f[Picked(S)] + Partial(f, S)[R]
    BY <1>1, <1>2, PartialStep
  <1> QED
    BY <1>1, <1>3, <1>4, SumIsPartial

LEMMA SumEmpty ==
    ASSUME NEW f
    PROVE  SumFunctionOnSet(f, {}) = 0
  BY FS_EmptySet, SumPicked DEF Summable

\* Equal terms have equal sums.
LEMMA SumSame ==
    ASSUME NEW f, NEW g, NEW S, Summable(f, S), Agree(f, g, S)
    PROVE  SumFunctionOnSet(f, S) = SumFunctionOnSet(g, S)
  <1>1. Summable(g, S)
    BY DEF Summable, Agree
  <1>2. S \in SUBSET S
    OBVIOUS
  <1>3. Partial(f, S)[S] = Partial(g, S)[S]
    BY <1>1, <1>2, PartialSame
  <1> QED
    BY <1>3, SumIsPartial

\* A sum of natural numbers is one.
LEMMA SumType ==
    ASSUME NEW f, NEW S, Summable(f, S)
    PROVE  SumFunctionOnSet(f, S) \in Nat
  <1> DEFINE G == {T \in SUBSET S : SumFunctionOnSet(f, T) \in Nat}
  <1> HIDE DEF G
  <1>1. ASSUME NEW T \in SUBSET S, \A U \in SUBSET T : U # T => U \in G
        PROVE  SumFunctionOnSet(f, T) \in Nat
    <2>1. Summable(f, T)
      BY SummablePart
    <2>2. CASE T = {}
      <3>1. SumFunctionOnSet(f, T) = 0
        BY <2>1, <2>2, SumPicked
      <3> QED
        BY <3>1
    <2>3. CASE T # {}
      <3>1. Picked(T) \in T /\ T \ {Picked(T)} \in G
        BY <1>1, <2>3, PickedType
      <3>2. f[Picked(T)] \in Nat
        BY <2>1, <3>1 DEF Summable
      <3>3. SumFunctionOnSet(f, T) = f[Picked(T)] + SumFunctionOnSet(f, T \ {Picked(T)})
        BY <2>1, <2>3, SumPicked
      <3> QED
        BY <3>1, <3>2, <3>3 DEF G
    <2> QED
      BY <2>2, <2>3
  <1>2. \A T \in SUBSET S : T \in G
    <2>1. ASSUME NEW T \in SUBSET S, \A U \in SUBSET T : U # T => U \in G PROVE T \in G
      BY <1>1, <2>1 DEF G
    <2> QED
      BY <2>1, SubsetInduction DEF Summable
  <1> QED
    BY <1>2 DEF G

\* Any term may be taken out of the sum first.
LEMMA SumSplit ==
    ASSUME NEW f, NEW S, Summable(f, S), NEW x0 \in S
    PROVE  /\ SumFunctionOnSet(f, S) = f[x0] + SumFunctionOnSet(f, S \ {x0})
           /\ f[x0] \in Nat /\ SumFunctionOnSet(f, S \ {x0}) \in Nat
  <1> DEFINE G == {T \in SUBSET S : \A x \in T :
                      SumFunctionOnSet(f, T) = f[x] + SumFunctionOnSet(f, T \ {x})}
  <1> HIDE DEF G
  <1>0. /\ \A T \in SUBSET S : Summable(f, T) /\ SumFunctionOnSet(f, T) \in Nat
        /\ \A x \in S : f[x] \in Nat
    BY SummablePart, SumType DEF Summable
  <1>1. ASSUME NEW T \in SUBSET S, \A U \in SUBSET T : U # T => U \in G, NEW x \in T
        PROVE  SumFunctionOnSet(f, T) = f[x] + SumFunctionOnSet(f, T \ {x})
    <2>1. PICK c : c = Picked(T) /\ c \in T
      BY PickedType
    <2>2. SumFunctionOnSet(f, T) = f[c] + SumFunctionOnSet(f, T \ {c})
      BY <1>0, <2>1, SumPicked
    <2>3. CASE c = x
      BY <2>2, <2>3
    <2>4. CASE c # x
      <3>1. T \ {c} \in G /\ x \in T \ {c} /\ T \ {x} \in G /\ c \in T \ {x}
        BY <1>1, <2>1, <2>4
      <3>2. SumFunctionOnSet(f, T \ {c}) = f[x] + SumFunctionOnSet(f, (T \ {c}) \ {x})
        BY <3>1 DEF G
      <3>3. SumFunctionOnSet(f, T \ {x}) = f[c] + SumFunctionOnSet(f, (T \ {x}) \ {c})
        BY <3>1 DEF G
      <3>4. SumFunctionOnSet(f, (T \ {c}) \ {x}) = SumFunctionOnSet(f, (T \ {x}) \ {c})
        <4>1. (T \ {c}) \ {x} = (T \ {x}) \ {c}
          OBVIOUS
        <4> QED
          BY <4>1, Zenon
      <3>5. f[x] \in Nat /\ f[c] \in Nat /\ SumFunctionOnSet(f, (T \ {x}) \ {c}) \in Nat
        BY <1>0, <2>1
      <3> QED
        BY <2>2, <3>2, <3>3, <3>4, <3>5
    <2> QED
      BY <2>3, <2>4
  <1>2. \A T \in SUBSET S : T \in G
    <2>1. ASSUME NEW T \in SUBSET S, \A U \in SUBSET T : U # T => U \in G PROVE T \in G
      BY <1>1, <2>1 DEF G
    <2> QED
      BY <2>1, SubsetInduction DEF Summable
  <1> QED
    BY <1>0, <1>2 DEF G

\* The sum over a part is at most the whole sum.
LEMMA SumPart ==
    ASSUME NEW f, NEW S, Summable(f, S), NEW P \in SUBSET S
    PROVE  SumFunctionOnSet(f, P) <= SumFunctionOnSet(f, S)
  <1> DEFINE G == {T \in SUBSET S : \A Q \in SUBSET T :
                      SumFunctionOnSet(f, Q) <= SumFunctionOnSet(f, T)}
  <1> HIDE DEF G
  <1>0. \A T \in SUBSET S : Summable(f, T) /\ SumFunctionOnSet(f, T) \in Nat
    BY SummablePart, SumType
  <1>1. ASSUME NEW T \in SUBSET S, \A U \in SUBSET T : U # T => U \in G, NEW Q \in SUBSET T
        PROVE  SumFunctionOnSet(f, Q) <= SumFunctionOnSet(f, T)
    <2>1. CASE Q = T
      BY <1>0, <2>1
    <2>2. CASE Q # T
      <3>1. PICK x \in T : x \notin Q
        BY <2>2
      <3>2. /\ SumFunctionOnSet(f, T) = f[x] + SumFunctionOnSet(f, T \ {x})
            /\ f[x] \in Nat /\ SumFunctionOnSet(f, T \ {x}) \in Nat
        BY <1>0, SumSplit
      <3>3. T \ {x} \in G /\ Q \in SUBSET (T \ {x})
        BY <1>1, <3>1
      <3>4. SumFunctionOnSet(f, Q) <= SumFunctionOnSet(f, T \ {x}) /\ SumFunctionOnSet(f, Q) \in Nat
        BY <1>0, <3>3 DEF G
      <3> QED
        BY <3>2, <3>4
    <2> QED
      BY <2>1, <2>2
  <1>2. \A T \in SUBSET S : T \in G
    <2>1. ASSUME NEW T \in SUBSET S, \A U \in SUBSET T : U # T => U \in G PROVE T \in G
      BY <1>1, <2>1 DEF G
    <2> QED
      BY <2>1, SubsetInduction DEF Summable
  <1> QED
    BY <1>2 DEF G

\* Two sums, of f over S and of g over T, that differ at most in the term of x.
DifferAt(f, S, g, T, x) == S \ {x} = T \ {x} /\ Agree(f, g, S \ {x})

\* The term of x in a sum over S.
Term(f, S, x) == IF x \in S THEN f[x] ELSE 0

\* The difference between the sums is that of the terms of x.
SumMoves(f, S, g, T, x) ==
    /\ SumFunctionOnSet(f, S) \in Nat /\ SumFunctionOnSet(g, T) \in Nat
    /\ Term(f, S, x) \in Nat /\ Term(g, T, x) \in Nat
    /\ SumFunctionOnSet(g, T) - Term(g, T, x) = SumFunctionOnSet(f, S) - Term(f, S, x)

\* When the sum changes in one term only, because the term does or because it
\* joins or leaves the set, it changes by as much.
LEMMA SumChange ==
    ASSUME NEW f, NEW S, Summable(f, S), NEW g, NEW T, Summable(g, T),
           NEW x0, DifferAt(f, S, g, T, x0)
    PROVE  SumMoves(f, S, g, T, x0)
  <1>1. ASSUME NEW h, NEW U, Summable(h, U)
        PROVE  /\ Summable(h, U \ {x0})
               /\ SumFunctionOnSet(h, U) \in Nat /\ Term(h, U, x0) \in Nat
               /\ SumFunctionOnSet(h, U \ {x0}) \in Nat
               /\ SumFunctionOnSet(h, U) = Term(h, U, x0) + SumFunctionOnSet(h, U \ {x0})
    <2>1. Summable(h, U \ {x0})
      BY <1>1, SummablePart
    <2>2. SumFunctionOnSet(h, U) \in Nat /\ SumFunctionOnSet(h, U \ {x0}) \in Nat
      BY <1>1, <2>1, SumType
    <2>3. CASE x0 \in U
      <3>1. Term(h, U, x0) = h[x0]
        BY <2>3 DEF Term
      <3>2. h[x0] \in Nat
        BY <1>1, <2>3 DEF Summable
      <3>3. SumFunctionOnSet(h, U) = h[x0] + SumFunctionOnSet(h, U \ {x0})
        BY <1>1, <2>3, SumSplit
      <3> QED
        BY <2>1, <2>2, <3>1, <3>2, <3>3
    <2>4. CASE x0 \notin U
      <3>1. Term(h, U, x0) = 0
        BY <2>4 DEF Term
      <3>2. SumFunctionOnSet(h, U) = SumFunctionOnSet(h, U \ {x0})
        <4>1. U = U \ {x0}
          BY <2>4
        <4> QED
          BY <4>1, Zenon
      <3> QED
        BY <2>1, <2>2, <3>1, <3>2
    <2> QED
      BY <2>3, <2>4
  <1>2. SumFunctionOnSet(f, S \ {x0}) = SumFunctionOnSet(g, T \ {x0})
    <2>1. SumFunctionOnSet(f, S \ {x0}) = SumFunctionOnSet(g, S \ {x0})
      BY <1>1, SumSame DEF DifferAt
    <2>2. S \ {x0} = T \ {x0}
      BY DEF DifferAt
    <2> QED
      BY <2>1, <2>2, Zenon
  <1>3. /\ SumFunctionOnSet(f, S) \in Nat /\ Term(f, S, x0) \in Nat
        /\ SumFunctionOnSet(f, S \ {x0}) \in Nat
        /\ SumFunctionOnSet(f, S) = Term(f, S, x0) + SumFunctionOnSet(f, S \ {x0})
    BY <1>1
  <1>4. /\ SumFunctionOnSet(g, T) \in Nat /\ Term(g, T, x0) \in Nat
        /\ SumFunctionOnSet(g, T \ {x0}) \in Nat
        /\ SumFunctionOnSet(g, T) = Term(g, T, x0) + SumFunctionOnSet(g, T \ {x0})
    BY <1>1
  <1> QED
    BY <1>2, <1>3, <1>4 DEF SumMoves

\* A counter that moves with the term of x follows the sum.
LEMMA SumFollowed ==
    ASSUME NEW f, NEW S, NEW g, NEW T, NEW x0, SumMoves(f, S, g, T, x0),
           NEW a \in Nat, NEW b \in Nat
    PROVE  /\ a = SumFunctionOnSet(f, S) /\ b - a = Term(g, T, x0) - Term(f, S, x0)
                  => b = SumFunctionOnSet(g, T)
           /\ SumFunctionOnSet(f, S) <= a /\ b - a >= Term(g, T, x0) - Term(f, S, x0)
                  => SumFunctionOnSet(g, T) <= b
  BY DEF SumMoves
=============================================================================
