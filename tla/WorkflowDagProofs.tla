-------------------------- MODULE WorkflowDagProofs --------------------------
(***************************************************************************)
(* What the recursive operators of WorkflowDag compute, proved for every   *)
(* graph: build accepts the graphs without a cycle, the topological order  *)
(* puts dependencies first, and every point to resume at can run.          *)
(*                                                                         *)
(* The induction theorems of the library take an operator, which the       *)
(* provers cannot instantiate.  Here induction is over sets instead: of    *)
(* the cases in which a claim fails one is least (LeastNat), or a set that *)
(* is closed under the induction's step has everything (Paths).  That a    *)
(* recursive definition has a solution is proved in the same way.          *)
(***************************************************************************)
EXTENDS WorkflowDag, TLAPS, FiniteSetTheorems, NaturalsInduction,
        WellFoundedInduction

Distinct(seq) == \A i, j \in DOMAIN seq : seq[i] = seq[j] => i = j

----------------------------------------------------------------------------
(* Sequences *)

\* Every set of naturals that is not empty has a least member: the form in
\* which the proofs below use induction.
LEMMA LeastNat ==
  ASSUME NEW T \in SUBSET Nat, T # {}
  PROVE  \E n \in T : \A m \in T : n <= m
<1>1. IsWellFoundedOn(OpToRel(<, Nat), Nat)
  BY NatLessThanWellFounded
<1>2. PICK x \in T : \A y \in T : ~ (<<y, x>> \in OpToRel(<, Nat))
  BY <1>1, WFMin
<1>3. ASSUME NEW y \in T PROVE x <= y
  <2>1. ~ (<<y, x>> \in OpToRel(<, Nat))
    BY <1>2
  <2> QED
    BY <2>1 DEF OpToRel
<1> QED
  BY <1>3

LEMMA AppendSet ==
  ASSUME NEW S, NEW seq \in Seq(S), NEW x \in S
  PROVE  /\ Append(seq, x) \in Seq(S)
         /\ ToSet(Append(seq, x)) = ToSet(seq) \cup {x}
         /\ Distinct(seq) /\ x \notin ToSet(seq) => Distinct(Append(seq, x))
<1> DEFINE t == Append(seq, x)
<1>1. /\ t \in Seq(S) /\ DOMAIN t = 1..(Len(seq) + 1) /\ DOMAIN seq = 1..Len(seq)
      /\ Len(seq) \in Nat /\ t[Len(seq) + 1] = x
      /\ \A i \in 1..Len(seq) : t[i] = seq[i]
  OBVIOUS
<1> HIDE DEF t
<1>2. ToSet(t) = ToSet(seq) \cup {x}
  <2>1. 1..(Len(seq) + 1) = (1..Len(seq)) \cup {Len(seq) + 1}
    BY <1>1
  <2> QED
    BY <1>1, <2>1 DEF ToSet
<1>3. Distinct(seq) /\ x \notin ToSet(seq) => Distinct(t)
  BY <1>1 DEF Distinct, ToSet
<1> QED
  BY <1>1, <1>2, <1>3 DEF t

\* One step of Kept.
Keeping(seq, X, f, i) ==
  IF i = 0 THEN <<>>
  ELSE IF seq[i] \in X THEN Append(f[i - 1], seq[i]) ELSE f[i - 1]

\* The recursion of Kept has a solution.
LEMMA KeepingFunction ==
  ASSUME NEW S, NEW seq \in Seq(S), NEW X
  PROVE  \E f : f = [i \in 0..Len(seq) |-> Keeping(seq, X, f, i)]
<1> DEFINE Solved(n) == \E f \in [0..n -> Seq(S)] :
                          \A i \in 0..n : f[i] = Keeping(seq, X, f, i)
           T == {n \in 0..Len(seq) : ~ Solved(n)}
<1>1. SUFFICES ASSUME T # {} PROVE FALSE
  <2>1. Len(seq) \in 0..Len(seq)
    OBVIOUS
  <2>2. ASSUME T = {} PROVE Solved(Len(seq))
    BY <2>1, <2>2
  <2>3. ASSUME Solved(Len(seq))
        PROVE  \E f : f = [i \in 0..Len(seq) |-> Keeping(seq, X, f, i)]
    <3>1. PICK f \in [0..Len(seq) -> Seq(S)] :
                 \A i \in 0..Len(seq) : f[i] = Keeping(seq, X, f, i)
      BY <2>3
    <3>2. f = [i \in 0..Len(seq) |-> Keeping(seq, X, f, i)]
      BY <3>1
    <3> QED
      BY <3>2
  <2> QED
    BY <2>2, <2>3
<1>2. T \in SUBSET Nat
  OBVIOUS
<1>3. PICK n \in T : \A m \in T : n <= m
  BY <1>1, <1>2, LeastNat
<1>4. n \in 0..Len(seq) /\ n \in Nat /\ ~ Solved(n)
  OBVIOUS
<1>5. n # 0
  <2>1. [i \in 0..0 |-> <<>>] \in [0..0 -> Seq(S)]
    OBVIOUS
  <2>2. \A i \in 0..0 : [j \in 0..0 |-> <<>>][i] = Keeping(seq, X, [j \in 0..0 |-> <<>>], i)
    BY DEF Keeping
  <2>3. Solved(0)
    BY <2>1, <2>2
  <2> QED
    BY <2>3, <1>4
<1>6. n - 1 \in 0..Len(seq) /\ n - 1 \notin T
  <2>1. n - 1 \in 0..Len(seq) /\ ~ (n <= n - 1)
    BY <1>4, <1>5
  <2> HIDE DEF T
  <2> QED
    BY <1>3, <2>1
<1>7. Solved(n - 1)
  BY <1>6
<1>8. PICK f \in [0..(n-1) -> Seq(S)] :
             \A i \in 0..(n-1) : f[i] = Keeping(seq, X, f, i)
  BY <1>7
<1> DEFINE g == [i \in 0..n |-> IF i = n THEN Keeping(seq, X, f, n) ELSE f[i]]
<1>9. Keeping(seq, X, f, n) \in Seq(S)
  <2>1. f[n-1] \in Seq(S) /\ seq[n] \in S
    BY <1>4, <1>5
  <2> QED
    BY <2>1, <1>5 DEF Keeping
<1>10. g \in [0..n -> Seq(S)]
  BY <1>4, <1>9
<1>11. ASSUME NEW i \in 0..n PROVE g[i] = Keeping(seq, X, g, i)
  <2>1. i # 0 => g[i-1] = f[i-1]
    BY <1>4
  <2>2. Keeping(seq, X, g, i) = Keeping(seq, X, f, i)
    BY <2>1 DEF Keeping
  <2>3. g[i] = Keeping(seq, X, f, i)
    BY <1>4, <1>8
  <2> QED
    BY <2>2, <2>3
<1>12. Solved(n)
  BY <1>10, <1>11
<1> QED
  BY <1>12, <1>4

\* Kept keeps the members of X, each as often as it was there at most.
LEMMA KeptFacts ==
  ASSUME NEW S, NEW seq \in Seq(S), NEW X
  PROVE  /\ Kept(seq, X) \in Seq(S)
         /\ ToSet(Kept(seq, X)) = ToSet(seq) \cap X
         /\ Distinct(seq) => Distinct(Kept(seq, X))
<1> DEFINE kept == CHOOSE f : f = [i \in 0..Len(seq) |-> Keeping(seq, X, f, i)]
<1>1. kept = [i \in 0..Len(seq) |-> Keeping(seq, X, kept, i)]
  BY KeepingFunction
<1>2. Kept(seq, X) = kept[Len(seq)]
  BY DEF Kept, Keeping
<1> HIDE DEF kept
<1> DEFINE First(n) == {seq[j] : j \in 1..n}
           Right(n) == /\ kept[n] \in Seq(S)
                       /\ ToSet(kept[n]) = First(n) \cap X
                       /\ Distinct(seq) => Distinct(kept[n])
           T == {n \in 0..Len(seq) : ~ Right(n)}
<1>3. SUFFICES ASSUME T # {} PROVE FALSE
  <2>1. Len(seq) \in 0..Len(seq)
    OBVIOUS
  <2>2. ASSUME T = {} PROVE Right(Len(seq))
    BY <2>1, <2>2
  <2>3. First(Len(seq)) = ToSet(seq)
    BY DEF ToSet
  <2> QED
    BY <1>2, <2>2, <2>3
<1>4. T \in SUBSET Nat
  OBVIOUS
<1>5. PICK n \in T : \A m \in T : n <= m
  BY <1>3, <1>4, LeastNat
<1>6. n \in 0..Len(seq) /\ n \in Nat /\ ~ Right(n)
  OBVIOUS
<1>7. n # 0
  <2>1. kept[0] = <<>>
    BY <1>1 DEF Keeping
  <2>2. ToSet(<<>>) = {} /\ First(0) = {}
    BY DEF ToSet
  <2>3. <<>> \in Seq(S) /\ Distinct(<<>>)
    BY DEF Distinct
  <2> HIDE DEF First
  <2> QED
    BY <2>1, <2>2, <2>3, <1>6
<1>8. n - 1 \in 0..Len(seq) /\ n - 1 \notin T
  <2>1. n - 1 \in 0..Len(seq) /\ ~ (n <= n - 1)
    BY <1>6, <1>7
  <2> HIDE DEF T
  <2> QED
    BY <1>5, <2>1
<1>9. Right(n - 1)
  BY <1>8
<1>10. First(n) = First(n - 1) \cup {seq[n]}
  <2>1. 1..n = (1..(n-1)) \cup {n}
    BY <1>6, <1>7
  <2> QED
    BY <2>1
<1>11. CASE seq[n] \notin X
  <2>1. kept[n] = kept[n-1]
    BY <1>1, <1>6, <1>7, <1>11 DEF Keeping
  <2>2. First(n) \cap X = First(n - 1) \cap X
    BY <1>10, <1>11
  <2> HIDE DEF First
  <2> QED
    BY <2>1, <2>2, <1>6, <1>9
<1>12. CASE seq[n] \in X
  <2>1. kept[n] = Append(kept[n-1], seq[n])
    BY <1>1, <1>6, <1>7, <1>12 DEF Keeping
  <2>2. seq[n] \in S
    BY <1>6, <1>7
  <2>3. kept[n] \in Seq(S)
    BY <1>9, <2>1, <2>2
  <2>4. ToSet(kept[n]) = ToSet(kept[n-1]) \cup {seq[n]}
    BY <1>9, <2>1, <2>2, AppendSet
  <2>5. ToSet(kept[n]) = First(n) \cap X
    <3> HIDE DEF First
    <3> QED
      BY <1>9, <1>10, <1>12, <2>4
  <2>6. ASSUME Distinct(seq) PROVE Distinct(kept[n])
    <3>1. seq[n] \notin First(n - 1)
      BY <2>6, <1>6 DEF Distinct
    <3>2. seq[n] \notin ToSet(kept[n-1])
      <4> HIDE DEF First
      <4> QED
        BY <3>1, <1>9
    <3>3. Distinct(kept[n-1])
      BY <2>6, <1>9
    <3> QED
      BY <1>9, <2>1, <2>2, <3>2, <3>3 DEF Distinct, ToSet
  <2> QED
    BY <2>3, <2>5, <2>6, <1>6
<1> QED
  BY <1>11, <1>12

LEMMA EmptyFacts == ToSet(<<>>) = {} /\ Distinct(<<>>) /\ Len(<<>>) = 0
<1>1. Len(<<>>) = 0
  OBVIOUS
<1>2. ToSet(<<>>) = {}
  BY DEF ToSet
<1>3. Distinct(<<>>)
  BY DEF Distinct
<1> QED
  BY <1>1, <1>2, <1>3

LEMMA EmptyIn ==
  ASSUME NEW S
  PROVE  <<>> \in Seq(S)
  OBVIOUS

LEMMA OneSet ==
  ASSUME NEW x
  PROVE  ToSet(<<x>>) = {x} /\ Distinct(<<x>>) /\ Len(<<x>>) = 1 /\ <<x>> # <<>>
  BY DEF ToSet, Distinct

LEMMA TailSet ==
  ASSUME NEW S, NEW seq \in Seq(S), seq # <<>>
  PROVE  /\ Tail(seq) \in Seq(S) /\ Head(seq) \in S /\ Head(seq) \in ToSet(seq)
         /\ ToSet(seq) = ToSet(Tail(seq)) \cup {Head(seq)}
         /\ Len(Tail(seq)) = Len(seq) - 1 /\ Len(seq) \in Nat \ {0}
         /\ Len(seq) = 1 <=> Tail(seq) = <<>>
         /\ Distinct(seq) => Distinct(Tail(seq)) /\ Head(seq) \notin ToSet(Tail(seq))
<1> DEFINE t == Tail(seq)
<1>1. /\ t \in Seq(S) /\ Len(t) = Len(seq) - 1 /\ Head(seq) = seq[1]
      /\ Len(seq) \in Nat /\ Len(seq) > 0 /\ DOMAIN seq = 1..Len(seq)
      /\ DOMAIN t = 1..(Len(seq) - 1)
      /\ \A i \in 1..(Len(seq) - 1) : t[i] = seq[i + 1]
      /\ \A i \in 1..Len(seq) : seq[i] \in S
  OBVIOUS
<1>2. Len(seq) = 1 <=> t = <<>>
  <2> HIDE DEF t
  <2>1. t = <<>> <=> Len(t) = 0
    BY <1>1
  <2> QED
    BY <1>1, <2>1
<1> HIDE DEF t
<1>3. Head(seq) \in ToSet(seq) /\ Head(seq) \in S
  BY <1>1 DEF ToSet
<1>4. ToSet(seq) = ToSet(t) \cup {Head(seq)}
  <2>1. ASSUME NEW i \in 1..Len(seq) PROVE seq[i] \in ToSet(t) \cup {Head(seq)}
    <3>1. CASE i = 1
      BY <1>1, <3>1
    <3>2. CASE i # 1
      <4>1. i - 1 \in 1..(Len(seq) - 1) /\ (i - 1) + 1 = i
        BY <1>1, <3>2
      <4>2. t[i-1] = seq[i]
        BY <1>1, <4>1
      <4> QED
        BY <1>1, <4>1, <4>2 DEF ToSet
    <3> QED
      BY <3>1, <3>2
  <2> QED
    BY <1>1, <2>1 DEF ToSet
<1>5. ASSUME Distinct(seq) PROVE Distinct(t) /\ Head(seq) \notin ToSet(t)
  <2>1. ASSUME NEW i \in 1..(Len(seq) - 1) PROVE i + 1 \in 1..Len(seq) /\ i + 1 # 1
    BY <1>1
  <2>2. ASSUME NEW i \in 1..(Len(seq) - 1), NEW j \in 1..(Len(seq) - 1), t[i] = t[j]
        PROVE  i = j
    <3>1. seq[i + 1] = seq[j + 1]
      BY <1>1, <2>2
    <3>2. i + 1 = j + 1
      BY <1>1, <1>5, <2>1, <3>1 DEF Distinct
    <3> QED
      BY <3>2
  <2>3. ASSUME NEW i \in 1..(Len(seq) - 1) PROVE t[i] # Head(seq)
    <3>1. 1 \in 1..Len(seq)
      BY <1>1
    <3> QED
      BY <1>1, <1>5, <2>1, <3>1 DEF Distinct
  <2> QED
    BY <1>1, <2>2, <2>3 DEF Distinct, ToSet
<1> QED
  BY <1>1, <1>2, <1>3, <1>4, <1>5 DEF t

LEMMA ConsSet ==
  ASSUME NEW S, NEW seq \in Seq(S), NEW x \in S
  PROVE  /\ <<x>> \o seq \in Seq(S)
         /\ ToSet(<<x>> \o seq) = ToSet(seq) \cup {x}
         /\ Distinct(seq) /\ x \notin ToSet(seq) => Distinct(<<x>> \o seq)
<1> DEFINE t == <<x>> \o seq
<1>1. /\ t \in Seq(S) /\ DOMAIN t = 1..(Len(seq) + 1) /\ DOMAIN seq = 1..Len(seq)
      /\ Len(seq) \in Nat /\ t[1] = x
      /\ \A i \in 1..Len(seq) : t[i + 1] = seq[i]
      /\ \A i \in 2..(Len(seq) + 1) : t[i] = seq[i - 1]
  OBVIOUS
<1> HIDE DEF t
<1>2. ToSet(t) = ToSet(seq) \cup {x}
  <2>1. \A i \in 1..Len(seq) : i + 1 \in 1..(Len(seq) + 1) /\ t[i + 1] = seq[i]
    BY <1>1
  <2>2. ASSUME NEW i \in 1..(Len(seq) + 1), i # 1
        PROVE  i - 1 \in 1..Len(seq) /\ t[i] = seq[i - 1]
    <3>1. i - 1 \in 1..Len(seq) /\ i \in 2..(Len(seq) + 1)
      BY <1>1, <2>2
    <3> QED
      BY <1>1, <3>1
  <2>3. ToSet(seq) \cup {x} \subseteq ToSet(t)
    <3>1. 1 \in 1..(Len(seq) + 1)
      BY <1>1
    <3> QED
      BY <1>1, <2>1, <3>1 DEF ToSet
  <2>4. ASSUME NEW i \in 1..(Len(seq) + 1) PROVE t[i] \in ToSet(seq) \cup {x}
    <3>1. CASE i = 1
      BY <1>1, <3>1
    <3>2. CASE i # 1
      BY <1>1, <2>2, <3>2 DEF ToSet
    <3> QED
      BY <3>1, <3>2
  <2>5. ToSet(t) \subseteq ToSet(seq) \cup {x}
    BY <1>1, <2>4 DEF ToSet
  <2> QED
    BY <2>3, <2>5
<1>3. ASSUME Distinct(seq), x \notin ToSet(seq) PROVE Distinct(t)
  <2>1. ASSUME NEW i \in 1..(Len(seq) + 1), NEW j \in 1..(Len(seq) + 1), t[i] = t[j],
               i # 1, j # 1
        PROVE  i = j
    <3>1. i - 1 \in 1..Len(seq) /\ j - 1 \in 1..Len(seq)
      BY <1>1, <2>1
    <3>2. seq[i - 1] = seq[j - 1]
      BY <1>1, <2>1
    <3>3. i - 1 = j - 1
      BY <1>1, <1>3, <3>1, <3>2 DEF Distinct
    <3> QED
      BY <3>3
  <2>2. ASSUME NEW i \in 1..(Len(seq) + 1), i # 1 PROVE t[i] # x
    <3>1. i - 1 \in 1..Len(seq) /\ i \in 2..(Len(seq) + 1)
      BY <1>1, <2>2
    <3>2. t[i] = seq[i - 1]
      BY <1>1, <3>1
    <3> QED
      BY <1>1, <1>3, <3>1, <3>2 DEF ToSet
  <2> QED
    BY <1>1, <2>1, <2>2 DEF Distinct
<1> QED
  BY <1>1, <1>2, <1>3 DEF t

LEMMA SplitSet ==
  ASSUME NEW S, NEW seq \in Seq(S), NEW n \in 0..Len(seq)
  PROVE  LET a == SubSeq(seq, 1, n) b == SubSeq(seq, n + 1, Len(seq))
         IN  /\ a \in Seq(S) /\ b \in Seq(S) /\ Len(a) = n
             /\ ToSet(a) \cup ToSet(b) = ToSet(seq)
             /\ Distinct(seq) => /\ Distinct(a) /\ Distinct(b)
                                 /\ ToSet(a) \cap ToSet(b) = {}
<1> DEFINE a == SubSeq(seq, 1, n) b == SubSeq(seq, n + 1, Len(seq))
<1>1. /\ a \in Seq(S) /\ DOMAIN a = 1..n /\ Len(a) = n /\ n \in Nat
      /\ Len(seq) \in Nat /\ DOMAIN seq = 1..Len(seq)
      /\ \A i \in 1..n : a[i] = seq[i]
  OBVIOUS
<1>2. /\ b \in Seq(S) /\ DOMAIN b = 1..(Len(seq) - n)
      /\ \A i \in 1..(Len(seq) - n) : b[i] = seq[i + n]
  OBVIOUS
<1> HIDE DEF a, b
<1>3. ToSet(a) \cup ToSet(b) = ToSet(seq)
  <2>1. ASSUME NEW i \in 1..Len(seq) PROVE seq[i] \in ToSet(a) \cup ToSet(b)
    <3>1. CASE i <= n
      BY <1>1, <3>1 DEF ToSet
    <3>2. CASE i > n
      <4>1. i - n \in 1..(Len(seq) - n) /\ (i - n) + n = i
        BY <1>1, <3>2
      <4> QED
        BY <1>2, <4>1 DEF ToSet
    <3> QED
      BY <1>1, <3>1, <3>2
  <2>2. \A i \in 1..n : i \in 1..Len(seq)
    BY <1>1
  <2>3. \A i \in 1..(Len(seq) - n) : i + n \in 1..Len(seq)
    BY <1>1
  <2>4. ToSet(a) \subseteq ToSet(seq)
    BY <1>1, <2>2 DEF ToSet
  <2>5. ToSet(b) \subseteq ToSet(seq)
    BY <1>1, <1>2, <2>3 DEF ToSet
  <2>6. ToSet(seq) \subseteq ToSet(a) \cup ToSet(b)
    <3> DEFINE both == ToSet(a) \cup ToSet(b)
    <3>1. \A i \in 1..Len(seq) : seq[i] \in both
      BY <2>1
    <3> HIDE DEF both
    <3>2. ToSet(seq) \subseteq both
      BY <1>1, <3>1 DEF ToSet
    <3> QED
      BY <3>2 DEF both
  <2> QED
    BY <2>4, <2>5, <2>6
<1>4. ASSUME Distinct(seq)
      PROVE  Distinct(a) /\ Distinct(b) /\ ToSet(a) \cap ToSet(b) = {}
  <2>1. Distinct(a)
    BY <1>1, <1>4 DEF Distinct
  <2>2. Distinct(b)
    <3>1. ASSUME NEW i \in 1..(Len(seq) - n), NEW j \in 1..(Len(seq) - n), b[i] = b[j]
          PROVE  i = j
      <4>1. i + n \in 1..Len(seq) /\ j + n \in 1..Len(seq)
        BY <1>1
      <4>2. seq[i + n] = seq[j + n]
        BY <1>2, <3>1
      <4>3. i + n = j + n
        BY <1>1, <1>4, <4>1, <4>2 DEF Distinct
      <4> QED
        BY <1>1, <4>3
    <3> QED
      BY <1>2, <3>1 DEF Distinct
  <2>3. ASSUME NEW i \in 1..n, NEW j \in 1..(Len(seq) - n), a[i] = b[j] PROVE FALSE
    <3>1. i \in 1..Len(seq) /\ j + n \in 1..Len(seq) /\ i # j + n
      BY <1>1
    <3> QED
      BY <1>1, <1>2, <1>4, <2>3, <3>1 DEF Distinct
  <2> QED
    BY <1>1, <1>2, <2>1, <2>2, <2>3 DEF ToSet
<1> QED
  BY <1>1, <1>2, <1>3, <1>4 DEF a, b

\* ready_steps: every step that is not done and whose dependencies are, once.
LEMMA ReadyFacts ==
  ASSUME NEW dag, WellFormed(dag), NEW C
  PROVE  /\ ReadySteps(dag, C) \in Seq(StepsOf(dag))
         /\ Distinct(ReadySteps(dag, C))
         /\ ToSet(ReadySteps(dag, C)) =
              {s \in StepsOf(dag) \ C : DepsOf(dag, s) \subseteq C}
<1> DEFINE X == {s \in StepsOf(dag) \ C : DepsOf(dag, s) \subseteq C}
<1>1. dag.order \in Seq(StepsOf(dag)) /\ Distinct(dag.order)
  BY DEF WellFormed, Distinct
<1>2. ReadySteps(dag, C) = Kept(dag.order, X)
  BY DEF ReadySteps
<1>3. ToSet(dag.order) \cap X = X
  BY DEF StepsOf
<1> HIDE DEF X
<1>4. QED
  BY <1>1, <1>2, <1>3, KeptFacts DEF X

----------------------------------------------------------------------------
(* Loops over a sequence *)

\* The values a loop goes through.
Trace(t, A, body, base, seq) ==
  /\ t \in [0..Len(seq) -> A] /\ t[0] = base
  /\ \A i \in 1..Len(seq) : t[i] = body[<<t[i - 1], seq[i]>>]
  /\ Walk(body, base, seq) = t[Len(seq)]

\* The recursion of Walk has a solution, whose last value is the loop's result.
LEMMA WalkTrace ==
  ASSUME NEW A, NEW D, NEW body \in [A \X D -> A], NEW base \in A, NEW seq \in Seq(D)
  PROVE  \E t : Trace(t, A, body, base, seq)
<1> DEFINE Next(f, i) == IF i = 0 THEN base ELSE body[<<f[i - 1], seq[i]>>]
           Solved(n) == \E f \in [0..n -> A] : \A i \in 0..n : f[i] = Next(f, i)
           T == {n \in 0..Len(seq) : ~ Solved(n)}
<1>1. T \in SUBSET Nat /\ Len(seq) \in Nat /\ \A i \in 1..Len(seq) : seq[i] \in D
  <2> HIDE DEF Solved
  <2> QED
    OBVIOUS
<1>2. ASSUME NEW n \in T, \A m \in T : n <= m PROVE FALSE
  <2>1. n \in 0..Len(seq) /\ ~ Solved(n)
    BY <1>2
  <2>2. CASE n = 0
    <3>1. [i \in 0..0 |-> base] \in [0..0 -> A]
      OBVIOUS
    <3>2. \A i \in 0..0 : [j \in 0..0 |-> base][i] = Next([j \in 0..0 |-> base], i)
      OBVIOUS
    <3> QED
      BY <2>1, <2>2, <3>1, <3>2
  <2>3. CASE n # 0
    <3>1. n - 1 \in 0..Len(seq) /\ ~ (n <= n - 1)
      BY <2>1, <2>3
    <3>2. n - 1 \notin T
      <4> HIDE DEF T
      <4> QED
        BY <3>1, <1>2
    <3>3. PICK f \in [0..(n - 1) -> A] : \A i \in 0..(n - 1) : f[i] = Next(f, i)
      BY <3>1, <3>2
    <3> DEFINE g == [i \in 0..n |-> IF i = n THEN body[<<f[n - 1], seq[n]>>] ELSE f[i]]
    <3>4. f[n - 1] \in A /\ seq[n] \in D
      BY <2>1, <2>3, <1>1
    <3>5. body[<<f[n - 1], seq[n]>>] \in A
      BY <3>4
    <3>6. g \in [0..n -> A]
      <4>1. \A i \in 0..n : i # n => i \in 0..(n - 1)
        BY <2>1
      <4> QED
        BY <3>5, <4>1
    <3>7. ASSUME NEW i \in 0..n PROVE g[i] = Next(g, i)
      <4>1. CASE i = 0
        <5>1. 0 \in 0..(n - 1) /\ 0 \in 0..n /\ 0 # n
          BY <2>1, <2>3
        <5>2. f[0] = base
          BY <3>3, <5>1
        <5>3. g[0] = f[0]
          BY <5>1
        <5> QED
          BY <4>1, <5>2, <5>3
      <4>2. CASE i = n
        <5>1. g[n - 1] = f[n - 1] /\ g[n] = body[<<f[n - 1], seq[n]>>]
          BY <2>1, <2>3
        <5> QED
          BY <4>2, <5>1, <2>3
      <4>3. CASE i # 0 /\ i # n
        <5>1. i \in 0..(n - 1) /\ i - 1 \in 0..n /\ i - 1 # n
          BY <4>3, <2>1
        <5>2. g[i] = f[i] /\ g[i - 1] = f[i - 1]
          BY <5>1, <4>3
        <5>3. f[i] = body[<<f[i - 1], seq[i]>>]
          BY <5>1, <4>3, <3>3
        <5> QED
          BY <4>3, <5>2, <5>3
      <4> QED
        BY <4>1, <4>2, <4>3
    <3>8. Solved(n)
      <4> HIDE DEF g, Next
      <4> QED
        BY <3>6, <3>7
    <3> QED
      BY <3>8, <2>1
  <2> QED
    BY <2>2, <2>3
<1>3. T = {}
  <2> HIDE DEF T
  <2> QED
    BY <1>1, <1>2, LeastNat
<1>4. Solved(Len(seq))
  <2>1. Len(seq) \in 0..Len(seq)
    BY <1>1
  <2> QED
    BY <1>3, <2>1
<1>5. PICK f \in [0..Len(seq) -> A] : \A i \in 0..Len(seq) : f[i] = Next(f, i)
  BY <1>4
<1> DEFINE after == CHOOSE t : t = [i \in 0..Len(seq) |-> IF i = 0 THEN base
                                                   ELSE body[<<t[i - 1], seq[i]>>]]
<1>6. f = [i \in 0..Len(seq) |-> IF i = 0 THEN base ELSE body[<<f[i - 1], seq[i]>>]]
  BY <1>5
<1>7. after = [i \in 0..Len(seq) |-> IF i = 0 THEN base ELSE body[<<after[i - 1], seq[i]>>]]
  BY <1>6
<1>8. Walk(body, base, seq) = after[Len(seq)]
  BY DEF Walk
<1> HIDE DEF after
<1> DEFINE Typed == {n \in 0..Len(seq) : after[n] \notin A}
<1>9. ASSUME NEW n \in Typed, \A m \in Typed : n <= m PROVE FALSE
  <2>1. n \in 0..Len(seq) /\ after[n] \notin A
    BY <1>9
  <2>2. n # 0
    BY <2>1, <1>7
  <2>3. n - 1 \in 0..Len(seq) /\ ~ (n <= n - 1)
    BY <2>1, <2>2
  <2>4. n - 1 \notin Typed
    <3> HIDE DEF Typed
    <3> QED
      BY <2>3, <1>9
  <2>5. after[n - 1] \in A /\ seq[n] \in D
    BY <2>1, <2>2, <2>3, <2>4, <1>1
  <2>6. after[n] = body[<<after[n - 1], seq[n]>>]
    BY <2>1, <2>2, <1>7
  <2> QED
    BY <2>1, <2>5, <2>6
<1>10. Typed = {}
  <2>1. Typed \in SUBSET Nat
    OBVIOUS
  <2> HIDE DEF Typed
  <2> QED
    BY <1>9, <2>1, LeastNat
<1>11. after \in [0..Len(seq) -> A]
  BY <1>7, <1>10
<1>12. /\ after[0] = base
       /\ \A i \in 1..Len(seq) : after[i] = body[<<after[i - 1], seq[i]>>]
  BY <1>7, <1>1
<1> QED
  BY <1>8, <1>11, <1>12 DEF Trace

\* What holds at the start of a loop and is kept by its body holds at its end.
\* I[i] are the values for which it holds after i elements.
LEMMA WalkInvariant ==
  ASSUME NEW A, NEW D, NEW body \in [A \X D -> A], NEW base \in A, NEW seq \in Seq(D),
         NEW I \in [0..Len(seq) -> SUBSET A], base \in I[0],
         \A i \in 1..Len(seq) : \A a \in I[i - 1] : body[<<a, seq[i]>>] \in I[i]
  PROVE  Walk(body, base, seq) \in I[Len(seq)]
<1>0. PICK t : Trace(t, A, body, base, seq)
  BY WalkTrace
<1>1. /\ t \in [0..Len(seq) -> A] /\ t[0] = base
      /\ \A i \in 1..Len(seq) : t[i] = body[<<t[i - 1], seq[i]>>]
      /\ Walk(body, base, seq) = t[Len(seq)]
  BY <1>0 DEF Trace
<1> DEFINE T == {n \in 0..Len(seq) : t[n] \notin I[n]}
<1>2. Len(seq) \in Nat /\ T \in SUBSET Nat
  OBVIOUS
<1>3. ASSUME NEW n \in T, \A m \in T : n <= m PROVE FALSE
  <2>1. n \in 0..Len(seq) /\ t[n] \notin I[n]
    BY <1>3
  <2>2. n # 0
    BY <2>1, <1>1
  <2>3. n - 1 \in 0..Len(seq) /\ n \in 1..Len(seq) /\ ~ (n <= n - 1)
    BY <2>1, <2>2
  <2>4. n - 1 \notin T
    <3> HIDE DEF T
    <3> QED
      BY <2>3, <1>3
  <2>5. t[n - 1] \in I[n - 1]
    BY <2>3, <2>4
  <2>6. body[<<t[n - 1], seq[n]>>] \in I[n]
    BY <2>3, <2>5
  <2> QED
    BY <2>1, <2>3, <2>6, <1>1
<1>4. T = {}
  <2> HIDE DEF T
  <2> QED
    BY <1>2, <1>3, LeastNat
<1>5. Len(seq) \in 0..Len(seq)
  BY <1>2
<1> QED
  BY <1>1, <1>4, <1>5

\* A loop whose body keeps a type has that type.
LEMMA WalkType ==
  ASSUME NEW A, NEW D, NEW body \in [A \X D -> A], NEW base \in A, NEW seq \in Seq(D)
  PROVE  Walk(body, base, seq) \in A
<1>1. PICK t : Trace(t, A, body, base, seq)
  BY WalkTrace
<1>2. Len(seq) \in 0..Len(seq)
  OBVIOUS
<1> QED
  BY <1>1, <1>2 DEF Trace

----------------------------------------------------------------------------
(* Recursion along a path that grows *)

\* How many nodes a path leaves.
Left(S, path) == Cardinality(S \ path)

LEMMA LeftFacts ==
  ASSUME NEW S, IsFiniteSet(S), NEW path \in SUBSET S
  PROVE  /\ Left(S, path) \in Nat
         /\ \A d \in S \ path : Left(S, path \cup {d}) = Left(S, path) - 1
<1>1. IsFiniteSet(S \ path)
  BY FS_Subset
<1>2. ASSUME NEW d \in S \ path PROVE Left(S, path \cup {d}) = Left(S, path) - 1
  <2>1. S \ (path \cup {d}) = (S \ path) \ {d}
    OBVIOUS
  <2>2. Cardinality((S \ path) \ {d}) = Cardinality(S \ path) - 1
    BY <1>1, FS_RemoveElement
  <2> QED
    BY <2>1, <2>2 DEF Left
<1> QED
  BY <1>1, <1>2, FS_CardinalityType DEF Left

\* A set of paths that has each path whose extensions it has has every path.
LEMMA Paths ==
  ASSUME NEW S, IsFiniteSet(S), NEW P,
         \A path \in SUBSET S :
           (\A d \in S \ path : path \cup {d} \in P) => path \in P
  PROVE  SUBSET S \subseteq P
<1> DEFINE T == {Left(S, path) : path \in (SUBSET S) \ P}
<1>1. SUFFICES ASSUME NEW p0 \in (SUBSET S) \ P PROVE FALSE
  OBVIOUS
<1>2. T \in SUBSET Nat /\ T # {}
  BY LeftFacts
<1>3. PICK n \in T : \A m \in T : n <= m
  <2> HIDE DEF T
  <2> QED
    BY <1>2, LeastNat
<1>4. PICK path \in (SUBSET S) \ P : n = Left(S, path)
  OBVIOUS
<1>5. ASSUME NEW d \in S \ path PROVE path \cup {d} \in P
  <2>1. path \cup {d} \in SUBSET S /\ Left(S, path \cup {d}) = n - 1
    BY <1>4, LeftFacts
  <2>2. n \in Nat
    BY <1>2
  <2>3. Left(S, path \cup {d}) \notin T
    <3> HIDE DEF T
    <3> QED
      BY <1>3, <2>1, <2>2
  <2> QED
    BY <2>1, <2>3
<1> QED
  BY <1>4, <1>5

\* Each value is made of the values for longer paths only; f is the function
\* that is made of its own values.
AsksLonger(S, R, G) ==
  \A f, g \in [SUBSET S -> R] : \A path \in SUBSET S :
    (\A d \in S \ path : f[path \cup {d}] = g[path \cup {d}])
      => G[<<f, path>>] = G[<<g, path>>]
Solves(f, S, R, G) ==
  f \in [SUBSET S -> R] /\ \A path \in SUBSET S : f[path] = G[<<f, path>>]

\* A recursion that asks for longer paths only has a solution.
LEMMA PathRecursion ==
  ASSUME NEW S, IsFiniteSet(S), NEW R, NEW r0 \in R,
         NEW G \in [[SUBSET S -> R] \X SUBSET S -> R], AsksLonger(S, R, G)
  PROVE  \E f : Solves(f, S, R, G)
<1>0. \A f, g \in [SUBSET S -> R] : \A path \in SUBSET S :
        (\A d \in S \ path : f[path \cup {d}] = g[path \cup {d}])
          => G[<<f, path>>] = G[<<g, path>>]
  BY DEF AsksLonger
<1> DEFINE Right(f, n) == \A path \in SUBSET S : Left(S, path) < n => f[path] = G[<<f, path>>]
           T == {n \in Nat : ~ \E f \in [SUBSET S -> R] : Right(f, n)}
<1>1. T \in SUBSET Nat
  <2> HIDE DEF Right
  <2> QED
    OBVIOUS
<1>2. ASSUME NEW n \in T, \A m \in T : n <= m PROVE FALSE
  <2>1. n \in Nat /\ ~ \E f \in [SUBSET S -> R] : Right(f, n)
    <3> HIDE DEF Right
    <3> QED
      BY <1>2
  <2>2. n # 0
    <3>1. SUFFICES ASSUME n = 0 PROVE \E f \in [SUBSET S -> R] : Right(f, 0)
      BY <2>1
    <3>2. [path \in SUBSET S |-> r0] \in [SUBSET S -> R]
      OBVIOUS
    <3>3. \A path \in SUBSET S : ~ (Left(S, path) < 0)
      BY LeftFacts
    <3> QED
      BY <3>2, <3>3
  <2>3. n - 1 \in Nat /\ ~ (n <= n - 1)
    BY <2>1, <2>2
  <2>4. n - 1 \notin T
    <3> HIDE DEF T
    <3> QED
      BY <1>2, <2>3
  <2>5. PICK f \in [SUBSET S -> R] : Right(f, n - 1)
    <3> HIDE DEF Right
    <3> QED
      BY <2>3, <2>4
  <2> DEFINE g == [path \in SUBSET S |->
                     IF Left(S, path) < n - 1 THEN f[path] ELSE G[<<f, path>>]]
  <2>6. \A path \in SUBSET S : G[<<f, path>>] \in R
    OBVIOUS
  <2>7. g \in [SUBSET S -> R]
    BY <2>6
  <2>8. ASSUME NEW path \in SUBSET S, Left(S, path) < n PROVE g[path] = G[<<g, path>>]
    <3>1. ASSUME NEW d \in S \ path PROVE f[path \cup {d}] = g[path \cup {d}]
      <4>1. path \cup {d} \in SUBSET S /\ Left(S, path \cup {d}) < n - 1
        BY <2>8, <2>1, LeftFacts
      <4> QED
        BY <4>1
    <3>2. G[<<f, path>>] = G[<<g, path>>]
      <4> HIDE DEF g
      <4> QED
        BY <2>7, <3>1, <1>0
    <3>3. g[path] = G[<<f, path>>]
      BY <2>5
    <3> QED
      BY <3>2, <3>3
  <2>9. Right(g, n)
    <3> HIDE DEF g
    <3> QED
      BY <2>8
  <2> QED
    <3> HIDE DEF g, Right
    <3> QED
      BY <2>1, <2>7, <2>9
<1>3. T = {}
  <2> HIDE DEF T
  <2> QED
    BY <1>1, <1>2, LeastNat
<1>4. Left(S, {}) \in Nat /\ Left(S, {}) + 1 \in Nat
  BY LeftFacts
<1>5. PICK f \in [SUBSET S -> R] : Right(f, Left(S, {}) + 1)
  <2> HIDE DEF Right
  <2> QED
    BY <1>3, <1>4
<1>6. ASSUME NEW path \in SUBSET S PROVE Left(S, path) < Left(S, {}) + 1
  <2>1. Left(S, path) <= Left(S, {}) /\ Left(S, path) \in Nat
    <3>1. IsFiniteSet(S \ {}) /\ S \ path \in SUBSET (S \ {})
      BY FS_Subset
    <3> QED
      BY <3>1, FS_Subset, LeftFacts DEF Left
  <2> QED
    BY <2>1, <1>4
<1>7. \A path \in SUBSET S : f[path] = G[<<f, path>>]
  BY <1>5, <1>6
<1> QED
  BY <1>7 DEF Solves

----------------------------------------------------------------------------
(* Graphs *)

\* A graph as build has it when it looks for a cycle.
Referenced(dag) == WellFormed(dag) /\ ValidReferences(dag)

\* A sequence without repetition is as long as it has members.
LEMMA DistinctCount ==
  ASSUME NEW S, NEW seq \in Seq(S), Distinct(seq)
  PROVE  IsFiniteSet(ToSet(seq)) /\ Cardinality(ToSet(seq)) = Len(seq)
<1> DEFINE T == ToSet(seq)
           n == Len(seq)
<1>1. n \in Nat /\ DOMAIN seq = 1..n /\ seq \in [1..n -> T]
  BY DEF ToSet
<1>2. \A s \in T : \E i \in 1..n : seq[i] = s
  BY <1>1 DEF ToSet
<1> HIDE DEF T
<1>3. seq \in Surjection(1..n, T) /\ seq \in Injection(1..n, T)
  BY <1>1, <1>2 DEF Surjection, Injection, IsInjective, Distinct
<1>4. IsFiniteSet(1..n) /\ Cardinality(1..n) = n
  BY <1>1, FS_Interval
<1> QED
  BY <1>3, <1>4, FS_Surjection DEF T

LEMMA GraphFacts ==
  ASSUME NEW dag, WellFormed(dag)
  PROVE  /\ dag.order \in Seq(StepsOf(dag)) /\ Distinct(dag.order)
         /\ IsFiniteSet(StepsOf(dag))
         /\ Cardinality(StepsOf(dag)) = Len(dag.order)
<1>1. dag.order \in Seq(StepsOf(dag)) /\ Distinct(dag.order)
  BY DEF WellFormed, Distinct
<1> QED
  BY <1>1, DistinctCount DEF StepsOf

LEMMA DepsFacts ==
  ASSUME NEW dag, Referenced(dag), NEW s \in StepsOf(dag)
  PROVE  /\ dag.deps[s] \in Seq(StepsOf(dag)) /\ DepsOf(dag, s) \subseteq StepsOf(dag)
         /\ DepsOf(dag, s) = {dag.deps[s][i] : i \in 1..Len(dag.deps[s])}
<1>1. dag.deps[s] \in Seq(DepsOf(dag, s)) /\ DepsOf(dag, s) \subseteq StepsOf(dag)
  BY DEF Referenced, WellFormed, ValidReferences
<1>2. DepsOf(dag, s) = {dag.deps[s][i] : i \in 1..Len(dag.deps[s])}
  <2>1. DOMAIN dag.deps[s] = 1..Len(dag.deps[s])
    BY <1>1
  <2> QED
    BY <2>1 DEF DepsOf, ToSet
<1> QED
  BY <1>1, <1>2

----------------------------------------------------------------------------
(* detect_cycle *)

Found(dag) == [cyclic : BOOLEAN, visited : SUBSET StepsOf(dag)]

\* What cycle_dfs does with a dependency on a path.
CycleStep(dag, look, path, x) ==
  IF x[1].cyclic \/ x[2] \in x[1].visited \ path THEN x[1]
  ELSE IF x[2] \in path THEN [x[1] EXCEPT !.cyclic = TRUE]
  ELSE Walk(look[path \cup {x[2]}], [x[1] EXCEPT !.visited = @ \cup {x[2]}],
            dag.deps[x[2]])

LEMMA CycleStepType ==
  ASSUME NEW dag, Referenced(dag), NEW path \in SUBSET StepsOf(dag),
         NEW look, NEW x \in Found(dag) \X StepsOf(dag),
         x[2] \notin path =>
           look[path \cup {x[2]}] \in [Found(dag) \X StepsOf(dag) -> Found(dag)]
  PROVE  CycleStep(dag, look, path, x) \in Found(dag)
<1>1. x[1] \in Found(dag) /\ x[2] \in StepsOf(dag)
  OBVIOUS
<1>2. /\ [x[1] EXCEPT !.cyclic = TRUE] \in Found(dag)
      /\ [x[1] EXCEPT !.visited = @ \cup {x[2]}] \in Found(dag)
  BY <1>1 DEF Found
<1>3. dag.deps[x[2]] \in Seq(StepsOf(dag))
  BY <1>1, DepsFacts
<1>4. ASSUME x[2] \notin path
      PROVE  Walk(look[path \cup {x[2]}], [x[1] EXCEPT !.visited = @ \cup {x[2]}],
                  dag.deps[x[2]]) \in Found(dag)
  BY <1>2, <1>3, <1>4, WalkType
<1> QED
  BY <1>1, <1>2, <1>4 DEF CycleStep

\* The recursion of cycle_dfs has a solution.
LEMMA CycleDfsFunction ==
  ASSUME NEW dag, Referenced(dag)
  PROVE  /\ CycleDfs(dag) = [path \in SUBSET StepsOf(dag) |->
                               [x \in Found(dag) \X StepsOf(dag) |->
                                  CycleStep(dag, CycleDfs(dag), path, x)]]
         /\ \A path \in SUBSET StepsOf(dag) :
              CycleDfs(dag)[path] \in [Found(dag) \X StepsOf(dag) -> Found(dag)]
<1> DEFINE S == StepsOf(dag)
           X == Found(dag) \X S
           R == [X -> Found(dag)]
           Level(f, path) == [x \in X |-> CycleStep(dag, f, path, x)]
           G == [y \in [SUBSET S -> R] \X SUBSET S |-> Level(y[1], y[2])]
           r0 == [x \in X |-> x[1]]
<1>1. IsFiniteSet(S)
  BY GraphFacts DEF Referenced
<1>2. ASSUME NEW f, NEW path \in SUBSET S,
             \A d \in S \ path : f[path \cup {d}] \in R
      PROVE  Level(f, path) \in R
  <2>1. ASSUME NEW x \in X PROVE CycleStep(dag, f, path, x) \in Found(dag)
    <3>1. x[2] \in S
      OBVIOUS
    <3> QED
      BY <1>2, <3>1, CycleStepType
  <2> QED
    BY <2>1
<1>3. ASSUME NEW f, NEW g, NEW path \in SUBSET S,
             \A d \in S \ path : f[path \cup {d}] = g[path \cup {d}]
      PROVE  Level(f, path) = Level(g, path)
  <2>1. ASSUME NEW x \in X PROVE CycleStep(dag, f, path, x) = CycleStep(dag, g, path, x)
    <3>1. x[2] \in S
      OBVIOUS
    <3> QED
      BY <1>3, <3>1 DEF CycleStep
  <2> QED
    BY <2>1
<1> HIDE DEF S, X, R, Level
<1>4. \A f \in [SUBSET S -> R], path \in SUBSET S : Level(f, path) \in R
  <2> SUFFICES ASSUME NEW f \in [SUBSET S -> R], NEW path \in SUBSET S
               PROVE  Level(f, path) \in R
    OBVIOUS
  <2>1. \A d \in S \ path : f[path \cup {d}] \in R
    OBVIOUS
  <2> QED
    BY <2>1, <1>2
<1>5. G \in [[SUBSET S -> R] \X SUBSET S -> R]
  BY <1>4
<1>6. \A f \in [SUBSET S -> R], path \in SUBSET S : G[<<f, path>>] = Level(f, path)
  OBVIOUS
<1> HIDE DEF G
<1>7. AsksLonger(S, R, G)
  BY <1>3, <1>6 DEF AsksLonger
<1>8. r0 \in R
  BY DEF X, R
<1>9. PICK f \in [SUBSET S -> R] : \A path \in SUBSET S : f[path] = G[<<f, path>>]
  <2> HIDE DEF r0
  <2>1. PICK f : Solves(f, S, R, G)
    BY <1>1, <1>5, <1>7, <1>8, PathRecursion
  <2> QED
    BY <2>1 DEF Solves
<1>10. f = [path \in SUBSET S |-> Level(f, path)]
  BY <1>6, <1>9
<1>11. CycleDfs(dag) = CHOOSE g : g = [path \in SUBSET S |-> Level(g, path)]
  BY DEF CycleDfs, CycleStep, S, X, Level, Found
<1>12. CycleDfs(dag) = [path \in SUBSET S |-> Level(CycleDfs(dag), path)]
  BY <1>10, <1>11
<1> DEFINE P == {path \in SUBSET S : CycleDfs(dag)[path] \in R}
<1>13. ASSUME NEW path \in SUBSET S, \A d \in S \ path : path \cup {d} \in P
       PROVE  path \in P
  <2>1. \A d \in S \ path : CycleDfs(dag)[path \cup {d}] \in R
    BY <1>13
  <2>2. CycleDfs(dag)[path] = Level(CycleDfs(dag), path)
    BY <1>12
  <2> QED
    BY <2>1, <2>2, <1>2
<1>14. SUBSET S \subseteq P
  <2> HIDE DEF P
  <2> QED
    BY <1>1, <1>13, Paths
<1> QED
  BY <1>12, <1>14 DEF S, X, R, Level

\* Nothing in F is on a cycle, and F has the dependencies of what it has.
Sound(dag, F) ==
  /\ F \subseteq StepsOf(dag) /\ \A s \in F : DepsOf(dag, s) \subseteq F
  /\ \A C \in (SUBSET F) \ {{}} : \E s \in C : DepsOf(dag, s) \cap C = {}

LEMMA SoundAdd ==
  ASSUME NEW dag, NEW F, Sound(dag, F), NEW d \in StepsOf(dag), DepsOf(dag, d) \subseteq F
  PROVE  Sound(dag, F \cup {d})
<1> DEFINE H == F \cup {d}
<1>1. H \subseteq StepsOf(dag) /\ \A s \in H : DepsOf(dag, s) \subseteq H
  BY DEF Sound
<1>2. ASSUME NEW C \in (SUBSET H) \ {{}} PROVE \E s \in C : DepsOf(dag, s) \cap C = {}
  <2>1. CASE C \cap F # {}
    <3>1. C \cap F \in (SUBSET F) \ {{}}
      BY <2>1
    <3>2. PICK s \in C \cap F : DepsOf(dag, s) \cap (C \cap F) = {}
      BY <3>1 DEF Sound
    <3>3. DepsOf(dag, s) \subseteq F
      BY <3>2 DEF Sound
    <3> QED
      BY <3>2, <3>3
  <2>2. CASE C \cap F = {}
    <3>1. d \in C
      BY <2>2
    <3> QED
      BY <2>2, <3>1
  <2> QED
    BY <2>1, <2>2
<1> QED
  BY <1>1, <1>2 DEF Sound

\* A path on which each node waits for another one of it or for d.
Awaiting(dag, path, d) ==
  /\ path \subseteq StepsOf(dag) /\ d \in StepsOf(dag)
  /\ \A p \in path : DepsOf(dag, p) \cap (path \cup {d}) # {}

\* A path that is closed by one of its own nodes is a cycle.
LEMMA ClosedPath ==
  ASSUME NEW dag, NEW path, NEW d \in path, Awaiting(dag, path, d)
  PROVE  ~ Acyclic(dag)
<1>1. path \in (SUBSET StepsOf(dag)) \ {{}}
  BY DEF Awaiting
<1>2. path \cup {d} = path
  OBVIOUS
<1>3. \A p \in path : DepsOf(dag, p) \cap path # {}
  BY <1>2 DEF Awaiting
<1> QED
  BY <1>1, <1>3 DEF Acyclic

\* A path that goes on to a dependency of its last node.
LEMMA LongerPath ==
  ASSUME NEW dag, NEW path, NEW d, Awaiting(dag, path, d),
         NEW e \in DepsOf(dag, d), e \in StepsOf(dag)
  PROVE  Awaiting(dag, path \cup {d}, e)
<1>1. ASSUME NEW p \in path \cup {d}
      PROVE  DepsOf(dag, p) \cap ((path \cup {d}) \cup {e}) # {}
  <2>1. CASE p \in path
    <3>1. DepsOf(dag, p) \cap (path \cup {d}) # {}
      BY <2>1 DEF Awaiting
    <3> QED
      BY <3>1
  <2>2. CASE p = d
    BY <2>2
  <2> QED
    BY <2>1, <2>2
<1> QED
  BY <1>1 DEF Awaiting

\* What is found is right: a cycle there is, or none among what was left.
Right(dag, path, found) ==
  IF found.cyclic THEN ~ Acyclic(dag)
  ELSE path \subseteq found.visited /\ Sound(dag, found.visited \ path)

\* What a visit of X, from what was found before it, finds.
Visits(dag, path, before, X, found) ==
  /\ found \in Found(dag) /\ Right(dag, path, found)
  /\ ~ found.cyclic => /\ ~ before.cyclic /\ before.visited \subseteq found.visited
                       /\ X \subseteq found.visited \ path

\* The claim about cycle_dfs on a path.
Looks(dag, path) ==
  \A before \in Found(dag) : \A d \in StepsOf(dag) :
    Awaiting(dag, path, d) /\ Right(dag, path, before)
      => Visits(dag, path, before, {d}, CycleDfs(dag)[path][<<before, d>>])

LEMMA VisitThen ==
  ASSUME NEW dag, NEW path, NEW before, NEW X, NEW Y, NEW found, NEW found2,
         Visits(dag, path, before, X, found), Visits(dag, path, found, Y, found2)
  PROVE  Visits(dag, path, before, X \cup Y, found2)
  BY DEF Visits

\* The loop over the dependencies, or over all steps.
LEMMA LooksWalk ==
  ASSUME NEW dag, Referenced(dag), NEW path \in SUBSET StepsOf(dag), Looks(dag, path),
         NEW seq \in Seq(StepsOf(dag)), \A i \in 1..Len(seq) : Awaiting(dag, path, seq[i]),
         NEW base \in Found(dag), Right(dag, path, base)
  PROVE  Visits(dag, path, base, ToSet(seq), Walk(CycleDfs(dag)[path], base, seq))
<1> DEFINE S == StepsOf(dag)
           A == Found(dag)
           body == CycleDfs(dag)[path]
           First(i) == {seq[j] : j \in 1..i}
           I == [i \in 0..Len(seq) |-> {a \in A : Visits(dag, path, base, First(i), a)}]
<1>1. body \in [A \X S -> A]
  BY CycleDfsFunction
<1>2. I \in [0..Len(seq) -> SUBSET A] /\ Len(seq) \in Nat
  OBVIOUS
<1>3. \A i \in 0..Len(seq) : I[i] = {a \in A : Visits(dag, path, base, First(i), a)}
  OBVIOUS
<1>4. First(0) = {} /\ First(Len(seq)) = ToSet(seq)
  BY DEF ToSet
<1>5. \A i \in 1..Len(seq) : First(i) = First(i - 1) \cup {seq[i]} /\ seq[i] \in S
  <2> SUFFICES ASSUME NEW i \in 1..Len(seq)
               PROVE  First(i) = First(i - 1) \cup {seq[i]} /\ seq[i] \in S
    OBVIOUS
  <2>1. 1..i = (1..(i - 1)) \cup {i}
    OBVIOUS
  <2> QED
    BY <2>1
<1> HIDE DEF First, I, body
<1>6. base \in I[0]
  <2>1. Visits(dag, path, base, {}, base)
    BY DEF Visits
  <2> QED
    BY <1>2, <1>3, <1>4, <2>1
<1>7. ASSUME NEW i \in 1..Len(seq), NEW a \in I[i - 1] PROVE body[<<a, seq[i]>>] \in I[i]
  <2>1. i - 1 \in 0..Len(seq) /\ i \in 0..Len(seq)
    BY <1>2
  <2>2. a \in A /\ Visits(dag, path, base, First(i - 1), a)
    BY <1>3, <2>1
  <2>3. Visits(dag, path, a, {seq[i]}, body[<<a, seq[i]>>])
    BY <1>5, <2>2 DEF Looks, Visits, body
  <2>4. Visits(dag, path, base, First(i), body[<<a, seq[i]>>])
    BY <1>5, <2>2, <2>3, VisitThen
  <2>5. body[<<a, seq[i]>>] \in A
    BY <2>3 DEF Visits
  <2> QED
    BY <1>3, <2>1, <2>4, <2>5
<1> HIDE DEF A, S
<1>8. Walk(body, base, seq) \in I[Len(seq)]
  <2>1. base \in A /\ seq \in Seq(S)
    BY DEF A, S
  <2> QED
    BY <1>1, <1>2, <1>6, <1>7, <2>1, WalkInvariant
<1>9. Len(seq) \in 0..Len(seq)
  BY <1>2
<1> QED
  BY <1>3, <1>4, <1>8, <1>9 DEF body

\* cycle_dfs is right on every path.
LEMMA LooksEverywhere ==
  ASSUME NEW dag, Referenced(dag)
  PROVE  \A path \in SUBSET StepsOf(dag) : Looks(dag, path)
<1> DEFINE S == StepsOf(dag)
           P == {path \in SUBSET S : Looks(dag, path)}
<1>1. ASSUME NEW path \in SUBSET S, \A d \in S \ path : path \cup {d} \in P
      PROVE  path \in P
  <2> SUFFICES ASSUME NEW before \in Found(dag), NEW d \in S,
                      Awaiting(dag, path, d), Right(dag, path, before)
               PROVE  Visits(dag, path, before, {d}, CycleDfs(dag)[path][<<before, d>>])
    BY DEF Looks
  <2> DEFINE found == CycleDfs(dag)[path][<<before, d>>]
             q == path \cup {d}
             start == [before EXCEPT !.visited = @ \cup {d}]
  <2>1. found = CycleStep(dag, CycleDfs(dag), path, <<before, d>>)
    <3>1. CycleDfs(dag)[path] = [x \in Found(dag) \X S |->
                                   CycleStep(dag, CycleDfs(dag), path, x)]
      <4>1. CycleDfs(dag) = [p \in SUBSET StepsOf(dag) |->
                               [x \in Found(dag) \X StepsOf(dag) |->
                                  CycleStep(dag, CycleDfs(dag), p, x)]]
        BY CycleDfsFunction
      <4> QED
        BY <4>1
    <3>2. <<before, d>> \in Found(dag) \X S
      OBVIOUS
    <3> QED
      BY <3>1, <3>2
  <2>2. CASE before.cyclic \/ d \in before.visited \ path
    <3>1. found = before
      BY <2>1, <2>2 DEF CycleStep
    <3> QED
      BY <2>2, <3>1 DEF Visits, Right
  <2>3. CASE ~ before.cyclic /\ d \in path
    <3>1. found = [before EXCEPT !.cyclic = TRUE]
      BY <2>1, <2>3 DEF CycleStep
    <3>2. found \in Found(dag) /\ found.cyclic = TRUE
      BY <3>1 DEF Found
    <3>3. ~ Acyclic(dag)
      BY <2>3, ClosedPath
    <3> QED
      BY <3>2, <3>3 DEF Visits, Right
  <2>4. CASE ~ before.cyclic /\ d \notin path /\ d \notin before.visited
    <3>1. found = Walk(CycleDfs(dag)[q], start, dag.deps[d])
      BY <2>1, <2>4 DEF CycleStep
    <3>2. /\ start \in Found(dag) /\ ~ start.cyclic
          /\ start.visited = before.visited \cup {d}
      BY <2>4 DEF Found
    <3>3. Right(dag, q, start)
      <4>1. path \subseteq before.visited /\ Sound(dag, before.visited \ path)
        BY <2>4 DEF Right
      <4>2. (before.visited \cup {d}) \ q = before.visited \ path
        BY <2>4
      <4> QED
        BY <3>2, <4>1, <4>2 DEF Right
    <3>4. q \in SUBSET S /\ Looks(dag, q)
      BY <1>1, <2>4
    <3>5. /\ dag.deps[d] \in Seq(S) /\ DepsOf(dag, d) \subseteq S
          /\ \A i \in 1..Len(dag.deps[d]) : dag.deps[d][i] \in DepsOf(dag, d)
      BY DepsFacts
    <3>6. \A i \in 1..Len(dag.deps[d]) : Awaiting(dag, q, dag.deps[d][i])
      BY <3>5, LongerPath
    <3> HIDE DEF start, q
    <3>7. Visits(dag, q, start, ToSet(dag.deps[d]), found)
      BY <3>1, <3>2, <3>3, <3>4, <3>5, <3>6, LooksWalk
    <3> HIDE DEF found
    <3>8. CASE found.cyclic
      BY <3>7, <3>8 DEF Visits, Right, found
    <3>9. CASE ~ found.cyclic
      <4>1. /\ found \in Found(dag) /\ q \subseteq found.visited
            /\ Sound(dag, found.visited \ q) /\ start.visited \subseteq found.visited
            /\ DepsOf(dag, d) \subseteq found.visited \ q
        BY <3>7, <3>9 DEF Visits, Right, DepsOf
      <4>2. Sound(dag, (found.visited \ q) \cup {d})
        BY <4>1, SoundAdd
      <4>3. (found.visited \ q) \cup {d} = found.visited \ path
        BY <2>4, <4>1 DEF q
      <4>4. path \subseteq found.visited /\ Sound(dag, found.visited \ path)
        BY <4>1, <4>2, <4>3 DEF q
      <4> QED
        BY <2>4, <3>2, <3>9, <4>1, <4>4 DEF Visits, Right, found
    <3> QED
      BY <3>8, <3>9
  <2> QED
    BY <2>2, <2>3, <2>4
<1>2. IsFiniteSet(S)
  BY GraphFacts DEF Referenced
<1>3. SUBSET S \subseteq P
  <2> HIDE DEF P, S
  <2> QED
    BY <1>1, <1>2, Paths
<1> QED
  BY <1>3

\* detect_cycle, whatever order it takes the steps and their dependencies in,
\* finds a cycle exactly when there is one.
THEOREM CyclesFound ==
  ASSUME NEW dag, WellFormed(dag), ValidReferences(dag)
  PROVE  DetectCycle(dag) <=> ~ Acyclic(dag)
<1> DEFINE S == StepsOf(dag)
           base == [cyclic |-> FALSE, visited |-> {}]
           found == Walk(CycleDfs(dag)[{}], base, dag.order)
<1>1. Referenced(dag) /\ dag.order \in Seq(S)
  BY GraphFacts DEF Referenced
<1>2. Looks(dag, {}) /\ {} \in SUBSET S
  BY <1>1, LooksEverywhere
<1>3. base \in Found(dag) /\ Right(dag, {}, base)
  BY DEF Found, Right, Sound
<1>4. \A i \in 1..Len(dag.order) : Awaiting(dag, {}, dag.order[i])
  BY <1>1 DEF Awaiting
<1>5. Visits(dag, {}, base, ToSet(dag.order), found)
  <2> HIDE DEF base
  <2> QED
    BY <1>1, <1>2, <1>3, <1>4, LooksWalk
<1>6. DetectCycle(dag) = found.cyclic
  BY DEF DetectCycle
<1> HIDE DEF found
<1>7. CASE found.cyclic
  BY <1>5, <1>6, <1>7 DEF Visits, Right
<1>8. CASE ~ found.cyclic
  <2>1. Sound(dag, found.visited \ {}) /\ S \subseteq found.visited /\ found \in Found(dag)
    BY <1>5, <1>8 DEF Visits, Right, StepsOf
  <2>2. found.visited \ {} = S
    BY <2>1 DEF Found
  <2>3. Acyclic(dag)
    BY <2>1, <2>2 DEF Sound, Acyclic
  <2> QED
    BY <1>6, <1>8, <2>3
<1> QED
  BY <1>7, <1>8

COROLLARY BuildAcceptsAcyclic ==
  ASSUME NEW dag, WellFormed(dag)
  PROVE  BuildAccepts(dag) <=> ValidReferences(dag) /\ Acyclic(dag)
  BY CyclesFound DEF BuildAccepts

----------------------------------------------------------------------------
(* topological_order *)

\* What topo_dfs does with a dependency on a path.
TopoStep(dag, put, path, x) ==
  IF x[2] \in path \cup ToSet(x[1]) THEN x[1]
  ELSE Append(Walk(put[path \cup {x[2]}], x[1], dag.deps[x[2]]), x[2])

LEMMA TopoStepType ==
  ASSUME NEW dag, Referenced(dag), NEW path \in SUBSET StepsOf(dag),
         NEW put, NEW x \in Seq(StepsOf(dag)) \X StepsOf(dag),
         x[2] \notin path =>
           put[path \cup {x[2]}] \in [Seq(StepsOf(dag)) \X StepsOf(dag) -> Seq(StepsOf(dag))]
  PROVE  TopoStep(dag, put, path, x) \in Seq(StepsOf(dag))
<1>1. x[1] \in Seq(StepsOf(dag)) /\ x[2] \in StepsOf(dag)
  OBVIOUS
<1>2. dag.deps[x[2]] \in Seq(StepsOf(dag))
  BY <1>1, DepsFacts
<1> DEFINE after == Walk(put[path \cup {x[2]}], x[1], dag.deps[x[2]])
<1>3. ASSUME x[2] \notin path PROVE after \in Seq(StepsOf(dag))
  BY <1>1, <1>2, <1>3, WalkType
<1> HIDE DEF after
<1>4. ASSUME x[2] \notin path PROVE Append(after, x[2]) \in Seq(StepsOf(dag))
  BY <1>1, <1>3, <1>4
<1> QED
  BY <1>1, <1>4 DEF TopoStep, after

\* The recursion of topo_dfs has a solution.
LEMMA TopoDfsFunction ==
  ASSUME NEW dag, Referenced(dag)
  PROVE  /\ TopoDfs(dag) = [path \in SUBSET StepsOf(dag) |->
                              [x \in Seq(StepsOf(dag)) \X StepsOf(dag) |->
                                 TopoStep(dag, TopoDfs(dag), path, x)]]
         /\ \A path \in SUBSET StepsOf(dag) :
              TopoDfs(dag)[path] \in [Seq(StepsOf(dag)) \X StepsOf(dag) -> Seq(StepsOf(dag))]
<1> DEFINE S == StepsOf(dag)
           X == Seq(S) \X S
           R == [X -> Seq(S)]
           Level(f, path) == [x \in X |-> TopoStep(dag, f, path, x)]
           G == [y \in [SUBSET S -> R] \X SUBSET S |-> Level(y[1], y[2])]
           r0 == [x \in X |-> x[1]]
<1>1. IsFiniteSet(S)
  BY GraphFacts DEF Referenced
<1>2. ASSUME NEW f, NEW path \in SUBSET S,
             \A d \in S \ path : f[path \cup {d}] \in R
      PROVE  Level(f, path) \in R
  <2>1. ASSUME NEW x \in X PROVE TopoStep(dag, f, path, x) \in Seq(S)
    <3>1. x[2] \in S
      OBVIOUS
    <3> QED
      BY <1>2, <3>1, TopoStepType
  <2> QED
    BY <2>1
<1>3. ASSUME NEW f, NEW g, NEW path \in SUBSET S,
             \A d \in S \ path : f[path \cup {d}] = g[path \cup {d}]
      PROVE  Level(f, path) = Level(g, path)
  <2>1. ASSUME NEW x \in X PROVE TopoStep(dag, f, path, x) = TopoStep(dag, g, path, x)
    <3>1. x[2] \in S
      OBVIOUS
    <3> QED
      BY <1>3, <3>1 DEF TopoStep
  <2> QED
    BY <2>1
<1> HIDE DEF S, X, R, Level
<1>4. \A f \in [SUBSET S -> R], path \in SUBSET S : Level(f, path) \in R
  <2> SUFFICES ASSUME NEW f \in [SUBSET S -> R], NEW path \in SUBSET S
               PROVE  Level(f, path) \in R
    OBVIOUS
  <2>1. \A d \in S \ path : f[path \cup {d}] \in R
    OBVIOUS
  <2> QED
    BY <2>1, <1>2
<1>5. G \in [[SUBSET S -> R] \X SUBSET S -> R]
  BY <1>4
<1>6. \A f \in [SUBSET S -> R], path \in SUBSET S : G[<<f, path>>] = Level(f, path)
  OBVIOUS
<1> HIDE DEF G
<1>7. AsksLonger(S, R, G)
  BY <1>3, <1>6 DEF AsksLonger
<1>8. r0 \in R
  BY DEF X, R
<1>9. PICK f \in [SUBSET S -> R] : \A path \in SUBSET S : f[path] = G[<<f, path>>]
  <2> HIDE DEF r0
  <2>1. PICK f : Solves(f, S, R, G)
    BY <1>1, <1>5, <1>7, <1>8, PathRecursion
  <2> QED
    BY <2>1 DEF Solves
<1>10. f = [path \in SUBSET S |-> Level(f, path)]
  BY <1>6, <1>9
<1>11. TopoDfs(dag) = CHOOSE g : g = [path \in SUBSET S |-> Level(g, path)]
  BY DEF TopoDfs, TopoStep, S, X, Level
<1>12. TopoDfs(dag) = [path \in SUBSET S |-> Level(TopoDfs(dag), path)]
  BY <1>10, <1>11
<1> DEFINE P == {path \in SUBSET S : TopoDfs(dag)[path] \in R}
<1>13. ASSUME NEW path \in SUBSET S, \A d \in S \ path : path \cup {d} \in P
       PROVE  path \in P
  <2>1. \A d \in S \ path : TopoDfs(dag)[path \cup {d}] \in R
    BY <1>13
  <2>2. TopoDfs(dag)[path] = Level(TopoDfs(dag), path)
    BY <1>12
  <2> QED
    BY <2>1, <2>2, <1>2
<1>14. SUBSET S \subseteq P
  <2> HIDE DEF P
  <2> QED
    BY <1>1, <1>13, Paths
<1> QED
  BY <1>12, <1>14 DEF S, X, R, Level

\* Each step once, after its dependencies, and none of those on the path.
Sorted(dag, path, out) ==
  /\ out \in Seq(StepsOf(dag)) /\ Distinct(out) /\ ToSet(out) \cap path = {}
  /\ \A i \in 1..Len(out) : \A e \in DepsOf(dag, out[i]) : \E j \in 1..(i - 1) : out[j] = e

LEMMA SortedAppend ==
  ASSUME NEW dag, NEW path, NEW out, NEW d \in StepsOf(dag),
         Sorted(dag, path \cup {d}, out), d \notin path, DepsOf(dag, d) \subseteq ToSet(out)
  PROVE  Sorted(dag, path, Append(out, d)) /\ ToSet(Append(out, d)) = ToSet(out) \cup {d}
<1> DEFINE t == Append(out, d)
<1>1. /\ out \in Seq(StepsOf(dag)) /\ Distinct(out) /\ ToSet(out) \cap (path \cup {d}) = {}
      /\ \A i \in 1..Len(out) : \A e \in DepsOf(dag, out[i]) : \E j \in 1..(i - 1) : out[j] = e
  BY DEF Sorted
<1>2. t \in Seq(StepsOf(dag)) /\ ToSet(t) = ToSet(out) \cup {d} /\ Distinct(t)
  BY <1>1, AppendSet
<1>3. /\ Len(out) \in Nat /\ Len(t) = Len(out) + 1 /\ t[Len(out) + 1] = d
      /\ \A i \in 1..Len(out) : t[i] = out[i]
  BY <1>1
<1> HIDE DEF t
<1>4. ASSUME NEW i \in 1..Len(t), NEW e \in DepsOf(dag, t[i])
      PROVE  \E j \in 1..(i - 1) : t[j] = e
  <2>1. CASE i \in 1..Len(out)
    <3>1. PICK j \in 1..(i - 1) : out[j] = e
      BY <1>1, <1>3, <1>4, <2>1
    <3>2. j \in 1..Len(out)
      BY <1>3, <2>1
    <3> QED
      BY <1>3, <3>1, <3>2
  <2>2. CASE i = Len(out) + 1
    <3>1. e \in ToSet(out)
      BY <1>3, <1>4, <2>2
    <3>2. PICK j \in 1..Len(out) : out[j] = e
      BY <1>1, <3>1 DEF ToSet
    <3>3. j \in 1..(i - 1)
      BY <1>3, <2>2
    <3> QED
      BY <1>3, <3>2, <3>3
  <2> QED
    BY <1>3, <2>1, <2>2
<1>5. ToSet(t) \cap path = {}
  BY <1>1, <1>2
<1> QED
  BY <1>2, <1>4, <1>5 DEF Sorted, t

\* What is put out for X, after what was out before.
Puts(dag, path, before, X, out) ==
  Sorted(dag, path, out) /\ ToSet(before) \cup X \subseteq ToSet(out)

\* The claim about topo_dfs on a path.
Topo(dag, path) ==
  \A before \in Seq(StepsOf(dag)) : \A d \in StepsOf(dag) :
    Awaiting(dag, path, d) /\ Sorted(dag, path, before)
      => Puts(dag, path, before, {d}, TopoDfs(dag)[path][<<before, d>>])

LEMMA PutThen ==
  ASSUME NEW dag, NEW path, NEW before, NEW X, NEW Y, NEW out, NEW out2,
         Puts(dag, path, before, X, out), Puts(dag, path, out, Y, out2)
  PROVE  Puts(dag, path, before, X \cup Y, out2)
  BY DEF Puts

\* The loop over the dependencies, or over all steps.
LEMMA TopoWalk ==
  ASSUME NEW dag, Referenced(dag), NEW path \in SUBSET StepsOf(dag), Topo(dag, path),
         NEW seq \in Seq(StepsOf(dag)), \A i \in 1..Len(seq) : Awaiting(dag, path, seq[i]),
         NEW base, Sorted(dag, path, base)
  PROVE  Puts(dag, path, base, ToSet(seq), Walk(TopoDfs(dag)[path], base, seq))
<1> DEFINE S == StepsOf(dag)
           A == Seq(S)
           body == TopoDfs(dag)[path]
           First(i) == {seq[j] : j \in 1..i}
           I == [i \in 0..Len(seq) |-> {a \in A : Puts(dag, path, base, First(i), a)}]
<1>1. body \in [A \X S -> A]
  BY TopoDfsFunction
<1>2. I \in [0..Len(seq) -> SUBSET A] /\ Len(seq) \in Nat
  OBVIOUS
<1>3. \A i \in 0..Len(seq) : I[i] = {a \in A : Puts(dag, path, base, First(i), a)}
  OBVIOUS
<1>4. First(0) = {} /\ First(Len(seq)) = ToSet(seq)
  BY DEF ToSet
<1>5. \A i \in 1..Len(seq) : First(i) = First(i - 1) \cup {seq[i]} /\ seq[i] \in S
  <2> SUFFICES ASSUME NEW i \in 1..Len(seq)
               PROVE  First(i) = First(i - 1) \cup {seq[i]} /\ seq[i] \in S
    OBVIOUS
  <2>1. 1..i = (1..(i - 1)) \cup {i}
    OBVIOUS
  <2> QED
    BY <2>1
<1>6. base \in A
  BY DEF Sorted
<1> HIDE DEF First, I, body, A, S
<1>7. base \in I[0]
  <2>1. Puts(dag, path, base, {}, base)
    BY DEF Puts
  <2> QED
    BY <1>2, <1>3, <1>4, <1>6, <2>1
<1>8. ASSUME NEW i \in 1..Len(seq), NEW a \in I[i - 1] PROVE body[<<a, seq[i]>>] \in I[i]
  <2>1. i - 1 \in 0..Len(seq) /\ i \in 0..Len(seq)
    BY <1>2
  <2>2. a \in A /\ Puts(dag, path, base, First(i - 1), a)
    BY <1>3, <2>1
  <2>3. Puts(dag, path, a, {seq[i]}, body[<<a, seq[i]>>])
    BY <1>5, <2>2 DEF Topo, Puts, body, A, S
  <2>4. Puts(dag, path, base, First(i), body[<<a, seq[i]>>])
    BY <1>5, <2>2, <2>3, PutThen
  <2>5. body[<<a, seq[i]>>] \in A
    BY <2>3 DEF Puts, Sorted, A, S
  <2> QED
    BY <1>3, <2>1, <2>4, <2>5
<1>9. Walk(body, base, seq) \in I[Len(seq)]
  <2>1. seq \in Seq(S)
    BY DEF S
  <2> QED
    BY <1>1, <1>2, <1>6, <1>7, <1>8, <2>1, WalkInvariant
<1>10. Len(seq) \in 0..Len(seq)
  BY <1>2
<1> QED
  BY <1>3, <1>4, <1>9, <1>10 DEF body

\* topo_dfs is right on every path of a graph without a cycle.
LEMMA TopoEverywhere ==
  ASSUME NEW dag, Referenced(dag), Acyclic(dag)
  PROVE  \A path \in SUBSET StepsOf(dag) : Topo(dag, path)
<1> DEFINE S == StepsOf(dag)
           P == {path \in SUBSET S : Topo(dag, path)}
<1>1. ASSUME NEW path \in SUBSET S, \A d \in S \ path : path \cup {d} \in P
      PROVE  path \in P
  <2> SUFFICES ASSUME NEW before \in Seq(S), NEW d \in S,
                      Awaiting(dag, path, d), Sorted(dag, path, before)
               PROVE  Puts(dag, path, before, {d}, TopoDfs(dag)[path][<<before, d>>])
    BY DEF Topo
  <2> DEFINE out == TopoDfs(dag)[path][<<before, d>>]
             q == path \cup {d}
             deeper == Walk(TopoDfs(dag)[q], before, dag.deps[d])
  <2>1. out = TopoStep(dag, TopoDfs(dag), path, <<before, d>>)
    <3>1. TopoDfs(dag)[path] = [x \in Seq(S) \X S |-> TopoStep(dag, TopoDfs(dag), path, x)]
      <4>1. TopoDfs(dag) = [p \in SUBSET StepsOf(dag) |->
                              [x \in Seq(StepsOf(dag)) \X StepsOf(dag) |->
                                 TopoStep(dag, TopoDfs(dag), p, x)]]
        BY TopoDfsFunction
      <4> QED
        BY <4>1
    <3>2. <<before, d>> \in Seq(S) \X S
      OBVIOUS
    <3> QED
      BY <3>1, <3>2
  <2>2. d \notin path
    BY ClosedPath
  <2>3. CASE d \in ToSet(before)
    <3>1. out = before
      BY <2>1, <2>3 DEF TopoStep
    <3> HIDE DEF out
    <3>2. Puts(dag, path, before, {d}, out)
      BY <2>3, <3>1 DEF Puts
    <3> QED
      BY <3>2 DEF out
  <2>4. CASE d \notin ToSet(before)
    <3>1. out = Append(deeper, d)
      BY <2>1, <2>2, <2>4 DEF TopoStep
    <3>2. Sorted(dag, q, before)
      BY <2>4 DEF Sorted
    <3>3. q \in SUBSET S /\ Topo(dag, q)
      BY <1>1, <2>2
    <3>4. /\ dag.deps[d] \in Seq(S) /\ DepsOf(dag, d) \subseteq S
          /\ \A i \in 1..Len(dag.deps[d]) : dag.deps[d][i] \in DepsOf(dag, d)
      BY DepsFacts
    <3>5. \A i \in 1..Len(dag.deps[d]) : Awaiting(dag, q, dag.deps[d][i])
      BY <3>4, LongerPath
    <3> HIDE DEF q
    <3>6. Puts(dag, q, before, ToSet(dag.deps[d]), deeper)
      BY <3>2, <3>3, <3>4, <3>5, TopoWalk
    <3> HIDE DEF deeper, out
    <3>7. Sorted(dag, q, deeper) /\ ToSet(before) \cup DepsOf(dag, d) \subseteq ToSet(deeper)
      BY <3>6 DEF Puts, DepsOf
    <3>8. Sorted(dag, path, out) /\ ToSet(out) = ToSet(deeper) \cup {d}
      <4>1. Sorted(dag, path \cup {d}, deeper) /\ DepsOf(dag, d) \subseteq ToSet(deeper)
        BY <3>7 DEF q
      <4>2. d \in StepsOf(dag)
        OBVIOUS
      <4> HIDE DEF S, P
      <4>3. /\ Sorted(dag, path, Append(deeper, d))
            /\ ToSet(Append(deeper, d)) = ToSet(deeper) \cup {d}
        BY <2>2, <4>1, <4>2, SortedAppend
      <4> QED
        BY <3>1, <4>3
    <3>9. Puts(dag, path, before, {d}, out)
      BY <3>7, <3>8 DEF Puts
    <3> QED
      BY <3>9 DEF out
  <2> QED
    BY <2>3, <2>4
<1>2. IsFiniteSet(S)
  BY GraphFacts DEF Referenced
<1>3. SUBSET S \subseteq P
  <2> HIDE DEF P, S
  <2> QED
    BY <1>1, <1>2, Paths
<1> QED
  BY <1>3

LEMMA PrefixSet ==
  ASSUME NEW S, NEW seq \in Seq(S), NEW n \in 0..Len(seq)
  PROVE  ToSet(SubSeq(seq, 1, n)) = {seq[j] : j \in 1..n}
<1> DEFINE a == SubSeq(seq, 1, n)
<1>1. DOMAIN a = 1..n /\ \A i \in 1..n : a[i] = seq[i]
  OBVIOUS
<1> HIDE DEF a
<1> QED
  BY <1>1 DEF ToSet, a

\* topological_order has every step of an accepted graph once, each after the
\* steps it depends on.
THEOREM TopologicalOrderSorted ==
  ASSUME NEW dag, WellFormed(dag), BuildAccepts(dag)
  PROVE  /\ InOrder(dag, TopologicalOrder(dag)) /\ Distinct(TopologicalOrder(dag))
         /\ TopologicalOrder(dag) \in Seq(StepsOf(dag))
<1> DEFINE S == StepsOf(dag)
           order == TopologicalOrder(dag)
<1>1. Referenced(dag) /\ Acyclic(dag) /\ dag.order \in Seq(S)
  BY BuildAcceptsAcyclic, GraphFacts DEF Referenced
<1>2. Topo(dag, {}) /\ {} \in SUBSET S
  BY <1>1, TopoEverywhere
<1>3. Sorted(dag, {}, <<>>)
  BY EmptyFacts, EmptyIn DEF Sorted
<1>4. \A i \in 1..Len(dag.order) : Awaiting(dag, {}, dag.order[i])
  BY <1>1 DEF Awaiting
<1>5. Puts(dag, {}, <<>>, ToSet(dag.order), Walk(TopoDfs(dag)[{}], <<>>, dag.order))
  BY <1>1, <1>2, <1>3, <1>4, TopoWalk
<1>6. Sorted(dag, {}, order) /\ S \subseteq ToSet(order)
  BY <1>5 DEF Puts, TopologicalOrder, StepsOf
<1> HIDE DEF order
<1>7. order \in Seq(S) /\ Distinct(order) /\ ToSet(order) = S
  BY <1>6 DEF Sorted, ToSet
<1>8. Len(order) = Len(dag.order)
  BY <1>7, DistinctCount, GraphFacts
<1>9. ASSUME NEW i \in DOMAIN order
      PROVE  DepsOf(dag, order[i]) \subseteq ToSet(SubSeq(order, 1, i - 1))
  <2>1. i \in 1..Len(order) /\ i - 1 \in 0..Len(order)
    BY <1>7
  <2>2. ToSet(SubSeq(order, 1, i - 1)) = {order[j] : j \in 1..(i - 1)}
    BY <1>7, <2>1, PrefixSet
  <2> QED
    BY <1>6, <2>1, <2>2 DEF Sorted
<1> QED
  BY <1>7, <1>8, <1>9 DEF InOrder, order

----------------------------------------------------------------------------
(* Dependents *)

\* A set with the steps that wait for one of it: one round of DependentsOf.
Grown(dag, B) == B \cup {s \in StepsOf(dag) : DepsOf(dag, s) \cap B # {}}

\* The rounds of DependentsOf.
Rounds(dag, roots, r) ==
  /\ r \in [0..Len(dag.order) -> SUBSET StepsOf(dag)] /\ r[0] = roots
  /\ \A k \in 1..Len(dag.order) : r[k] = Grown(dag, r[k - 1])
  /\ DependentsOf(dag, roots) = r[Len(dag.order)] \ roots

\* The recursion of DependentsOf has a solution: it is a loop over the steps
\* that does not look at them.
LEMMA DependentsRounds ==
  ASSUME NEW dag, WellFormed(dag), NEW roots \in SUBSET StepsOf(dag)
  PROVE  \E r : Rounds(dag, roots, r)
<1> DEFINE S == StepsOf(dag)
           n == Len(dag.order)
           body == [x \in (SUBSET S) \X S |-> Grown(dag, x[1])]
           reach == CHOOSE r : r = [k \in 0..n |-> IF k = 0 THEN roots
                                                   ELSE Grown(dag, r[k - 1])]
<1>1. dag.order \in Seq(S) /\ n \in Nat /\ \A i \in 1..n : dag.order[i] \in S
  BY GraphFacts
<1>2. \A B \in SUBSET S : Grown(dag, B) \in SUBSET S
  BY DEF Grown
<1>3. body \in [(SUBSET S) \X S -> SUBSET S]
  BY <1>2
<1>4. \A B \in SUBSET S : \A s \in S : body[<<B, s>>] = Grown(dag, B)
  OBVIOUS
<1>5. PICK t : Trace(t, SUBSET S, body, roots, dag.order)
  <2> HIDE DEF body
  <2> QED
    BY <1>1, <1>3, WalkTrace
<1> HIDE DEF body, S
<1>6. /\ t \in [0..n -> SUBSET S] /\ t[0] = roots
      /\ \A i \in 1..n : t[i] = body[<<t[i - 1], dag.order[i]>>]
  BY <1>5 DEF Trace
<1>7. ASSUME NEW i \in 1..n PROVE t[i] = Grown(dag, t[i - 1])
  <2>1. i - 1 \in 0..n
    BY <1>1
  <2> QED
    BY <1>1, <1>4, <1>6, <2>1
<1>8. t = [k \in 0..n |-> IF k = 0 THEN roots ELSE Grown(dag, t[k - 1])]
  BY <1>1, <1>6, <1>7
<1>9. reach = [k \in 0..n |-> IF k = 0 THEN roots ELSE Grown(dag, reach[k - 1])]
  BY <1>8
<1>10. DependentsOf(dag, roots) = reach[n] \ roots
  BY DEF DependentsOf, Grown
<1> HIDE DEF reach
<1> DEFINE T == {k \in 0..n : reach[k] \notin SUBSET S}
<1>11. ASSUME NEW k \in T, \A m \in T : k <= m PROVE FALSE
  <2>1. k \in 0..n /\ reach[k] \notin SUBSET S
    BY <1>11
  <2>2. k # 0
    BY <2>1, <1>9 DEF S
  <2>3. k - 1 \in 0..n /\ ~ (k <= k - 1)
    BY <2>1, <2>2, <1>1
  <2>4. k - 1 \notin T
    <3> HIDE DEF T
    <3> QED
      BY <1>11, <2>3
  <2>5. reach[k - 1] \in SUBSET S
    BY <2>3, <2>4
  <2>6. reach[k] = Grown(dag, reach[k - 1])
    BY <1>9, <2>1, <2>2
  <2> QED
    BY <1>2, <2>1, <2>5, <2>6
<1>12. T = {}
  <2>1. T \in SUBSET Nat
    BY <1>1
  <2> HIDE DEF T
  <2> QED
    BY <1>11, <2>1, LeastNat
<1>13. reach \in [0..n -> SUBSET S]
  BY <1>9, <1>12
<1>14. reach[0] = roots /\ \A k \in 1..n : reach[k] = Grown(dag, reach[k - 1])
  <2>1. 0 \in 0..n /\ \A k \in 1..n : k \in 0..n /\ k # 0
    BY <1>1
  <2>2. reach[0] = roots
    BY <2>1, <1>9
  <2>3. ASSUME NEW k \in 1..n PROVE reach[k] = Grown(dag, reach[k - 1])
    <3>1. k \in 0..n /\ k # 0
      BY <2>1
    <3> QED
      BY <3>1, <1>9
  <2> QED
    BY <2>2, <2>3
<1>15. Rounds(dag, roots, reach)
  BY <1>10, <1>13, <1>14 DEF Rounds, S
<1> QED
  BY <1>15

\* After as many rounds as there are steps nothing more is found.
\* DependentsOf has the steps that wait, directly or not, for one of the roots.
THEOREM DependentsWait ==
  ASSUME NEW dag, WellFormed(dag), NEW roots \in SUBSET StepsOf(dag)
  PROVE  WaitFor(dag, roots, roots \cup DependentsOf(dag, roots))
<1> DEFINE S == StepsOf(dag)
           n == Len(dag.order)
<1>1. PICK r : Rounds(dag, roots, r)
  BY DependentsRounds
<1>2. /\ r \in [0..n -> SUBSET S] /\ r[0] = roots
      /\ \A k \in 1..n : r[k] = Grown(dag, r[k - 1])
      /\ DependentsOf(dag, roots) = r[n] \ roots
  BY <1>1 DEF Rounds
<1>3. /\ n \in Nat /\ n \in 0..n /\ IsFiniteSet(S) /\ Cardinality(S) = n
  BY GraphFacts
<1>4. ASSUME NEW B \in SUBSET S, Grown(dag, B) = B PROVE Closed(dag, B)
  BY <1>4 DEF Grown, Closed
<1>5. ASSUME NEW B \in SUBSET S, Closed(dag, B) PROVE Grown(dag, B) = B
  BY <1>5 DEF Grown, Closed
<1> DEFINE Count(k) == Closed(dag, r[k]) \/ k <= Cardinality(r[k])
           Least(k) == /\ roots \subseteq r[k]
                       /\ \A B \in SUBSET S : roots \subseteq B /\ Closed(dag, B) => r[k] \subseteq B
           T == {k \in 0..n : ~ (Count(k) /\ Least(k))}
<1> HIDE DEF S
<1>6. \A B \in SUBSET S : IsFiniteSet(B) /\ Cardinality(B) \in Nat
  BY <1>3, FS_Subset, FS_CardinalityType
<1>7. ASSUME NEW k \in T, \A m \in T : k <= m PROVE FALSE
  <2>1. k \in 0..n /\ ~ (Count(k) /\ Least(k))
    <3> HIDE DEF Count, Least
    <3> QED
      BY <1>7
  <2>2. k # 0
    <3>1. ASSUME k = 0 PROVE Count(k) /\ Least(k)
      BY <3>1, <1>2, <1>6
    <3> QED
      BY <3>1, <2>1
  <2>3. k - 1 \in 0..n /\ k \in 1..n /\ ~ (k <= k - 1)
    BY <2>1, <2>2, <1>3
  <2>4. k - 1 \notin T
    <3> HIDE DEF T
    <3> QED
      BY <1>7, <2>3
  <2>5. Count(k - 1) /\ Least(k - 1)
    <3> HIDE DEF Count, Least
    <3> QED
      BY <2>3, <2>4
  <2>6. r[k] = Grown(dag, r[k - 1]) /\ r[k] \in SUBSET S /\ r[k - 1] \in SUBSET S
    BY <1>2, <2>1, <2>3
  <2>7. r[k - 1] \subseteq r[k]
    BY <2>6 DEF Grown
  <2>8. Least(k)
    <3>1. ASSUME NEW B \in SUBSET S, roots \subseteq B, Closed(dag, B) PROVE r[k] \subseteq B
      <4>1. r[k - 1] \subseteq B
        BY <2>5, <3>1
      <4>2. Grown(dag, r[k - 1]) \subseteq Grown(dag, B)
        BY <4>1 DEF Grown
      <4> QED
        BY <1>5, <2>6, <3>1, <4>2
    <3>2. roots \subseteq r[k]
      BY <2>5, <2>7
    <3> QED
      BY <3>1, <3>2
  <2>9. Count(k)
    <3>1. CASE r[k] = r[k - 1]
      <4>1. Closed(dag, r[k])
        BY <1>4, <2>6, <3>1
      <4> QED
        BY <4>1
    <3>2. CASE r[k] # r[k - 1]
      <4>1. ~ Closed(dag, r[k - 1])
        BY <1>5, <2>6, <3>2
      <4>2. k - 1 <= Cardinality(r[k - 1])
        BY <2>5, <4>1
      <4>3. Cardinality(r[k - 1]) < Cardinality(r[k])
        <5>1. IsFiniteSet(r[k]) /\ Cardinality(r[k]) \in Nat /\ Cardinality(r[k - 1]) \in Nat
          BY <1>6, <2>6
        <5>2. /\ Cardinality(r[k - 1]) <= Cardinality(r[k])
              /\ Cardinality(r[k - 1]) = Cardinality(r[k]) => r[k - 1] = r[k]
          BY <2>7, <5>1, FS_Subset
        <5> QED
          BY <3>2, <5>1, <5>2
      <4>4. k <= Cardinality(r[k])
        BY <1>6, <2>3, <2>6, <4>2, <4>3
      <4> QED
        BY <4>4
    <3> QED
      BY <3>1, <3>2
  <2> QED
    <3> HIDE DEF Count, Least
    <3> QED
      BY <2>1, <2>8, <2>9
<1>8. T = {}
  <2>1. T \in SUBSET Nat
    <3> HIDE DEF Count, Least
    <3> QED
      BY <1>3
  <2> HIDE DEF T
  <2> QED
    BY <1>7, <2>1, LeastNat
<1>9. Count(n) /\ Least(n)
  <2> HIDE DEF Count, Least
  <2> QED
    BY <1>3, <1>8
<1>10. r[n] \in SUBSET S
  BY <1>2, <1>3
<1>11. Closed(dag, r[n])
  <2>1. CASE n <= Cardinality(r[n])
    <3>1. Cardinality(r[n]) <= n /\ (Cardinality(r[n]) = n => r[n] = S)
      BY <1>3, <1>10, FS_Subset
    <3>2. r[n] = S
      BY <1>3, <1>6, <1>10, <2>1, <3>1
    <3> QED
      BY <3>2 DEF Closed, S
  <2> QED
    BY <1>9, <2>1
<1>12. roots \cup DependentsOf(dag, roots) = r[n]
  BY <1>2, <1>9
<1> QED
  BY <1>9, <1>11, <1>12 DEF WaitFor, S

----------------------------------------------------------------------------
(* Resuming *)

\* Where a step is in an order.
Place(order, s) == CHOOSE j \in DOMAIN order : order[j] = s

LEMMA PlaceFacts ==
  ASSUME NEW dag, WellFormed(dag), BuildAccepts(dag)
  PROVE  LET order == TopologicalOrder(dag)
         IN  /\ DOMAIN order = 1..Len(order) /\ Len(order) \in Nat
             /\ \A i \in DOMAIN order : order[i] \in StepsOf(dag) /\ Place(order, order[i]) = i
             /\ \A s \in StepsOf(dag) : /\ Place(order, s) \in DOMAIN order
                                        /\ order[Place(order, s)] = s
                                        /\ \A e \in DepsOf(dag, s) :
                                             Place(order, e) < Place(order, s)
<1> DEFINE order == TopologicalOrder(dag)
<1>1. /\ order \in Seq(StepsOf(dag)) /\ Distinct(order) /\ InOrder(dag, order)
  BY TopologicalOrderSorted
<1> HIDE DEF order
<1>2. /\ DOMAIN order = 1..Len(order) /\ Len(order) \in Nat
      /\ \A i \in DOMAIN order : order[i] \in StepsOf(dag)
  BY <1>1
<1>3. \A s \in StepsOf(dag) : \E j \in DOMAIN order : order[j] = s
  BY <1>1, <1>2 DEF InOrder, ToSet
<1>4. \A s \in StepsOf(dag) : Place(order, s) \in DOMAIN order /\ order[Place(order, s)] = s
  BY <1>3 DEF Place
<1>5. \A i \in DOMAIN order : Place(order, order[i]) = i
  BY <1>1, <1>2, <1>4 DEF Distinct
<1>6. ASSUME NEW s \in StepsOf(dag), NEW e \in DepsOf(dag, s)
      PROVE  Place(order, e) < Place(order, s)
  <2> DEFINE i == Place(order, s)
  <2>1. i \in 1..Len(order) /\ i - 1 \in 0..Len(order) /\ order[i] = s
    BY <1>2, <1>4
  <2> HIDE DEF i
  <2>2. e \in ToSet(SubSeq(order, 1, i - 1))
    BY <1>1, <1>2, <1>6, <2>1 DEF InOrder
  <2>3. PICK j \in 1..(i - 1) : order[j] = e
    BY <1>1, <2>1, <2>2, PrefixSet
  <2>4. j \in DOMAIN order /\ j < i
    BY <1>2, <2>1, <2>3
  <2>5. Place(order, e) = j
    BY <1>5, <2>3, <2>4
  <2> QED
    BY <2>4, <2>5 DEF i
<1> QED
  BY <1>2, <1>4, <1>5, <1>6 DEF order

\* The first place of an order whose step has one of the statuses v; 0 for none.
Where(order, st, v) == {i \in DOMAIN order : st[order[i]] \in v}
FirstAt(order, st, v) ==
  IF Where(order, st, v) = {} THEN 0
  ELSE CHOOSE i \in Where(order, st, v) : \A j \in Where(order, st, v) : i <= j

LEMMA FirstAtFacts ==
  ASSUME NEW order, DOMAIN order \in SUBSET (Nat \ {0}), NEW st, NEW v
  PROVE  /\ FirstAt(order, st, v) = 0 <=> Where(order, st, v) = {}
         /\ FirstAt(order, st, v) # 0 => FirstAt(order, st, v) \in DOMAIN order
<1> DEFINE at == Where(order, st, v)
<1>1. at \in SUBSET (DOMAIN order) /\ at \in SUBSET Nat
  BY DEF Where
<1>2. at # {} => \E i \in at : \A j \in at : i <= j
  BY <1>1, LeastNat
<1>3. FirstAt(order, st, v) = IF at = {} THEN 0 ELSE CHOOSE i \in at : \A j \in at : i <= j
  BY DEF FirstAt
<1> HIDE DEF at
<1>4. at # {} => FirstAt(order, st, v) \in at
  BY <1>2, <1>3
<1> QED
  BY <1>1, <1>3, <1>4 DEF at

\* resume_stop_point finds a step unless all are done.
LEMMA StopPoint ==
  ASSUME NEW dag, WellFormed(dag), BuildAccepts(dag), NEW st \in [StepsOf(dag) -> Status]
  PROVE  /\ ResumeStopPoint(dag, st) = 0 <=> Completed(st) = StepsOf(dag)
         /\ ResumeStopPoint(dag, st) # 0 => ResumeStopPoint(dag, st) \in DOMAIN TopologicalOrder(dag)
<1> DEFINE order == TopologicalOrder(dag)
           ended == FirstAt(order, st, {"failed", "cancelled"})
           open == FirstAt(order, st, Status \ Done)
<1>1. ResumeStopPoint(dag, st) = IF ended # 0 THEN ended ELSE open
  BY DEF ResumeStopPoint, FirstAt, Where
<1>2. /\ DOMAIN order \in SUBSET (Nat \ {0})
      /\ \A i \in DOMAIN order : order[i] \in StepsOf(dag)
      /\ \A s \in StepsOf(dag) : Place(order, s) \in DOMAIN order /\ order[Place(order, s)] = s
  BY PlaceFacts
<1> HIDE DEF order
<1>3. /\ ended = 0 <=> Where(order, st, {"failed", "cancelled"}) = {}
      /\ ended # 0 => ended \in DOMAIN order
      /\ open = 0 <=> Where(order, st, Status \ Done) = {}
      /\ open # 0 => open \in DOMAIN order
  BY <1>2, FirstAtFacts
<1>4. Where(order, st, {"failed", "cancelled"}) \subseteq Where(order, st, Status \ Done)
  BY DEF Where, Status, Done
<1>5. Where(order, st, Status \ Done) = {} <=> Completed(st) = StepsOf(dag)
  <2>1. Completed(st) = {s \in StepsOf(dag) : st[s] \in Done}
    BY DEF Completed
  <2>2. \A s \in StepsOf(dag) : st[s] \in Status
    OBVIOUS
  <2>3. Where(order, st, Status \ Done) = {} <=> \A s \in StepsOf(dag) : st[s] \in Done
    BY <1>2, <2>2 DEF Where
  <2> QED
    BY <2>1, <2>3
<1> HIDE DEF ended, open
<1> QED
  BY <1>1, <1>3, <1>4, <1>5 DEF order

\* The offered start points: none when nothing is left, else the stop point too.
LEMMA StartPoints ==
  ASSUME NEW dag, WellFormed(dag), BuildAccepts(dag), NEW st \in [StepsOf(dag) -> Status]
  PROVE  /\ ResumeStartPoints(dag, st) = {} <=> Completed(st) = StepsOf(dag)
         /\ ResumeStartPoints(dag, st) \subseteq StepsOf(dag)
<1> DEFINE order == TopologicalOrder(dag)
           stop == ResumeStopPoint(dag, st)
           Near == {order[i] : i \in DOMAIN order \cap {stop - 1, stop, stop + 1}}
<1>1. ResumeStartPoints(dag, st) = IF stop = 0 THEN {} ELSE Near
  BY DEF ResumeStartPoints
<1>2. stop = 0 <=> Completed(st) = StepsOf(dag)
  BY StopPoint
<1>3. stop # 0 => stop \in DOMAIN order
  BY StopPoint
<1>4. \A i \in DOMAIN order : order[i] \in StepsOf(dag)
  BY PlaceFacts
<1> HIDE DEF order, stop
<1>5. Near \subseteq StepsOf(dag)
  BY <1>4
<1>6. stop # 0 => order[stop] \in Near
  BY <1>3
<1> QED
  BY <1>1, <1>2, <1>5, <1>6

\* After rewind_to to any step and the resets of resume, exactly the steps that
\* precede it in the order are completed.
LEMMA RewoundCompleted ==
  ASSUME NEW dag, WellFormed(dag), BuildAccepts(dag), NEW st \in [StepsOf(dag) -> Status],
         NEW start \in StepsOf(dag)
  PROVE  LET order == TopologicalOrder(dag)
         IN  Completed(ResetUnfinished(RewindTo(dag, st, start))) =
               {s \in StepsOf(dag) : Place(order, s) < Place(order, start)}
<1> DEFINE order == TopologicalOrder(dag)
           at == Place(order, start)
           rewound == [s \in StepsOf(dag) |->
                         IF Place(order, s) >= at THEN "pending"
                         ELSE IF st[s] \in Done THEN st[s] ELSE "skipped"]
           reset == [s \in StepsOf(dag) |-> IF rewound[s] \in Done THEN rewound[s] ELSE "pending"]
<1>1. RewindTo(dag, st, start) = rewound
  BY DEF RewindTo, Place
<1>2. \A s \in StepsOf(dag) : Place(order, s) \in Nat
  BY PlaceFacts
<1>3. DOMAIN rewound = StepsOf(dag)
  OBVIOUS
<1>4. ResetUnfinished(rewound) = reset
  BY <1>3 DEF ResetUnfinished
<1> HIDE DEF order
<1>5. ASSUME NEW s \in StepsOf(dag)
      PROVE  reset[s] \in Done <=> Place(order, s) < at
  <2>1. Place(order, s) \in Nat /\ at \in Nat
    BY <1>2
  <2>2. "pending" \notin Done /\ "skipped" \in Done
    BY DEF Done
  <2>3. rewound[s] = IF Place(order, s) >= at THEN "pending"
                     ELSE IF st[s] \in Done THEN st[s] ELSE "skipped"
    OBVIOUS
  <2>4. reset[s] = IF rewound[s] \in Done THEN rewound[s] ELSE "pending"
    OBVIOUS
  <2> HIDE DEF rewound, reset, at
  <2>5. Place(order, s) >= at <=> ~ (Place(order, s) < at)
    BY <2>1
  <2> QED
    BY <2>2, <2>3, <2>4, <2>5
<1>6. Completed(reset) = {s \in StepsOf(dag) : reset[s] \in Done}
  BY DEF Completed
<1> HIDE DEF rewound, reset
<1>7. Completed(reset) = {s \in StepsOf(dag) : Place(order, s) < at}
  BY <1>5, <1>6
<1> QED
  BY <1>1, <1>4, <1>7 DEF order

\* Any step of the graph is a point to resume at: rewound to it, the run has it
\* ready, and what counts as done only rests on what is done.
THEOREM ResumableAnywhere ==
  ASSUME NEW dag, WellFormed(dag), BuildAccepts(dag), NEW st \in [StepsOf(dag) -> Status],
         NEW start \in StepsOf(dag)
  PROVE  LET st2 == ResetUnfinished(RewindTo(dag, st, start))
         IN  /\ start \in ToSet(ReadySteps(dag, Completed(st2)))
             /\ \A s \in Completed(st2) : DepsOf(dag, s) \subseteq Completed(st2)
<1> DEFINE order == TopologicalOrder(dag)
           C == Completed(ResetUnfinished(RewindTo(dag, st, start)))
<1>1. C = {s \in StepsOf(dag) : Place(order, s) < Place(order, start)}
  BY RewoundCompleted
<1>2. \A s \in StepsOf(dag) : /\ Place(order, s) \in Nat
                              /\ \A e \in DepsOf(dag, s) : Place(order, e) < Place(order, s)
  BY PlaceFacts
<1>3. \A s \in StepsOf(dag) : DepsOf(dag, s) \subseteq StepsOf(dag)
  BY DEF BuildAccepts, ValidReferences
<1>4. ToSet(ReadySteps(dag, C)) = {s \in StepsOf(dag) \ C : DepsOf(dag, s) \subseteq C}
  BY ReadyFacts
<1> HIDE DEF C, order
<1>5. start \notin C /\ DepsOf(dag, start) \subseteq C
  BY <1>1, <1>2, <1>3
<1>6. ASSUME NEW s \in C, NEW e \in DepsOf(dag, s) PROVE e \in C
  <2>1. s \in StepsOf(dag) /\ e \in StepsOf(dag) /\ Place(order, s) < Place(order, start)
    BY <1>1, <1>3
  <2>2. Place(order, e) < Place(order, s)
    BY <1>2, <2>1
  <2>3. Place(order, e) \in Nat /\ Place(order, s) \in Nat /\ Place(order, start) \in Nat
    BY <1>2, <2>1
  <2> QED
    BY <1>1, <2>1, <2>2, <2>3
<1> QED
  BY <1>4, <1>5, <1>6 DEF C

----------------------------------------------------------------------------
(* The laws together *)

\* WorkflowDag::build, topological_order, the dependents of a group, and the
\* points to resume at do what they promise, on every graph a file can give.
THEOREM EveryGraphLawful ==
  ASSUME NEW dag, WellFormed(dag)
  PROVE  Lawful(dag)
<1>1. BuildAccepts(dag) <=> ValidReferences(dag) /\ Acyclic(dag)
  BY BuildAcceptsAcyclic
<1>2. ASSUME BuildAccepts(dag) PROVE InOrder(dag, TopologicalOrder(dag))
  BY <1>2, TopologicalOrderSorted
<1>3. \A roots \in SUBSET StepsOf(dag) : WaitFor(dag, roots, roots \cup DependentsOf(dag, roots))
  BY DependentsWait
<1>4. ASSUME BuildAccepts(dag), NEW st \in [StepsOf(dag) -> Status]
      PROVE  /\ (ResumeStartPoints(dag, st) = {}) <=> (Completed(st) = StepsOf(dag))
             /\ \A start \in ResumeStartPoints(dag, st) :
                  LET st2 == ResetUnfinished(RewindTo(dag, st, start))
                  IN /\ start \in ToSet(ReadySteps(dag, Completed(st2)))
                     /\ \A s \in Completed(st2) : DepsOf(dag, s) \subseteq Completed(st2)
  <2>1. /\ ResumeStartPoints(dag, st) = {} <=> Completed(st) = StepsOf(dag)
        /\ ResumeStartPoints(dag, st) \subseteq StepsOf(dag)
    BY <1>4, StartPoints
  <2>2. ASSUME NEW start \in ResumeStartPoints(dag, st)
        PROVE  LET st2 == ResetUnfinished(RewindTo(dag, st, start))
               IN /\ start \in ToSet(ReadySteps(dag, Completed(st2)))
                  /\ \A s \in Completed(st2) : DepsOf(dag, s) \subseteq Completed(st2)
    <3>1. start \in StepsOf(dag)
      BY <2>1
    <3> QED
      BY <1>4, <3>1, ResumableAnywhere
  <2> QED
    BY <2>1, <2>2
<1> QED
  BY <1>1, <1>2, <1>3, <1>4 DEF Lawful

\* A graph without a cycle never leaves a run with steps to do and none to
\* start: what is not done has a step that waits for nothing that is not done.
THEOREM ReadyUnlessDone ==
  ASSUME NEW dag, WellFormed(dag), BuildAccepts(dag), NEW C, ~ (StepsOf(dag) \subseteq C)
  PROVE  ReadySteps(dag, C) # <<>>
<1> DEFINE left == StepsOf(dag) \ C
<1>1. ValidReferences(dag) /\ Acyclic(dag)
  BY BuildAcceptsAcyclic
<1>2. left \in (SUBSET StepsOf(dag)) \ {{}}
  OBVIOUS
<1>3. PICK s \in left : DepsOf(dag, s) \cap left = {}
  BY <1>1, <1>2 DEF Acyclic
<1>4. DepsOf(dag, s) \subseteq C
  BY <1>1, <1>3 DEF ValidReferences
<1>5. s \in ToSet(ReadySteps(dag, C))
  BY <1>3, <1>4, ReadyFacts
<1> QED
  BY <1>5, EmptyFacts

\* A sequence is one of its own members.
LEMMA OwnMembers ==
  ASSUME NEW S, NEW seq \in Seq(S)
  PROVE  seq \in Seq(ToSet(seq))
<1>1. DOMAIN seq = 1..Len(seq) /\ Len(seq) \in Nat
  OBVIOUS
<1>2. \A i \in 1..Len(seq) : seq[i] \in ToSet(seq)
  BY <1>1 DEF ToSet
<1> QED
  BY <1>1, <1>2

\* The small graphs the laws are checked on are graphs a file can give.
LEMMA SmallGraphs ==
  ASSUME NEW dag \in AllGraphs
  PROVE  WellFormed(dag)
<1> DEFINE order == <<"b", "a", "c">>
           names == <<"c", "x", "a", "b">>
<1>1. PICK d : dag = [order |-> order, deps |-> [s \in ToSet(order) |-> Kept(names, d[s])]]
  BY DEF AllGraphs
<1>2. /\ order \in Seq({"a", "b", "c"}) /\ DOMAIN order = 1..3
      /\ order[1] = "b" /\ order[2] = "a" /\ order[3] = "c"
  OBVIOUS
<1>3. names \in Seq({"a", "b", "c", "x"})
  OBVIOUS
<1> HIDE DEF order, names
<1>4. dag.order = order /\ \A s \in ToSet(order) : dag.deps[s] = Kept(names, d[s])
  BY <1>1
<1>5. \A s \in ToSet(order) : dag.deps[s] \in Seq({"a", "b", "c", "x"})
  BY <1>3, <1>4, KeptFacts
<1>6. Distinct(order)
  BY <1>2 DEF Distinct
<1>7. order \in Seq(ToSet(order))
  BY <1>2, OwnMembers
<1>8. \A s \in ToSet(order) : dag.deps[s] \in Seq(ToSet(dag.deps[s]))
  BY <1>5, OwnMembers
<1> QED
  BY <1>4, <1>6, <1>7, <1>8 DEF WellFormed, StepsOf, DepsOf, Distinct
=============================================================================
