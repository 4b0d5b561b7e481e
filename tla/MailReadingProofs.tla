-------------------------- MODULE MailReadingProofs -------------------------
(***************************************************************************)
(* Proofs about MailReading, for folders and names of any size, messages of *)
(* any number of parts, HTML of any number of tokens and search trees of any *)
(* depth.  The model's functions recur on numbers, sequences, trees and    *)
(* places in a text; the first sections show by a least counterexample what *)
(* such a function computes, the next what the pure modules do, and the last *)
(* that every answer is one of the kinds its tool gives, from which the    *)
(* properties follow.                                                      *)
(***************************************************************************)
EXTENDS MailReading, PagingProofs, SequencesExt, WellFoundedInduction,
        FiniteSetTheorems, SequenceTheorems, TLAPS

-----------------------------------------------------------------------------
(* Induction and recursion over natural numbers, without an operator to    *)
(* instantiate: what the recursive functions of the model compute.         *)

(* Induction, without an operator to instantiate: a set of naturals that   *)
(* is not empty has a least element.                                       *)
LEMMA LeastNatural ==
    ASSUME NEW T, T \subseteq Nat, T # {}
    PROVE  \E n \in T : \A m \in T : n <= m
<1>1. PICK n \in T : \A m \in T : ~ (<<m, n>> \in OpToRel(<, Nat))
  BY NatLessThanWellFounded, WFMin
<1>2. \A m \in T : ~(m < n)
  BY <1>1 DEF OpToRel
<1> QED
  BY <1>2

LEMMA Upward ==
    ASSUME NEW n \in Nat, NEW T, 0 \in T, \A i \in 1..n : i - 1 \in T => i \in T
    PROVE  \A i \in 0..n : i \in T
<1> SUFFICES ASSUME {i \in 0..n : i \notin T} # {} PROVE FALSE
  OBVIOUS
<1>1. PICK k \in {i \in 0..n : i \notin T} : \A m \in {i \in 0..n : i \notin T} : k <= m
  <2>1. {i \in 0..n : i \notin T} \subseteq Nat
    OBVIOUS
  <2> QED
    BY <2>1, LeastNatural
<1>2. k \in 1..n /\ k - 1 \in 0..n /\ ~(k <= k - 1)
  BY <1>1
<1>3. k - 1 \in T
  BY <1>1, <1>2
<1> QED
  BY <1>1, <1>2, <1>3

(* Recursion on a number: each value follows from the one before.          *)
StepsWithin(X, n, step) == \A i \in 1..n : \A x \in X : step[<<i, x>>] \in X

Follows(f, n, step) == \A i \in 1..n : f[i] = step[<<i, f[i - 1]>>]

LEMMA StepByStep ==
    ASSUME NEW n \in Nat, NEW X, NEW first \in X, NEW step, StepsWithin(X, n, step)
    PROVE  \E f \in [0..n -> X] : f[0] = first /\ Follows(f, n, step)
<1> USE DEF StepsWithin, Follows
<1> DEFINE Upto(k, f) == f[0] = first /\ \A i \in 1..k : f[i] = step[<<i, f[i - 1]>>]
           T == {k \in 0..n : \E f \in [0..n -> X] : Upto(k, f)}
<1>1. 0 \in T
  <2> DEFINE g == [i \in 0..n |-> first]
  <2>1. g \in [0..n -> X] /\ g[0] = first /\ 1..0 = {} /\ 0 \in 0..n
    OBVIOUS
  <2> HIDE DEF g
  <2>2. Upto(0, g)
    BY <2>1
  <2> HIDE DEF Upto
  <2> QED
    BY <2>1, <2>2
<1>2. ASSUME NEW k \in 1..n, k - 1 \in T PROVE k \in T
  <2>1. PICK f \in [0..n -> X] : Upto(k - 1, f)
    BY <1>2
  <2> DEFINE g == [f EXCEPT ![k] = step[<<k, f[k - 1]>>]]
  <2>2. k - 1 \in 0..n /\ step[<<k, f[k - 1]>>] \in X
    OBVIOUS
  <2>3. g \in [0..n -> X] /\ g[k] = step[<<k, f[k - 1]>>] /\ \A i \in 0..n : i # k => g[i] = f[i]
    BY <2>2
  <2> HIDE DEF g
  <2>4. g[0] = first
    BY <2>1, <2>3
  <2>5. ASSUME NEW i \in 1..k PROVE g[i] = step[<<i, g[i - 1]>>]
    <3>1. i - 1 \in 0..n /\ i - 1 # k /\ i \in 0..n
      OBVIOUS
    <3>2. g[i - 1] = f[i - 1]
      BY <2>3, <3>1
    <3>3. CASE i = k
      BY <2>3, <3>2, <3>3
    <3>4. CASE i # k
      <4>1. i \in 1..(k - 1)
        BY <3>4
      <4> QED
        BY <2>1, <2>3, <3>1, <3>2, <3>4, <4>1
    <3> QED
      BY <3>3, <3>4
  <2>6. Upto(k, g)
    BY <2>4, <2>5
  <2> HIDE DEF Upto
  <2> QED
    BY <2>3, <2>6
<1>3. n \in T
  <2> HIDE DEF T
  <2>1. \A i \in 0..n : i \in T
    BY <1>1, <1>2, Upward
  <2> QED
    BY <2>1
<1> QED
  BY <1>3

(* Recursion: on a set S whose elements have ranks, a value of f that only *)
(* depends on the values at lower ranks is well defined.  Range[s] is      *)
(* where the value at s is to be; step[<<s, f>>] is that value.            *)
Typed(S, range) == {f \in [S -> UNION {range[s] : s \in S}] : \A s \in S : f[s] \in range[s]}

Agree(S, rank, n, f, g) == \A s \in S : rank[s] < n => f[s] = g[s]

Local(S, range, rank, step) ==
    \A s \in S : \A f, g \in Typed(S, range) :
        Agree(S, rank, rank[s], f, g) => step[<<s, f>>] = step[<<s, g>>]

Solves(S, rank, step, n, f) == \A s \in S : rank[s] < n => f[s] = step[<<s, f>>]

LEMMA SolutionsAgree ==
    ASSUME NEW S, NEW range, NEW rank \in [S -> Nat], NEW step, Local(S, range, rank, step),
           NEW n \in Nat, NEW f \in Typed(S, range), NEW g \in Typed(S, range),
           Solves(S, rank, step, n, f), Solves(S, rank, step, n, g)
    PROVE  Agree(S, rank, n, f, g)
<1> DEFINE T == {rank[s] : s \in {s \in S : rank[s] < n /\ f[s] # g[s]}}
<1>1. CASE T = {}
  BY <1>1 DEF Agree
<1>2. CASE T # {}
  <2>0. T \subseteq Nat
    OBVIOUS
  <2>1. PICK m \in T : \A k \in T : m <= k
    <3> HIDE DEF T
    <3> QED
      BY <1>2, <2>0, LeastNatural
  <2>2. PICK s \in S : rank[s] = m /\ m < n /\ f[s] # g[s]
    BY <2>1
  <2>3. Agree(S, rank, m, f, g)
    <3> SUFFICES ASSUME NEW r \in S, rank[r] < m, f[r] # g[r] PROVE FALSE
      BY DEF Agree
    <3>1. rank[r] \in T
      BY <2>2
    <3> QED
      BY <2>1, <2>2, <3>1
  <2>4. step[<<s, f>>] = step[<<s, g>>]
    BY <2>2, <2>3 DEF Local
  <2> QED
    BY <2>2, <2>4 DEF Solves
<1> QED
  BY <1>1, <1>2

LEMMA SolutionTo ==
    ASSUME NEW S, NEW range, NEW rank \in [S -> Nat], NEW step, Local(S, range, rank, step),
           \A s \in S : \A f \in Typed(S, range) : step[<<s, f>>] \in range[s],
           \A s \in S : range[s] # {},
           NEW n \in Nat
    PROVE  \E f \in Typed(S, range) : Solves(S, rank, step, n, f)
<1> DEFINE T == {k \in Nat : ~\E f \in Typed(S, range) : Solves(S, rank, step, k, f)}
<1> SUFFICES ASSUME T # {} PROVE FALSE
  OBVIOUS
<1>1. PICK k \in T : \A m \in T : k <= m
  BY LeastNatural
<1>2. CASE k = 0
  <2> DEFINE f == [s \in S |-> CHOOSE v \in range[s] : TRUE]
  <2>1. f \in Typed(S, range)
    BY DEF Typed
  <2>2. Solves(S, rank, step, 0, f)
    BY DEF Solves
  <2> QED
    BY <1>1, <1>2, <2>1, <2>2
<1>3. CASE k # 0
  <2>1. k - 1 \in Nat /\ k - 1 \notin T
    BY <1>1, <1>3
  <2>2. PICK g \in Typed(S, range) : Solves(S, rank, step, k - 1, g)
    BY <2>1
  <2> DEFINE f == [s \in S |-> IF rank[s] = k - 1 THEN step[<<s, g>>] ELSE g[s]]
  <2>3. f \in Typed(S, range)
    BY DEF Typed
  <2>4. ASSUME NEW s \in S, rank[s] < k PROVE f[s] = step[<<s, f>>]
    <3>1. rank[s] \in Nat /\ k \in Nat
      OBVIOUS
    <3>2. Agree(S, rank, rank[s], f, g)
      BY <2>1, <2>4, <3>1 DEF Agree
    <3>3. step[<<s, f>>] = step[<<s, g>>]
      BY <2>3, <3>2 DEF Local
    <3>4. CASE rank[s] = k - 1
      BY <3>3, <3>4
    <3>5. CASE rank[s] # k - 1
      <4>1. rank[s] < k - 1
        BY <2>4, <3>1, <3>5
      <4> QED
        BY <2>2, <3>3, <3>5, <4>1 DEF Solves
    <3> QED
      BY <3>4, <3>5
  <2>5. Solves(S, rank, step, k, f)
    BY <2>4 DEF Solves
  <2> QED
    BY <1>1, <2>3, <2>5
<1> QED
  BY <1>2, <1>3

LEMMA Recursion ==
    ASSUME NEW S, NEW range, NEW rank \in [S -> Nat], NEW step, Local(S, range, rank, step),
           \A s \in S : \A f \in Typed(S, range) : step[<<s, f>>] \in range[s],
           \A s \in S : range[s] # {}
    PROVE  \E f \in Typed(S, range) : \A s \in S : f[s] = step[<<s, f>>]
<1> DEFINE G(n) == CHOOSE f \in Typed(S, range) : Solves(S, rank, step, n, f)
           f == [s \in S |-> G(rank[s] + 1)[s]]
<1>1. \A n \in Nat : G(n) \in Typed(S, range) /\ Solves(S, rank, step, n, G(n))
  BY SolutionTo
<1> HIDE DEF G
<1>2. f \in Typed(S, range)
  <2>1. \A s \in S : f[s] = G(rank[s] + 1)[s] /\ f[s] \in range[s]
    BY <1>1 DEF Typed
  <2> HIDE DEF f
  <2>2. f \in [S -> UNION {range[s] : s \in S}]
    <3>1. f = [s \in S |-> f[s]]
      BY DEF f
    <3>2. \A s \in S : f[s] \in UNION {range[r] : r \in S}
      BY <2>1
    <3> QED
      BY <3>1, <3>2
  <2> QED
    BY <2>1, <2>2 DEF Typed
<1>3. ASSUME NEW s \in S PROVE f[s] = step[<<s, f>>]
  <2>1. rank[s] \in Nat /\ rank[s] + 1 \in Nat
    OBVIOUS
  <2>2. ASSUME NEW r \in S, rank[r] < rank[s] PROVE f[r] = G(rank[s] + 1)[r]
    <3>1. rank[r] \in Nat /\ rank[r] + 1 \in Nat
      OBVIOUS
    <3>2. Solves(S, rank, step, rank[r] + 1, G(rank[s] + 1))
      BY <1>1, <2>1, <2>2, <3>1 DEF Solves
    <3>3. Agree(S, rank, rank[r] + 1, G(rank[r] + 1), G(rank[s] + 1))
      BY <1>1, <2>1, <3>1, <3>2, SolutionsAgree
    <3> QED
      BY <3>1, <3>3 DEF Agree
  <2>3. Agree(S, rank, rank[s], f, G(rank[s] + 1))
    BY <2>2 DEF Agree
  <2>4. step[<<s, f>>] = step[<<s, G(rank[s] + 1)>>]
    BY <1>1, <1>2, <2>1, <2>3 DEF Local
  <2>5. G(rank[s] + 1)[s] = step[<<s, G(rank[s] + 1)>>]
    BY <1>1, <2>1 DEF Solves
  <2> QED
    BY <2>4, <2>5
<1> QED
  BY <1>2, <1>3

(* Two functions that agree at s when they agree at all lower ranks.       *)
LEMMA SameFunction ==
    ASSUME NEW S, NEW rank \in [S -> Nat], NEW f, NEW g,
           \A s \in S : (\A r \in S : rank[r] < rank[s] => f[r] = g[r]) => f[s] = g[s]
    PROVE  \A s \in S : f[s] = g[s]
<1> DEFINE T == {rank[s] : s \in {s \in S : f[s] # g[s]}}
<1> SUFFICES ASSUME T # {} PROVE FALSE
  OBVIOUS
<1>0. T \subseteq Nat
  OBVIOUS
<1>1. PICK m \in T : \A k \in T : m <= k
  <2> HIDE DEF T
  <2> QED
    BY <1>0, LeastNatural
<1>2. PICK s \in S : rank[s] = m /\ f[s] # g[s]
  BY <1>1
<1>3. ASSUME NEW r \in S, rank[r] < rank[s], f[r] # g[r] PROVE FALSE
  <2>1. rank[r] \in T /\ rank[r] \in Nat /\ rank[s] \in Nat
    BY <1>3
  <2>2. rank[s] <= rank[r]
    BY <1>1, <1>2, <2>1
  <2> QED
    BY <1>3, <2>1, <2>2
<1> QED
  BY <1>2, <1>3

-----------------------------------------------------------------------------
(* FlattenSeq, and induction over sequences.                               *)

FlattenIn(seqs, i, f) == IF i = 1 THEN seqs[i] ELSE f[i - 1] \o seqs[i]

(* FlattenSeq, one sequence at a time.                                     *)
LEMMA Flattening ==
    ASSUME NEW S, NEW seqs \in Seq(Seq(S))
    PROVE  \E f \in [0..Len(seqs) -> Seq(S)] :
               /\ f[0] = << >>
               /\ \A i \in 1..Len(seqs) : f[i] = f[i - 1] \o seqs[i]
               /\ FlattenSeq(seqs) = f[Len(seqs)]
<1> DEFINE n == Len(seqs)
           step == [x \in (1..n) \X Seq(S) |-> x[2] \o seqs[x[1]]]
           flat == CHOOSE f : f = [i \in 1..n |-> FlattenIn(seqs, i, f)]
<1>1. n \in Nat /\ \A i \in 1..n : seqs[i] \in Seq(S)
  OBVIOUS
<1>2. << >> \in Seq(S) /\ \A i \in 1..n : \A s \in Seq(S) : step[<<i, s>>] \in Seq(S)
  BY <1>1, ConcatProperties, EmptySeq
<1>3. PICK f \in [0..n -> Seq(S)] : f[0] = << >> /\ \A i \in 1..n : f[i] = step[<<i, f[i - 1]>>]
  <2>1. StepsWithin(Seq(S), n, step)
    BY <1>2 DEF StepsWithin
  <2> HIDE DEF n, step
  <2>2. \E f \in [0..n -> Seq(S)] : f[0] = << >> /\ Follows(f, n, step)
    BY <1>1, <1>2, <2>1, StepByStep
  <2> QED
    BY <2>2 DEF Follows
<1>4. \A i \in 1..n : f[i - 1] \in Seq(S) /\ f[i] = f[i - 1] \o seqs[i]
  <2>1. \A i \in 1..n : i - 1 \in 0..n
    BY <1>1
  <2> QED
    BY <1>3, <2>1
<1> HIDE DEF step
<1>5. CASE n = 0
  <2>1. seqs = << >>
    BY <1>5, EmptySeq
  <2>2. FlattenSeq(seqs) = << >>
    BY <1>5, <2>1 DEF FlattenSeq
  <2> QED
    BY <1>3, <1>4, <1>5, <2>2
<1>6. CASE n # 0
  <2>1. FlattenSeq(seqs) = flat[n]
    BY <1>6, Zenon DEF FlattenSeq, FlattenIn
  <2> DEFINE g == [i \in 1..n |-> f[i]]
  <2>2. g = [i \in 1..n |-> FlattenIn(seqs, i, g)]
    <3>1. ASSUME NEW i \in 1..n PROVE f[i] = FlattenIn(seqs, i, g)
      <4>1. CASE i = 1
        <5>0. i - 1 = 0
          BY <4>1
        <5>1. f[i] = << >> \o seqs[i] /\ seqs[i] \in Seq(S)
          BY <1>1, <1>3, <1>4, <5>0
        <5> QED
          BY <4>1, <5>1, ConcatEmptySeq DEF FlattenIn
      <4>2. CASE i # 1
        <5>1. i - 1 \in 1..n
          BY <1>1, <4>2
        <5> QED
          BY <1>4, <4>2, <5>1 DEF FlattenIn
      <4> QED
        BY <4>1, <4>2
    <3> QED
      BY <3>1
  <2>3. flat = [i \in 1..n |-> FlattenIn(seqs, i, flat)]
    <3> HIDE DEF n, g
    <3> QED
      BY ONLY <2>2, Zenon
  <2> HIDE DEF flat, g
  <2>4. \A i \in 1..n : flat[i] = FlattenIn(seqs, i, flat)
    BY <2>3
  <2> DEFINE T == {i \in 0..n : i = 0 \/ flat[i] = f[i]}
  <2>5. ASSUME NEW i \in 1..n, i - 1 \in T PROVE i \in T
    <3>1. CASE i = 1
      <4>0. i - 1 = 0
        BY <3>1
      <4>1. f[i] = << >> \o seqs[i] /\ seqs[i] \in Seq(S)
        BY <1>1, <1>3, <1>4, <4>0
      <4>2. f[i] = flat[i]
        BY <2>4, <3>1, <4>1, ConcatEmptySeq DEF FlattenIn
      <4> QED
        BY <4>2
    <3>2. CASE i # 1
      <4>1. f[i] = f[i - 1] \o seqs[i] /\ flat[i] = flat[i - 1] \o seqs[i]
        BY <1>4, <2>4, <3>2 DEF FlattenIn
      <4>2. i - 1 # 0 /\ flat[i - 1] = f[i - 1] /\ i \in 0..n
        BY <1>1, <2>5, <3>2
      <4> QED
        BY <4>1, <4>2
    <3> QED
      BY <3>1, <3>2
  <2>6. 0 \in T
    BY <1>1
  <2>7. \A i \in 0..n : i \in T
    <3> HIDE DEF T, n
    <3> QED
      BY <1>1, <2>5, <2>6, Upward
  <2>8. flat[n] = f[n]
    BY <1>1, <1>6, <2>7
  <2> QED
    BY <1>3, <1>4, <2>1, <2>8
<1> QED
  BY <1>5, <1>6

(* Induction on a sequence, from the front.                                *)
LEMMA Growing ==
    ASSUME NEW C, NEW T, << >> \in T,
           \A s \in Seq(C) : \A c \in C : s \in T => Append(s, c) \in T
    PROVE  \A s \in Seq(C) : s \in T
<1> SUFFICES ASSUME NEW s \in Seq(C) PROVE s \in T
  OBVIOUS
<1> DEFINE n == Len(s)
           P == {i \in 0..n : SubSeq(s, 1, i) \in T}
<1>1. n \in Nat /\ SubSeq(s, 1, 0) = << >> /\ SubSeq(s, 1, n) = s
  <2>1. n \in Nat
    OBVIOUS
  <2>2. SubSeq(s, 1, 0) = << >>
    BY SubSeqEmpty
  <2>3. SubSeq(s, 1, Len(s)) = s
    BY SubSeqFull
  <2> QED
    BY <2>1, <2>2, <2>3, Zenon
<1>2. 0 \in P
  <2>1. 0 \in 0..n
    BY <1>1
  <2>2. SubSeq(s, 1, 0) \in T
    BY <1>1, Zenon
  <2> QED
    BY <2>1, <2>2, Zenon
<1>3. ASSUME NEW i \in 1..n, i - 1 \in P PROVE i \in P
  <2>1. i - 1 \in 0..n /\ i \in 0..n /\ s[i] \in C /\ SubSeq(s, 1, i - 1) \in Seq(C)
    BY <1>1
  <2>2. SubSeq(s, 1, i) = Append(SubSeq(s, 1, i - 1), s[i])
    BY <1>1
  <2>3. SubSeq(s, 1, i - 1) \in T
    BY <1>3
  <2> QED
    BY <2>1, <2>2, <2>3
<1>4. n \in P
  <2> HIDE DEF P, n
  <2>1. \A i \in 0..n : i \in P
    BY <1>1, <1>2, <1>3, Upward
  <2> QED
    BY <1>1, <2>1
<1> QED
  BY <1>1, <1>4

LEMMA FlattenAppend ==
    ASSUME NEW S, NEW seqs \in Seq(Seq(S)), NEW s \in Seq(S)
    PROVE  /\ FlattenSeq(Append(seqs, s)) = FlattenSeq(seqs) \o s
           /\ FlattenSeq(seqs) \in Seq(S)
<1> DEFINE n == Len(seqs)
           more == Append(seqs, s)
<1>1. /\ n \in Nat /\ more \in Seq(Seq(S)) /\ Len(more) = n + 1
      /\ more[n + 1] = s /\ \A i \in 1..n : more[i] = seqs[i]
  OBVIOUS
<1>2. PICK f \in [0..n -> Seq(S)] :
        /\ f[0] = << >>
        /\ \A i \in 1..n : f[i] = f[i - 1] \o seqs[i]
        /\ FlattenSeq(seqs) = f[n]
  BY Flattening
<1>3. PICK g \in [0..(n + 1) -> Seq(S)] :
        /\ g[0] = << >>
        /\ \A i \in 1..(n + 1) : g[i] = g[i - 1] \o more[i]
        /\ FlattenSeq(more) = g[n + 1]
  <2> HIDE DEF more, n
  <2>1. \E g \in [0..Len(more) -> Seq(S)] :
          /\ g[0] = << >>
          /\ \A i \in 1..Len(more) : g[i] = g[i - 1] \o more[i]
          /\ FlattenSeq(more) = g[Len(more)]
    BY <1>1, Flattening
  <2>2. Len(more) = n + 1
    BY <1>1
  <2> QED
    BY <2>1, <2>2
<1> HIDE DEF n, more
<1> DEFINE T == {i \in 0..n : f[i] = g[i]}
<1>4. 0 \in T
  BY <1>1, <1>2, <1>3
<1>5. ASSUME NEW i \in 1..n, i - 1 \in T PROVE i \in T
  <2>1. i \in 1..(n + 1) /\ i \in 0..n
    BY <1>1
  <2>2. f[i] = f[i - 1] \o seqs[i]
    BY <1>2
  <2>3. g[i] = g[i - 1] \o seqs[i]
    BY <1>1, <1>3, <2>1
  <2>4. f[i - 1] = g[i - 1]
    BY <1>5
  <2> QED
    BY <2>1, <2>2, <2>3, <2>4
<1>6. n \in T
  <2> HIDE DEF T
  <2>1. \A i \in 0..n : i \in T
    BY <1>1, <1>4, <1>5, Upward
  <2> QED
    BY <1>1, <2>1
<1>7. g[n + 1] = g[n] \o s
  <2>1. n + 1 \in 1..(n + 1) /\ (n + 1) - 1 = n
    BY <1>1
  <2>2. g[n + 1] = g[(n + 1) - 1] \o more[n + 1]
    BY <1>3, <2>1
  <2> QED
    BY <1>1, <2>1, <2>2
<1>8. FlattenSeq(more) = FlattenSeq(seqs) \o s
  BY <1>2, <1>3, <1>6, <1>7
<1>9. FlattenSeq(seqs) \in Seq(S)
  <2>1. n \in 0..n
    BY <1>1
  <2> QED
    BY <1>2, <2>1
<1> QED
  BY <1>8, <1>9 DEF more

LEMMA FlattenNone == FlattenSeq(<< >>) = << >>
BY DEF FlattenSeq

-----------------------------------------------------------------------------
(* FolderNames: blanks at the ends, and words spelled character by         *)
(* character.                                                              *)

LEMMA Greatest ==
    ASSUME NEW n \in Nat, NEW T, T \subseteq 0..n, T # {}
    PROVE  \E i \in T : \A j \in T : j <= i
<1> DEFINE D == {n - i : i \in T}
<1>1. D \subseteq Nat /\ D # {}
  <2>1. \A i \in T : n - i \in Nat
    OBVIOUS
  <2>2. PICK i \in T : TRUE
    OBVIOUS
  <2>3. n - i \in D
    BY <2>2
  <2> QED
    BY <2>1, <2>3
<1>2. PICK d \in D : \A e \in D : d <= e
  <2> HIDE DEF D
  <2> QED
    BY <1>1, LeastNatural
<1>3. PICK i \in T : d = n - i
  OBVIOUS
<1>4. ASSUME NEW j \in T PROVE j <= i
  <2>1. n - j \in D
    OBVIOUS
  <2>2. n - i <= n - j
    BY <1>2, <1>3, <2>1
  <2> QED
    BY <2>2
<1> QED
  BY <1>4

(* Where Strip cuts.                                                       *)
Inked(line) == {i \in DOMAIN line : line[i] # Blank}

LEMMA StripIs ==
    ASSUME NEW C, NEW t \in Seq(C)
    PROVE  /\ Inked(t) = {} => Strip(t) = << >>
           /\ Inked(t) # {} => \E low, high \in Inked(t) :
                                   /\ \A j \in Inked(t) : low <= j /\ j <= high
                                   /\ Strip(t) = SubSeq(t, low, high)
<1>1. Inked(t) = {} => Strip(t) = << >>
  BY DEF Strip, Inked
<1>2. ASSUME Inked(t) # {}
      PROVE  \E low, high \in Inked(t) :
                 /\ \A j \in Inked(t) : low <= j /\ j <= high
                 /\ Strip(t) = SubSeq(t, low, high)
  <2> DEFINE low == CHOOSE i \in Inked(t) : \A j \in Inked(t) : i <= j
             high == CHOOSE i \in Inked(t) : \A j \in Inked(t) : i >= j
  <2>1. Inked(t) \subseteq 0..Len(t) /\ Inked(t) \subseteq Nat /\ Len(t) \in Nat
    BY DEF Inked
  <2>2. low \in Inked(t) /\ \A j \in Inked(t) : low <= j
    BY <1>2, <2>1, LeastNatural
  <2>3. high \in Inked(t) /\ \A j \in Inked(t) : j <= high
    <3>1. PICK i \in Inked(t) : \A j \in Inked(t) : j <= i
      BY <1>2, <2>1, Greatest
    <3>2. \A j \in Inked(t) : i >= j
      BY <2>1, <3>1
    <3>3. high \in Inked(t) /\ \A j \in Inked(t) : high >= j
      BY <3>2
    <3> QED
      BY <2>1, <3>3
  <2>4. Strip(t) = SubSeq(t, low, high)
    BY <1>2 DEF Strip, Inked
  <2> QED
    BY <2>2, <2>3, <2>4
<1> QED
  BY <1>1, <1>2

LEMMA NothingToStrip ==
    ASSUME NEW C, NEW t \in Seq(C), t # << >>
    PROVE  Strip(t) = t <=> t[1] # Blank /\ t[Len(t)] # Blank
<1>0. Len(t) \in Nat /\ Len(t) # 0 /\ DOMAIN t = 1..Len(t)
  BY EmptySeq
<1>1. ASSUME t[1] # Blank, t[Len(t)] # Blank PROVE Strip(t) = t
  <2>1. 1 \in Inked(t) /\ Len(t) \in Inked(t)
    BY <1>0, <1>1 DEF Inked
  <2>2. PICK low, high \in Inked(t) :
          /\ \A j \in Inked(t) : low <= j /\ j <= high
          /\ Strip(t) = SubSeq(t, low, high)
    BY <2>1, StripIs
  <2>3. low \in 1..Len(t) /\ high \in 1..Len(t) /\ low <= 1 /\ Len(t) <= high
    BY <1>0, <2>1, <2>2 DEF Inked
  <2>4. low = 1 /\ high = Len(t)
    <3>1. low \in Int /\ low >= 1 /\ low <= 1 /\ high \in Int /\ high <= Len(t) /\ Len(t) <= high
      BY <1>0, <2>3
    <3>2. Len(t) \in Nat
      BY <1>0
    <3> QED
      BY <3>1, <3>2
  <2>5. SubSeq(t, 1, Len(t)) = t
    BY SubSeqFull
  <2> QED
    BY <2>2, <2>4, <2>5, Zenon
<1>2. ASSUME Strip(t) = t PROVE t[1] # Blank /\ t[Len(t)] # Blank
  <2>1. Inked(t) # {}
    BY <1>2, StripIs
  <2>2. PICK low, high \in Inked(t) :
          /\ \A j \in Inked(t) : low <= j /\ j <= high
          /\ Strip(t) = SubSeq(t, low, high)
    BY <2>1, StripIs
  <2>3. low \in 1..Len(t) /\ high \in 1..Len(t) /\ low <= high
    BY <1>0, <2>2 DEF Inked
  <2>4. Len(SubSeq(t, low, high)) = high - low + 1
    BY <1>0, <2>3, SubSeqProperties
  <2>5. low = 1 /\ high = Len(t)
    BY <1>0, <1>2, <2>2, <2>3, <2>4
  <2> QED
    BY <2>2, <2>5 DEF Inked
<1> QED
  BY <1>1, <1>2

(* A word spelled character by character.                                  *)
Spelled(spell, s) == FlattenSeq([i \in DOMAIN s |-> spell[s[i]]])

LEMMA Spelling ==
    ASSUME NEW C, NEW spell \in [C -> Seq(C)], NEW s \in Seq(C), NEW c \in C
    PROVE  /\ Spelled(spell, s) \in Seq(C)
           /\ Spelled(spell, Append(s, c)) = Spelled(spell, s) \o spell[c]
           /\ Spelled(spell, << >>) = << >>
<1> DEFINE words == [i \in DOMAIN s |-> spell[s[i]]]
           more == [i \in DOMAIN Append(s, c) |-> spell[Append(s, c)[i]]]
<1>1. words \in Seq(Seq(C)) /\ spell[c] \in Seq(C)
  OBVIOUS
<1>2. more = Append(words, spell[c])
  <2>1. Len(words) = Len(s) /\ Len(s) \in Nat
    OBVIOUS
  <2>2. DOMAIN Append(s, c) = 1..(Len(s) + 1)
    OBVIOUS
  <2>3. more \in Seq(Seq(C)) /\ Append(words, spell[c]) \in Seq(Seq(C))
    BY <1>1
  <2>4. Len(more) = Len(s) + 1 /\ Len(Append(words, spell[c])) = Len(s) + 1
    <3>1. Len(more) = Len(s) + 1
      BY <2>1, <2>2
    <3>2. Len(Append(words, spell[c])) = Len(words) + 1
      <4> HIDE DEF words
      <4> QED
        BY <1>1
    <3> QED
      BY <2>1, <3>1, <3>2
  <2>5. ASSUME NEW i \in 1..(Len(s) + 1) PROVE more[i] = Append(words, spell[c])[i]
    <3>1. CASE i = Len(s) + 1
      <4>1. more[i] = spell[c]
        BY <2>1, <2>2, <3>1
      <4>2. Append(words, spell[c])[i] = spell[c]
        BY <1>1, <2>1, <3>1
      <4> QED
        BY <4>1, <4>2
    <3>2. CASE i # Len(s) + 1
      <4>1. i \in 1..Len(s)
        BY <2>1, <3>2
      <4>2. more[i] = spell[s[i]]
        BY <2>1, <4>1
      <4>3. Append(words, spell[c])[i] = words[i] /\ words[i] = spell[s[i]]
        BY <1>1, <2>1, <4>1
      <4> QED
        BY <4>2, <4>3
    <3> QED
      BY <3>1, <3>2
  <2> HIDE DEF more, words
  <2> QED
    BY <2>3, <2>4, <2>5, SeqEqual
<1>3. FlattenSeq(more) = FlattenSeq(words) \o spell[c] /\ FlattenSeq(words) \in Seq(C)
  <2> HIDE DEF more, words
  <2> QED
    BY <1>1, <1>2, FlattenAppend
<1>4. [i \in DOMAIN << >> |-> spell[<< >>[i]]] = << >>
  OBVIOUS
<1> QED
  BY <1>3, <1>4, FlattenNone DEF Spelled

LEMMA TwoMore ==
    ASSUME NEW C, NEW s \in Seq(C), NEW b \in C, NEW c \in C
    PROVE  /\ s \o <<c>> = Append(s, c)
           /\ s \o <<b, c>> = Append(Append(s, b), c)
OBVIOUS

-----------------------------------------------------------------------------
(* FolderNames: escaping a name and reading it again.                      *)

LEMMA Signs == Quote # Backslash /\ Quote # Blank /\ Backslash # Blank
BY DEF Quote, Backslash, Blank

Alphabet(C) == Quote \in C /\ Backslash \in C /\ Blank \in C

(* The spellings of one character: of str.replace, and as the server's.    *)
Put(C, char, by) == [c \in C |-> IF c = char THEN by ELSE <<c>>]
Escape(C) == [c \in C |-> IF c \in {Quote, Backslash} THEN <<Backslash, c>> ELSE <<c>>]
Escaped(C, s) == Spelled(Escape(C), s)

LEMMA ReplacedIs ==
    ASSUME NEW C, NEW s \in Seq(C), NEW char, NEW by
    PROVE  Replaced(s, char, by) = Spelled(Put(C, char, by), s)
<1>1. \A i \in DOMAIN s : Put(C, char, by)[s[i]] = IF s[i] = char THEN by ELSE <<s[i]>>
  BY DEF Put
<1>2. [i \in DOMAIN s |-> IF s[i] = char THEN by ELSE <<s[i]>>] =
      [i \in DOMAIN s |-> Put(C, char, by)[s[i]]]
  BY <1>1
<1> QED
  BY <1>2 DEF Replaced, Spelled

LEMMA QuotedIs ==
    ASSUME NEW C, NEW s \in Seq(C)
    PROVE  Quoted(s) = <<Quote>> \o Escaped(C, s) \o <<Quote>>
<1>1. \A i \in DOMAIN s :
        Escape(C)[s[i]] = IF s[i] \in {Quote, Backslash} THEN <<Backslash, s[i]>> ELSE <<s[i]>>
  BY DEF Escape
<1>2. [i \in DOMAIN s |-> IF s[i] \in {Quote, Backslash} THEN <<Backslash, s[i]>> ELSE <<s[i]>>]
      = [i \in DOMAIN s |-> Escape(C)[s[i]]]
  BY <1>1
<1> QED
  BY <1>2 DEF Quoted, Spelled, Escaped

LEMMA SpellsTyped ==
    ASSUME NEW C, Alphabet(C)
    PROVE  /\ \A char : \A by \in Seq(C) : Put(C, char, by) \in [C -> Seq(C)]
           /\ Escape(C) \in [C -> Seq(C)]
           /\ <<Backslash, Backslash>> \in Seq(C)
           /\ <<Backslash, Quote>> \in Seq(C)
BY DEF Put, Escape, Alphabet

LEMMA EscapedGrows ==
    ASSUME NEW C, Alphabet(C), NEW s \in Seq(C), NEW c \in C
    PROVE  /\ Escaped(C, << >>) = << >>
           /\ Escaped(C, s) \in Seq(C)
           /\ c \in {Quote, Backslash} =>
                Escaped(C, Append(s, c)) = Append(Append(Escaped(C, s), Backslash), c)
           /\ c \notin {Quote, Backslash} => Escaped(C, Append(s, c)) = Append(Escaped(C, s), c)
<1>1. /\ Escaped(C, s) \in Seq(C)
      /\ Escaped(C, << >>) = << >>
      /\ Escaped(C, Append(s, c)) = Escaped(C, s) \o Escape(C)[c]
  <2>1. Escape(C) \in [C -> Seq(C)]
    BY SpellsTyped
  <2> QED
    BY <2>1, Spelling, Zenon DEF Escaped
<1>2. Escape(C)[c] = IF c \in {Quote, Backslash} THEN <<Backslash, c>> ELSE <<c>>
  BY DEF Escape
<1> QED
  BY <1>1, <1>2, TwoMore DEF Alphabet

(* encode_imap_quoted_string: the two replacements together.               *)
LEMMA EncodeIs ==
    ASSUME NEW C, Alphabet(C), NEW s \in Seq(C)
    PROVE  EncodeMailboxName(s) = Quoted(s)
<1> DEFINE slashed == Put(C, Backslash, <<Backslash, Backslash>>)
           quoted == Put(C, Quote, <<Backslash, Quote>>)
           Both(t) == Spelled(quoted, Spelled(slashed, t))
           T == {t \in Seq(C) : Both(t) = Escaped(C, t)}
<1>1. slashed \in [C -> Seq(C)] /\ quoted \in [C -> Seq(C)]
  BY SpellsTyped
<1>2. /\ slashed[Backslash] = <<Backslash, Backslash>>
      /\ quoted[Quote] = <<Backslash, Quote>>
      /\ \A c \in C : c # Backslash => slashed[c] = <<c>>
      /\ \A c \in C : c # Quote => quoted[c] = <<c>>
  BY DEF Put, Alphabet
<1> HIDE DEF slashed, quoted
<1>3. << >> \in T
  <2>1. Quote \in C
    BY DEF Alphabet
  <2>2. Spelled(slashed, << >>) = << >> /\ Spelled(quoted, << >>) = << >>
    BY <1>1, <2>1, Spelling
  <2>3. Escaped(C, << >>) = << >>
    BY <2>1, EscapedGrows
  <2> QED
    BY <2>2, <2>3, EmptySeq
<1>4. ASSUME NEW t \in Seq(C), NEW c \in C, t \in T PROVE Append(t, c) \in T
  <2> DEFINE u == Spelled(slashed, t)
  <2>1. u \in Seq(C) /\ Spelled(slashed, Append(t, c)) = u \o slashed[c]
    BY ONLY <1>1, t \in Seq(C), c \in C, Spelling, ZenonT(60)
  <2>2. Spelled(quoted, u) = Escaped(C, t) /\ Escaped(C, t) \in Seq(C)
    BY <1>4, EscapedGrows
  <2> HIDE DEF u
  <2>3. /\ Spelled(quoted, Append(u, c)) = Escaped(C, t) \o quoted[c]
        /\ u \o <<c>> = Append(u, c)
        /\ Escaped(C, t) \o <<c>> = Append(Escaped(C, t), c)
    <3>0. u \in Seq(C)
      BY <2>1
    <3>1. Spelled(quoted, Append(u, c)) = Spelled(quoted, u) \o quoted[c]
      BY ONLY <1>1, <3>0, c \in C, Spelling, ZenonT(60)
    <3> QED
      BY <2>1, <2>2, <3>1, TwoMore, Zenon
  <2>4. CASE c = Backslash
    <3>1. /\ Append(u, c) \in Seq(C) /\ Append(Escaped(C, t), c) \in Seq(C)
          /\ slashed[c] = <<c, c>> /\ quoted[c] = <<c>>
      BY <1>2, <2>1, <2>2, <2>4, Signs
    <3>2. u \o <<c, c>> = Append(Append(u, c), c)
      BY <2>1
    <3>3. Spelled(quoted, Append(Append(u, c), c)) = Spelled(quoted, Append(u, c)) \o quoted[c]
      <4>1. Append(u, c) \in Seq(C)
        BY <3>1
      <4> QED
        BY ONLY <1>1, <4>1, c \in C, Spelling, ZenonT(60)
    <3>4. Append(Escaped(C, t), c) \o <<c>> = Append(Append(Escaped(C, t), c), c)
      BY <3>1, TwoMore, Zenon
    <3>5. Both(Append(t, c)) = Append(Append(Escaped(C, t), c), c)
      BY <2>1, <2>3, <3>1, <3>2, <3>3, <3>4, Zenon
    <3>6. Escaped(C, Append(t, c)) = Append(Append(Escaped(C, t), c), c)
      BY <2>4, EscapedGrows, Zenon
    <3> QED
      BY <3>5, <3>6, AppendProperties, Zenon
  <2>5. CASE c = Quote
    <3>1. slashed[c] = <<c>> /\ quoted[c] = <<Backslash, c>> /\ Backslash \in C
      BY <1>2, <2>5, Signs DEF Alphabet
    <3>2. Escaped(C, t) \o <<Backslash, c>> = Append(Append(Escaped(C, t), Backslash), c)
      BY <2>2, <3>1
    <3>3. Both(Append(t, c)) = Append(Append(Escaped(C, t), Backslash), c)
      BY <2>1, <2>3, <3>1, <3>2, Zenon
    <3>4. Escaped(C, Append(t, c)) = Append(Append(Escaped(C, t), Backslash), c)
      BY <2>5, EscapedGrows, Zenon
    <3> QED
      BY <3>3, <3>4, AppendProperties, Zenon
  <2>6. CASE c # Backslash /\ c # Quote
    <3>1. slashed[c] = <<c>> /\ quoted[c] = <<c>> /\ c \notin {Quote, Backslash}
      BY <1>2, <2>6
    <3>2. Both(Append(t, c)) = Append(Escaped(C, t), c)
      BY <2>1, <2>3, <3>1, Zenon
    <3>3. Escaped(C, Append(t, c)) = Append(Escaped(C, t), c)
      BY <3>1, EscapedGrows, Zenon
    <3> QED
      BY <3>2, <3>3, AppendProperties, Zenon
  <2> QED
    BY <2>4, <2>5, <2>6
<1>5. s \in T
  <2> HIDE DEF T
  <2> QED
    BY <1>3, <1>4, Growing
<1>6. Replaced(Replaced(s, Backslash, <<Backslash, Backslash>>), Quote, <<Backslash, Quote>>)
      = Escaped(C, s)
  <2>1. Replaced(s, Backslash, <<Backslash, Backslash>>) = Spelled(slashed, s)
    BY ReplacedIs DEF slashed
  <2>2. Spelled(slashed, s) \in Seq(C)
    BY <1>1, Spelling DEF Alphabet
  <2>3. Replaced(Spelled(slashed, s), Quote, <<Backslash, Quote>>) = Both(s)
    BY <2>2, ReplacedIs DEF quoted
  <2> QED
    BY <1>5, <2>1, <2>3
<1> QED
  BY <1>6, QuotedIs DEF EncodeMailboxName

(* The escapes of Unescape, and the characters it keeps.                   *)
Escapes(t, f) ==
    /\ f \in [0..Len(t) -> BOOLEAN]
    /\ f[0] = FALSE
    /\ \A i \in 1..Len(t) : f[i] = (~f[i - 1] /\ t[i] = Backslash)

Kept(t, f) == [i \in DOMAIN t |-> IF f[i] /\ i < Len(t) THEN << >> ELSE <<t[i]>>]

EscapesIn(t, f, i) == IF i = 0 THEN FALSE ELSE ~f[i - 1] /\ t[i] = Backslash

LEMMA UnescapeIs ==
    ASSUME NEW C, NEW t \in Seq(C), NEW f, Escapes(t, f)
    PROVE  Unescape(t) = FlattenSeq(Kept(t, f))
<1> DEFINE n == Len(t)
           g == CHOOSE g : g = [i \in 0..n |-> EscapesIn(t, g, i)]
<1>1. n \in Nat
  OBVIOUS
<1>2. Unescape(t) = FlattenSeq(Kept(t, g))
  BY Zenon DEF Unescape, Kept, EscapesIn
<1>3. f = [i \in 0..n |-> EscapesIn(t, f, i)]
  <2>1. \A i \in 0..n : f[i] = EscapesIn(t, f, i)
    <3>1. ASSUME NEW i \in 0..n PROVE f[i] = EscapesIn(t, f, i)
      <4>1. CASE i = 0
        BY <4>1 DEF Escapes, EscapesIn
      <4>2. CASE i # 0
        <5>1. i \in 1..n
          BY <4>2
        <5> QED
          BY <4>2, <5>1 DEF Escapes, EscapesIn
      <4> QED
        BY <4>1, <4>2
    <3> QED
      BY <3>1
  <2>2. f \in [0..n -> BOOLEAN]
    BY DEF Escapes
  <2> HIDE DEF n
  <2> QED
    BY <2>1, <2>2
<1>4. g = [i \in 0..n |-> EscapesIn(t, g, i)]
  <2> HIDE DEF n
  <2> QED
    BY ONLY <1>3, Zenon
<1> HIDE DEF g, n
<1> DEFINE T == {i \in 0..n : f[i] = g[i]}
<1>5. 0 \in T
  <2>1. 0 \in 0..n
    BY <1>1
  <2>2. f[0] = EscapesIn(t, f, 0) /\ g[0] = EscapesIn(t, g, 0)
    BY <1>3, <1>4, <2>1, Zenon
  <2> QED
    BY <2>1, <2>2 DEF EscapesIn
<1>6. ASSUME NEW i \in 1..n, i - 1 \in T PROVE i \in T
  <2>1. i \in 0..n /\ i # 0 /\ f[i - 1] = g[i - 1]
    BY <1>1, <1>6
  <2>2. f[i] = EscapesIn(t, f, i) /\ g[i] = EscapesIn(t, g, i)
    BY <1>3, <1>4, <2>1, Zenon
  <2>3. EscapesIn(t, f, i) = EscapesIn(t, g, i)
    BY <2>1, Zenon DEF EscapesIn
  <2> QED
    BY <2>1, <2>2, <2>3
<1>7. \A i \in 0..n : i \in T
  <2> HIDE DEF T
  <2> QED
    BY <1>1, <1>5, <1>6, Upward
<1>8. f = g
  BY <1>3, <1>4, <1>7, Zenon
<1> QED
  BY <1>2, <1>8

(* What is read of a word up to its end, and whether a backslash is open.  *)
Taken(t, f) == [i \in DOMAIN t |-> IF f[i] THEN << >> ELSE <<t[i]>>]

Reads(t, open, s) ==
    \E f : Escapes(t, f) /\ f[Len(t)] = open /\ FlattenSeq(Taken(t, f)) = s

LEMMA TakenTyped ==
    ASSUME NEW C, NEW t \in Seq(C), NEW f
    PROVE  /\ Taken(t, f) \in Seq(Seq(C)) /\ Len(Taken(t, f)) = Len(t)
           /\ \A i \in 1..Len(t) : Taken(t, f)[i] = IF f[i] THEN << >> ELSE <<t[i]>>
<1>1. \A i \in 1..Len(t) : (IF f[i] THEN << >> ELSE <<t[i]>>) \in Seq(C)
  OBVIOUS
<1>2. DOMAIN t = 1..Len(t) /\ Len(t) \in Nat
  OBVIOUS
<1> QED
  BY <1>1, <1>2 DEF Taken

LEMMA ReadsNothing ==
    ASSUME NEW C
    PROVE  Reads(<< >>, FALSE, << >>)
<1> DEFINE f == [i \in 0..0 |-> FALSE]
<1>1. Len(<< >>) = 0 /\ 1..0 = {}
  OBVIOUS
<1>2. f[0] = FALSE /\ f \in [0..0 -> BOOLEAN]
  OBVIOUS
<1>3. Taken(<< >>, f) = << >>
  BY DEF Taken
<1> HIDE DEF f
<1>4. Escapes(<< >>, f)
  BY <1>1, <1>2 DEF Escapes
<1> QED
  BY <1>1, <1>2, <1>3, <1>4, FlattenNone DEF Reads

LEMMA ReadsMore ==
    ASSUME NEW C, NEW t \in Seq(C), NEW open \in BOOLEAN, NEW s, Reads(t, open, s), NEW c \in C
    PROVE  /\ s \in Seq(C)
           /\ open \/ c # Backslash => Reads(Append(t, c), FALSE, Append(s, c))
           /\ ~open /\ c = Backslash => Reads(Append(t, c), TRUE, s)
<1> DEFINE n == Len(t)
           u == Append(t, c)
           last == ~open /\ c = Backslash
           word == IF last THEN << >> ELSE <<c>>
<1>1. /\ n \in Nat /\ u \in Seq(C) /\ Len(u) = n + 1 /\ u[n + 1] = c
      /\ \A i \in 1..n : u[i] = t[i]
  OBVIOUS
<1>2. PICK f : Escapes(t, f) /\ f[n] = open /\ FlattenSeq(Taken(t, f)) = s
  BY DEF Reads
<1>3. last \in BOOLEAN /\ word \in Seq(C)
  OBVIOUS
<1> HIDE DEF n, u, word
<1> DEFINE g == [i \in 0..(n + 1) |-> IF i = n + 1 THEN last ELSE f[i]]
<1>4. g[n + 1] = last /\ \A i \in 0..n : g[i] = f[i]
  <2>1. n + 1 \in 0..(n + 1) /\ \A i \in 0..n : i \in 0..(n + 1) /\ i # n + 1
    BY <1>1
  <2> QED
    BY <2>1, Zenon
<1>5. Escapes(u, g)
  <2>1. g \in [0..(n + 1) -> BOOLEAN]
    <3>1. \A i \in 0..(n + 1) : i = n + 1 \/ i \in 0..n
      BY <1>1
    <3>2. \A i \in 0..n : f[i] \in BOOLEAN
      BY <1>2 DEF Escapes, n
    <3>3. \A i \in 0..(n + 1) : (IF i = n + 1 THEN last ELSE f[i]) \in BOOLEAN
      BY <1>3, <3>1, <3>2, Zenon
    <3> QED
      BY <3>3
  <2> HIDE DEF g
  <2>2. g[0] = FALSE
    BY <1>1, <1>2, <1>4 DEF Escapes
  <2>3. ASSUME NEW i \in 1..(n + 1) PROVE g[i] = (~g[i - 1] /\ u[i] = Backslash)
    <3>1. CASE i = n + 1
      <4>1. n \in 0..n /\ i - 1 = n
        BY <1>1, <3>1
      <4>2. g[i - 1] = open /\ g[i] = last /\ u[i] = c
        BY <1>1, <1>2, <1>4, <3>1, <4>1
      <4> QED
        BY <4>2, Zenon
    <3>2. CASE i # n + 1
      <4>1. i \in 1..n /\ i \in 0..n /\ i - 1 \in 0..n
        BY <1>1, <3>2
      <4>2. f[i] = (~f[i - 1] /\ t[i] = Backslash)
        BY <1>2, <4>1 DEF Escapes, n
      <4> QED
        BY <1>1, <1>4, <4>1, <4>2, Zenon
    <3> QED
      BY <3>1, <3>2
  <2> QED
    BY <1>1, <2>1, <2>2, <2>3 DEF Escapes
<1> HIDE DEF g, last
<1>6. Taken(u, g) = Append(Taken(t, f), word)
  <2>1. /\ Taken(u, g) \in Seq(Seq(C)) /\ Len(Taken(u, g)) = n + 1
        /\ \A i \in 1..(n + 1) : Taken(u, g)[i] = IF g[i] THEN << >> ELSE <<u[i]>>
    <3>1. /\ Taken(u, g) \in Seq(Seq(C)) /\ Len(Taken(u, g)) = Len(u)
          /\ \A i \in 1..Len(u) : Taken(u, g)[i] = IF g[i] THEN << >> ELSE <<u[i]>>
      BY <1>1, TakenTyped
    <3>2. Len(u) = n + 1
      BY <1>1
    <3> QED
      BY <3>1, <3>2, Zenon
  <2>2. /\ Taken(t, f) \in Seq(Seq(C)) /\ Len(Taken(t, f)) = n
        /\ \A i \in 1..n : Taken(t, f)[i] = IF f[i] THEN << >> ELSE <<t[i]>>
    BY TakenTyped DEF n
  <2>3. /\ Append(Taken(t, f), word) \in Seq(Seq(C))
        /\ Len(Append(Taken(t, f), word)) = n + 1
        /\ Append(Taken(t, f), word)[n + 1] = word
        /\ \A i \in 1..n : Append(Taken(t, f), word)[i] = Taken(t, f)[i]
    BY <1>1, <1>3, <2>2
  <2>4. ASSUME NEW i \in 1..(n + 1) PROVE Taken(u, g)[i] = Append(Taken(t, f), word)[i]
    <3>1. CASE i = n + 1
      BY <1>1, <1>4, <2>1, <2>3, <3>1, Zenon DEF word
    <3>2. CASE i # n + 1
      <4>1. i \in 1..n /\ i \in 0..n
        BY <1>1, <3>2
      <4> QED
        BY <1>1, <1>4, <2>1, <2>2, <2>3, <4>1, Zenon
    <3> QED
      BY <3>1, <3>2
  <2> QED
    BY <2>1, <2>3, <2>4, SeqEqual
<1>7. Taken(t, f) \in Seq(Seq(C))
  BY TakenTyped
<1>8. /\ FlattenSeq(Taken(u, g)) = s \o word
      /\ s \in Seq(C)
  BY <1>2, <1>3, <1>6, <1>7, FlattenAppend
<1>9. s \o word = IF last THEN s ELSE Append(s, c)
  <2>1. s \o << >> = s
    BY <1>8, ConcatEmptySeq
  <2>2. s \o <<c>> = Append(s, c)
    BY <1>8
  <2> QED
    BY <2>1, <2>2, Zenon DEF word
<1>10. Reads(u, last, s \o word)
  BY <1>1, <1>4, <1>5, <1>8, Zenon DEF Reads
<1>11. open \/ c # Backslash => last = FALSE
  BY DEF last
<1>12. ~open /\ c = Backslash => last = TRUE
  BY DEF last
<1> QED
  BY <1>8, <1>9, <1>10, <1>11, <1>12, Zenon DEF u

LEMMA ReadsAll ==
    ASSUME NEW C, NEW t \in Seq(C), NEW s, Reads(t, FALSE, s)
    PROVE  Unescape(t) = s
<1>1. PICK f : Escapes(t, f) /\ f[Len(t)] = FALSE /\ FlattenSeq(Taken(t, f)) = s
  BY DEF Reads
<1>2. Kept(t, f) = Taken(t, f)
  <2>1. \A i \in DOMAIN t : i < Len(t) \/ i = Len(t)
    OBVIOUS
  <2>2. \A i \in DOMAIN t : (f[i] /\ i < Len(t)) <=> f[i]
    BY <1>1, <2>1, Zenon
  <2>3. \A i \in DOMAIN t : (IF f[i] /\ i < Len(t) THEN << >> ELSE <<t[i]>>) =
                            (IF f[i] THEN << >> ELSE <<t[i]>>)
    BY <2>2, Zenon
  <2> QED
    BY <2>3, Zenon DEF Kept, Taken
<1> QED
  BY <1>1, <1>2, UnescapeIs

(* The server's quoting is taken off again.                                *)
LEMMA UnescapeEscaped ==
    ASSUME NEW C, Alphabet(C), NEW s \in Seq(C)
    PROVE  Unescape(Escaped(C, s)) = s
<1> DEFINE T == {t \in Seq(C) : Reads(Escaped(C, t), FALSE, t)}
<1>0. Backslash \in C
  BY DEF Alphabet
<1>1. << >> \in T
  <2>1. Escaped(C, << >>) = << >>
    BY <1>0, EscapedGrows, EmptySeq
  <2> QED
    BY <2>1, ReadsNothing, EmptySeq
<1>2. ASSUME NEW t \in Seq(C), NEW c \in C, t \in T PROVE Append(t, c) \in T
  <2>1. Escaped(C, t) \in Seq(C) /\ Reads(Escaped(C, t), FALSE, t) /\ Append(t, c) \in Seq(C)
    <3>1. Append(t, c) \in Seq(C)
      OBVIOUS
    <3>2. Escaped(C, t) \in Seq(C)
      BY EscapedGrows, Zenon
    <3> QED
      BY <1>2, <3>1, <3>2, Zenon
  <2>2. CASE c \in {Quote, Backslash}
    <3>1. Reads(Append(Escaped(C, t), Backslash), TRUE, t)
      BY <1>0, <2>1, ReadsMore, Zenon
    <3>2. Append(Escaped(C, t), Backslash) \in Seq(C)
      BY <1>0, <2>1
    <3>3. Reads(Append(Append(Escaped(C, t), Backslash), c), FALSE, Append(t, c))
      BY <3>1, <3>2, ReadsMore, Zenon
    <3>4. Escaped(C, Append(t, c)) = Append(Append(Escaped(C, t), Backslash), c)
      BY <2>2, EscapedGrows, Zenon
    <3> QED
      BY <2>1, <3>3, <3>4, Zenon
  <2>3. CASE c \notin {Quote, Backslash}
    <3>1. Reads(Append(Escaped(C, t), c), FALSE, Append(t, c))
      BY <2>1, <2>3, ReadsMore, Zenon
    <3>2. Escaped(C, Append(t, c)) = Append(Escaped(C, t), c)
      BY <2>3, EscapedGrows, Zenon
    <3> QED
      BY <2>1, <3>1, <3>2, Zenon
  <2> QED
    BY <2>2, <2>3
<1>3. s \in T
  <2> HIDE DEF T
  <2> QED
    BY <1>1, <1>2, Growing
<1>4. Escaped(C, s) \in Seq(C)
  BY <1>0, EscapedGrows
<1> QED
  BY <1>3, <1>4, ReadsAll

-----------------------------------------------------------------------------
(* FolderNames: the name in a line of LIST, and the mailbox it opens.      *)

(* What stands before a quote within a quoted name, and at its end.        *)
Guarded(C, t) ==
    /\ \A i \in 1..Len(t) : t[i] = Quote => i > 1 /\ t[i - 1] = Backslash

LEMMA EscapedGuarded ==
    ASSUME NEW C, Alphabet(C), NEW s \in Seq(C)
    PROVE  /\ Guarded(C, Escaped(C, s))
           /\ s = << >> => Escaped(C, s) = << >>
           /\ s # << >> => /\ Escaped(C, s) # << >>
                           /\ Escaped(C, s)[Len(Escaped(C, s))] = s[Len(s)]
<1> DEFINE Ends(t) == t # << >> => /\ Escaped(C, t) # << >>
                                   /\ Escaped(C, t)[Len(Escaped(C, t))] = t[Len(t)]
           T == {t \in Seq(C) : Guarded(C, Escaped(C, t)) /\ Ends(t)}
<1>0. Backslash \in C /\ Escaped(C, << >>) = << >> /\ << >> \in Seq(C)
  <2>1. Backslash \in C
    BY DEF Alphabet
  <2> QED
    BY <2>1, EscapedGrows, EmptySeq
<1>1. << >> \in T
  BY <1>0 DEF Guarded
<1>2. ASSUME NEW t \in Seq(C), NEW c \in C, t \in T PROVE Append(t, c) \in T
  <2> DEFINE e == Escaped(C, t)
             u == Append(t, c)
  <2>1. e \in Seq(C) /\ Guarded(C, e)
    <3>1. e \in Seq(C)
      BY EscapedGrows, Zenon
    <3> QED
      BY <1>2, <3>1
  <2>2. u \in Seq(C) /\ u[Len(u)] = c
    OBVIOUS
  <2>3. c \in {Quote, Backslash} => Escaped(C, u) = Append(Append(e, Backslash), c)
    BY EscapedGrows, Zenon
  <2>4. c \notin {Quote, Backslash} => Escaped(C, u) = Append(e, c)
    BY EscapedGrows, Zenon
  <2> HIDE DEF e, u
  <2> SUFFICES Guarded(C, Escaped(C, u)) /\ Escaped(C, u) # << >>
               /\ Escaped(C, u)[Len(Escaped(C, u))] = c
    BY <2>2 DEF u
  <2>5. CASE c \in {Quote, Backslash}
    <3> DEFINE v == Append(Append(e, Backslash), c)
               n == Len(e)
    <3>1. /\ n \in Nat /\ Len(v) = n + 2 /\ v[n + 1] = Backslash /\ v[n + 2] = c /\ v # << >>
          /\ \A i \in 1..n : v[i] = e[i]
      <4> DEFINE w == Append(e, Backslash)
      <4>1. /\ n \in Nat /\ w \in Seq(C) /\ Len(w) = n + 1 /\ w[n + 1] = Backslash
            /\ \A i \in 1..n : w[i] = e[i]
        BY <1>0, <2>1
      <4>0. v = Append(w, c) /\ c \in C
        OBVIOUS
      <4> HIDE DEF w, n, v
      <4>2. /\ Len(v) = Len(w) + 1 /\ v[Len(w) + 1] = c /\ v # << >>
            /\ \A i \in 1..Len(w) : v[i] = w[i]
        BY ONLY <4>0, <4>1, AppendProperties
      <4>3. v[n + 2] = c /\ Len(v) = n + 2 /\ n + 1 \in 1..(n + 1)
        BY <4>1, <4>2
      <4>4. \A i \in 1..(n + 1) : v[i] = w[i]
        BY <4>1, <4>2
      <4>5. \A i \in 1..n : i \in 1..(n + 1)
        BY <4>1
      <4> QED
        BY <4>1, <4>2, <4>3, <4>4, <4>5
    <3> HIDE DEF v
    <3>2. ASSUME NEW i \in 1..(n + 2), v[i] = Quote PROVE i > 1 /\ v[i - 1] = Backslash
      <4>1. CASE i = n + 2
        <5>1. i > 1 /\ i - 1 = n + 1
          BY <3>1, <4>1
        <5> QED
          BY <3>1, <5>1
      <4>2. CASE i = n + 1
        BY <3>1, <3>2, <4>2, Signs
      <4>3. CASE i # n + 1 /\ i # n + 2
        <5>1. i \in 1..n
          BY <3>1, <4>3
        <5>2. i > 1 /\ e[i - 1] = Backslash
          BY <2>1, <3>1, <3>2, <5>1 DEF Guarded
        <5>3. i - 1 \in 1..n
          BY <3>1, <5>1, <5>2
        <5> QED
          BY <3>1, <5>2, <5>3
      <4> QED
        BY <4>1, <4>2, <4>3
    <3>3. Escaped(C, u) = v
      BY <2>3, <2>5 DEF v
    <3> QED
      BY <3>1, <3>2, <3>3 DEF Guarded
  <2>6. CASE c \notin {Quote, Backslash}
    <3> DEFINE v == Append(e, c)
               n == Len(e)
    <3>1. /\ n \in Nat /\ Len(v) = n + 1 /\ v[n + 1] = c /\ v # << >>
          /\ \A i \in 1..n : v[i] = e[i]
      BY <2>1
    <3> HIDE DEF v
    <3>2. ASSUME NEW i \in 1..(n + 1), v[i] = Quote PROVE i > 1 /\ v[i - 1] = Backslash
      <4>1. CASE i = n + 1
        BY <2>6, <3>1, <3>2, <4>1
      <4>2. CASE i # n + 1
        <5>1. i \in 1..n
          BY <3>1, <4>2
        <5>2. i > 1 /\ e[i - 1] = Backslash
          BY <2>1, <3>1, <3>2, <5>1 DEF Guarded
        <5>3. i - 1 \in 1..n
          BY <3>1, <5>1, <5>2
        <5> QED
          BY <3>1, <5>2, <5>3
      <4> QED
        BY <4>1, <4>2
    <3>3. Escaped(C, u) = v
      BY <2>4, <2>6 DEF v
    <3> QED
      BY <3>1, <3>2, <3>3 DEF Guarded
  <2> QED
    BY <2>5, <2>6
<1>3. s \in T
  <2> HIDE DEF T
  <2> QED
    BY <1>0, <1>1, <1>2, Growing
<1> QED
  BY <1>0, <1>3

(* The line list_folders reads.                                            *)
Before == <<"(", ")", Blank, Quote, "/", Quote, Blank>>

LEMMA BeforeIs ==
    /\ Len(Before) = 7
    /\ Before[1] # Blank /\ Before[3] = Blank /\ Before[7] = Blank
    /\ \A i \in 1..7 : Before[i] = Blank => i = 3 \/ i = 7
BY DEF Before, Blank, Quote

(* The last place in a set.                                                *)
LEMMA LastIs ==
    ASSUME NEW n \in Nat, NEW T, T \subseteq 1..n, NEW k \in T, \A j \in T : j <= k
    PROVE  (CHOOSE i \in T : \A j \in T : i >= j) = k
<1>1. \A j \in T : k >= j
  OBVIOUS
<1>2. \E i \in T : \A j \in T : i >= j
  BY <1>1
<1> DEFINE c == CHOOSE i \in T : \A j \in T : i >= j
<1>3. c \in T /\ \A j \in T : c >= j
  BY <1>2
<1> HIDE DEF c
<1>4. c >= k /\ c <= k /\ c \in Int /\ k \in Int
  BY <1>3
<1>5. c = k
  BY <1>4
<1> QED
  BY <1>5 DEF c

LEMMA Joined ==
    ASSUME NEW C, Before \in Seq(C), NEW t \in Seq(C), NEW n, Len(t) = n
    PROVE  /\ Before \o t \in Seq(C) /\ Len(Before \o t) = n + 7
           /\ \A i \in 1..7 : (Before \o t)[i] = Before[i]
           /\ \A i \in 1..n : (Before \o t)[i + 7] = t[i]
<1>1. Len(Before) = 7
  BY BeforeIs
<1> DEFINE b == Before
<1>2. /\ b \in Seq(C) /\ b \o t \in Seq(C) /\ Len(b \o t) = Len(b) + Len(t)
      /\ \A i \in 1..(Len(b) + Len(t)) :
            (b \o t)[i] = IF i <= Len(b) THEN b[i] ELSE t[i - Len(b)]
      /\ Len(t) \in Nat
  <2>1. Len(t) \in Nat
    OBVIOUS
  <2> HIDE DEF b
  <2>2. b \in Seq(C)
    BY DEF b
  <2> QED
    BY <2>1, <2>2, ConcatProperties, Zenon
<1>3. Len(b) = 7
  BY <1>1
<1> HIDE DEF b
<1>4. \A i \in 1..n : (i + 7) \in 1..(7 + n) /\ ~(i + 7 <= 7) /\ (i + 7) - 7 = i
  BY <1>2
<1>5. \A i \in 1..n : (b \o t)[i + 7] = t[i]
  BY <1>2, <1>3, <1>4
<1>6. \A i \in 1..7 : (b \o t)[i] = b[i]
  BY <1>2, <1>3
<1> QED
  BY <1>2, <1>3, <1>5, <1>6 DEF b

(* _parse_list_folder_name of a line with a quoted name.                   *)
LEMMA ParseQuoted ==
    ASSUME NEW C, Alphabet(C), Before \in Seq(C), NEW s \in Seq(C), Strip(s) = s
    PROVE  ParseListFolderName(Before \o Quoted(s)) = s
<1> DEFINE e == Escaped(C, s)
           m == Len(e)
           value == Before \o (<<Quote>> \o e \o <<Quote>>)
           quotes == {i \in 1..(Len(value) - 1) : value[i] = Blank /\ value[i + 1] = Quote}
<1>1. e \in Seq(C) /\ m \in Nat /\ Quote \in C /\ Guarded(C, e)
  <2>1. Quote \in C
    BY DEF Alphabet
  <2> QED
    BY <2>1, EscapedGrows, EscapedGuarded, LenProperties
<1>2. m # 0 => e[m] # Blank
  <2>1. CASE s = << >>
    BY <2>1, EscapedGuarded, EmptySeq
  <2>2. CASE s # << >>
    BY <2>2, EscapedGuarded, NothingToStrip, Zenon
  <2> QED
    BY <2>1, <2>2
<1>3. /\ value \in Seq(C) /\ Len(value) = m + 9
      /\ \A i \in 1..7 : value[i] = Before[i]
      /\ value[8] = Quote /\ value[m + 9] = Quote
      /\ \A i \in 1..m : value[i + 8] = e[i]
  <2> DEFINE w == <<Quote>> \o e \o <<Quote>>
  <2> HIDE DEF e, m
  <2>1. /\ w \in Seq(C) /\ Len(w) = m + 2 /\ w[1] = Quote /\ w[m + 2] = Quote
        /\ \A i \in 1..m : w[i + 1] = e[i]
    BY <1>1 DEF m
  <2> HIDE DEF w
  <2>2. /\ Before \o w \in Seq(C) /\ Len(Before \o w) = (m + 2) + 7
        /\ \A i \in 1..7 : (Before \o w)[i] = Before[i]
        /\ \A i \in 1..(m + 2) : (Before \o w)[i + 7] = w[i]
    <3>1. w \in Seq(C)
      BY <2>1
    <3>2. Len(w) = m + 2
      BY <2>1
    <3>3. /\ Before \o w \in Seq(C) /\ Len(Before \o w) = Len(w) + 7
          /\ \A i \in 1..7 : (Before \o w)[i] = Before[i]
          /\ \A i \in 1..Len(w) : (Before \o w)[i + 7] = w[i]
      BY ONLY <3>1, Before \in Seq(C), Joined, ZenonT(60)
    <3> QED
      BY <3>2, <3>3, Zenon
  <2>3. (Before \o w)[8] = Quote /\ (Before \o w)[m + 9] = Quote
    <3>1. 1 \in 1..(m + 2) /\ m + 2 \in 1..(m + 2) /\ 1 + 7 = 8 /\ (m + 2) + 7 = m + 9
      BY <1>1
    <3>2. (Before \o w)[1 + 7] = w[1] /\ (Before \o w)[(m + 2) + 7] = w[m + 2]
      BY <2>2, <3>1
    <3> QED
      BY <2>1, <3>1, <3>2
  <2>4. ASSUME NEW i \in 1..m PROVE (Before \o w)[i + 8] = e[i]
    <3>1. i + 1 \in 1..(m + 2) /\ (i + 1) + 7 = i + 8
      BY <1>1
    <3>2. (Before \o w)[(i + 1) + 7] = w[i + 1]
      BY <2>2, <3>1
    <3> QED
      BY <2>1, <3>1, <3>2
  <2>5. value = Before \o w
    BY Zenon DEF value, w
  <2>6. (m + 2) + 7 = m + 9
    BY <1>1
  <2> HIDE DEF value
  <2> QED
    BY <2>2, <2>3, <2>4, <2>5, <2>6, Zenon
<1> HIDE DEF value, e, m
<1>4. Strip(value) = value
  <2>1. value[1] # Blank /\ value[Len(value)] # Blank /\ value # << >>
    BY <1>1, <1>3, BeforeIs, Signs, EmptySeq
  <2> QED
    BY <1>3, <2>1, NothingToStrip
<1>5. 7 \in quotes /\ \A i \in quotes : i <= 7
  <2>1. 7 \in quotes
    BY <1>1, <1>3, BeforeIs
  <2>2. ASSUME NEW i \in quotes, i > 7 PROVE FALSE
    <3>1. i \in 1..(m + 8) /\ value[i] = Blank /\ value[i + 1] = Quote
      BY <1>1, <1>3
    <3>2. CASE i = 8
      BY <1>3, <3>1, <3>2, Signs
    <3>3. CASE i > 8
      <4>1. i - 8 \in 1..m /\ (i - 8) + 8 = i /\ m # 0
        BY <1>1, <3>1, <3>3
      <4>2. e[i - 8] = Blank
        BY <1>3, <3>1, <4>1
      <4>3. CASE i - 8 = m
        BY <1>2, <4>1, <4>2, <4>3
      <4>4. CASE i - 8 # m
        <5>1. i - 7 \in 1..m /\ (i - 7) + 8 = i + 1 /\ (i - 7) - 1 = i - 8
          BY <1>1, <3>1, <3>3, <4>1, <4>4
        <5>2. e[i - 7] = Quote
          BY <1>3, <3>1, <5>1
        <5>3. e[i - 8] = Backslash
          BY <1>1, <5>1, <5>2, Zenon DEF Guarded, m
        <5> QED
          BY <4>2, <5>3, Signs
      <4> QED
        BY <4>3, <4>4
    <3> QED
      BY <2>2, <3>1, <3>2, <3>3
  <2> QED
    BY <2>1, <2>2
<1>6. (CHOOSE i \in quotes : \A j \in quotes : i >= j) = 7
  <2>1. quotes \subseteq 1..(m + 8) /\ m + 8 \in Nat
    BY <1>1, <1>3
  <2> HIDE DEF quotes
  <2> QED
    BY <1>5, <2>1, LastIs
<1>7. SubSeq(value, 9, m + 8) = e
  <2>1. ASSUME NEW i \in 9..(m + 8) PROVE value[i] \in C
    <3>1. i \in 1..Len(value)
      BY <1>1, <1>3
    <3> QED
      BY <1>3, <3>1, ElementOfSeq
  <2>2. /\ SubSeq(value, 9, m + 8) \in Seq(C)
        /\ Len(SubSeq(value, 9, m + 8)) = IF 9 <= m + 8 THEN (m + 8) - 9 + 1 ELSE 0
        /\ \A i \in 1..((m + 8) - 9 + 1) : SubSeq(value, 9, m + 8)[i] = value[9 + i - 1]
    BY <1>1, <2>1, SubSeqProperties
  <2>3. Len(SubSeq(value, 9, m + 8)) = m
    BY <1>1, <2>2
  <2>4. ASSUME NEW i \in 1..m PROVE SubSeq(value, 9, m + 8)[i] = e[i]
    <3>1. i \in 1..((m + 8) - 9 + 1) /\ 9 + i - 1 = i + 8
      BY <1>1
    <3>2. SubSeq(value, 9, m + 8)[i] = value[9 + i - 1]
      BY <2>2, <3>1
    <3> QED
      BY <1>3, <3>1, <3>2
  <2> DEFINE t == SubSeq(value, 9, m + 8)
  <2>5. t \in Seq(C) /\ Len(t) = m /\ \A i \in 1..m : t[i] = e[i]
    BY <2>2, <2>3, <2>4
  <2> HIDE DEF t
  <2>6. t = e
    BY <1>1, <2>5, SeqEqual DEF m
  <2> QED
    BY <2>6 DEF t
<1>8. Last(value) = Quote
  BY <1>3, Zenon DEF Last
<1>9. quotes # {}
  BY <1>5
<1>10. Len(value) - 1 = m + 8
  BY <1>1, <1>3
<1>11. ParseListFolderName(value) = Unescape(SubSeq(value, 7 + 2, m + 8))
  BY <1>4, <1>6, <1>8, <1>9, <1>10, Zenon DEF ParseListFolderName
<1>12. ParseListFolderName(value) = Unescape(e)
  <2>1. 7 + 2 = 9
    OBVIOUS
  <2> QED
    BY <1>7, <1>11, <2>1, Zenon
<1>13. value = Before \o Quoted(s)
  <2>1. value = Before \o (<<Quote>> \o e \o <<Quote>>)
    BY Zenon DEF value
  <2> QED
    BY <2>1, QuotedIs, Zenon DEF e
<1> QED
  BY <1>12, <1>13, UnescapeEscaped, Zenon DEF e

(* ... and of one with a bare name.                                        *)
LEMMA ParseBare ==
    ASSUME NEW C, Before \in Seq(C), NEW s \in Seq(C), s # << >>,
           \A i \in DOMAIN s : s[i] \notin {Blank, Quote, Backslash}
    PROVE  ParseListFolderName(Before \o s) = s
<1> DEFINE m == Len(s)
           value == Before \o s
           blanks == {i \in DOMAIN value : value[i] = Blank}
<1>1. m \in Nat /\ m # 0 /\ DOMAIN s = 1..m
  BY EmptySeq
<1>2. /\ value \in Seq(C) /\ Len(value) = m + 7 /\ DOMAIN value = 1..(m + 7)
      /\ \A i \in 1..7 : value[i] = Before[i]
      /\ \A i \in 1..m : value[i + 7] = s[i]
  <2>1. /\ value \in Seq(C) /\ Len(value) = m + 7
        /\ \A i \in 1..7 : value[i] = Before[i]
        /\ \A i \in 1..m : value[i + 7] = s[i]
    BY ONLY s \in Seq(C), Before \in Seq(C), Joined, ZenonT(60) DEF value, m
  <2> HIDE DEF value, m
  <2> QED
    BY <2>1, LenProperties
<1> HIDE DEF value, m
<1>3. value[m + 7] # Blank /\ value[m + 7] # Quote
  <2>1. m \in 1..m
    BY <1>1
  <2>2. value[m + 7] = s[m]
    BY <1>2, <2>1
  <2> QED
    BY <1>1, <2>1, <2>2
<1>4. Strip(value) = value
  <2>1. value[1] # Blank /\ value[Len(value)] # Blank /\ value # << >>
    BY <1>1, <1>2, <1>3, BeforeIs, EmptySeq
  <2> QED
    BY <1>2, <2>1, NothingToStrip
<1>5. 7 \in blanks /\ \A i \in blanks : i <= 7
  <2>1. 7 \in blanks
    BY <1>1, <1>2, BeforeIs
  <2>2. ASSUME NEW i \in blanks, i > 7 PROVE FALSE
    <3>1. i \in 1..(m + 7) /\ value[i] = Blank
      BY <1>2
    <3>2. i - 7 \in 1..m /\ (i - 7) + 7 = i
      BY <1>1, <2>2, <3>1
    <3>3. s[i - 7] = Blank
      BY <1>2, <3>1, <3>2
    <3> QED
      BY <1>1, <3>2, <3>3
  <2> QED
    BY <1>2, <2>1, <2>2
<1>6. (CHOOSE i \in blanks : \A j \in blanks : i >= j) = 7
  <2>1. blanks \subseteq 1..(m + 7) /\ m + 7 \in Nat
    BY <1>1, <1>2
  <2> HIDE DEF blanks
  <2> QED
    BY <1>5, <2>1, LastIs
<1>7. SubSeq(value, 8, m + 7) = s
  <2>1. \A i \in 8..(m + 7) : value[i] \in C
    BY <1>1, <1>2
  <2>2. /\ SubSeq(value, 8, m + 7) \in Seq(C)
        /\ Len(SubSeq(value, 8, m + 7)) = IF 8 <= m + 7 THEN (m + 7) - 8 + 1 ELSE 0
        /\ \A i \in 1..((m + 7) - 8 + 1) : SubSeq(value, 8, m + 7)[i] = value[8 + i - 1]
    BY <1>1, <2>1, SubSeqProperties
  <2>3. Len(SubSeq(value, 8, m + 7)) = m
    BY <1>1, <2>2
  <2>4. ASSUME NEW i \in 1..m PROVE SubSeq(value, 8, m + 7)[i] = s[i]
    <3>1. i \in 1..((m + 7) - 8 + 1) /\ 8 + i - 1 = i + 7
      BY <1>1
    <3>2. SubSeq(value, 8, m + 7)[i] = value[8 + i - 1]
      BY <2>2, <3>1
    <3> QED
      BY <1>2, <3>1, <3>2
  <2> DEFINE t == SubSeq(value, 8, m + 7)
  <2>5. t \in Seq(C) /\ Len(t) = m /\ \A i \in 1..m : t[i] = s[i]
    BY <2>2, <2>3, <2>4
  <2> HIDE DEF t
  <2>6. t = s
    BY <1>1, <2>5, SeqEqual DEF m
  <2> QED
    BY <2>6 DEF t
<1>8. Last(value) # Quote
  BY <1>2, <1>3, Zenon DEF Last
<1>9. ParseListFolderName(value) = SubSeq(value, 7 + 1, m + 7)
  <2>1. Len(value) = m + 7
    BY <1>2
  <2> QED
    BY <1>4, <1>6, <1>8, <2>1, Zenon DEF ParseListFolderName
<1>10. 7 + 1 = 8
  OBVIOUS
<1> QED
  BY <1>7, <1>9, <1>10, Zenon DEF value

LEMMA QuotedInjective ==
    ASSUME NEW C, Alphabet(C), NEW a \in Seq(C), NEW b \in Seq(C), Quoted(a) = Quoted(b)
    PROVE  a = b
<1>1. Escaped(C, a) \in Seq(C) /\ Escaped(C, b) \in Seq(C) /\ <<Quote>> \in Seq(C)
  <2>1. Quote \in C
    BY DEF Alphabet
  <2> QED
    BY <2>1, EscapedGrows
<1>2. (<<Quote>> \o Escaped(C, a)) \o <<Quote>> = (<<Quote>> \o Escaped(C, b)) \o <<Quote>>
  BY QuotedIs, Zenon
<1>3. <<Quote>> \o Escaped(C, a) \in Seq(C) /\ <<Quote>> \o Escaped(C, b) \in Seq(C)
  BY <1>1, ConcatProperties, Zenon
<1>4. <<Quote>> \o Escaped(C, a) = <<Quote>> \o Escaped(C, b)
  BY <1>1, <1>2, <1>3, ConcatSimplifications
<1>5. Escaped(C, a) = Escaped(C, b)
  BY <1>1, <1>4, ConcatSimplifications
<1> QED
  BY <1>5, UnescapeEscaped, Zenon

(* The name of a LIST line opens the folder of that name and no other.     *)
LEMMA NameOpens ==
    ASSUME NEW C, Alphabet(C), Before \in Seq(C), NEW folders, folders \subseteq Seq(C),
           NEW name \in folders, Strip(name) = name, NEW quoted \in BOOLEAN,
           MustQuote(name) => quoted
    PROVE  /\ ParseListFolderName(ListLine(name, quoted)) = name
           /\ Opened(EncodeMailboxName(name), folders) = {name}
<1>1. name \in Seq(C)
  OBVIOUS
<1>2. ListLine(name, quoted) = Before \o (IF quoted THEN Quoted(name) ELSE name)
  BY Zenon DEF ListLine, Before
<1>3. ASSUME quoted PROVE ParseListFolderName(ListLine(name, quoted)) = name
  <2>1. ListLine(name, quoted) = Before \o Quoted(name)
    BY <1>2, <1>3, Zenon
  <2>2. ParseListFolderName(Before \o Quoted(name)) = name
    BY <1>1, ParseQuoted, Zenon
  <2> QED
    BY <2>1, <2>2, Zenon
<1>4. ASSUME ~quoted PROVE ParseListFolderName(ListLine(name, quoted)) = name
  <2>1. name # << >> /\ \A i \in DOMAIN name : name[i] \notin {Blank, Quote, Backslash}
    BY <1>4 DEF MustQuote
  <2>2. ListLine(name, quoted) = Before \o name
    BY <1>2, <1>4, Zenon
  <2>3. ParseListFolderName(Before \o name) = name
    BY <1>1, <2>1, ParseBare, Zenon
  <2> QED
    BY <2>2, <2>3, Zenon
<1>5. Opened(EncodeMailboxName(name), folders) = {name}
  <2>1. EncodeMailboxName(name) = Quoted(name)
    BY <1>1, EncodeIs
  <2>2. \A n \in folders : Quoted(n) = Quoted(name) => n = name
    BY <1>1, QuotedInjective
  <2> QED
    BY <2>1, <2>2 DEF Opened
<1>6. ParseListFolderName(ListLine(name, quoted)) = name
  BY <1>3, <1>4
<1> QED
  BY <1>5, <1>6

-----------------------------------------------------------------------------
(* MailContent: the pairs of tags of a text that nests, and what the depth *)
(* of IgnoredContainer counts.                                             *)

Tokens == [kind: {"data", "start", "end", "startend"}, tag: {"", "head", "svg", "meta", "p"}]

Start(tag) == [kind |-> "start", tag |-> tag]
End(tag)   == [kind |-> "end", tag |-> tag]

Count(text, i, token) == Cardinality({j \in 1..i : text[j] = token})

LEMMA Counting ==
    ASSUME NEW text, NEW i \in Nat, NEW token
    PROVE  /\ Count(text, i, token) \in Nat
           /\ i # 0 => Count(text, i, token) = IF text[i] = token THEN Count(text, i - 1, token) + 1
                                               ELSE Count(text, i - 1, token)
<1> DEFINE S(k) == {j \in 1..k : text[j] = token}
<1>1. \A k \in Nat : IsFiniteSet(S(k)) /\ Cardinality(S(k)) \in Nat
  <2>1. ASSUME NEW k \in Nat PROVE IsFiniteSet(S(k)) /\ Cardinality(S(k)) \in Nat
    <3>1. IsFiniteSet(1..k) /\ S(k) \subseteq 1..k
      BY FS_Interval
    <3> QED
      BY <3>1, FS_Subset, FS_CardinalityType
  <2> QED
    BY <2>1
<1>2. ASSUME i # 0 PROVE Cardinality(S(i)) = IF text[i] = token THEN Cardinality(S(i - 1)) + 1
                                             ELSE Cardinality(S(i - 1))
  <2>1. i - 1 \in Nat /\ i \notin 1..(i - 1) /\ \A j : j \in 1..i <=> j \in 1..(i - 1) \/ j = i
    BY <1>2
  <2>2. CASE text[i] = token
    <3>1. S(i) = S(i - 1) \cup {i} /\ i \notin S(i - 1)
      BY <2>1, <2>2
    <3>2. IsFiniteSet(S(i - 1))
      BY <1>1, <2>1
    <3> HIDE DEF S
    <3>3. Cardinality(S(i - 1) \cup {i}) = Cardinality(S(i - 1)) + 1
      BY <3>1, <3>2, FS_AddElement
    <3> QED
      BY <2>2, <3>1, <3>3
  <2>3. CASE text[i] # token
    <3>1. S(i) = S(i - 1)
      BY <2>1, <2>3
    <3> QED
      BY <2>3, <3>1
  <2> QED
    BY <2>2, <2>3
<1> QED
  BY <1>1, <1>2 DEF Count

LEMMA LevelIs ==
    ASSUME NEW text, NEW i \in Nat, NEW tag
    PROVE  /\ Level(text, i, tag) \in Int
           /\ i # 0 /\ text[i] = Start(tag) => Level(text, i, tag) = Level(text, i - 1, tag) + 1
<1>1. \A k : Level(text, k, tag) = Count(text, k, Start(tag)) - Count(text, k, End(tag))
  BY DEF Level, Count, Start, End
<1>2. Count(text, i, Start(tag)) \in Nat /\ Count(text, i, End(tag)) \in Nat
  BY Counting
<1>3. ASSUME i # 0, text[i] = Start(tag)
      PROVE  Level(text, i, tag) = Level(text, i - 1, tag) + 1
  <2>1. text[i] # End(tag)
    BY <1>3 DEF Start, End
  <2>2. i - 1 \in Nat
    BY <1>3
  <2>3. /\ Count(text, i, Start(tag)) = Count(text, i - 1, Start(tag)) + 1
        /\ Count(text, i, End(tag)) = Count(text, i - 1, End(tag))
    BY <1>3, <2>1, Counting
  <2>4. Count(text, i - 1, Start(tag)) \in Nat /\ Count(text, i - 1, End(tag)) \in Nat
    BY <2>2, Counting
  <2> QED
    BY <1>1, <2>3, <2>4
<1> QED
  BY <1>1, <1>2, <1>3

(* A start tag opens one pair at most, and an end tag closes one at most.  *)
LEMMA PairIs ==
    ASSUME NEW text \in Seq(Tokens), NEW p \in Pairs(text)
    PROVE  /\ p[1] \in 1..Len(text) /\ p[2] \in 1..Len(text) /\ p[1] < p[2]
           /\ p = <<p[1], p[2]>>
           /\ text[p[1]] = Start(text[p[1]].tag) /\ text[p[2]] = End(text[p[1]].tag)
           /\ Level(text, p[2], text[p[1]].tag) = Level(text, p[1], text[p[1]].tag) - 1
           /\ \A k \in p[1]..(p[2] - 1) :
                 Level(text, k, text[p[1]].tag) >= Level(text, p[1], text[p[1]].tag)
<1>1. /\ p \in (DOMAIN text) \X (DOMAIN text) /\ p[1] < p[2] /\ text[p[1]].kind = "start"
      /\ text[p[2]] = End(text[p[1]].tag)
      /\ Level(text, p[2], text[p[1]].tag) = Level(text, p[1], text[p[1]].tag) - 1
      /\ \A k \in p[1]..(p[2] - 1) :
            Level(text, k, text[p[1]].tag) >= Level(text, p[1], text[p[1]].tag)
  BY DEF Pairs, End
<1>2. DOMAIN text = 1..Len(text) /\ text[p[1]] \in Tokens
  BY <1>1
<1>3. text[p[1]] = Start(text[p[1]].tag)
  BY <1>1, <1>2 DEF Tokens, Start
<1>4. p = <<p[1], p[2]>> /\ p[1] \in 1..Len(text) /\ p[2] \in 1..Len(text)
  BY <1>1, <1>2
<1> QED
  BY <1>1, <1>3, <1>4

LEMMA OneEnd ==
    ASSUME NEW text \in Seq(Tokens), NEW p \in Pairs(text), NEW q \in Pairs(text), p[1] = q[1]
    PROVE  p = q
<1>1. ASSUME NEW r \in Pairs(text), NEW s \in Pairs(text), r[1] = s[1], r[2] < s[2] PROVE FALSE
  <2> DEFINE tag == text[r[1]].tag
  <2>1. r[2] \in s[1]..(s[2] - 1) /\ r[1] \in Nat /\ r[2] \in Nat
    BY <1>1, PairIs
  <2>2. /\ Level(text, r[2], tag) = Level(text, r[1], tag) - 1
        /\ Level(text, r[2], tag) >= Level(text, r[1], tag)
    BY <1>1, <2>1, PairIs
  <2>3. Level(text, r[1], tag) \in Int
    BY <2>1, LevelIs
  <2> QED
    BY <2>2, <2>3
<1>2. p[2] \in Nat /\ q[2] \in Nat /\ p = <<p[1], p[2]>> /\ q = <<q[1], q[2]>>
  BY PairIs
<1>3. p[2] = q[2]
  BY <1>1, <1>2
<1> QED
  BY <1>2, <1>3

LEMMA OneStart ==
    ASSUME NEW text \in Seq(Tokens), NEW p \in Pairs(text), NEW q \in Pairs(text), p[2] = q[2]
    PROVE  p = q
<1>1. ASSUME NEW r \in Pairs(text), NEW s \in Pairs(text), r[2] = s[2], r[1] < s[1] PROVE FALSE
  <2> DEFINE tag == text[r[1]].tag
  <2>1. text[s[1]].tag = tag /\ text[s[1]] = Start(tag)
    <3>1. End(text[s[1]].tag) = End(tag)
      BY <1>1, PairIs
    <3>2. text[s[1]].tag = tag
      BY <3>1 DEF End
    <3> QED
      BY <3>2, PairIs
  <2>2. /\ s[1] \in Nat /\ s[1] # 0 /\ s[1] - 1 \in Nat /\ r[1] \in Nat
        /\ s[1] - 1 \in r[1]..(r[2] - 1)
    BY <1>1, PairIs
  <2>3. Level(text, s[1], tag) = Level(text, s[1] - 1, tag) + 1
    BY <2>1, <2>2, LevelIs
  <2>4. Level(text, s[1] - 1, tag) >= Level(text, r[1], tag)
    BY <2>2, PairIs
  <2>5. /\ Level(text, r[2], tag) = Level(text, r[1], tag) - 1
        /\ Level(text, r[2], tag) = Level(text, s[1], tag) - 1
    BY <1>1, <2>1, PairIs
  <2>6. /\ Level(text, s[1], tag) \in Int /\ Level(text, s[1] - 1, tag) \in Int
        /\ Level(text, r[1], tag) \in Int
    BY <2>2, LevelIs
  <2> QED
    BY <2>3, <2>4, <2>5, <2>6
<1>2. p[1] \in Nat /\ q[1] \in Nat /\ p = <<p[1], p[2]>> /\ q = <<q[1], q[2]>>
  BY PairIs
<1>3. p[1] = q[1]
  BY <1>1, <1>2
<1> QED
  BY <1>2, <1>3

Hiding(text) == {p \in Pairs(text) : text[p[1]].tag \in IgnoredContainer}

(* The containers open after a place.                                      *)
Open(text, i) == {p \in Hiding(text) : p[1] <= i /\ i < p[2]}

LEMMA OpenFinite ==
    ASSUME NEW text \in Seq(Tokens), NEW i
    PROVE  IsFiniteSet(Open(text, i)) /\ Cardinality(Open(text, i)) \in Nat
<1>1. IsFiniteSet(1..Len(text))
  BY FS_Interval
<1>2. IsFiniteSet((1..Len(text)) \X (1..Len(text)))
  BY <1>1, FS_Product
<1>3. Open(text, i) \subseteq (1..Len(text)) \X (1..Len(text))
  BY DEF Open, Hiding, Pairs
<1> QED
  BY <1>2, <1>3, FS_Subset, FS_CardinalityType

LEMMA DeeperCases ==
    ASSUME NEW depth, NEW token
    PROVE  /\ token.kind = "start" /\ token.tag \in IgnoredContainer =>
                Deeper(depth, token) = depth + 1
           /\ token.kind = "end" /\ token.tag \in IgnoredContainer =>
                Deeper(depth, token) = IF depth > 0 THEN depth - 1 ELSE 0
           /\ ~(token.kind \in {"start", "end"} /\ token.tag \in IgnoredContainer) =>
                Deeper(depth, token) = depth
<1>1. "start" # "end" /\ "start" # "startend" /\ "end" # "startend"
  OBVIOUS
<1>2. token.kind = "start" /\ token.tag \in IgnoredContainer => Deeper(depth, token) = depth + 1
  BY <1>1, Zenon DEF Deeper
<1>3. token.kind = "end" /\ token.tag \in IgnoredContainer =>
        Deeper(depth, token) = IF depth > 0 THEN depth - 1 ELSE 0
  BY <1>1, Zenon DEF Deeper
<1>4. ~(token.kind \in {"start", "end"} /\ token.tag \in IgnoredContainer) =>
        Deeper(depth, token) = depth
  BY Zenon DEF Deeper, StartEnd
<1> QED
  BY <1>2, <1>3, <1>4

(* The parser's depth is the number of containers open.                    *)
LEMMA DepthSteps ==
    ASSUME NEW text \in Seq(Tokens), Nests(text), NEW i \in 1..Len(text)
    PROVE  Cardinality(Open(text, i)) = Deeper(Cardinality(Open(text, i - 1)), text[i])
<1> DEFINE token == text[i]
           before == Open(text, i - 1)
           now == Open(text, i)
<1>1. i \in Nat /\ i - 1 \in Nat /\ token \in Tokens /\ i \in DOMAIN text
  OBVIOUS
<1>2. /\ IsFiniteSet(before) /\ Cardinality(before) \in Nat
      /\ IsFiniteSet(now) /\ Cardinality(now) \in Nat
  BY OpenFinite
<1>3. \A p \in Hiding(text) :
        /\ p \in Pairs(text) /\ p[1] \in Nat /\ p[2] \in Nat /\ p[1] < p[2]
        /\ text[p[1]].tag \in IgnoredContainer
        /\ text[p[1]].kind = "start" /\ text[p[2]].kind = "end"
        /\ text[p[2]].tag = text[p[1]].tag
  <2>1. ASSUME NEW p \in Hiding(text)
        PROVE  /\ p \in Pairs(text) /\ p[1] \in Nat /\ p[2] \in Nat /\ p[1] < p[2]
               /\ text[p[1]].tag \in IgnoredContainer
               /\ text[p[1]].kind = "start" /\ text[p[2]].kind = "end"
               /\ text[p[2]].tag = text[p[1]].tag
    <3>1. p \in Pairs(text) /\ text[p[1]].tag \in IgnoredContainer
      BY DEF Hiding
    <3>2. text[p[1]] = Start(text[p[1]].tag) /\ text[p[2]] = End(text[p[1]].tag)
      BY <3>1, PairIs
    <3>3. text[p[1]].kind = "start" /\ text[p[2]].kind = "end" /\ text[p[2]].tag = text[p[1]].tag
      BY <3>2 DEF Start, End
    <3> QED
      BY <3>1, <3>3, PairIs
  <2> QED
    BY <2>1
<1>4. \A p \in Hiding(text) : /\ p[1] # i /\ p[2] # i => (p \in now <=> p \in before)
                              /\ p[1] = i => p \in now /\ p \notin before
                              /\ p[2] = i => p \notin now /\ p \in before
  BY <1>1, <1>3 DEF Open
<1>5. now \subseteq Hiding(text) /\ before \subseteq Hiding(text)
  BY DEF Open
<1> HIDE DEF now, before, token
<1>6. CASE token.kind = "start" /\ token.tag \in IgnoredContainer
  <2>1. PICK p \in Pairs(text) : p[1] = i
    BY <1>1, <1>6 DEF Nests, IgnoredContainer, token
  <2>2. p \in Hiding(text)
    BY <1>6, <2>1 DEF Hiding, token
  <2>3. \A q \in Hiding(text) : q[1] = i => q = p
    BY <1>3, <2>1, OneEnd
  <2>4. \A q \in Hiding(text) : q[2] # i
    BY <1>3, <1>6 DEF token
  <2>5. now = before \cup {p} /\ p \notin before
    BY <1>4, <1>5, <2>1, <2>2, <2>3, <2>4
  <2>6. Cardinality(now) = Cardinality(before) + 1
    BY <1>2, <2>5, FS_AddElement
  <2> QED
    BY <1>6, <2>6, DeeperCases DEF now, before, token
<1>7. CASE token.kind = "end" /\ token.tag \in IgnoredContainer
  <2>1. PICK p \in Pairs(text) : p[2] = i
    BY <1>1, <1>7 DEF Nests, token
  <2>2. p \in Hiding(text)
    <3>1. text[p[2]] = End(text[p[1]].tag)
      BY PairIs
    <3>2. text[p[1]].tag = token.tag
      BY <2>1, <3>1 DEF End, token
    <3> QED
      BY <1>7, <3>2 DEF Hiding
  <2>3. \A q \in Hiding(text) : q[2] = i => q = p
    BY <1>3, <2>1, OneStart
  <2>4. \A q \in Hiding(text) : q[1] # i
    BY <1>3, <1>7 DEF token
  <2>5. now = before \ {p} /\ p \in before
    BY <1>4, <1>5, <2>1, <2>2, <2>3, <2>4
  <2>6. Cardinality(now) = Cardinality(before) - 1 /\ Cardinality(before) > 0
    <3>1. Cardinality(now) = Cardinality(before) - 1
      BY <1>2, <2>5, FS_RemoveElement
    <3> QED
      BY <1>2, <3>1
  <2> QED
    BY <1>7, <2>6, DeeperCases DEF now, before, token
<1>8. CASE ~(token.kind \in {"start", "end"} /\ token.tag \in IgnoredContainer)
  <2>1. \A q \in Hiding(text) : q[1] # i /\ q[2] # i
    BY <1>3, <1>8 DEF token
  <2>2. now = before
    BY <1>4, <1>5, <2>1
  <2> QED
    BY <1>8, <2>2, DeeperCases DEF now, before, token
<1> QED
  BY <1>6, <1>7, <1>8

DepthIn(text, f, i) == IF i = 0 THEN 0 ELSE Deeper(f[i - 1], text[i])

(* _html_to_markdown keeps what stands outside the invisible containers.   *)
LEMMA MarkdownIs ==
    ASSUME NEW text \in Seq(Tokens), Nests(text)
    PROVE  ToSet(Markdown(text)) = Visible(text)
<1> DEFINE n == Len(text)
           g == CHOOSE g : g = [i \in 0..n |-> DepthIn(text, g, i)]
           f == [i \in 0..n |-> Cardinality(Open(text, i))]
           kept == {i \in 1..n : text[i].kind = "data" /\ g[i] = 0}
<1>1. n \in Nat /\ DOMAIN text = 1..n /\ \A i \in 1..n : text[i] \in Tokens
  OBVIOUS
<1>2. Markdown(text) = Ascending(kept)
  BY Zenon DEF Markdown, DepthIn
<1>3. f = [i \in 0..n |-> DepthIn(text, f, i)]
  <2>1. ASSUME NEW i \in 0..n PROVE Cardinality(Open(text, i)) = DepthIn(text, f, i)
    <3>1. CASE i = 0
      <4>1. Open(text, 0) = {}
        BY PairIs DEF Open, Hiding
      <4> QED
        BY <3>1, <4>1, FS_EmptySet DEF DepthIn
    <3>2. CASE i # 0
      <4>1. i \in 1..n /\ i - 1 \in 0..n
        BY <3>2
      <4>2. Cardinality(Open(text, i)) = Deeper(Cardinality(Open(text, i - 1)), text[i])
        BY <4>1, DepthSteps
      <4> QED
        BY <3>2, <4>1, <4>2, Zenon DEF DepthIn
    <3> QED
      BY <3>1, <3>2
  <2> QED
    BY <2>1, Zenon
<1> HIDE DEF n, f
<1>4. g = [i \in 0..n |-> DepthIn(text, g, i)]
  BY ONLY <1>3, Zenon
<1> HIDE DEF g
<1> DEFINE T == {i \in 0..n : f[i] = g[i]}
<1>5. 0 \in T
  <2>1. 0 \in 0..n
    BY <1>1
  <2>2. f[0] = DepthIn(text, f, 0) /\ g[0] = DepthIn(text, g, 0)
    BY <1>3, <1>4, <2>1, Zenon
  <2> QED
    BY <2>1, <2>2 DEF DepthIn
<1>6. ASSUME NEW i \in 1..n, i - 1 \in T PROVE i \in T
  <2>1. i \in 0..n /\ i # 0 /\ f[i - 1] = g[i - 1]
    BY <1>1, <1>6
  <2>2. f[i] = DepthIn(text, f, i) /\ g[i] = DepthIn(text, g, i)
    BY <1>3, <1>4, <2>1, Zenon
  <2>3. DepthIn(text, f, i) = DepthIn(text, g, i)
    BY <2>1, Zenon DEF DepthIn
  <2> QED
    BY <2>1, <2>2, <2>3
<1>7. \A i \in 0..n : f[i] = g[i]
  <2>1. \A i \in 0..n : i \in T
    <3> HIDE DEF T
    <3> QED
      BY <1>1, <1>5, <1>6, Upward
  <2> QED
    BY <2>1
<1>8. \A i \in 1..n : g[i] = Cardinality(Open(text, i))
  <2>1. \A i \in 1..n : i \in 0..n
    BY <1>1
  <2> QED
    BY <1>7, <2>1, Zenon DEF f
<1>9. kept = Visible(text)
  <2>1. ASSUME NEW i \in 1..n, text[i].kind = "data"
        PROVE  g[i] = 0 <=> ~\E p \in Hiding(text) : p[1] < i /\ i < p[2]
    <3>1. g[i] = 0 <=> Open(text, i) = {}
      BY <1>8, OpenFinite, FS_EmptySet
    <3>2. \A p \in Hiding(text) : p[1] # i /\ p[1] \in Nat
      <4>1. ASSUME NEW p \in Hiding(text), p[1] = i PROVE FALSE
        <5>1. text[i] = Start(text[i].tag)
          BY <4>1, PairIs DEF Hiding
        <5> QED
          BY <2>1, <5>1 DEF Start
      <4> QED
        BY <4>1, PairIs DEF Hiding
    <3>3. Open(text, i) = {} <=> ~\E p \in Hiding(text) : p[1] < i /\ i < p[2]
      BY <1>1, <3>2 DEF Open
    <3> QED
      BY <3>1, <3>3
  <2>2. Visible(text) = {k \in 1..n : text[k].kind = "data"
                                      /\ ~\E p \in Hiding(text) : p[1] < k /\ k < p[2]}
    BY <1>1, Zenon DEF Visible, Hiding
  <2> QED
    BY <2>1, <2>2
<1>10. IsFiniteSet(kept) /\ kept \subseteq Nat
  <2>1. IsFiniteSet(1..n) /\ kept \subseteq 1..n
    BY <1>1, FS_Interval
  <2>2. IsFiniteSet(kept)
    BY <2>1, FS_Subset
  <2> QED
    BY <1>1, <2>1, <2>2
<1> HIDE DEF kept
<1> QED
  BY <1>2, <1>9, <1>10, AscendingIs

-----------------------------------------------------------------------------
(* MailSearch: the recursive functions of the trees, and their words       *)
(* and their meaning.                                                      *)

IsAnd(c) == Has(c, "and") /\ ~Has(c, "or") /\ ~Has(c, "not")
IsOr(c)  == ~Has(c, "and") /\ Has(c, "or") /\ ~Has(c, "not")
IsNot(c) == ~Has(c, "and") /\ ~Has(c, "or") /\ Has(c, "not")
IsLeaf(c) == ~Has(c, "and") /\ ~Has(c, "or") /\ ~Has(c, "not")

LEMMA Shapes == \A c \in Tree : IsAnd(c) \/ IsOr(c) \/ IsNot(c) \/ IsLeaf(c)
BY SearchAssumption DEF Has, IsAnd, IsOr, IsNot, IsLeaf

LEMMA PartsOf ==
    /\ \A c : IsAnd(c) => Parts(c) = {c.and[i] : i \in DOMAIN c.and}
    /\ \A c : IsOr(c) => Parts(c) = {c.or[i] : i \in DOMAIN c.or}
    /\ \A c : IsNot(c) => Parts(c) = {c.not}
BY Zenon DEF Parts, IsAnd, IsOr, IsNot, ToSet

AndFormed(c, f) == c.and # << >> /\ \A i \in DOMAIN c.and : f[c.and[i]]
OrFormed(c, f)  == Len(c.or) = 2 /\ \A i \in DOMAIN c.or : f[c.or[i]]
LeafFormed(c)   == c.type \in Criterion

WellFormedIn(c, f) ==
    CASE Has(c, "and") -> AndFormed(c, f)
      [] Has(c, "or")  -> OrFormed(c, f)
      [] Has(c, "not") -> f[c.not]
      [] OTHER         -> LeafFormed(c)

LEMMA WellFormedCases ==
    ASSUME NEW c, NEW f
    PROVE  /\ IsAnd(c) => WellFormedIn(c, f) = AndFormed(c, f)
           /\ IsOr(c) => WellFormedIn(c, f) = OrFormed(c, f)
           /\ IsNot(c) => WellFormedIn(c, f) = f[c.not]
           /\ IsLeaf(c) => WellFormedIn(c, f) = LeafFormed(c)
BY Zenon DEF WellFormedIn, IsAnd, IsOr, IsNot, IsLeaf

LEMMA FormedBoolean ==
    \A c, f : /\ AndFormed(c, f) \in BOOLEAN
              /\ OrFormed(c, f) \in BOOLEAN
              /\ LeafFormed(c) \in BOOLEAN
BY DEF AndFormed, OrFormed, LeafFormed

LEMMA TreeParts ==
    ASSUME NEW c \in Tree
    PROVE  /\ Nesting[c] \in Nat
           /\ IsAnd(c) => /\ c.and \in Seq(Tree)
                          /\ \A i \in DOMAIN c.and : /\ c.and[i] \in Tree
                                                     /\ Nesting[c.and[i]] < Nesting[c]
           /\ IsOr(c) => /\ c.or \in Seq(Tree)
                         /\ \A i \in DOMAIN c.or : /\ c.or[i] \in Tree
                                                   /\ Nesting[c.or[i]] < Nesting[c]
           /\ IsNot(c) => c.not \in Tree /\ Nesting[c.not] < Nesting[c]
BY SearchAssumption, PartsOf DEF IsAnd, IsOr

Depths == [c \in Tree |-> Nesting[c]]

LEMMA DepthsAre == Depths \in [Tree -> Nat] /\ \A c \in Tree : Depths[c] = Nesting[c]
BY TreeParts DEF Depths

LEMMA WellFormedLocal ==
    ASSUME NEW c \in Tree, NEW f, NEW g,
           \A d \in Tree : Depths[d] < Depths[c] => f[d] = g[d]
    PROVE  WellFormedIn(c, f) = WellFormedIn(c, g)
<1>1. CASE IsAnd(c)
  <2>1. \A i \in DOMAIN c.and : f[c.and[i]] = g[c.and[i]]
    BY <1>1, TreeParts, DepthsAre
  <2>2. AndFormed(c, f) = AndFormed(c, g)
    BY <2>1, Zenon DEF AndFormed
  <2> QED
    BY <1>1, <2>2, WellFormedCases, Zenon
<1>2. CASE IsOr(c)
  <2>1. \A i \in DOMAIN c.or : f[c.or[i]] = g[c.or[i]]
    BY <1>2, TreeParts, DepthsAre
  <2>2. OrFormed(c, f) = OrFormed(c, g)
    BY <2>1, Zenon DEF OrFormed
  <2> QED
    BY <1>2, <2>2, WellFormedCases, Zenon
<1>3. CASE IsNot(c)
  <2>1. f[c.not] = g[c.not]
    BY <1>3, TreeParts, DepthsAre
  <2> QED
    BY <1>3, <2>1, WellFormedCases, Zenon
<1>4. CASE IsLeaf(c)
  BY <1>4, WellFormedCases, Zenon
<1> QED
  BY <1>1, <1>2, <1>3, <1>4, Shapes

LEMMA WellFormedIs ==
    /\ WellFormed \in [Tree -> BOOLEAN]
    /\ \A c \in Tree : WellFormed[c] = WellFormedIn(c, WellFormed)
<1> DEFINE range == [c \in Tree |-> BOOLEAN]
           step == [x \in Tree \X Typed(Tree, range) |-> WellFormedIn(x[1], x[2])]
<1>1. WellFormed = CHOOSE f : f = [c \in Tree |-> WellFormedIn(c, f)]
  BY Zenon DEF WellFormed, WellFormedIn, AndFormed, OrFormed, LeafFormed
<1>2. \A c \in Tree : \A f \in Typed(Tree, range) :
        /\ \A d \in Tree : f[d] \in BOOLEAN
        /\ step[<<c, f>>] = WellFormedIn(c, f)
  BY DEF Typed
<1>3. Local(Tree, range, Depths, step)
  BY <1>2, WellFormedLocal DEF Local, Agree
<1>4. ASSUME NEW c \in Tree, NEW f \in Typed(Tree, range) PROVE step[<<c, f>>] \in range[c]
  <2>1. IsNot(c) => f[c.not] \in BOOLEAN
    BY <1>2, TreeParts
  <2>2. WellFormedIn(c, f) \in BOOLEAN
    BY <2>1, Shapes, WellFormedCases, FormedBoolean
  <2> QED
    BY <1>2, <2>2
<1>5. PICK f \in Typed(Tree, range) : \A c \in Tree : f[c] = step[<<c, f>>]
  <2>1. \A c \in Tree : range[c] # {}
    OBVIOUS
  <2> HIDE DEF range, step
  <2> QED
    BY <1>3, <1>4, <2>1, DepthsAre, Recursion
<1>6. f = [c \in Tree |-> WellFormedIn(c, f)]
  BY <1>2, <1>5 DEF Typed
<1>7. WellFormed = [c \in Tree |-> WellFormedIn(c, WellFormed)]
  <2> HIDE DEF range, step
  <2> QED
    BY ONLY <1>1, <1>6, Zenon
<1>8. \A c \in Tree : f[c] = WellFormed[c]
  <2> HIDE DEF range, step
  <2>1. \A c \in Tree : f[c] = WellFormedIn(c, f) /\ WellFormed[c] = WellFormedIn(c, WellFormed)
    BY <1>6, <1>7, Zenon
  <2> QED
    BY <2>1, DepthsAre, WellFormedLocal, SameFunction
<1>9. WellFormed \in [Tree -> BOOLEAN]
  BY <1>2, <1>7, <1>8
<1> QED
  BY <1>7, <1>9

(* Induction over the trees.                                               *)
LEMMA TreeInduction ==
    ASSUME NEW T, \A c \in Tree : (\A d \in Tree : Nesting[d] < Nesting[c] => d \in T) => c \in T
    PROVE  \A c \in Tree : c \in T
<1> DEFINE D == {Nesting[c] : c \in {c \in Tree : c \notin T}}
<1> SUFFICES ASSUME D # {} PROVE FALSE
  OBVIOUS
<1>0. D \subseteq Nat
  BY TreeParts
<1>1. PICK n \in D : \A m \in D : n <= m
  <2> HIDE DEF D
  <2> QED
    BY <1>0, LeastNatural
<1>2. PICK c \in Tree : Nesting[c] = n /\ c \notin T
  BY <1>1
<1>3. ASSUME NEW d \in Tree, Nesting[d] < Nesting[c], d \notin T PROVE FALSE
  <2>1. Nesting[d] \in D /\ Nesting[d] \in Nat /\ Nesting[c] \in Nat
    BY <1>3, TreeParts
  <2>2. Nesting[c] <= Nesting[d]
    BY <1>1, <1>2, <2>1
  <2> QED
    BY <1>3, <2>1, <2>2
<1> QED
  BY <1>2, <1>3

LEMMA FormedParts ==
    ASSUME NEW c \in Tree, WellFormed[c]
    PROVE  /\ IsAnd(c) => /\ c.and \in Seq(Tree) /\ c.and # << >>
                          /\ \A i \in DOMAIN c.and : /\ c.and[i] \in Tree
                                                     /\ WellFormed[c.and[i]]
                                                     /\ Nesting[c.and[i]] < Nesting[c]
           /\ IsOr(c) => /\ DOMAIN c.or = 1..2
                         /\ \A i \in 1..2 : /\ c.or[i] \in Tree
                                            /\ WellFormed[c.or[i]]
                                            /\ Nesting[c.or[i]] < Nesting[c]
           /\ IsNot(c) => c.not \in Tree /\ WellFormed[c.not] /\ Nesting[c.not] < Nesting[c]
           /\ IsLeaf(c) => c.type \in Criterion
<1>1. /\ IsAnd(c) => AndFormed(c, WellFormed)
      /\ IsOr(c) => OrFormed(c, WellFormed)
      /\ IsNot(c) => WellFormed[c.not]
      /\ IsLeaf(c) => LeafFormed(c)
  BY WellFormedIs, WellFormedCases, Zenon
<1>2. IsOr(c) => DOMAIN c.or = 1..2
  BY <1>1, TreeParts DEF OrFormed
<1> QED
  BY <1>1, <1>2, TreeParts DEF AndFormed, OrFormed, LeafFormed

(* The words a search is spelled with.                                     *)
Word == Criterion \cup {"OR", "NOT", "(", ")", "value"}

LEMMA GroupIs ==
    ASSUME NEW s \in Seq(Word)
    PROVE  /\ Group(s) \in Seq(Word)
           /\ Len(s) = 1 => Group(s) = s
           /\ Len(s) # 1 => Group(s) = <<"(">> \o s \o <<")">>
           /\ s # << >> => Len(Group(s)) \in Nat \ {0}
<1>1. <<"(">> \in Seq(Word) /\ <<")">> \in Seq(Word)
  BY DEF Word
<1> HIDE DEF Word
<1>2. CASE Len(s) = 1
  BY <1>2 DEF Group
<1>3. CASE Len(s) # 1
  <2>1. Group(s) = <<"(">> \o s \o <<")">>
    BY <1>3 DEF Group
  <2>2. <<"(">> \o s \o <<")">> \in Seq(Word)
    BY <1>1
  <2>3. Len(<<"(">> \o s \o <<")">>) = Len(s) + 2
    BY <1>1
  <2> QED
    BY <1>3, <2>1, <2>2, <2>3
<1> QED
  BY <1>2, <1>3

AndWords(c, f) == FlattenSeq([i \in DOMAIN c.and |-> f[c.and[i]]])
OrWords(c, f)  == <<"OR">> \o Group(f[c.or[1]]) \o Group(f[c.or[2]])
NotWords(c, f) == <<"NOT">> \o Group(f[c.not])
LeafWords(c)   == IF c.type \in Flags THEN <<c.type>> ELSE <<c.type, "value">>

CompileIn(c, f) ==
    IF ~WellFormed[c] THEN << >>
    ELSE CASE Has(c, "and") -> AndWords(c, f)
           [] Has(c, "or")  -> OrWords(c, f)
           [] Has(c, "not") -> NotWords(c, f)
           [] OTHER         -> LeafWords(c)

LEMMA CompileCases ==
    ASSUME NEW c, NEW f
    PROVE  /\ ~WellFormed[c] => CompileIn(c, f) = << >>
           /\ WellFormed[c] /\ IsAnd(c) => CompileIn(c, f) = AndWords(c, f)
           /\ WellFormed[c] /\ IsOr(c) => CompileIn(c, f) = OrWords(c, f)
           /\ WellFormed[c] /\ IsNot(c) => CompileIn(c, f) = NotWords(c, f)
           /\ WellFormed[c] /\ IsLeaf(c) => CompileIn(c, f) = LeafWords(c)
BY Zenon DEF CompileIn, IsAnd, IsOr, IsNot, IsLeaf

LEMMA CompileLocal ==
    ASSUME NEW c \in Tree, NEW f, NEW g,
           \A d \in Tree : Depths[d] < Depths[c] => f[d] = g[d]
    PROVE  CompileIn(c, f) = CompileIn(c, g)
<1>0. CASE ~WellFormed[c]
  BY <1>0, CompileCases, Zenon
<1> SUFFICES ASSUME WellFormed[c] PROVE CompileIn(c, f) = CompileIn(c, g)
  BY <1>0
<1>1. CASE IsAnd(c)
  <2>1. \A i \in DOMAIN c.and : f[c.and[i]] = g[c.and[i]]
    BY <1>1, FormedParts, DepthsAre
  <2>2. [i \in DOMAIN c.and |-> f[c.and[i]]] = [i \in DOMAIN c.and |-> g[c.and[i]]]
    BY <2>1
  <2>3. AndWords(c, f) = AndWords(c, g)
    BY <2>2, Zenon DEF AndWords
  <2> QED
    BY <1>1, <2>3, CompileCases, Zenon
<1>2. CASE IsOr(c)
  <2>1. f[c.or[1]] = g[c.or[1]] /\ f[c.or[2]] = g[c.or[2]]
    BY <1>2, FormedParts, DepthsAre
  <2>2. OrWords(c, f) = OrWords(c, g)
    BY <2>1, Zenon DEF OrWords
  <2> QED
    BY <1>2, <2>2, CompileCases, Zenon
<1>3. CASE IsNot(c)
  <2>1. f[c.not] = g[c.not]
    BY <1>3, FormedParts, DepthsAre
  <2> QED
    BY <1>3, <2>1, CompileCases, Zenon DEF NotWords
<1>4. CASE IsLeaf(c)
  BY <1>4, CompileCases, Zenon
<1> QED
  BY <1>1, <1>2, <1>3, <1>4, Shapes

LEMMA CompileTyped ==
    ASSUME NEW c \in Tree, NEW f, \A d \in Tree : f[d] \in Seq(Word)
    PROVE  CompileIn(c, f) \in Seq(Word)
<1>0. CASE ~WellFormed[c]
  BY <1>0, CompileCases, EmptySeq
<1> SUFFICES ASSUME WellFormed[c] PROVE CompileIn(c, f) \in Seq(Word)
  BY <1>0
<1>1. CASE IsAnd(c)
  <2> DEFINE words == [i \in DOMAIN c.and |-> f[c.and[i]]]
  <2>1. words \in Seq(Seq(Word))
    <3>1. c.and \in Seq(Tree) /\ \A i \in DOMAIN c.and : f[c.and[i]] \in Seq(Word)
      BY <1>1, FormedParts
    <3>2. DOMAIN c.and = 1..Len(c.and) /\ Len(c.and) \in Nat
      BY <3>1
    <3> QED
      BY <3>1, <3>2
  <2>2. FlattenSeq(words) \in Seq(Word)
    <3> HIDE DEF words, Word
    <3> QED
      BY <2>1, FlattenAppend, EmptySeq
  <2> QED
    BY <1>1, <2>2, CompileCases, Zenon DEF AndWords
<1>2. CASE IsOr(c)
  <2>1. Group(f[c.or[1]]) \in Seq(Word) /\ Group(f[c.or[2]]) \in Seq(Word)
    BY <1>2, FormedParts, GroupIs
  <2>2. <<"OR">> \in Seq(Word)
    BY DEF Word
  <2>3. OrWords(c, f) \in Seq(Word)
    BY <2>1, <2>2, ConcatProperties, Zenon DEF OrWords
  <2> QED
    BY <1>2, <2>3, CompileCases, Zenon
<1>3. CASE IsNot(c)
  <2>1. Group(f[c.not]) \in Seq(Word)
    BY <1>3, FormedParts, GroupIs
  <2>2. <<"NOT">> \in Seq(Word)
    BY DEF Word
  <2>3. NotWords(c, f) \in Seq(Word)
    BY <2>1, <2>2, ConcatProperties, Zenon DEF NotWords
  <2> QED
    BY <1>3, <2>3, CompileCases, Zenon
<1>4. CASE IsLeaf(c)
  <2>1. c.type \in Criterion
    BY <1>4, FormedParts
  <2>2. LeafWords(c) \in Seq(Word)
    <3> DEFINE word == c.type
    <3>1. word \in Word /\ "value" \in Word
      BY <2>1 DEF Word
    <3> HIDE DEF word, Word
    <3>2. <<word>> \in Seq(Word) /\ <<word, "value">> \in Seq(Word)
      BY <3>1
    <3> QED
      BY <3>2 DEF LeafWords, word
  <2> QED
    BY <1>4, <2>2, CompileCases, Zenon
<1> QED
  BY <1>1, <1>2, <1>3, <1>4, Shapes

LEMMA CompileIs ==
    /\ Compile \in [Tree -> Seq(Word)]
    /\ \A c \in Tree : Compile[c] = CompileIn(c, Compile)
<1> DEFINE range == [c \in Tree |-> Seq(Word)]
           step == [x \in Tree \X Typed(Tree, range) |-> CompileIn(x[1], x[2])]
<1>1. Compile = CHOOSE f : f = [c \in Tree |-> CompileIn(c, f)]
  BY Zenon DEF Compile, CompileIn, AndWords, OrWords, NotWords, LeafWords
<1>2. \A c \in Tree : \A f \in Typed(Tree, range) :
        /\ \A d \in Tree : f[d] \in Seq(Word)
        /\ step[<<c, f>>] = CompileIn(c, f)
  BY DEF Typed
<1>3. Local(Tree, range, Depths, step)
  BY <1>2, CompileLocal DEF Local, Agree
<1>4. ASSUME NEW c \in Tree, NEW f \in Typed(Tree, range) PROVE step[<<c, f>>] \in range[c]
  BY <1>2, CompileTyped
<1>5. PICK f \in Typed(Tree, range) : \A c \in Tree : f[c] = step[<<c, f>>]
  <2>1. \A c \in Tree : range[c] # {}
    BY EmptySeq
  <2> HIDE DEF range, step
  <2> QED
    BY <1>3, <1>4, <2>1, DepthsAre, Recursion
<1>6. f = [c \in Tree |-> CompileIn(c, f)]
  BY <1>2, <1>5 DEF Typed
<1>7. Compile = [c \in Tree |-> CompileIn(c, Compile)]
  <2> HIDE DEF range, step
  <2> QED
    BY ONLY <1>1, <1>6, Zenon
<1>8. \A c \in Tree : f[c] = Compile[c]
  <2> HIDE DEF range, step
  <2>1. \A c \in Tree : f[c] = CompileIn(c, f) /\ Compile[c] = CompileIn(c, Compile)
    BY <1>6, <1>7, Zenon
  <2> QED
    BY <2>1, DepthsAre, CompileLocal, SameFunction
<1>9. Compile \in [Tree -> Seq(Word)]
  BY <1>2, <1>7, <1>8
<1> QED
  BY <1>7, <1>9

MeantByAnd(c, uids, f) == {u \in uids : \A i \in DOMAIN c.and : u \in f[c.and[i]]}
MeantByOr(c, f)        == UNION {f[c.or[i]] : i \in DOMAIN c.or}
MeantByNot(c, uids, f) == uids \ f[c.not]
MeantByLeaf(c, uids)   == uids \cap Trait[c.type]

MeantIn(c, uids, f) ==
    CASE Has(c, "and") -> MeantByAnd(c, uids, f)
      [] Has(c, "or")  -> MeantByOr(c, f)
      [] Has(c, "not") -> MeantByNot(c, uids, f)
      [] OTHER         -> MeantByLeaf(c, uids)

LEMMA MeantCases ==
    ASSUME NEW c, NEW uids, NEW f
    PROVE  /\ IsAnd(c) => MeantIn(c, uids, f) = MeantByAnd(c, uids, f)
           /\ IsOr(c) => MeantIn(c, uids, f) = MeantByOr(c, f)
           /\ IsNot(c) => MeantIn(c, uids, f) = MeantByNot(c, uids, f)
           /\ IsLeaf(c) => MeantIn(c, uids, f) = MeantByLeaf(c, uids)
BY Zenon DEF MeantIn, IsAnd, IsOr, IsNot, IsLeaf

LEMMA MeantLocal ==
    ASSUME NEW c \in Tree, NEW uids, NEW f, NEW g,
           \A d \in Tree : Depths[d] < Depths[c] => f[d] = g[d]
    PROVE  MeantIn(c, uids, f) = MeantIn(c, uids, g)
<1>1. CASE IsAnd(c)
  <2>1. \A i \in DOMAIN c.and : f[c.and[i]] = g[c.and[i]]
    BY <1>1, TreeParts, DepthsAre
  <2>2. MeantByAnd(c, uids, f) = MeantByAnd(c, uids, g)
    BY <2>1 DEF MeantByAnd
  <2> QED
    BY <1>1, <2>2, MeantCases, Zenon
<1>2. CASE IsOr(c)
  <2>1. \A i \in DOMAIN c.or : f[c.or[i]] = g[c.or[i]]
    BY <1>2, TreeParts, DepthsAre
  <2>2. MeantByOr(c, f) = MeantByOr(c, g)
    BY <2>1 DEF MeantByOr
  <2> QED
    BY <1>2, <2>2, MeantCases, Zenon
<1>3. CASE IsNot(c)
  <2>1. f[c.not] = g[c.not]
    BY <1>3, TreeParts, DepthsAre
  <2>2. MeantByNot(c, uids, f) = MeantByNot(c, uids, g)
    BY <2>1, Zenon DEF MeantByNot
  <2> QED
    BY <1>3, <2>2, MeantCases, Zenon
<1>4. CASE IsLeaf(c)
  BY <1>4, MeantCases, Zenon
<1> QED
  BY <1>1, <1>2, <1>3, <1>4, Shapes

LEMMA MeantTyped ==
    ASSUME NEW c \in Tree, NEW uids, NEW f, \A d \in Tree : f[d] \in SUBSET uids
    PROVE  MeantIn(c, uids, f) \in SUBSET uids
<1>1. IsAnd(c) => MeantByAnd(c, uids, f) \subseteq uids
  BY DEF MeantByAnd
<1>2. IsOr(c) => MeantByOr(c, f) \subseteq uids
  BY TreeParts DEF MeantByOr
<1>3. MeantByNot(c, uids, f) \subseteq uids /\ MeantByLeaf(c, uids) \subseteq uids
  BY DEF MeantByNot, MeantByLeaf
<1> QED
  BY <1>1, <1>2, <1>3, Shapes, MeantCases

LEMMA MeaningIs ==
    ASSUME NEW uids
    PROVE  \E f \in [Tree -> SUBSET uids] :
               \A c \in Tree : Meaning(c, uids) = f[c] /\ f[c] = MeantIn(c, uids, f)
<1> DEFINE range == [c \in Tree |-> SUBSET uids]
           step == [x \in Tree \X Typed(Tree, range) |-> MeantIn(x[1], uids, x[2])]
           meant == CHOOSE f : f = [c \in Tree |-> MeantIn(c, uids, f)]
<1>1. ASSUME NEW c \in Tree PROVE Meaning(c, uids) = meant[c]
  BY Zenon DEF Meaning, MeantIn, MeantByAnd, MeantByOr, MeantByNot, MeantByLeaf
<1>2. \A c \in Tree : \A f \in Typed(Tree, range) :
        /\ \A d \in Tree : f[d] \in SUBSET uids
        /\ step[<<c, f>>] = MeantIn(c, uids, f)
  BY DEF Typed
<1>3. Local(Tree, range, Depths, step)
  <2>1. ASSUME NEW c \in Tree, NEW f \in Typed(Tree, range), NEW g \in Typed(Tree, range),
               Agree(Tree, Depths, Depths[c], f, g)
        PROVE  step[<<c, f>>] = step[<<c, g>>]
    <3> HIDE DEF range, step
    <3>1. MeantIn(c, uids, f) = MeantIn(c, uids, g)
      BY <2>1, MeantLocal DEF Agree
    <3> QED
      BY <1>2, <3>1
  <2> HIDE DEF range, step
  <2> QED
    BY <2>1 DEF Local
<1>4. ASSUME NEW c \in Tree, NEW f \in Typed(Tree, range) PROVE step[<<c, f>>] \in range[c]
  BY <1>2, MeantTyped
<1>5. PICK f \in Typed(Tree, range) : \A c \in Tree : f[c] = step[<<c, f>>]
  <2>1. \A c \in Tree : range[c] # {}
    OBVIOUS
  <2> HIDE DEF range, step
  <2> QED
    BY <1>3, <1>4, <2>1, DepthsAre, Recursion
<1>6. f = [c \in Tree |-> MeantIn(c, uids, f)]
  BY <1>2, <1>5 DEF Typed
<1>7. meant = [c \in Tree |-> MeantIn(c, uids, meant)]
  <2> HIDE DEF range, step
  <2> QED
    BY ONLY <1>6, Zenon
<1> HIDE DEF meant
<1>8. \A c \in Tree : f[c] = meant[c]
  <2> HIDE DEF range, step
  <2>1. \A c \in Tree : f[c] = MeantIn(c, uids, f) /\ meant[c] = MeantIn(c, uids, meant)
    BY <1>6, <1>7, Zenon
  <2> QED
    BY <2>1, DepthsAre, MeantLocal, SameFunction
<1>9. f \in [Tree -> SUBSET uids]
  BY <1>2, <1>6
<1>10. \A c \in Tree : f[c] = MeantIn(c, uids, f)
  BY <1>6, Zenon
<1> QED
  BY <1>1, <1>8, <1>9, <1>10, Zenon

(* What a tree means, by its kind.                                         *)
LEMMA MeaningCases ==
    ASSUME NEW c \in Tree, NEW uids
    PROVE  /\ Meaning(c, uids) \subseteq uids
           /\ IsAnd(c) => Meaning(c, uids) =
                {u \in uids : \A i \in DOMAIN c.and : u \in Meaning(c.and[i], uids)}
           /\ IsOr(c) => Meaning(c, uids) =
                UNION {Meaning(c.or[i], uids) : i \in DOMAIN c.or}
           /\ IsNot(c) => Meaning(c, uids) = uids \ Meaning(c.not, uids)
           /\ IsLeaf(c) => Meaning(c, uids) = uids \cap Trait[c.type]
<1>1. PICK f \in [Tree -> SUBSET uids] :
        \A d \in Tree : Meaning(d, uids) = f[d] /\ f[d] = MeantIn(d, uids, f)
  BY MeaningIs
<1>2. Meaning(c, uids) = MeantIn(c, uids, f) /\ Meaning(c, uids) \subseteq uids
  BY <1>1
<1>3. CASE IsAnd(c)
  <2>1. \A i \in DOMAIN c.and : f[c.and[i]] = Meaning(c.and[i], uids)
    BY <1>1, <1>3, TreeParts
  <2>2. MeantByAnd(c, uids, f) =
            {u \in uids : \A i \in DOMAIN c.and : u \in Meaning(c.and[i], uids)}
    BY <2>1 DEF MeantByAnd
  <2>3. Meaning(c, uids) = MeantByAnd(c, uids, f)
    BY <1>2, <1>3, MeantCases, Zenon
  <2> QED
    BY <1>2, <1>3, <2>2, <2>3, Zenon DEF IsAnd, IsOr, IsNot, IsLeaf
<1>4. CASE IsOr(c)
  <2>1. \A i \in DOMAIN c.or : f[c.or[i]] = Meaning(c.or[i], uids)
    BY <1>1, <1>4, TreeParts
  <2>2. MeantByOr(c, f) = UNION {Meaning(c.or[i], uids) : i \in DOMAIN c.or}
    BY <2>1 DEF MeantByOr
  <2>3. Meaning(c, uids) = MeantByOr(c, f)
    BY <1>2, <1>4, MeantCases, Zenon
  <2> QED
    BY <1>2, <1>4, <2>2, <2>3, Zenon DEF IsAnd, IsOr, IsNot, IsLeaf
<1>5. CASE IsNot(c)
  <2>1. f[c.not] = Meaning(c.not, uids)
    BY <1>1, <1>5, TreeParts
  <2>3. Meaning(c, uids) = MeantByNot(c, uids, f)
    BY <1>2, <1>5, MeantCases, Zenon
  <2> QED
    BY <1>2, <1>5, <2>1, <2>3, Zenon DEF IsAnd, IsOr, IsNot, IsLeaf, MeantByNot
<1>6. CASE IsLeaf(c)
  <2>3. Meaning(c, uids) = MeantByLeaf(c, uids)
    BY <1>2, <1>6, MeantCases, Zenon
  <2> QED
    BY <1>2, <1>6, <2>3, Zenon DEF IsAnd, IsOr, IsNot, IsLeaf, MeantByLeaf
<1> QED
  BY <1>3, <1>4, <1>5, <1>6, Shapes

-----------------------------------------------------------------------------
(* MailSearch: the server reads word by word, and comes to an end.         *)

LEMMA Signs4 == /\ "OR" # "NOT" /\ "OR" # "(" /\ "OR" # ")"
                /\ "NOT" # "(" /\ "NOT" # ")" /\ "(" # ")" /\ "key" # "keys"
OBVIOUS

(* What the server reads of the words, word by word.                       *)
Either(first, second) == Found(first.uids \cup second.uids, second.next)
Neither(uids, key)    == Found(uids \ key.uids, key.next)
Together(key, rest)   == Found(key.uids \cap rest.uids, rest.next)

LEMMA FoundIs ==
    /\ \A set, next : Found(set, next).uids = set /\ Found(set, next).next = next
    /\ \A a, b : Either(a, b).uids = a.uids \cup b.uids /\ Either(a, b).next = b.next
    /\ \A uids, a : Neither(uids, a).uids = uids \ a.uids /\ Neither(uids, a).next = a.next
    /\ \A a, b : Together(a, b).uids = a.uids \cap b.uids /\ Together(a, b).next = b.next
BY DEF Found, Either, Neither, Together

KeyAt(f, p)  == f[<<"key", p>>]
KeysAt(f, p) == f[<<"keys", p>>]

ReadsKey(words, uids, p, f) ==
    /\ words[p] = "OR" =>
         ReadKey(words, uids, p, f) = Either(KeyAt(f, p + 1), KeyAt(f, KeyAt(f, p + 1).next))
    /\ words[p] = "NOT" => ReadKey(words, uids, p, f) = Neither(uids, KeyAt(f, p + 1))
    /\ words[p] = "(" =>
         ReadKey(words, uids, p, f) = Found(KeysAt(f, p + 1).uids, KeysAt(f, p + 1).next + 1)
    /\ words[p] \notin {"OR", "NOT", "("} =>
         ReadKey(words, uids, p, f) =
             Found(uids \cap Trait[words[p]], IF words[p] \in Flags THEN p + 1 ELSE p + 2)

LEMMA ReadKeyCases == \A words, uids, p, f : ReadsKey(words, uids, p, f)
<1> SUFFICES ASSUME NEW words, NEW uids, NEW p, NEW f PROVE ReadsKey(words, uids, p, f)
  OBVIOUS
<1>1. words[p] = "OR" =>
        ReadKey(words, uids, p, f) =
            Either(KeyAt(f, p + 1), KeyAt(f, KeyAt(f, p + 1).next))
  BY Signs4, Zenon DEF ReadKey, Either, KeyAt
<1>2. words[p] = "NOT" => ReadKey(words, uids, p, f) = Neither(uids, KeyAt(f, p + 1))
  BY Signs4, Zenon DEF ReadKey, Neither, KeyAt
<1>3. words[p] = "(" =>
        ReadKey(words, uids, p, f) = Found(KeysAt(f, p + 1).uids, KeysAt(f, p + 1).next + 1)
  BY Signs4, Zenon DEF ReadKey, KeysAt
<1>4. words[p] \notin {"OR", "NOT", "("} =>
        ReadKey(words, uids, p, f) =
            Found(uids \cap Trait[words[p]], IF words[p] \in Flags THEN p + 1 ELSE p + 2)
  BY Zenon DEF ReadKey
<1> QED
  BY <1>1, <1>2, <1>3, <1>4, Zenon DEF ReadsKey

LEMMA ReadKeysCases ==
    ASSUME NEW words, NEW uids, NEW p, NEW f
    PROVE  /\ words[p] = ")" => ReadKeys(words, uids, p, f) = Found(uids, p)
           /\ words[p] # ")" =>
                ReadKeys(words, uids, p, f) =
                    Together(KeyAt(f, p), KeysAt(f, KeyAt(f, p).next))
BY Zenon DEF ReadKeys, Together, KeyAt, KeysAt

ReadIn(words, uids, at, f) ==
    IF at[2] \notin DOMAIN words THEN Found(uids, at[2])
    ELSE IF at[1] = "key" THEN ReadKey(words, uids, at[2], f)
    ELSE ReadKeys(words, uids, at[2], f)

(* A key takes a word at least, so that reading comes to an end.           *)
Place == {"key", "keys"} \X Nat

Answers(words, uids) ==
    [at \in Place |->
        [uids : SUBSET uids,
         next : {n \in Nat : n >= IF at[1] = "key" /\ at[2] \in DOMAIN words
                                  THEN at[2] + 1 ELSE at[2]}]]

Left(words) ==
    [at \in Place |->
        IF at[2] \in DOMAIN words
        THEN 2 * (Len(words) + 1 - at[2]) + (IF at[1] = "key" THEN 0 ELSE 1)
        ELSE 0]

(* What a function of such answers gives at a place.                       *)
AnswersFit(words, uids, f) ==
    \A p \in Nat : /\ KeyAt(f, p).uids \in SUBSET uids /\ KeysAt(f, p).uids \in SUBSET uids
                   /\ KeyAt(f, p).next \in Nat /\ KeysAt(f, p).next \in Nat
                   /\ KeyAt(f, p).next >= p /\ KeysAt(f, p).next >= p
                   /\ p \in DOMAIN words => KeyAt(f, p).next >= p + 1

LEMMA AnswersGive ==
    ASSUME NEW words, NEW uids, NEW f \in Typed(Place, Answers(words, uids))
    PROVE  AnswersFit(words, uids, f)
<1> SUFFICES ASSUME NEW p \in Nat
    PROVE  /\ KeyAt(f, p).uids \in SUBSET uids /\ KeysAt(f, p).uids \in SUBSET uids
           /\ KeyAt(f, p).next \in Nat /\ KeysAt(f, p).next \in Nat
           /\ KeyAt(f, p).next >= p /\ KeysAt(f, p).next >= p
           /\ p \in DOMAIN words => KeyAt(f, p).next >= p + 1
  BY DEF AnswersFit
<1>1. <<"key", p>> \in Place /\ <<"keys", p>> \in Place
  BY DEF Place
<1>2. /\ f[<<"key", p>>] \in Answers(words, uids)[<<"key", p>>]
      /\ f[<<"keys", p>>] \in Answers(words, uids)[<<"keys", p>>]
  BY <1>1 DEF Typed
<1>3. Answers(words, uids)[<<"keys", p>>] = [uids : SUBSET uids, next : {n \in Nat : n >= p}]
  BY <1>1, Signs4 DEF Answers
<1>4. Answers(words, uids)[<<"key", p>>] =
        [uids : SUBSET uids, next : {n \in Nat : n >= IF p \in DOMAIN words THEN p + 1 ELSE p}]
  BY <1>1 DEF Answers
<1>5. /\ KeyAt(f, p) \in Answers(words, uids)[<<"key", p>>]
      /\ KeysAt(f, p) \in Answers(words, uids)[<<"keys", p>>]
  BY <1>2 DEF KeyAt, KeysAt
<1> QED
  BY <1>3, <1>4, <1>5

LEMMA LeftIs ==
    ASSUME NEW S, NEW words \in Seq(S)
    PROVE  Left(words) \in [Place -> Nat]
<1> DEFINE n == Len(words)
           D == DOMAIN words
<1>1. n \in Nat /\ D = 1..n
  OBVIOUS
<1>2. ASSUME NEW at \in Place, at[2] \in DOMAIN words
      PROVE  2 * (n + 1 - at[2]) \in Nat
  BY <1>1, <1>2
<1> HIDE DEF n
<1>3. \A at \in Place : at[2] \in DOMAIN words => 2 * (n + 1 - at[2]) + 1 \in Nat
  BY <1>2
<1>4. \A at \in Place : at[2] \in DOMAIN words => 2 * (n + 1 - at[2]) + 0 \in Nat
  BY <1>2
<1> QED
  BY <1>3, <1>4 DEF Left, n

LEMMA LeftFalls ==
    ASSUME NEW S, NEW words \in Seq(S), NEW p \in DOMAIN words
    PROVE  /\ Left(words)[<<"key", p>>] < Left(words)[<<"keys", p>>]
           /\ \A q \in Nat : q > p => /\ Left(words)[<<"key", q>>] < Left(words)[<<"key", p>>]
                                      /\ Left(words)[<<"keys", q>>] < Left(words)[<<"key", p>>]
                                      /\ Left(words)[<<"keys", q>>] < Left(words)[<<"keys", p>>]
<1> DEFINE n == Len(words)
           D == DOMAIN words
<1>1. n \in Nat /\ D = 1..n
  OBVIOUS
<1>2. \A q \in Nat : /\ Left(words)[<<"key", q>>] = IF q \in D THEN 2 * (n + 1 - q) + 0 ELSE 0
                     /\ Left(words)[<<"keys", q>>] = IF q \in D THEN 2 * (n + 1 - q) + 1 ELSE 0
  BY Signs4 DEF Left, Place
<1> HIDE DEF n, D
<1>4. p \in 1..n /\ p \in D
  BY <1>1 DEF D
<1>5. Left(words)[<<"key", p>>] = 2 * (n + 1 - p) /\ Left(words)[<<"keys", p>>] = 2 * (n + 1 - p) + 1
  BY <1>1, <1>2, <1>4
<1>6. ASSUME NEW q \in Nat, q > p
      PROVE  /\ Left(words)[<<"key", q>>] < Left(words)[<<"key", p>>]
             /\ Left(words)[<<"keys", q>>] < Left(words)[<<"key", p>>]
             /\ Left(words)[<<"keys", q>>] < Left(words)[<<"keys", p>>]
  <2>1. CASE q \in D
    BY <1>1, <1>2, <1>4, <1>5, <1>6, <2>1
  <2>2. CASE q \notin D
    BY <1>1, <1>2, <1>4, <1>5, <1>6, <2>2
  <2> QED
    BY <2>1, <2>2
<1>7. Left(words)[<<"key", p>>] < Left(words)[<<"keys", p>>]
  BY <1>1, <1>4, <1>5
<1> QED
  BY <1>6, <1>7

LEMMA ReadKeyFits ==
    ASSUME NEW words, NEW uids, NEW p \in Nat, NEW f, AnswersFit(words, uids, f)
    PROVE  \E set \in SUBSET uids, next \in Nat :
               next >= p + 1 /\ ReadKey(words, uids, p, f) = Found(set, next)
<1> DEFINE first == KeyAt(f, p + 1)
           second == KeyAt(f, first.next)
           keys == KeysAt(f, p + 1)
<1>1. p + 1 \in Nat
  OBVIOUS
<1>2. /\ first.uids \in SUBSET uids /\ first.next \in Nat /\ first.next >= p + 1
      /\ keys.uids \in SUBSET uids /\ keys.next \in Nat /\ keys.next >= p + 1
  BY <1>1 DEF AnswersFit
<1>3. second.uids \in SUBSET uids /\ second.next \in Nat /\ second.next >= first.next
  <2> HIDE DEF first
  <2> QED
    BY <1>2 DEF AnswersFit
<1>0. ReadsKey(words, uids, p, f)
  BY ReadKeyCases, Zenon
<1>4. /\ words[p] = "OR" => ReadKey(words, uids, p, f) = Either(first, second)
      /\ words[p] = "NOT" => ReadKey(words, uids, p, f) = Neither(uids, first)
      /\ words[p] = "(" => ReadKey(words, uids, p, f) = Found(keys.uids, keys.next + 1)
  BY <1>0 DEF ReadsKey
<1>5. words[p] \notin {"OR", "NOT", "("} =>
        ReadKey(words, uids, p, f) =
          Found(uids \cap Trait[words[p]], IF words[p] \in Flags THEN p + 1 ELSE p + 2)
  BY <1>0 DEF ReadsKey
<1> HIDE DEF first, second, keys
<1>6. CASE words[p] = "OR"
  <2>1. first.uids \cup second.uids \in SUBSET uids /\ second.next >= p + 1
    BY <1>2, <1>3
  <2>2. ReadKey(words, uids, p, f) = Found(first.uids \cup second.uids, second.next)
    BY <1>4, <1>6 DEF Either
  <2> QED
    BY <1>3, <2>1, <2>2
<1>7. CASE words[p] = "NOT"
  <2>1. uids \ first.uids \in SUBSET uids
    OBVIOUS
  <2>2. ReadKey(words, uids, p, f) = Found(uids \ first.uids, first.next)
    BY <1>4, <1>7 DEF Neither
  <2> QED
    BY <1>2, <2>1, <2>2
<1>8. CASE words[p] = "("
  <2>1. keys.next + 1 \in Nat /\ keys.next + 1 >= p + 1
    BY <1>2
  <2> QED
    BY <1>2, <1>4, <1>8, <2>1
<1>9. CASE words[p] \notin {"OR", "NOT", "("}
  <2> DEFINE next == IF words[p] \in Flags THEN p + 1 ELSE p + 2
             set == uids \cap Trait[words[p]]
  <2>1. next \in Nat /\ next >= p + 1 /\ set \in SUBSET uids
    OBVIOUS
  <2>2. ReadKey(words, uids, p, f) = Found(set, next)
    BY <1>5, <1>9
  <2> HIDE DEF next, set
  <2> QED
    BY <2>1, <2>2
<1> QED
  BY <1>6, <1>7, <1>8, <1>9

LEMMA ReadKeysFits ==
    ASSUME NEW words, NEW uids, NEW p \in Nat, NEW f, AnswersFit(words, uids, f)
    PROVE  \E set \in SUBSET uids, next \in Nat :
               next >= p /\ ReadKeys(words, uids, p, f) = Found(set, next)
<1> DEFINE key == KeyAt(f, p)
           rest == KeysAt(f, key.next)
<1>1. key.uids \in SUBSET uids /\ key.next \in Nat /\ key.next >= p
  BY DEF AnswersFit
<1>2. rest.uids \in SUBSET uids /\ rest.next \in Nat /\ rest.next >= key.next
  <2> HIDE DEF key
  <2> QED
    BY <1>1 DEF AnswersFit
<1>3. /\ words[p] = ")" => ReadKeys(words, uids, p, f) = Found(uids, p)
      /\ words[p] # ")" => ReadKeys(words, uids, p, f) = Together(key, rest)
  BY ReadKeysCases
<1> HIDE DEF key, rest
<1>4. CASE words[p] = ")"
  <2>1. uids \in SUBSET uids /\ p >= p
    OBVIOUS
  <2> QED
    BY <1>3, <1>4, <2>1
<1>5. CASE words[p] # ")"
  <2>1. key.uids \cap rest.uids \in SUBSET uids /\ rest.next >= p
    BY <1>1, <1>2
  <2>2. ReadKeys(words, uids, p, f) = Found(key.uids \cap rest.uids, rest.next)
    BY <1>3, <1>5 DEF Together
  <2> QED
    BY <1>2, <2>1, <2>2
<1> QED
  BY <1>4, <1>5

LEMMA ReadTyped ==
    ASSUME NEW words, NEW uids, NEW at \in Place,
           NEW f \in Typed(Place, Answers(words, uids))
    PROVE  ReadIn(words, uids, at, f) \in Answers(words, uids)[at]
<1> DEFINE p == at[2]
           floor == IF at[1] = "key" /\ p \in DOMAIN words THEN p + 1 ELSE p
<1>1. p \in Nat /\ at[1] \in {"key", "keys"}
  BY DEF Place
<1> HIDE DEF p
<1>0. AnswersFit(words, uids, f)
  BY AnswersGive
<1>2. ASSUME NEW set \in SUBSET uids, NEW next \in Nat, next >= floor
      PROVE  Found(set, next) \in Answers(words, uids)[at]
  <2>1. Found(set, next) \in [uids : SUBSET uids, next : {n \in Nat : n >= floor}]
    BY <1>2 DEF Found
  <2> QED
    BY <2>1 DEF Answers, p
<1>3. CASE p \notin DOMAIN words
  <2>1. ReadIn(words, uids, at, f) = Found(uids, p)
    BY <1>3 DEF ReadIn, p
  <2>2. p >= floor /\ uids \in SUBSET uids
    BY <1>1, <1>3
  <2> QED
    BY <1>1, <1>2, <2>1, <2>2
<1>4. CASE p \in DOMAIN words /\ at[1] = "key"
  <2>1. ReadIn(words, uids, at, f) = ReadKey(words, uids, p, f)
    BY <1>4 DEF ReadIn, p
  <2>2. PICK set \in SUBSET uids, next \in Nat :
            next >= p + 1 /\ ReadKey(words, uids, p, f) = Found(set, next)
    BY <1>0, <1>1, ReadKeyFits
  <2>3. next >= floor
    BY <1>4, <2>2
  <2> QED
    BY <1>2, <2>1, <2>2, <2>3
<1>5. CASE p \in DOMAIN words /\ at[1] # "key"
  <2>1. ReadIn(words, uids, at, f) = ReadKeys(words, uids, p, f)
    BY <1>5 DEF ReadIn, p
  <2>2. PICK set \in SUBSET uids, next \in Nat :
            next >= p /\ ReadKeys(words, uids, p, f) = Found(set, next)
    BY <1>0, <1>1, ReadKeysFits
  <2>3. next >= floor
    BY <1>5, <2>2
  <2> QED
    BY <1>2, <2>1, <2>2, <2>3
<1> QED
  BY <1>3, <1>4, <1>5

LEMMA ReadLocal ==
    ASSUME NEW S, NEW words \in Seq(S), NEW uids, NEW at \in Place,
           NEW f \in Typed(Place, Answers(words, uids)),
           NEW g, Agree(Place, Left(words), Left(words)[at], f, g)
    PROVE  ReadIn(words, uids, at, f) = ReadIn(words, uids, at, g)
<1> DEFINE p == at[2]
<1>1. p \in Nat /\ at = <<at[1], p>> /\ at[1] \in {"key", "keys"}
  BY DEF Place
<1> HIDE DEF p
<1>0. \A q \in Nat : <<"key", q>> \in Place /\ <<"keys", q>> \in Place
  BY DEF Place
<1>6. AnswersFit(words, uids, f)
  BY AnswersGive
<1>7. \A q \in Nat : /\ Left(words)[<<"key", q>>] < Left(words)[at] => KeyAt(f, q) = KeyAt(g, q)
                     /\ Left(words)[<<"keys", q>>] < Left(words)[at] => KeysAt(f, q) = KeysAt(g, q)
  BY <1>0 DEF Agree, KeyAt, KeysAt
<1>2. CASE p \notin DOMAIN words
  BY <1>2 DEF ReadIn, p
<1>3. CASE p \in DOMAIN words /\ at[1] = "key"
  <2>1. \A q \in Nat : q > p => /\ Left(words)[<<"key", q>>] < Left(words)[at]
                                /\ Left(words)[<<"keys", q>>] < Left(words)[at]
    BY <1>1, <1>3, LeftFalls
  <2>2. \A q \in Nat : q > p => KeyAt(f, q) = KeyAt(g, q) /\ KeysAt(f, q) = KeysAt(g, q)
    BY <1>7, <2>1
  <2>3. p + 1 \in Nat /\ p + 1 > p
    BY <1>1
  <2>4. KeyAt(f, p + 1) = KeyAt(g, p + 1) /\ KeysAt(f, p + 1) = KeysAt(g, p + 1)
    BY <2>2, <2>3
  <2>5. KeyAt(f, p + 1).next \in Nat /\ KeyAt(f, p + 1).next >= p + 1
    BY <1>6, <2>3 DEF AnswersFit
  <2>6. KeyAt(f, KeyAt(f, p + 1).next) = KeyAt(g, KeyAt(f, p + 1).next)
    <3>1. KeyAt(f, p + 1).next > p
      BY <1>1, <2>5
    <3> QED
      BY <2>2, <2>5, <3>1
  <2>7. ReadKey(words, uids, p, f) = ReadKey(words, uids, p, g)
    <3>0. ReadsKey(words, uids, p, f) /\ ReadsKey(words, uids, p, g)
      BY ReadKeyCases, Zenon
    <3>1. CASE words[p] = "OR"
      BY <2>4, <2>6, <3>1, <3>0 DEF ReadsKey
    <3>2. CASE words[p] = "NOT"
      BY <2>4, <3>2, <3>0 DEF ReadsKey
    <3>3. CASE words[p] = "("
      BY <2>4, <3>3, <3>0 DEF ReadsKey
    <3>4. CASE words[p] \notin {"OR", "NOT", "("}
      BY <3>4, <3>0 DEF ReadsKey
    <3> QED
      BY <3>1, <3>2, <3>3, <3>4
  <2> QED
    BY <1>3, <2>7 DEF ReadIn, p
<1>4. CASE p \in DOMAIN words /\ at[1] # "key"
  <2>0. at = <<"keys", p>>
    BY <1>1, <1>4
  <2>1. KeyAt(f, p) = KeyAt(g, p)
    BY <1>1, <1>4, <1>7, <2>0, LeftFalls
  <2>2. KeyAt(f, p).next \in Nat /\ KeyAt(f, p).next >= p + 1
    BY <1>1, <1>4, <1>6 DEF AnswersFit
  <2>3. KeysAt(f, KeyAt(f, p).next) = KeysAt(g, KeyAt(f, p).next)
    <3> DEFINE q == KeyAt(f, p).next
    <3>1. q \in Nat /\ q > p
      BY <1>1, <2>2
    <3> HIDE DEF q
    <3>2. Left(words)[<<"keys", q>>] < Left(words)[at]
      BY <1>4, <2>0, <3>1, LeftFalls
    <3>3. KeysAt(f, q) = KeysAt(g, q)
      BY <1>7, <3>1, <3>2
    <3> QED
      BY <3>3 DEF q
  <2>4. ReadKeys(words, uids, p, f) = ReadKeys(words, uids, p, g)
    <3>1. CASE words[p] = ")"
      BY <3>1, ReadKeysCases
    <3>2. CASE words[p] # ")"
      BY <2>1, <2>3, <3>2, ReadKeysCases
    <3> QED
      BY <3>1, <3>2
  <2> QED
    BY <1>4, <2>4 DEF ReadIn, p
<1> QED
  BY <1>2, <1>3, <1>4

Founded(S, range, rank, step) ==
    /\ rank \in [S -> Nat] /\ Local(S, range, rank, step)
    /\ \A s \in S : \A f \in Typed(S, range) : step[<<s, f>>] \in range[s]
    /\ \A s \in S : range[s] # {}

HasSolution(S, range, step) ==
    \E f \in Typed(S, range) : \A s \in S : f[s] = step[<<s, f>>]

LEMMA FoundedSolution ==
    \A S, range, rank, step : Founded(S, range, rank, step) => HasSolution(S, range, step)
<1> SUFFICES ASSUME NEW S, NEW range, NEW rank, NEW step, Founded(S, range, rank, step)
             PROVE  HasSolution(S, range, step)
  OBVIOUS
<1>1. /\ rank \in [S -> Nat] /\ Local(S, range, rank, step)
      /\ \A s \in S : \A f \in Typed(S, range) : step[<<s, f>>] \in range[s]
      /\ \A s \in S : range[s] # {}
  BY Zenon DEF Founded
<1>2. \E f \in Typed(S, range) : \A s \in S : f[s] = step[<<s, f>>]
  BY ONLY <1>1, Recursion
<1> QED
  BY <1>2, Zenon DEF HasSolution

(* The server reads every place as ReadIn says.                            *)
LEMMA ReadingIs ==
    ASSUME NEW W, NEW words \in Seq(W), NEW uids
    PROVE  /\ Reading(words, uids) \in Typed(Place, Answers(words, uids))
           /\ \A at \in Place :
                  Reading(words, uids)[at] = ReadIn(words, uids, at, Reading(words, uids))
<1> DEFINE range == Answers(words, uids)
           step == [x \in Place \X Typed(Place, range) |-> ReadIn(words, uids, x[1], x[2])]
           read == Reading(words, uids)
           rank == Left(words)
<1>1. read = CHOOSE f : f = [at \in Place |-> ReadIn(words, uids, at, f)]
  BY Zenon DEF Reading, ReadIn, Place
<1>2. \A at \in Place : \A f \in Typed(Place, range) : step[<<at, f>>] = ReadIn(words, uids, at, f)
  OBVIOUS
<1>3. Local(Place, range, rank, step)
  <2>1. ASSUME NEW at \in Place, NEW f \in Typed(Place, range), NEW g \in Typed(Place, range),
               Agree(Place, rank, rank[at], f, g)
        PROVE  step[<<at, f>>] = step[<<at, g>>]
    <3>1. ReadIn(words, uids, at, f) = ReadIn(words, uids, at, g)
      BY <2>1, ReadLocal
    <3> HIDE DEF range, step
    <3> QED
      BY <1>2, <3>1
  <2> HIDE DEF range, step, rank
  <2> QED
    BY <2>1 DEF Local
<1>4. ASSUME NEW at \in Place, NEW f \in Typed(Place, range) PROVE step[<<at, f>>] \in range[at]
  BY <1>2, ReadTyped
<1>5. rank \in [Place -> Nat]
  BY LeftIs
<1>6. ASSUME NEW at \in Place PROVE range[at] # {}
  <2>1. Found({}, at[2] + 1) \in range[at]
    BY DEF Found, Answers, Place
  <2> QED
    BY <2>1
<1>7. PICK f \in Typed(Place, range) : \A at \in Place : f[at] = step[<<at, f>>]
  <2> HIDE DEF range, step, rank, read
  <2>1. \A at \in Place : \A f \in Typed(Place, range) : step[<<at, f>>] \in range[at]
    BY <1>4, Zenon
  <2>2. \A at \in Place : range[at] # {}
    BY <1>6, Zenon
  <2>3. Founded(Place, range, rank, step)
    BY ONLY <1>3, <1>5, <2>1, <2>2, Zenon DEF Founded
  <2>4. HasSolution(Place, range, step)
    BY ONLY <2>3, FoundedSolution, Zenon
  <2> QED
    BY ONLY <2>4, Zenon DEF HasSolution
<1>8. f = [at \in Place |-> ReadIn(words, uids, at, f)]
  BY <1>2, <1>7 DEF Typed
<1>9. read = [at \in Place |-> ReadIn(words, uids, at, read)]
  <2> HIDE DEF range, step, read
  <2> QED
    BY ONLY <1>1, <1>8, Zenon
<1>10. \A at \in Place : f[at] = read[at]
  <2> HIDE DEF range, step, read, rank
  <2>1. \A at \in Place : f[at] = ReadIn(words, uids, at, f) /\ read[at] = ReadIn(words, uids, at, read)
    BY <1>8, <1>9, Zenon
  <2>2. ASSUME NEW at \in Place, \A b \in Place : rank[b] < rank[at] => f[b] = read[b]
        PROVE  f[at] = read[at]
    <3>1. ReadIn(words, uids, at, f) = ReadIn(words, uids, at, read)
      BY <2>2, ReadLocal DEF Agree, rank, range
    <3> QED
      BY <2>1, <3>1
  <2> QED
    BY <1>5, <2>2, SameFunction
<1>11. f = read
  <2> HIDE DEF range, step, read, rank
  <2>1. f = [at \in Place |-> f[at]] /\ read = [at \in Place |-> read[at]]
    BY <1>8, <1>9, Zenon
  <2> QED
    BY <1>10, <2>1
<1> QED
  <2> HIDE DEF range, step, read, rank
  <2>1. read \in Typed(Place, range)
    BY <1>7, <1>11
  <2>2. \A at \in Place : read[at] = ReadIn(words, uids, at, read)
    BY <1>9, Zenon
  <2> QED
    BY <2>1, <2>2 DEF read, range

-----------------------------------------------------------------------------
(* MailSearch: the words of a tree, wherever they stand, are read as what  *)
(* the tree means.                                                         *)

(* The words s stand in w from place p on.                                 *)
Occurs(w, s, p) == \A j \in 1..Len(s) : p + j - 1 \in DOMAIN w /\ w[p + j - 1] = s[j]

LEMMA OccursApart ==
    ASSUME NEW w, NEW s \in Seq(Word), NEW t \in Seq(Word), NEW p \in Nat, Occurs(w, s \o t, p)
    PROVE  Occurs(w, s, p) /\ Occurs(w, t, p + Len(s)) /\ p + Len(s) \in Nat
           /\ p + Len(s \o t) = (p + Len(s)) + Len(t)
<1> DEFINE m == Len(s)
           n == Len(t)
<1>1. /\ m \in Nat /\ n \in Nat /\ Len(s \o t) = m + n
      /\ \A j \in 1..m : (s \o t)[j] = s[j]
      /\ \A j \in 1..n : (s \o t)[m + j] = t[j]
  <2> HIDE DEF Word
  <2> QED
    BY ConcatProperties
<1> DEFINE st == s \o t
<1> HIDE DEF m, n, st
<1>2. \A j \in 1..(m + n) : p + j - 1 \in DOMAIN w /\ w[p + j - 1] = st[j]
  BY <1>1 DEF Occurs, st
<1>3. \A j \in 1..m : p + j - 1 \in DOMAIN w /\ w[p + j - 1] = s[j]
  <2>1. \A j \in 1..m : j \in 1..(m + n)
    BY <1>1
  <2> QED
    BY <1>1, <1>2, <2>1 DEF st
<1>4. ASSUME NEW j \in 1..n
      PROVE  (p + m) + j - 1 \in DOMAIN w /\ w[(p + m) + j - 1] = t[j]
  <2>1. m + j \in 1..(m + n) /\ (p + m) + j - 1 = p + (m + j) - 1
    BY <1>1
  <2>2. p + (m + j) - 1 \in DOMAIN w /\ w[p + (m + j) - 1] = st[m + j]
    BY <1>2, <2>1
  <2> QED
    BY <1>1, <2>1, <2>2 DEF st
<1>5. Occurs(w, s, p) /\ Occurs(w, t, p + m)
  BY <1>3, <1>4 DEF Occurs, m, n
<1>6. p + m \in Nat /\ p + (m + n) = (p + m) + n
  BY <1>1
<1> QED
  BY <1>1, <1>5, <1>6 DEF m, n

LEMMA OccursFirst ==
    ASSUME NEW w, NEW s \in Seq(Word), s # << >>, NEW p \in Nat, Occurs(w, s, p)
    PROVE  p \in DOMAIN w /\ w[p] = s[1]
<1>1. 1 \in 1..Len(s) /\ p + 1 - 1 = p
  OBVIOUS
<1> QED
  BY <1>1 DEF Occurs

LEMMA OccursWhole ==
    ASSUME NEW w \in Seq(Word)
    PROVE  Occurs(w, w, 1)
<1>1. \A j \in 1..Len(w) : 1 + j - 1 = j /\ j \in DOMAIN w
  OBVIOUS
<1> QED
  BY <1>1 DEF Occurs

(* A word in front.                                                        *)
LEMMA OccursBehind ==
    ASSUME NEW w, NEW a \in Word, NEW s \in Seq(Word), NEW p \in Nat, Occurs(w, <<a>> \o s, p)
    PROVE  /\ p \in DOMAIN w /\ w[p] = a /\ Occurs(w, s, p + 1)
           /\ p + Len(<<a>> \o s) = (p + 1) + Len(s)
<1> HIDE DEF Word
<1> DEFINE one == <<a>>
<1>0. Occurs(w, one \o s, p)
  OBVIOUS
<1>a. one \in Seq(Word)
  OBVIOUS
<1>1. Len(one) = 1 /\ one # << >> /\ one[1] = a
  OBVIOUS
<1> HIDE DEF one
<1>2. /\ Occurs(w, one, p) /\ Occurs(w, s, p + Len(one))
      /\ p + Len(one \o s) = (p + Len(one)) + Len(s)
  BY ONLY <1>0, <1>a, p \in Nat, s \in Seq(Word), OccursApart
<1>3. p \in DOMAIN w /\ w[p] = a
  BY <1>1, <1>a, <1>2, OccursFirst
<1> QED
  BY <1>1, <1>2, <1>3 DEF one

(* Reading, one word at a time.                                            *)
LEMMA ReadOn ==
    ASSUME NEW w \in Seq(Word), NEW uids, NEW p \in Nat
    PROVE  LET r == Reading(w, uids) IN
           /\ AnswersFit(w, uids, r)
           /\ p \in DOMAIN w =>
                /\ KeyAt(r, p) = ReadKey(w, uids, p, r)
                /\ KeysAt(r, p) = ReadKeys(w, uids, p, r)
           /\ p \notin DOMAIN w => KeysAt(r, p) = Found(uids, p)
<1> DEFINE r == Reading(w, uids)
<1>1. /\ r \in Typed(Place, Answers(w, uids))
      /\ \A at \in Place : r[at] = ReadIn(w, uids, at, r)
  BY ReadingIs
<1>2. <<"key", p>> \in Place /\ <<"keys", p>> \in Place
  BY DEF Place
<1> HIDE DEF r
<1>3. AnswersFit(w, uids, r)
  BY <1>1, AnswersGive
<1>4. KeyAt(r, p) = ReadIn(w, uids, <<"key", p>>, r) /\ KeysAt(r, p) = ReadIn(w, uids, <<"keys", p>>, r)
  BY <1>1, <1>2 DEF KeyAt, KeysAt
<1>5. /\ p \in DOMAIN w => /\ ReadIn(w, uids, <<"key", p>>, r) = ReadKey(w, uids, p, r)
                           /\ ReadIn(w, uids, <<"keys", p>>, r) = ReadKeys(w, uids, p, r)
      /\ p \notin DOMAIN w => ReadIn(w, uids, <<"keys", p>>, r) = Found(uids, p)
  BY Signs4 DEF ReadIn
<1> QED
  BY <1>3, <1>4, <1>5 DEF r

(* The words s are read as one key that selects set, wherever they stand;  *)
(* or as keys that narrow what the words after them select.                *)
AsKey(w, uids, s, set) ==
    \A p \in Nat : Occurs(w, s, p) => KeyAt(Reading(w, uids), p) = Found(set, p + Len(s))

Narrowed(set, rest) == Found(set \cap rest.uids, rest.next)

AsKeys(w, uids, s, set) ==
    \A p \in Nat : Occurs(w, s, p) =>
        KeysAt(Reading(w, uids), p) = Narrowed(set, KeysAt(Reading(w, uids), p + Len(s)))

LEMMA KeyAsKeys ==
    ASSUME NEW w \in Seq(Word), NEW uids, NEW s \in Seq(Word), s # << >>, s[1] # ")",
           NEW set, AsKey(w, uids, s, set)
    PROVE  AsKeys(w, uids, s, set)
<1> DEFINE r == Reading(w, uids)
<1> SUFFICES ASSUME NEW p \in Nat, Occurs(w, s, p)
             PROVE  KeysAt(r, p) = Narrowed(set, KeysAt(r, p + Len(s)))
  BY DEF AsKeys
<1>1. p \in DOMAIN w /\ w[p] # ")"
  BY OccursFirst
<1>2. KeysAt(r, p) = ReadKeys(w, uids, p, r)
  BY <1>1, ReadOn
<1>3. KeyAt(r, p) = Found(set, p + Len(s))
  BY DEF AsKey
<1> HIDE DEF r
<1>4. ReadKeys(w, uids, p, r) = Together(KeyAt(r, p), KeysAt(r, KeyAt(r, p).next))
  BY <1>1, ReadKeysCases
<1>5. KeyAt(r, p).uids = set /\ KeyAt(r, p).next = p + Len(s)
  BY <1>3, FoundIs
<1> QED
  BY <1>2, <1>4, <1>5 DEF Together, Narrowed

LEMMA KeysTogether ==
    ASSUME NEW w \in Seq(Word), NEW uids, NEW s \in Seq(Word), NEW t \in Seq(Word),
           NEW a, NEW b, AsKeys(w, uids, s, a), AsKeys(w, uids, t, b)
    PROVE  AsKeys(w, uids, s \o t, a \cap b)
<1> DEFINE r == Reading(w, uids)
<1> SUFFICES ASSUME NEW p \in Nat, Occurs(w, s \o t, p)
             PROVE  KeysAt(r, p) = Narrowed(a \cap b, KeysAt(r, p + Len(s \o t)))
  BY DEF AsKeys
<1>1. /\ Occurs(w, s, p) /\ Occurs(w, t, p + Len(s)) /\ p + Len(s) \in Nat
      /\ p + Len(s \o t) = (p + Len(s)) + Len(t)
  BY OccursApart
<1>2. KeysAt(r, p) = Narrowed(a, KeysAt(r, p + Len(s)))
  BY <1>1 DEF AsKeys
<1> DEFINE q == p + Len(s)
<1>3. KeysAt(r, q) = Narrowed(b, KeysAt(r, q + Len(t)))
  <2> HIDE DEF q
  <2>1. q \in Nat /\ Occurs(w, t, q)
    BY <1>1 DEF q
  <2> QED
    BY <2>1 DEF AsKeys
<1> DEFINE rest == KeysAt(r, q + Len(t))
<1>4. Narrowed(a, Narrowed(b, rest)) = Narrowed(a \cap b, rest)
  <2> HIDE DEF rest
  <2>1. Narrowed(b, rest).uids = b \cap rest.uids /\ Narrowed(b, rest).next = rest.next
    BY FoundIs DEF Narrowed
  <2>2. a \cap (b \cap rest.uids) = (a \cap b) \cap rest.uids
    OBVIOUS
  <2> QED
    BY <2>1, <2>2 DEF Narrowed
<1>5. p + Len(s \o t) = q + Len(t)
  BY <1>1
<1> HIDE DEF r, q
<1> QED
  BY <1>2, <1>3, <1>4, <1>5 DEF q

ReadsWord(w, uids, p, r) ==
    /\ w[p] = "OR" => KeyAt(r, p) = Either(KeyAt(r, p + 1), KeyAt(r, KeyAt(r, p + 1).next))
    /\ w[p] = "NOT" => KeyAt(r, p) = Neither(uids, KeyAt(r, p + 1))
    /\ w[p] = "(" => KeyAt(r, p) = Found(KeysAt(r, p + 1).uids, KeysAt(r, p + 1).next + 1)
    /\ w[p] = ")" => KeysAt(r, p) = Found(uids, p)
    /\ w[p] \notin {"OR", "NOT", "("} =>
         KeyAt(r, p) = Found(uids \cap Trait[w[p]], IF w[p] \in Flags THEN p + 1 ELSE p + 2)

LEMMA ReadWord ==
    ASSUME NEW w \in Seq(Word), NEW uids, NEW p \in Nat, p \in DOMAIN w
    PROVE  ReadsWord(w, uids, p, Reading(w, uids))
<1> DEFINE r == Reading(w, uids)
<1>1. KeyAt(r, p) = ReadKey(w, uids, p, r) /\ KeysAt(r, p) = ReadKeys(w, uids, p, r)
  BY ReadOn
<1> HIDE DEF r
<1>2. ReadsKey(w, uids, p, r)
  BY ReadKeyCases, Zenon
<1>3. w[p] = ")" => KeysAt(r, p) = Found(uids, p)
  BY <1>1, ReadKeysCases
<1> QED
  BY <1>1, <1>2, <1>3 DEF ReadsKey, ReadsWord, r

LEMMA OrAsKey ==
    ASSUME NEW w \in Seq(Word), NEW uids, NEW s \in Seq(Word), NEW t \in Seq(Word),
           NEW a, NEW b, AsKey(w, uids, s, a), AsKey(w, uids, t, b)
    PROVE  AsKey(w, uids, <<"OR">> \o s \o t, a \cup b)
<1> DEFINE r == Reading(w, uids)
           st == s \o t
<1>0. "OR" \in Word /\ st \in Seq(Word) /\ <<"OR">> \o s \o t = <<"OR">> \o st
  BY DEF Word
<1> HIDE DEF st
<1> SUFFICES ASSUME NEW p \in Nat, Occurs(w, <<"OR">> \o st, p)
             PROVE  KeyAt(r, p) = Found(a \cup b, p + Len(<<"OR">> \o st))
  BY <1>0 DEF AsKey
<1>1. /\ p \in DOMAIN w /\ w[p] = "OR" /\ Occurs(w, st, p + 1)
      /\ p + Len(<<"OR">> \o st) = (p + 1) + Len(st)
  BY <1>0, OccursBehind
<1> DEFINE q == p + 1
<1>2. q \in Nat
  OBVIOUS
<1> HIDE DEF q
<1>3. /\ Occurs(w, s, q) /\ Occurs(w, t, q + Len(s)) /\ q + Len(s) \in Nat
      /\ q + Len(st) = (q + Len(s)) + Len(t)
  <2>1. Occurs(w, s \o t, q)
    BY <1>1 DEF q, st
  <2> QED
    BY <1>2, <2>1, OccursApart DEF st
<1>4. KeyAt(r, q) = Found(a, q + Len(s))
  BY <1>2, <1>3 DEF AsKey
<1>5. KeyAt(r, q + Len(s)) = Found(b, q + Len(st))
  BY <1>3 DEF AsKey
<1>a. ReadsWord(w, uids, p, r)
  BY <1>1, ReadWord
<1>6. KeyAt(r, p) = Either(KeyAt(r, q), KeyAt(r, KeyAt(r, q).next))
  BY <1>1, <1>a, Zenon DEF q, ReadsWord
<1> HIDE DEF r
<1>7. KeyAt(r, p) = Found(a \cup b, q + Len(st))
  <2>1. KeyAt(r, q).uids = a /\ KeyAt(r, q).next = q + Len(s)
    BY <1>4 DEF Found
  <2>2. KeyAt(r, q + Len(s)).uids = b /\ KeyAt(r, q + Len(s)).next = q + Len(st)
    BY <1>5 DEF Found
  <2> QED
    BY <1>6, <2>1, <2>2, Zenon DEF Either
<1> QED
  BY <1>1, <1>7 DEF q

LEMMA NotAsKey ==
    ASSUME NEW w \in Seq(Word), NEW uids, NEW s \in Seq(Word), NEW a, AsKey(w, uids, s, a)
    PROVE  AsKey(w, uids, <<"NOT">> \o s, uids \ a)
<1> DEFINE r == Reading(w, uids)
<1>0. "NOT" \in Word
  BY DEF Word
<1> SUFFICES ASSUME NEW p \in Nat, Occurs(w, <<"NOT">> \o s, p)
             PROVE  KeyAt(r, p) = Found(uids \ a, p + Len(<<"NOT">> \o s))
  BY DEF AsKey
<1>1. /\ p \in DOMAIN w /\ w[p] = "NOT" /\ Occurs(w, s, p + 1)
      /\ p + Len(<<"NOT">> \o s) = (p + 1) + Len(s)
  BY <1>0, OccursBehind
<1> DEFINE q == p + 1
<1>2. q \in Nat
  OBVIOUS
<1> HIDE DEF q
<1>4. KeyAt(r, q) = Found(a, q + Len(s))
  BY <1>1, <1>2 DEF AsKey, q
<1>a. ReadsWord(w, uids, p, r)
  BY <1>1, ReadWord
<1>6. KeyAt(r, p) = Neither(uids, KeyAt(r, q))
  BY <1>1, <1>a, Zenon DEF q, ReadsWord
<1> HIDE DEF r
<1>7. KeyAt(r, p) = Found(uids \ a, q + Len(s))
  <2>1. KeyAt(r, q).uids = a /\ KeyAt(r, q).next = q + Len(s)
    BY <1>4 DEF Found
  <2> QED
    BY <1>6, <2>1, Zenon DEF Neither
<1> QED
  BY <1>1, <1>7 DEF q

LEMMA LeafAsKey ==
    ASSUME NEW w \in Seq(Word), NEW uids, NEW k \in Criterion
    PROVE  AsKey(w, uids, IF k \in Flags THEN <<k>> ELSE <<k, "value">>, uids \cap Trait[k])
<1> DEFINE r == Reading(w, uids)
           s == IF k \in Flags THEN <<k>> ELSE <<k, "value">>
<1> SUFFICES ASSUME NEW p \in Nat, Occurs(w, s, p)
             PROVE  KeyAt(r, p) = Found(uids \cap Trait[k], p + Len(s))
  BY DEF AsKey
<1>0. k \in Word /\ "value" \in Word /\ k \notin {"OR", "NOT", "(", ")"}
  BY SearchAssumption DEF Word
<1>1. /\ s \in Seq(Word) /\ s # << >> /\ s[1] = k
      /\ Len(s) = IF k \in Flags THEN 1 ELSE 2
  BY <1>0
<1> HIDE DEF s
<1>2. p \in DOMAIN w /\ w[p] = k
  BY <1>1, OccursFirst
<1>a. ReadsWord(w, uids, p, r)
  BY <1>2, ReadWord
<1> HIDE DEF r
<1>3. KeyAt(r, p) = Found(uids \cap Trait[k], IF k \in Flags THEN p + 1 ELSE p + 2)
  BY <1>0, <1>2, <1>a DEF ReadsWord
<1> QED
  BY <1>1, <1>3

LEMMA GroupAsKey ==
    ASSUME NEW w \in Seq(Word), NEW uids, NEW s \in Seq(Word),
           NEW a \in SUBSET uids, AsKeys(w, uids, s, a)
    PROVE  AsKey(w, uids, <<"(">> \o s \o <<")">>, a)
<1> DEFINE r == Reading(w, uids)
           close == <<")">>
           st == s \o close
<1>0. /\ "(" \in Word /\ close \in Seq(Word) /\ st \in Seq(Word)
      /\ close # << >> /\ close[1] = ")" /\ Len(close) = 1
      /\ <<"(">> \o s \o <<")">> = <<"(">> \o st
  BY DEF Word
<1> HIDE DEF st, close
<1> SUFFICES ASSUME NEW p \in Nat, Occurs(w, <<"(">> \o st, p)
             PROVE  KeyAt(r, p) = Found(a, p + Len(<<"(">> \o st))
  BY <1>0 DEF AsKey
<1>1. /\ p \in DOMAIN w /\ w[p] = "(" /\ Occurs(w, st, p + 1)
      /\ p + Len(<<"(">> \o st) = (p + 1) + Len(st)
  BY <1>0, OccursBehind
<1> DEFINE q == p + 1
<1>2. q \in Nat
  OBVIOUS
<1> HIDE DEF q
<1>3. /\ Occurs(w, s, q) /\ Occurs(w, close, q + Len(s)) /\ q + Len(s) \in Nat
      /\ q + Len(st) = (q + Len(s)) + Len(close)
  <2>1. Occurs(w, s \o close, q)
    BY <1>1 DEF q, st
  <2> QED
    BY <1>0, <1>2, <2>1, OccursApart DEF st
<1> DEFINE end == q + Len(s)
<1>4. end \in DOMAIN w /\ w[end] = ")"
  <2>1. end \in Nat /\ Occurs(w, close, end)
    BY <1>3
  <2> HIDE DEF end
  <2> QED
    BY <1>0, <2>1, OccursFirst
<1>5. KeysAt(r, end) = Found(uids, end)
  <2>1. end \in Nat
    BY <1>3
  <2> HIDE DEF end
  <2>2. ReadsWord(w, uids, end, r)
    BY <1>4, <2>1, ReadWord
  <2> QED
    BY <1>4, <2>2, Zenon DEF ReadsWord
<1>6. KeysAt(r, q) = Narrowed(a, KeysAt(r, end))
  BY <1>2, <1>3 DEF AsKeys
<1>a. ReadsWord(w, uids, p, r)
  BY <1>1, ReadWord
<1>7. KeyAt(r, p) = Found(KeysAt(r, q).uids, KeysAt(r, q).next + 1)
  BY <1>1, <1>a, Zenon DEF q, ReadsWord
<1> HIDE DEF r, end
<1>8. a \cap uids = a
  OBVIOUS
<1>9. KeysAt(r, q) = Found(a, end)
  <2>1. KeysAt(r, end).uids = uids /\ KeysAt(r, end).next = end
    BY <1>5 DEF Found
  <2> QED
    BY <1>6, <1>8, <2>1, Zenon DEF Narrowed
<1>10. KeyAt(r, p) = Found(a, end + 1)
  <2>1. KeysAt(r, q).uids = a /\ KeysAt(r, q).next = end
    BY <1>9 DEF Found
  <2> QED
    BY <1>7, <2>1, Zenon
<1> QED
  BY <1>0, <1>1, <1>3, <1>10 DEF q, end

(* The words s, sent for a tree, are read as what the tree means: also as  *)
(* part of a longer search, where a single word stands for itself.         *)
Means(w, uids, s, set) ==
    /\ set \in SUBSET uids /\ s \in Seq(Word) /\ s # << >>
    /\ AsKeys(w, uids, s, set)
    /\ Len(s) = 1 => s[1] \in Flags /\ set = uids \cap Trait[s[1]]

LEMMA GroupReads ==
    ASSUME NEW w \in Seq(Word), NEW uids, NEW s, NEW set, Means(w, uids, s, set)
    PROVE  /\ AsKey(w, uids, Group(s), set)
           /\ Group(s) \in Seq(Word) /\ Len(Group(s)) \in Nat \ {0}
<1>1. set \in SUBSET uids /\ s \in Seq(Word) /\ s # << >> /\ AsKeys(w, uids, s, set)
  BY DEF Means
<1>2. /\ Group(s) \in Seq(Word) /\ Len(Group(s)) \in Nat \ {0}
      /\ Len(s) = 1 => Group(s) = s
      /\ Len(s) # 1 => Group(s) = <<"(">> \o s \o <<")">>
  BY <1>1, GroupIs
<1>3. CASE Len(s) = 1
  <2> DEFINE k == s[1]
  <2>1. k \in Flags /\ set = uids \cap Trait[k] /\ k \in Criterion
    BY <1>3, SearchAssumption DEF Means
  <2>2. s = <<k>>
    BY <1>1, <1>3
  <2> HIDE DEF k
  <2>3. AsKey(w, uids, <<k>>, uids \cap Trait[k])
    BY <2>1, LeafAsKey
  <2> QED
    BY <1>2, <1>3, <2>1, <2>2, <2>3
<1>4. CASE Len(s) # 1
  <2>1. AsKey(w, uids, <<"(">> \o s \o <<")">>, set)
    BY <1>1, GroupAsKey
  <2> QED
    BY <1>2, <1>4, <2>1
<1> QED
  BY <1>3, <1>4

LEMMA OrReads ==
    ASSUME NEW w \in Seq(Word), NEW uids, NEW s, NEW t, NEW a, NEW b,
           Means(w, uids, s, a), Means(w, uids, t, b)
    PROVE  Means(w, uids, <<"OR">> \o Group(s) \o Group(t), a \cup b)
<1> DEFINE g == Group(s)
           h == Group(t)
           words == <<"OR">> \o g \o h
<1>1. /\ AsKey(w, uids, g, a) /\ g \in Seq(Word) /\ Len(g) \in Nat \ {0}
      /\ AsKey(w, uids, h, b) /\ h \in Seq(Word) /\ Len(h) \in Nat \ {0}
  BY GroupReads
<1> HIDE DEF g, h
<1>2. AsKey(w, uids, words, a \cup b)
  BY <1>1, OrAsKey
<1>3. words \in Seq(Word) /\ words # << >> /\ words[1] = "OR" /\ Len(words) # 1
  BY <1>1 DEF Word
<1> HIDE DEF words
<1>4. AsKeys(w, uids, words, a \cup b)
  BY <1>2, <1>3, Signs4, KeyAsKeys
<1>5. a \cup b \in SUBSET uids
  BY DEF Means
<1> QED
  BY <1>3, <1>4, <1>5 DEF Means, words, g, h

LEMMA NotReads ==
    ASSUME NEW w \in Seq(Word), NEW uids, NEW s, NEW a, Means(w, uids, s, a)
    PROVE  Means(w, uids, <<"NOT">> \o Group(s), uids \ a)
<1> DEFINE g == Group(s)
           words == <<"NOT">> \o g
<1>1. AsKey(w, uids, g, a) /\ g \in Seq(Word) /\ Len(g) \in Nat \ {0}
  BY GroupReads
<1> HIDE DEF g
<1>2. AsKey(w, uids, words, uids \ a)
  BY <1>1, NotAsKey
<1>3. words \in Seq(Word) /\ words # << >> /\ words[1] = "NOT" /\ Len(words) # 1
  BY <1>1 DEF Word
<1> HIDE DEF words
<1>4. AsKeys(w, uids, words, uids \ a)
  BY <1>2, <1>3, Signs4, KeyAsKeys
<1> QED
  BY <1>3, <1>4 DEF Means, words, g

LEMMA LeafReads ==
    ASSUME NEW w \in Seq(Word), NEW uids, NEW k \in Criterion
    PROVE  Means(w, uids, IF k \in Flags THEN <<k>> ELSE <<k, "value">>, uids \cap Trait[k])
<1> DEFINE words == IF k \in Flags THEN <<k>> ELSE <<k, "value">>
<1>1. k \in Word /\ "value" \in Word /\ k # ")"
  BY SearchAssumption DEF Word
<1>2. /\ words \in Seq(Word) /\ words # << >> /\ words[1] = k
      /\ Len(words) = 1 => k \in Flags
  <2> HIDE DEF Word
  <2> QED
    BY <1>1
<1>3. AsKey(w, uids, words, uids \cap Trait[k])
  BY LeafAsKey
<1> HIDE DEF words
<1>4. AsKeys(w, uids, words, uids \cap Trait[k])
  BY <1>1, <1>2, <1>3, KeyAsKeys
<1> QED
  BY <1>2, <1>4 DEF Means, words

LEMMA SideBySide ==
    ASSUME NEW w \in Seq(Word), NEW uids, NEW s, NEW t, NEW a, NEW b,
           Means(w, uids, s, a), Means(w, uids, t, b)
    PROVE  Means(w, uids, s \o t, a \cap b)
<1>1. /\ s \in Seq(Word) /\ t \in Seq(Word) /\ s # << >> /\ t # << >>
      /\ AsKeys(w, uids, s, a) /\ AsKeys(w, uids, t, b) /\ a \in SUBSET uids
  BY DEF Means
<1>2. AsKeys(w, uids, s \o t, a \cap b)
  BY <1>1, KeysTogether
<1> DEFINE st == s \o t
<1>3. st \in Seq(Word) /\ st # << >> /\ Len(st) # 1
  <2> HIDE DEF Word
  <2> QED
    BY <1>1
<1> HIDE DEF st
<1> QED
  BY <1>1, <1>2, <1>3 DEF Means, st

LEMMA AndReads ==
    ASSUME NEW w \in Seq(Word), NEW uids, NEW seqs \in Seq(Seq(Word)), seqs # << >>, NEW sets,
           \A i \in 1..Len(seqs) : Means(w, uids, seqs[i], sets[i])
    PROVE  Means(w, uids, FlattenSeq(seqs), {u \in uids : \A i \in 1..Len(seqs) : u \in sets[i]})
<1> DEFINE n == Len(seqs)
           Upto(i) == {u \in uids : \A j \in 1..i : u \in sets[j]}
<1>1. PICK f \in [0..n -> Seq(Word)] :
        /\ f[0] = << >>
        /\ \A i \in 1..n : f[i] = f[i - 1] \o seqs[i]
        /\ FlattenSeq(seqs) = f[n]
  BY Flattening
<1>2. n \in Nat /\ n # 0 /\ \A i \in 1..n : seqs[i] \in Seq(Word) /\ Means(w, uids, seqs[i], sets[i])
  <2> HIDE DEF Word
  <2> QED
    OBVIOUS
<1> HIDE DEF n
<1> DEFINE T == {i \in 0..n : i = 0 \/ Means(w, uids, f[i], Upto(i))}
<1>3. 0 \in T
  BY <1>2
<1>4. ASSUME NEW i \in 1..n, i - 1 \in T PROVE i \in T
  <2>0. i \in 0..n /\ i \in Nat /\ i - 1 \in 0..n
    BY <1>2
  <2>1. CASE i = 1
    <3>1. f[1] = << >> \o seqs[1]
      <4>1. f[i] = f[i - 1] \o seqs[i]
        BY <1>1
      <4>2. i - 1 = 0
        BY <2>1
      <4>3. f[i - 1] = << >>
        BY <1>1, <4>2, Zenon
      <4> QED
        BY <2>1, <4>1, <4>3, Zenon
    <3>2. f[1] = seqs[1]
      BY <1>2, <2>1, <3>1, ConcatEmptySeq
    <3>3. Means(w, uids, seqs[1], sets[1])
      BY <1>2, <2>1
    <3>4. Upto(1) = sets[1]
      <4>1. sets[1] \in SUBSET uids /\ 1..1 = {1}
        BY <3>3 DEF Means
      <4> QED
        BY <4>1
    <3> HIDE DEF Upto
    <3> QED
      BY <2>0, <2>1, <3>2, <3>3, <3>4
  <2>2. CASE i # 1
    <3>1. i - 1 # 0 /\ Means(w, uids, f[i - 1], Upto(i - 1))
      BY <1>4, <2>0, <2>2
    <3>2. Means(w, uids, seqs[i], sets[i]) /\ f[i] = f[i - 1] \o seqs[i]
      BY <1>1, <1>2
    <3>3. Upto(i - 1) \cap sets[i] = Upto(i)
      <4>1. 1..i = (1..(i - 1)) \cup {i}
        BY <2>0
      <4> QED
        BY <4>1
    <3> HIDE DEF Upto
    <3>4. Means(w, uids, f[i - 1] \o seqs[i], Upto(i - 1) \cap sets[i])
      BY <3>1, <3>2, SideBySide
    <3> QED
      BY <2>0, <3>2, <3>3, <3>4
  <2> QED
    BY <2>1, <2>2
<1>5. n \in T
  <2> HIDE DEF T
  <2>1. \A i \in 0..n : i \in T
    BY <1>2, <1>3, <1>4, Upward
  <2> QED
    BY <1>2, <2>1
<1>6. Means(w, uids, f[n], Upto(n))
  BY <1>2, <1>5
<1> QED
  BY <1>1, <1>6 DEF n

LEMMA TreeReads ==
    ASSUME NEW w \in Seq(Word), NEW uids
    PROVE  \A c \in Tree : WellFormed[c] => Means(w, uids, Compile[c], Meaning(c, uids))
<1> DEFINE T == {c \in Tree : WellFormed[c] => Means(w, uids, Compile[c], Meaning(c, uids))}
<1>1. ASSUME NEW c \in Tree, \A d \in Tree : Nesting[d] < Nesting[c] => d \in T, WellFormed[c]
      PROVE  Means(w, uids, Compile[c], Meaning(c, uids))
  <2>0. ASSUME NEW d \in Tree, Nesting[d] < Nesting[c], WellFormed[d]
        PROVE  Means(w, uids, Compile[d], Meaning(d, uids))
    BY <1>1, <2>0
  <2> HIDE DEF T
  <2>1. CASE IsAnd(c)
    <3> DEFINE seqs == [i \in DOMAIN c.and |-> Compile[c.and[i]]]
               sets == [i \in DOMAIN c.and |-> Meaning(c.and[i], uids)]
    <3>1. /\ c.and \in Seq(Tree) /\ c.and # << >>
          /\ \A i \in DOMAIN c.and : /\ c.and[i] \in Tree
                                     /\ WellFormed[c.and[i]]
                                     /\ Nesting[c.and[i]] < Nesting[c]
      BY <1>1, <2>1, FormedParts
    <3>2. seqs \in Seq(Seq(Word)) /\ seqs # << >> /\ DOMAIN c.and = 1..Len(seqs)
      <4>1. \A i \in DOMAIN c.and : Compile[c.and[i]] \in Seq(Word)
        BY <3>1, CompileIs
      <4>2. DOMAIN c.and = 1..Len(c.and) /\ Len(c.and) \in Nat \ {0}
        BY <3>1
      <4> HIDE DEF Word
      <4>3. seqs \in [1..Len(c.and) -> Seq(Word)] /\ Len(c.and) \in Nat
        BY <4>1, <4>2
      <4>4. Len(seqs) = Len(c.and)
        BY <4>2
      <4> HIDE DEF seqs
      <4>5. seqs \in Seq(Seq(Word))
        BY <4>3
      <4> QED
        BY <4>2, <4>4, <4>5
    <3>3. \A i \in 1..Len(seqs) : Means(w, uids, seqs[i], sets[i])
      BY <2>0, <3>1, <3>2
    <3>4. Compile[c] = FlattenSeq(seqs)
      BY <1>1, <2>1, CompileIs, CompileCases DEF AndWords
    <3>5. Meaning(c, uids) = {u \in uids : \A i \in 1..Len(seqs) : u \in sets[i]}
      <4>1. Meaning(c, uids) = {u \in uids : \A i \in DOMAIN c.and : u \in Meaning(c.and[i], uids)}
        BY <2>1, MeaningCases
      <4> QED
        BY <3>2, <4>1
    <3> HIDE DEF seqs, sets
    <3>6. Means(w, uids, FlattenSeq(seqs), {u \in uids : \A i \in 1..Len(seqs) : u \in sets[i]})
      BY ONLY w \in Seq(Word), <3>2, <3>3, AndReads
    <3> QED
      BY <3>4, <3>5, <3>6
  <2>2. CASE IsOr(c)
    <3>1. /\ DOMAIN c.or = 1..2
          /\ \A i \in 1..2 : /\ c.or[i] \in Tree
                             /\ WellFormed[c.or[i]]
                             /\ Nesting[c.or[i]] < Nesting[c]
      BY <1>1, <2>2, FormedParts
    <3>2. /\ Means(w, uids, Compile[c.or[1]], Meaning(c.or[1], uids))
          /\ Means(w, uids, Compile[c.or[2]], Meaning(c.or[2], uids))
      BY <2>0, <3>1
    <3>3. Compile[c] = <<"OR">> \o Group(Compile[c.or[1]]) \o Group(Compile[c.or[2]])
      BY <1>1, <2>2, CompileIs, CompileCases DEF OrWords
    <3>4. Meaning(c, uids) = Meaning(c.or[1], uids) \cup Meaning(c.or[2], uids)
      <4>1. Meaning(c, uids) = UNION {Meaning(c.or[i], uids) : i \in 1..2}
        BY <2>2, <3>1, MeaningCases
      <4>2. 1..2 = {1, 2}
        OBVIOUS
      <4> QED
        BY <4>1, <4>2
    <3> QED
      BY <3>2, <3>3, <3>4, OrReads
  <2>3. CASE IsNot(c)
    <3>1. c.not \in Tree /\ WellFormed[c.not] /\ Nesting[c.not] < Nesting[c]
      BY <1>1, <2>3, FormedParts
    <3>2. Means(w, uids, Compile[c.not], Meaning(c.not, uids))
      BY <2>0, <3>1
    <3>3. Compile[c] = <<"NOT">> \o Group(Compile[c.not])
      BY <1>1, <2>3, CompileIs, CompileCases DEF NotWords
    <3>4. Meaning(c, uids) = uids \ Meaning(c.not, uids)
      BY <2>3, MeaningCases
    <3> QED
      BY <3>2, <3>3, <3>4, NotReads
  <2>4. CASE IsLeaf(c)
    <3>1. c.type \in Criterion
      BY <1>1, <2>4, FormedParts
    <3>2. Compile[c] = IF c.type \in Flags THEN <<c.type>> ELSE <<c.type, "value">>
      BY <1>1, <2>4, CompileIs, CompileCases DEF LeafWords
    <3>3. Meaning(c, uids) = uids \cap Trait[c.type]
      BY <2>4, MeaningCases
    <3> QED
      BY <3>1, <3>2, <3>3, LeafReads
  <2> QED
    BY <2>1, <2>2, <2>3, <2>4, Shapes
<1>2. \A c \in Tree : (\A d \in Tree : Nesting[d] < Nesting[c] => d \in T) => c \in T
  BY <1>1
<1>3. \A c \in Tree : c \in T
  <2> HIDE DEF T
  <2> QED
    BY <1>2, TreeInduction
<1> QED
  BY <1>3

(* The words of a well-formed tree select what the tree means.             *)
LEMMA SelectedIs ==
    ASSUME NEW c \in Tree, WellFormed[c], NEW uids
    PROVE  Selected(Compile[c], uids) = Meaning(c, uids)
<1> DEFINE w == Compile[c]
           r == Reading(w, uids)
           M == Meaning(c, uids)
<1>1. w \in Seq(Word)
  BY CompileIs
<1>2. Means(w, uids, w, M)
  BY <1>1, TreeReads
<1> HIDE DEF w, M, r
<1>3. AsKeys(w, uids, w, M) /\ M \in SUBSET uids
  BY <1>2 DEF Means
<1>4. Occurs(w, w, 1)
  BY <1>1, OccursWhole
<1>5. KeysAt(r, 1) = Narrowed(M, KeysAt(r, 1 + Len(w)))
  BY <1>3, <1>4 DEF AsKeys, r
<1> DEFINE end == 1 + Len(w)
<1>6. end \in Nat /\ end \notin DOMAIN w
  <2> HIDE DEF Word
  <2> QED
    BY <1>1
<1> HIDE DEF end
<1>7. KeysAt(r, end) = Found(uids, end)
  BY <1>1, <1>6, ReadOn DEF r
<1>8. KeysAt(r, 1).uids = M \cap uids
  BY <1>5, <1>7 DEF end, Narrowed, Found
<1>9. KeysAt(r, 1).uids = M
  BY <1>3, <1>8
<1> QED
  BY <1>9 DEF Selected, KeysAt, w, r, M

-----------------------------------------------------------------------------
(* MailReading: what an answer is, tool by tool, and that no step makes one *)
(* of any other kind.                                                      *)

LEMMA LimitedIs ==
    ASSUME NEW S, NEW s \in Seq(S), NEW count \in Nat
    PROVE  /\ Limited(s, count) \in Seq(S)
           /\ Len(s) <= count => Limited(s, count) = s
           /\ Len(s) > count => Len(Limited(s, count)) = count
           /\ ToSet(Limited(s, count)) \subseteq ToSet(s)
<1>1. Len(s) \in Nat /\ DOMAIN s = 1..Len(s) /\ \A i \in 1..Len(s) : s[i] \in S
  OBVIOUS
<1>2. ASSUME Len(s) <= count PROVE Limited(s, count) = s
  <2>1. SubSeq(s, 1, Len(s)) = s
    BY SubSeqFull
  <2>2. ~(Len(s) > count)
    BY <1>1, <1>2
  <2> QED
    BY <2>1, <2>2, Zenon DEF Limited
<1>3. ASSUME Len(s) > count
      PROVE  /\ Limited(s, count) \in Seq(S) /\ Len(Limited(s, count)) = count
             /\ \A i \in 1..count : Limited(s, count)[i] = s[i]
  <2>1. Limited(s, count) = SubSeq(s, 1, count)
    BY <1>3, Zenon DEF Limited
  <2>2. \A i \in 1..count : s[i] \in S
    BY <1>1, <1>3
  <2>3. /\ SubSeq(s, 1, count) \in Seq(S)
        /\ Len(SubSeq(s, 1, count)) = IF 1 <= count THEN count - 1 + 1 ELSE 0
        /\ \A i \in 1..(count - 1 + 1) : SubSeq(s, 1, count)[i] = s[1 + i - 1]
    BY <2>2, SubSeqProperties
  <2>4. (IF 1 <= count THEN count - 1 + 1 ELSE 0) = count /\ count - 1 + 1 = count
    OBVIOUS
  <2>5. \A i \in 1..count : 1 + i - 1 = i
    OBVIOUS
  <2> QED
    BY <2>1, <2>3, <2>4, <2>5, Zenon
<1>4. ToSet(Limited(s, count)) \subseteq ToSet(s)
  <2>1. CASE Len(s) <= count
    BY <1>2, <2>1
  <2>2. CASE Len(s) > count
    <3> DEFINE t == Limited(s, count)
    <3>1. t \in Seq(S) /\ Len(t) = count /\ \A i \in 1..count : t[i] = s[i]
      BY <1>3, <2>2
    <3> HIDE DEF t
    <3>2. DOMAIN t = 1..count /\ \A i \in 1..count : i \in DOMAIN s
      BY <1>1, <2>2, <3>1
    <3>3. ToSet(t) \subseteq ToSet(s)
      BY <3>1, <3>2 DEF ToSet
    <3> QED
      BY <3>3 DEF t
  <2> QED
    BY <1>1, <2>1, <2>2
<1> QED
  BY <1>1, <1>2, <1>3, <1>4

LEMMA BodyIs ==
    ASSUME NEW mail \in Seq(Part)
    PROVE  /\ Body(mail) \in Seq(Nat)
           /\ BodyPart(mail) # 0 =>
                /\ BodyPart(mail) \in DOMAIN mail
                /\ mail[BodyPart(mail)].text \in Seq(Tokens)
                /\ mail[BodyPart(mail)].type = "text/html" =>
                     Body(mail) = Markdown(mail[BodyPart(mail)].text)
<1>1. DOMAIN mail = 1..Len(mail) /\ Len(mail) \in Nat /\ \A i \in DOMAIN mail : mail[i] \in Part
  OBVIOUS
<1>2. \A places : places # {} /\ places \subseteq DOMAIN mail => First(places) \in DOMAIN mail
  <2>1. ASSUME NEW places, places # {}, places \subseteq DOMAIN mail
        PROVE  First(places) \in DOMAIN mail
    <3>1. places \subseteq Nat
      BY <1>1, <2>1
    <3>2. \E k \in places : \A j \in places : k <= j
      BY <2>1, <3>1, LeastNatural
    <3> QED
      BY <2>1, <3>2 DEF First
  <2> QED
    BY <2>1
<1>3. Plain(mail) \subseteq DOMAIN mail /\ Html(mail) \subseteq DOMAIN mail
  BY DEF Plain, Html
<1>4. BodyPart(mail) = 0 \/ BodyPart(mail) \in DOMAIN mail
  <2>1. \/ BodyPart(mail) = 1 /\ Len(mail) = 1
        \/ BodyPart(mail) = First(Plain(mail)) /\ Plain(mail) # {}
        \/ BodyPart(mail) = First(Html(mail)) /\ Html(mail) # {}
        \/ BodyPart(mail) = 0
    BY Zenon DEF BodyPart
  <2>2. Len(mail) = 1 => 1 \in DOMAIN mail
    BY <1>1
  <2> QED
    BY <1>2, <1>3, <2>1, <2>2
<1> DEFINE part == mail[BodyPart(mail)]
<1>5. ASSUME BodyPart(mail) # 0
      PROVE  part \in Part /\ part.text \in Seq(Tokens) /\ Body(mail) = ShownOf(part)
  <2>1. part \in Part
    BY <1>1, <1>4, <1>5
  <2>2. part.text \in Seq(Tokens)
    BY <2>1 DEF Part, Tokens
  <2> QED
    BY <1>5, <2>1, <2>2 DEF Body
<1>6. ASSUME NEW text \in Seq(Tokens) PROVE Markdown(text) \in Seq(Nat)
  <2>1. PICK S : S \subseteq 1..Len(text) /\ Markdown(text) = Ascending(S)
    <3> DEFINE g == CHOOSE g : g = [i \in 0..Len(text) |-> DepthIn(text, g, i)]
               S == {i \in 1..Len(text) : text[i].kind = "data" /\ g[i] = 0}
    <3>1. Markdown(text) = Ascending(S)
      BY Zenon DEF Markdown, DepthIn
    <3>2. S \subseteq 1..Len(text)
      OBVIOUS
    <3> HIDE DEF S
    <3> QED
      BY <3>1, <3>2
  <2>2. IsFiniteSet(1..Len(text)) /\ Len(text) \in Nat
    BY FS_Interval
  <2>3. IsFiniteSet(S) /\ S \subseteq Nat
    <3>1. IsFiniteSet(S)
      BY <2>1, <2>2, FS_Subset
    <3> QED
      BY <2>1, <2>2, <3>1
  <2>4. Ascending(S) \in Seq(S)
    BY <2>3, AscendingIs
  <2> QED
    BY <2>1, <2>3, <2>4, SeqMonotonic
<1>7. CASE BodyPart(mail) = 0
  BY <1>7, EmptySeq DEF Body
<1>8. CASE BodyPart(mail) # 0
  <2>1. CASE part.type = "text/html"
    <3>1. Body(mail) = Markdown(part.text)
      BY <1>5, <1>8, <2>1 DEF ShownOf
    <3>2. Markdown(part.text) \in Seq(Nat)
      BY <1>5, <1>6, <1>8
    <3> QED
      BY <1>4, <1>5, <1>8, <3>1, <3>2
  <2>2. CASE part.type # "text/html"
    <3>1. Body(mail) = [i \in DOMAIN part.text |-> i]
      BY <1>5, <1>8, <2>2 DEF ShownOf
    <3>2. DOMAIN part.text = 1..Len(part.text) /\ Len(part.text) \in Nat
      BY <1>5, <1>8
    <3>3. [i \in 1..Len(part.text) |-> i] \in Seq(Nat)
      BY <3>2
    <3>4. Body(mail) \in Seq(Nat)
      BY <3>1, <3>2, <3>3, Zenon
    <3> QED
      BY <1>4, <1>5, <1>8, <2>2, <3>4
  <2> QED
    BY <2>1, <2>2
<1> QED
  BY <1>7, <1>8

(* The answers, by the tool that gives them.                               *)
SearchAnswer(answer) ==
    \E criteria \in Tree, count \in Nat :
        /\ WellFormed[criteria]
        /\ \E ids \in SetToSeqs(Selected(Compile[criteria], box)) :
             answer = [tool |-> "search_emails", criteria |-> criteria, count |-> count,
                       matches |-> Meaning(criteria, box), uids |-> Limited(ids, count)]

EmailAnswer(answer) ==
    \E mail \in Mail, count \in MaxChars :
        answer = [tool |-> "read_email", mail |-> mail, body |-> Limited(Body(mail), count),
                  truncated |-> Truncated(Limited(Body(mail), count), count)]

HeadersAnswer(answer) ==
    \E size \in Nat, count \in MaxChars :
        answer = [tool |-> "get_email_headers",
                  headers |-> Limited([i \in 1..size |-> i], count),
                  whole |-> [i \in 1..size |-> i],
                  truncated |-> Len([i \in 1..size |-> i]) > count]

AttachmentAnswer(answer) ==
    /\ offer # Nothing
    /\ \E id \in Nat, there \in BOOLEAN :
         answer = [tool |-> "get_email_attachment", id |-> id,
                   is |-> IF there THEN Retrieved(offer.mail, id) ELSE "not_found",
                   there |-> there]

FolderAnswer(answer) ==
    \E name \in Folder, quoted \in BOOLEAN :
        /\ MustQuote(name) => quoted
        /\ answer = [tool |-> "list_folders", folder |-> name,
                     name |-> ParseListFolderName(ListLine(name, quoted)), opens |-> {name}]

OpenedAnswer(answer) ==
    /\ told.tool = "list_folders"
    /\ answer = [told EXCEPT !.tool = "opened",
                             !.opens = Opened(EncodeMailboxName(Given(told.name)), Folder)]

(* What read_email offers.                                                 *)
MailOffered(new) ==
    \E mail \in Mail :
        /\ ~Unlistable(mail)
        /\ new = [tool |-> "read_email", uid |-> newest, mail |-> mail, listing |-> Listing(mail)]

LEMMA UnreadableCases ==
    ASSUME NEW mail, Unreadable(mail) = "no"
    PROVE  ~Unlistable(mail)
BY Zenon DEF Unreadable

LEMMA Telling ==
    ASSUME [Next]_vars
    PROVE  \/ told' = told /\ offer' = offer
           \/ told'.tool \in {"none", "failed"} /\ offer' \in {offer, Nothing}
           \/ SearchAnswer(told') /\ offer' = offer
           \/ EmailAnswer(told') /\ MailOffered(offer')
           \/ HeadersAnswer(told') /\ offer' = offer
           \/ AttachmentAnswer(told') /\ offer' = offer
           \/ FolderAnswer(told') /\ offer' = offer
           \/ OpenedAnswer(told') /\ offer' = offer
<1>1. CASE UNCHANGED vars \/ Move
  BY <1>1 DEF vars, Move, readingVars
<1>2. CASE SearchEmails \/ SearchMail
  <2>1. PICK criteria \in Tree, count \in Nat : Search(criteria, count) /\ offer' = offer
    <3>1. CASE SearchEmails
      <4>1. PICK criteria \in Tree, count \in 0..(MaxLimit + 1) : Search(criteria, count)
        BY <3>1 DEF SearchEmails
      <4> QED
        BY <3>1, <4>1 DEF SearchEmails
    <3>2. CASE SearchMail
      <4>1. PICK fields \in Fields, count \in 1..MaxLimit :
              Search(SearchMailCriteria(fields), count)
        BY <3>2 DEF SearchMail
      <4>2. SearchMailCriteria(fields) \in Tree
        BY ReadingAssumption
      <4> QED
        BY <3>2, <4>1, <4>2 DEF SearchMail
    <3> QED
      BY <1>2, <3>1, <3>2
  <2>2. CASE told' = Failure("invalid_input")
    BY <2>1, <2>2 DEF Failure
  <2>3. CASE told' # Failure("invalid_input")
    <3>1. WellFormed[criteria]
      BY <2>1, <2>3, Zenon DEF Search, Tell
    <3>2. \E ids \in SetToSeqs(Selected(Compile[criteria], box)) :
            told' = [tool |-> "search_emails", criteria |-> criteria, count |-> count,
                     matches |-> Meaning(criteria, box), uids |-> Limited(ids, count)]
      BY <2>1, <2>3, Zenon DEF Search, Tell
    <3> QED
      BY <2>1, <3>1, <3>2, Zenon DEF SearchAnswer
  <2> QED
    BY <2>2, <2>3
<1>3. CASE ReadEmail
  <2>1. PICK mail \in Mail, count \in MaxChars :
          \/ /\ Unreadable(mail) # "no"
             /\ Tell(Failure(Unreadable(mail)))
             /\ UNCHANGED offer
          \/ /\ Unreadable(mail) = "no"
             /\ LET body == Limited(Body(mail), count) IN
                  Tell([tool |-> "read_email", mail |-> mail, body |-> body,
                        truncated |-> Truncated(body, count)])
             /\ offer' = [tool |-> "read_email", uid |-> newest, mail |-> mail,
                          listing |-> Listing(mail)]
    BY <1>3, Zenon DEF ReadEmail
  <2>2. CASE Unreadable(mail) # "no"
    BY <2>1, <2>2 DEF Tell, Failure
  <2>3. CASE Unreadable(mail) = "no"
    <3>1. ~Unlistable(mail)
      BY <2>3, UnreadableCases
    <3>2. EmailAnswer(told')
      BY <2>1, <2>3, Zenon DEF EmailAnswer, Tell
    <3>3. MailOffered(offer')
      BY <2>1, <2>3, <3>1, Zenon DEF MailOffered
    <3> QED
      BY <3>2, <3>3
  <2> QED
    BY <2>2, <2>3
<1>4. CASE GetEmailHeaders
  <2>1. PICK size \in 0..MaxHeaders, count \in MaxChars :
          IF ~Fetched THEN Tell(Failure("not_found"))
          ELSE Tell([tool |-> "get_email_headers",
                     headers |-> Limited([i \in 1..size |-> i], count),
                     whole |-> [i \in 1..size |-> i],
                     truncated |-> Len([i \in 1..size |-> i]) > count])
    BY <1>4, Zenon DEF GetEmailHeaders
  <2>2. offer' = offer /\ size \in Nat
    BY <1>4 DEF GetEmailHeaders
  <2>3. CASE ~Fetched
    BY <2>1, <2>2, <2>3 DEF Tell, Failure
  <2>4. CASE Fetched
    <3>1. HeadersAnswer(told')
      BY <2>1, <2>2, <2>4, Zenon DEF HeadersAnswer, Tell
    <3> QED
      BY <2>2, <3>1
  <2> QED
    BY <2>3, <2>4
<1>5. CASE GetEmailAttachment
  <2>1. PICK id \in 1..(MaxParts + 1) :
          Tell([tool |-> "get_email_attachment", id |-> id,
                is |-> IF offer.uid \in box THEN Retrieved(offer.mail, id) ELSE "not_found",
                there |-> offer.uid \in box])
    BY <1>5, Zenon DEF GetEmailAttachment
  <2>2. id \in Nat /\ offer # Nothing /\ offer' = offer
    BY <1>5 DEF GetEmailAttachment, MayAskMore
  <2>3. (offer.uid \in box) \in BOOLEAN
    OBVIOUS
  <2>4. AttachmentAnswer(told')
    BY <2>1, <2>2, <2>3, Zenon DEF AttachmentAnswer, Tell
  <2> QED
    BY <2>2, <2>4
<1>6. CASE ListFolders
  <2>1. FolderAnswer(told') /\ offer' = offer
    BY <1>6, Zenon DEF ListFolders, FolderAnswer, Tell
  <2> QED
    BY <2>1
<1>7. CASE OpenFolder
  <2>1. offer' = offer /\ told.tool = "list_folders"
    BY <1>7 DEF OpenFolder
  <2>2. CASE Given(told.name) = << >>
    BY <1>7, <2>1, <2>2 DEF OpenFolder, Tell, Failure
  <2>3. CASE Given(told.name) # << >>
    <3>1. OpenedAnswer(told')
      BY <1>7, <2>1, <2>3, Zenon DEF OpenFolder, OpenedAnswer, Tell
    <3> QED
      BY <2>1, <3>1
  <2> QED
    BY <2>2, <2>3
<1>8. CASE ReadFails \/ Noted
  BY <1>8 DEF ReadFails, Noted, Tell, Failure, Nothing
<1> QED
  BY <1>1, <1>2, <1>3, <1>4, <1>5, <1>6, <1>7, <1>8 DEF Next

-----------------------------------------------------------------------------
(* MailReading: the invariants and the theorems.                           *)

(* Which answer is which: no two tools give answers alike.                 *)
LEMMA ToolsDiffer ==
    ASSUME NEW answer
    PROVE  /\ SearchAnswer(answer) => answer.tool = "search_emails"
           /\ EmailAnswer(answer) => answer.tool = "read_email"
           /\ HeadersAnswer(answer) => answer.tool = "get_email_headers"
           /\ AttachmentAnswer(answer) => answer.tool = "get_email_attachment"
           /\ FolderAnswer(answer) => answer.tool = "list_folders"
<1>1. SearchAnswer(answer) => answer.tool = "search_emails"
  BY DEF SearchAnswer
<1>2. EmailAnswer(answer) => answer.tool = "read_email"
  BY DEF EmailAnswer
<1>3. HeadersAnswer(answer) => answer.tool = "get_email_headers"
  BY DEF HeadersAnswer
<1>4. AttachmentAnswer(answer) => answer.tool = "get_email_attachment"
  BY DEF AttachmentAnswer
<1>5. FolderAnswer(answer) => answer.tool = "list_folders"
  BY DEF FolderAnswer
<1> QED
  BY <1>1, <1>2, <1>3, <1>4, <1>5

(* What list_folders gave is still there for the tool that opens it.       *)
FolderTold ==
    /\ told.tool = "list_folders" => FolderAnswer(told)
    /\ told.tool = "opened" =>
         \E listed : /\ FolderAnswer(listed)
                     /\ told = [listed EXCEPT !.tool = "opened",
                            !.opens = Opened(EncodeMailboxName(Given(listed.name)), Folder)]

LEMMA OpenedIs ==
    ASSUME NEW listed, FolderAnswer(listed), NEW folders
    PROVE  /\ [listed EXCEPT !.tool = "opened", !.opens = folders].tool = "opened"
           /\ [listed EXCEPT !.tool = "opened", !.opens = folders].folder = listed.folder
           /\ [listed EXCEPT !.tool = "opened", !.opens = folders].opens = folders
BY DEF FolderAnswer

LEMMA FolderToldSteps ==
    ASSUME FolderTold, [Next]_vars
    PROVE  FolderTold'
<1>1. CASE told' = told
  BY <1>1 DEF FolderTold, FolderAnswer
<1>2. CASE told'.tool \notin {"list_folders", "opened"}
  BY <1>2 DEF FolderTold
<1>3. CASE FolderAnswer(told')
  <2>1. told'.tool = "list_folders"
    BY <1>3, ToolsDiffer
  <2> QED
    BY <1>3, <2>1 DEF FolderTold, FolderAnswer
<1>4. CASE OpenedAnswer(told')
  <2>1. FolderAnswer(told)
    BY <1>4 DEF OpenedAnswer, FolderTold
  <2>2. told' = [told EXCEPT !.tool = "opened",
                    !.opens = Opened(EncodeMailboxName(Given(told.name)), Folder)]
    BY <1>4 DEF OpenedAnswer
  <2>3. told'.tool = "opened"
    BY <2>1, <2>2, OpenedIs
  <2> QED
    BY <2>1, <2>2, <2>3 DEF FolderTold, FolderAnswer
<1>5. told'.tool \in {"none", "failed", "search_emails", "read_email", "get_email_headers",
                      "get_email_attachment"} => told'.tool \notin {"list_folders", "opened"}
  OBVIOUS
<1> QED
  BY <1>1, <1>2, <1>3, <1>4, <1>5, Telling, ToolsDiffer

LineChars == {"(", ")", "/", Blank, Quote, Backslash}
Chars == LineChars \cup UNION {ToSet(name) : name \in Folder}

LEMMA FolderChars ==
    Folder \subseteq Seq(Chars) /\ Alphabet(Chars) /\ Before \in Seq(Chars)
<1>1. ASSUME NEW name \in Folder PROVE name \in Seq(Chars)
  <2>1. name \in Seq(ToSet(name)) /\ ToSet(name) \subseteq Chars
    BY ReadingAssumption DEF Chars
  <2> QED
    BY <2>1, SeqMonotonic
<1>2. LineChars \subseteq Chars
  BY DEF Chars
<1>3. Alphabet(Chars)
  BY <1>2 DEF Alphabet, LineChars
<1>4. Before \in Seq(Chars)
  <2> HIDE DEF Chars
  <2> QED
    BY <1>2 DEF Before, LineChars
<1> QED
  BY <1>1, <1>3, <1>4

LEMMA FolderToldOpens == FolderTold => NamesOpen
<1> SUFFICES ASSUME FolderTold, told.tool = "opened", told.folder = Strip(told.folder)
             PROVE  told.opens = {told.folder}
  BY DEF NamesOpen
<1>1. PICK listed : /\ FolderAnswer(listed)
                    /\ told = [listed EXCEPT !.tool = "opened",
                           !.opens = Opened(EncodeMailboxName(Given(listed.name)), Folder)]
  BY DEF FolderTold
<1>2. told.folder = listed.folder
      /\ told.opens = Opened(EncodeMailboxName(Given(listed.name)), Folder)
  BY <1>1, OpenedIs, Zenon
<1>3. PICK name \in Folder, quoted \in BOOLEAN :
        /\ MustQuote(name) => quoted
        /\ listed = [tool |-> "list_folders", folder |-> name,
                     name |-> ParseListFolderName(ListLine(name, quoted)), opens |-> {name}]
  BY <1>1 DEF FolderAnswer
<1>4. listed.folder = name /\ listed.name = ParseListFolderName(ListLine(name, quoted))
  BY <1>3
<1>5. Strip(name) = name
  BY <1>2, <1>4
<1>6. /\ ParseListFolderName(ListLine(name, quoted)) = name
      /\ Opened(EncodeMailboxName(name), Folder) = {name}
  BY <1>3, <1>5, FolderChars, NameOpens
<1> QED
  BY <1>2, <1>4, <1>5, <1>6 DEF Given

(* The name list_folders gives a folder (_parse_list_folder_name) opens    *)
(* that folder and no other (encode_imap_quoted_string), whatever          *)
(* characters it is made of.                                               *)
THEOREM ListedFoldersOpen == Spec => []NamesOpen
<1>1. Init => FolderTold
  BY DEF Init, FolderTold, Nothing
<1>2. FolderTold /\ [Next]_vars => FolderTold'
  BY FolderToldSteps
<1> QED
  BY <1>1, <1>2, FolderToldOpens, PTL DEF Spec

-----------------------------------------------------------------------------
(* What read_email offered stays what get_email_attachment is asked for.   *)
OfferKept ==
    /\ offer # Nothing =>
         \E mail \in Mail : /\ ~Unlistable(mail)
                            /\ offer.mail = mail /\ offer.listing = Listing(mail)
    /\ told.tool = "get_email_attachment" => AttachmentAnswer(told)

LEMMA OfferKeptSteps ==
    ASSUME FolderTold, OfferKept, [Next]_vars
    PROVE  OfferKept'
<1>1. offer' # Nothing =>
        \E mail \in Mail : /\ ~Unlistable(mail)
                           /\ offer'.mail = mail /\ offer'.listing = Listing(mail)
  <2>1. CASE offer' \in {offer, Nothing}
    BY <2>1 DEF OfferKept
  <2>2. CASE MailOffered(offer')
    BY <2>2 DEF MailOffered
  <2> QED
    BY <2>1, <2>2, Telling
<1>2. told'.tool = "get_email_attachment" => AttachmentAnswer(told)'
  <2> SUFFICES ASSUME told'.tool = "get_email_attachment" PROVE AttachmentAnswer(told)'
    OBVIOUS
  <2>1. CASE told' = told /\ offer' = offer
    BY <2>1 DEF OfferKept, AttachmentAnswer
  <2>2. CASE AttachmentAnswer(told') /\ offer' = offer
    BY <2>2 DEF AttachmentAnswer
  <2>3. CASE OpenedAnswer(told') /\ offer' = offer
    <3>1. FolderAnswer(told)
      BY <2>3 DEF OpenedAnswer, FolderTold
    <3>2. told'.tool = "opened"
      BY <2>3, <3>1, OpenedIs, Zenon DEF OpenedAnswer
    <3> QED
      BY <3>2
  <2> QED
    BY <2>1, <2>2, <2>3, Telling, ToolsDiffer
<1> QED
  BY <1>1, <1>2 DEF OfferKept

(* A part the listing offers passes the policy, and no other does.         *)
LEMMA OfferedIsGiven ==
    ASSUME NEW mail, ~Unlistable(mail), NEW id
    PROVE  Retrieved(mail, id) = "result" <=> id \in DOMAIN Listing(mail) /\ Listing(mail)[id]
<1>1. DOMAIN Listing(mail) = {j \in DOMAIN mail : IsAttachment(mail[j])}
  BY DEF Listing
<1>2. CASE id \notin DOMAIN mail \/ ~IsAttachment(mail[id])
  BY <1>1, <1>2 DEF Retrieved
<1>3. CASE id \in DOMAIN mail /\ IsAttachment(mail[id])
  <2>1. Listing(mail)[id] = Retrievable(mail[id])
    BY <1>3 DEF Listing
  <2>2. Retrieved(mail, id) = IF Allowed(mail[id]) THEN "result" ELSE "invalid_input"
    BY <1>3 DEF Retrieved
  <2>3. mail[id].name # "bad" => mail[id].type # "malformed"
    BY <1>3 DEF Unlistable
  <2>4. Allowed(mail[id]) <=> Retrievable(mail[id])
    BY <2>3 DEF Allowed, Retrievable
  <2> QED
    BY <1>1, <1>3, <2>1, <2>2, <2>4
<1> QED
  BY <1>2, <1>3

LEMMA OfferKeptHolds == OfferKept => OffersHold
<1> SUFFICES ASSUME OfferKept, told.tool = "get_email_attachment"
             PROVE  told.is = "result" <=>
                        told.there /\ told.id \in DOMAIN offer.listing /\ offer.listing[told.id]
  BY DEF OffersHold
<1>1. PICK id \in Nat, there \in BOOLEAN :
        told = [tool |-> "get_email_attachment", id |-> id,
                is |-> IF there THEN Retrieved(offer.mail, id) ELSE "not_found",
                there |-> there]
  BY DEF OfferKept, AttachmentAnswer
<1>2. PICK mail \in Mail : ~Unlistable(mail) /\ offer.mail = mail /\ offer.listing = Listing(mail)
  BY DEF OfferKept, AttachmentAnswer
<1>3. Retrieved(mail, id) = "result" <=> id \in DOMAIN Listing(mail) /\ Listing(mail)[id]
  BY <1>2, OfferedIsGiven
<1>4. /\ told.id = id /\ told.there = there
      /\ told.is = IF there THEN Retrieved(mail, id) ELSE "not_found"
  BY <1>1, <1>2
<1>5. "not_found" # "result"
  OBVIOUS
<1> QED
  BY <1>2, <1>3, <1>4, <1>5

(* get_email_attachment gives what read_email offered, while the message   *)
(* is there, and nothing else: listing and retrieval apply one policy.     *)
THEOREM OffersAreKept == Spec => []OffersHold
<1>1. Init => FolderTold /\ OfferKept
  BY DEF Init, FolderTold, OfferKept, Nothing
<1>2. FolderTold /\ OfferKept /\ [Next]_vars => (FolderTold /\ OfferKept)'
  BY FolderToldSteps, OfferKeptSteps
<1> QED
  BY <1>1, <1>2, OfferKeptHolds, PTL DEF Spec

-----------------------------------------------------------------------------
(* The properties of an answer alone, told once and for all.               *)
MailTold ==
    /\ told.tool = "read_email" => EmailAnswer(told)
    /\ told.tool = "get_email_headers" => HeadersAnswer(told)

LEMMA MailToldSteps ==
    ASSUME FolderTold, MailTold, [Next]_vars
    PROVE  MailTold'
<1>1. CASE told' = told
  BY <1>1 DEF MailTold, EmailAnswer, HeadersAnswer
<1>2. CASE told'.tool \notin {"read_email", "get_email_headers"}
  BY <1>2 DEF MailTold
<1>3. CASE EmailAnswer(told') \/ HeadersAnswer(told')
  <2>1. EmailAnswer(told') => told'.tool = "read_email"
    BY ToolsDiffer
  <2>2. HeadersAnswer(told') => told'.tool = "get_email_headers"
    BY ToolsDiffer
  <2> QED
    BY <1>3, <2>1, <2>2 DEF MailTold, EmailAnswer, HeadersAnswer
<1>4. CASE OpenedAnswer(told')
  <2>1. FolderAnswer(told)
    BY <1>4 DEF OpenedAnswer, FolderTold
  <2>2. told'.tool = "opened"
    BY <1>4, <2>1, OpenedIs, Zenon DEF OpenedAnswer
  <2> QED
    BY <2>2 DEF MailTold
<1>5. told'.tool \in {"none", "failed", "search_emails", "get_email_attachment", "list_folders"}
        => told'.tool \notin {"read_email", "get_email_headers"}
  OBVIOUS
<1> QED
  BY <1>1, <1>2, <1>3, <1>4, <1>5, Telling, ToolsDiffer

LEMMA EmailIs ==
    ASSUME MailTold, told.tool = "read_email"
    PROVE  /\ told.mail \in Mail /\ told.mail \in Seq(Part)
           /\ \E count \in Nat \ {0} : /\ told.body = Limited(Body(told.mail), count)
                                       /\ told.truncated = (Len(told.body) >= count)
<1>1. PICK mail \in Mail, count \in MaxChars :
        told = [tool |-> "read_email", mail |-> mail, body |-> Limited(Body(mail), count),
                truncated |-> Truncated(Limited(Body(mail), count), count)]
  BY DEF MailTold, EmailAnswer
<1>2. count \in Nat \ {0} /\ mail \in Seq(Part)
  BY ReadingAssumption
<1>3. /\ told.mail = mail /\ told.body = Limited(Body(mail), count)
      /\ told.truncated = Truncated(Limited(Body(mail), count), count)
  BY <1>1
<1> QED
  BY <1>2, <1>3 DEF Truncated

LEMMA MailToldCut == MailTold => CutIsTold
<1>1. ASSUME MailTold, told.tool = "read_email", Len(told.body) < Len(Body(told.mail))
      PROVE  told.truncated
  <2>1. PICK count \in Nat \ {0} : /\ told.body = Limited(Body(told.mail), count)
                                   /\ told.truncated = (Len(told.body) >= count)
    BY <1>1, EmailIs
  <2>2. Body(told.mail) \in Seq(Nat)
    BY <1>1, EmailIs, BodyIs
  <2>3. Len(Body(told.mail)) \in Nat
    BY <2>2
  <2>4. Len(Body(told.mail)) > count
    <3>1. Len(Body(told.mail)) <= count => Limited(Body(told.mail), count) = Body(told.mail)
      BY <2>2, LimitedIs
    <3>2. ~(Len(Body(told.mail)) < Len(Body(told.mail)))
      BY <2>3
    <3>3. ~(Len(Body(told.mail)) <= count)
      BY <1>1, <2>1, <3>1, <3>2, Zenon
    <3> QED
      BY <2>3, <3>3
  <2>5. Len(told.body) = count
    BY <2>1, <2>2, <2>4, LimitedIs
  <2>6. count >= count
    OBVIOUS
  <2> QED
    BY <2>1, <2>5, <2>6, Zenon
<1>2. ASSUME MailTold, told.tool = "get_email_headers"
      PROVE  told.truncated <=> told.headers # told.whole
  <2>1. PICK size \in Nat, count \in MaxChars :
          told = [tool |-> "get_email_headers",
                  headers |-> Limited([i \in 1..size |-> i], count),
                  whole |-> [i \in 1..size |-> i],
                  truncated |-> Len([i \in 1..size |-> i]) > count]
    BY <1>2 DEF MailTold, HeadersAnswer
  <2> DEFINE whole == [i \in 1..size |-> i]
  <2>2. whole \in Seq(Nat) /\ Len(whole) \in Nat
    OBVIOUS
  <2>3. /\ told.headers = Limited(whole, count) /\ told.whole = whole
        /\ told.truncated = (Len(whole) > count)
    BY <2>1
  <2>4. count \in Nat
    BY ReadingAssumption
  <2> HIDE DEF whole
  <2>5. CASE Len(whole) > count
    <3>1. Len(Limited(whole, count)) = count
      BY <2>2, <2>4, <2>5, LimitedIs
    <3>2. Limited(whole, count) # whole
      BY <2>4, <2>5, <3>1
    <3> QED
      BY <2>3, <2>5, <3>2
  <2>6. CASE ~(Len(whole) > count)
    <3>1. Len(whole) <= count
      BY <2>2, <2>4, <2>6
    <3>2. Limited(whole, count) = whole
      BY <2>2, <2>4, <3>1, LimitedIs
    <3> QED
      BY <2>3, <2>6, <3>2
  <2> QED
    BY <2>5, <2>6
<1> QED
  BY <1>1, <1>2 DEF CutIsTold

LEMMA MailToldHidden == MailTold => HiddenStaysHidden
<1> DEFINE part == told.mail[BodyPart(told.mail)]
<1> SUFFICES ASSUME MailTold, told.tool = "read_email", BodyPart(told.mail) # 0,
                    part.type = "text/html", Nests(part.text)
             PROVE  /\ ToSet(told.body) \subseteq Visible(part.text)
                    /\ ToSet(told.body) = Visible(part.text) \/ told.truncated
  BY Zenon DEF HiddenStaysHidden
<1>1. PICK count \in Nat \ {0} : /\ told.body = Limited(Body(told.mail), count)
                                 /\ told.truncated = (Len(told.body) >= count)
  BY EmailIs
<1>2. /\ Body(told.mail) \in Seq(Nat) /\ part.text \in Seq(Tokens)
      /\ Body(told.mail) = Markdown(part.text)
  BY EmailIs, BodyIs
<1>3. ToSet(Body(told.mail)) = Visible(part.text)
  BY <1>2, MarkdownIs
<1>4. ToSet(told.body) \subseteq Visible(part.text)
  BY <1>1, <1>2, <1>3, LimitedIs
<1>5. CASE Len(Body(told.mail)) <= count
  <2>1. told.body = Body(told.mail)
    BY <1>1, <1>2, <1>5, LimitedIs
  <2> QED
    BY <1>3, <1>4, <2>1
<1>6. CASE Len(Body(told.mail)) > count
  <2>1. Len(told.body) = count
    BY <1>1, <1>2, <1>6, LimitedIs
  <2>2. count >= count
    OBVIOUS
  <2>3. told.truncated
    BY <1>1, <2>1, <2>2, Zenon
  <2> QED
    BY <1>4, <2>3
<1>7. Len(Body(told.mail)) \in Nat
  BY <1>2
<1> QED
  BY <1>5, <1>6, <1>7

LEMMA MailToldAlways == Spec => []MailTold
<1>1. Init => FolderTold /\ MailTold
  BY DEF Init, FolderTold, MailTold, Nothing
<1>2. FolderTold /\ MailTold /\ [Next]_vars => (FolderTold /\ MailTold)'
  BY FolderToldSteps, MailToldSteps
<1> QED
  BY <1>1, <1>2, PTL DEF Spec

(* A body or header block that was cut to max_chars is said to be          *)
(* truncated (_dispatch, get_email_headers).                               *)
THEOREM CutsAreTold == Spec => []CutIsTold
BY MailToldAlways, MailToldCut, PTL

(* Of every HTML body whose tags nest, _SimpleMarkdownHTMLParser shows     *)
(* what is outside the invisible containers, and nothing inside them.      *)
THEOREM HiddenIsNotShown == Spec => []HiddenStaysHidden
BY MailToldAlways, MailToldHidden, PTL

(* The other tools leave a walk alone, so that a walk among them is a walk *)
(* of Paging.                                                              *)
LEMMA ReadingIsPaging == Spec => PagingSpec
<1>1. Init => PagingInit
  BY DEF Init
<1>2. [Next]_vars => [PagingNext]_pagingVars
  <2>1. CASE Next
    BY <2>1 DEF Next, Move, SearchEmails, SearchMail, ReadEmail, GetEmailHeaders,
       GetEmailAttachment, ListFolders, OpenFolder, ReadFails, Noted
  <2>2. CASE UNCHANGED vars
    BY <2>2 DEF vars, pagingVars
  <2> QED
    BY <2>1, <2>2
<1> QED
  BY <1>1, <1>2, PTL DEF Spec, PagingSpec

(* list_emails, beside all other tools: no walk misses more messages than  *)
(* were expunged under it, and every page is newest first without doubles. *)
THEOREM WalksAmongTools == Spec => [](PagingTypeOK /\ SkipsBounded /\ PageNewestFirst)
BY ReadingIsPaging, PagingTyped, WalksMissLittle, PagesAreNewestFirst, PTL

(* The server's answer holds the messages the criteria describe, each once *)
(* and in some order; it is only cut.                                      *)
LEMMA SearchAnswerExact ==
    ASSUME NEW answer, SearchAnswer(answer), IsFiniteSet(box)
    PROVE  /\ ToSet(answer.uids) \subseteq answer.matches
           /\ \/ Len(answer.uids) = Cardinality(answer.matches)
              \/ Len(answer.uids) = answer.count /\ answer.count < Cardinality(answer.matches)
<1>1. PICK criteria \in Tree, count \in Nat :
        /\ WellFormed[criteria]
        /\ \E ids \in SetToSeqs(Selected(Compile[criteria], box)) :
             answer = [tool |-> "search_emails", criteria |-> criteria, count |-> count,
                       matches |-> Meaning(criteria, box), uids |-> Limited(ids, count)]
  BY Zenon DEF SearchAnswer
<1> DEFINE M == Meaning(criteria, box)
<1>2. PICK ids \in SetToSeqs(M) :
        answer = [tool |-> "search_emails", criteria |-> criteria, count |-> count,
                  matches |-> M, uids |-> Limited(ids, count)]
  <2>1. Selected(Compile[criteria], box) = M
    BY <1>1, SelectedIs
  <2> QED
    BY <1>1, <2>1, Zenon
<1>3. IsFiniteSet(M) /\ Cardinality(M) \in Nat
  <2>1. M \subseteq box
    BY MeaningCases
  <2> HIDE DEF M
  <2> QED
    BY <2>1, FS_Subset, FS_CardinalityType
<1>4. answer.matches = M /\ answer.count = count /\ answer.uids = Limited(ids, count)
  BY <1>2
<1> HIDE DEF M
<1>5. ids \in Seq(M) /\ Len(ids) = Cardinality(M) /\ ToSet(ids) \subseteq M
  <2>1. ids \in [1..Cardinality(M) -> M]
    BY DEF SetToSeqs
  <2> QED
    BY <1>3, <2>1 DEF ToSet
<1>6. ToSet(Limited(ids, count)) \subseteq M
  <2>1. ToSet(Limited(ids, count)) \subseteq ToSet(ids)
    BY <1>5, LimitedIs
  <2> QED
    BY <1>5, <2>1
<1>7. CASE Len(ids) <= count
  <2>1. Limited(ids, count) = ids
    BY <1>5, <1>7, LimitedIs
  <2> QED
    BY <1>4, <1>5, <1>6, <2>1
<1>8. CASE Len(ids) > count
  <2>1. Len(Limited(ids, count)) = count
    BY <1>5, <1>8, LimitedIs
  <2>2. count < Cardinality(M)
    BY <1>3, <1>5, <1>8
  <2> QED
    BY <1>4, <1>6, <2>1, <2>2
<1> QED
  BY <1>3, <1>5, <1>7, <1>8

LEMMA SearchExactSteps ==
    ASSUME PagingTypeOK, FolderTold, SearchExact, [Next]_vars
    PROVE  SearchExact'
<1>0. IsFiniteSet(box)
  <2>1. newest \in Nat /\ box \subseteq 1..newest
    BY DEF PagingTypeOK
  <2>2. IsFiniteSet(1..newest)
    BY <2>1, FS_Interval
  <2> QED
    BY <2>1, <2>2, FS_Subset
<1>1. CASE told' = told
  BY <1>1 DEF SearchExact
<1>2. CASE told'.tool # "search_emails"
  BY <1>2 DEF SearchExact
<1>3. CASE SearchAnswer(told')
  BY <1>0, <1>3, SearchAnswerExact DEF SearchExact
<1>4. CASE OpenedAnswer(told')
  <2>1. FolderAnswer(told)
    BY <1>4 DEF OpenedAnswer, FolderTold
  <2>2. told'.tool = "opened"
    BY <1>4, <2>1, OpenedIs, Zenon DEF OpenedAnswer
  <2> QED
    BY <2>2 DEF SearchExact
<1>5. told'.tool \in {"none", "failed", "read_email", "get_email_headers",
                      "get_email_attachment", "list_folders"} => told'.tool # "search_emails"
  OBVIOUS
<1> QED
  BY <1>1, <1>2, <1>3, <1>4, <1>5, Telling, ToolsDiffer

(* search_emails gives the messages the criteria describe and no others:   *)
(* for every tree of and, or and not, the words _compile_criteria sends    *)
(* mean what the tree means.                                               *)
THEOREM SearchesAreExact == Spec => []SearchExact
<1>1. Init => FolderTold /\ SearchExact
  BY DEF Init, FolderTold, SearchExact, Nothing
<1>2. PagingTypeOK /\ FolderTold /\ SearchExact /\ [Next]_vars => (FolderTold /\ SearchExact)'
  BY FolderToldSteps, SearchExactSteps
<1>3. Spec => []PagingTypeOK
  BY WalksAmongTools, PTL
<1> QED
  BY <1>1, <1>2, <1>3, PTL DEF Spec

=============================================================================
