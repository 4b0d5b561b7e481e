---------------------------- MODULE PagingProofs ----------------------------
(***************************************************************************)
(* Proofs about Paging, for folders and pages of any size and any timing   *)
(* of arrivals and expunges.  The two lemmas on Behind say what one        *)
(* expunged and one new message do to the depths of the others; the rest   *)
(* is one step per action.                                                 *)
(***************************************************************************)
EXTENDS Paging, Sorting, FiniteSetTheorems, FunctionTheorems, SequenceTheorems, TLAPS

Below(b, u) == {v \in b : v <= u}

(* LeftBehind, of any folder b.                                            *)
Behind(b, old, n, s) ==
    {u \in old \cap b : u \notin s /\ Cardinality(b) + 1 - Cardinality(Below(b, u)) <= n}

LEMMA BehindIs ==
    \A n, s : LeftBehind(n, s) = Behind(box, start, n, s)
BY DEF LeftBehind, Behind, Depth, Number, Below

LEMMA Numbering ==
    ASSUME NEW b, IsFiniteSet(b), b \subseteq Nat
    PROVE  /\ Cardinality(b) \in Nat
           /\ \A u : IsFiniteSet(Below(b, u)) /\ Cardinality(Below(b, u)) \in Nat
           /\ \A u, v \in b : Cardinality(Below(b, u)) = Cardinality(Below(b, v)) => u = v
<1>1. \A u : IsFiniteSet(Below(b, u)) /\ Cardinality(Below(b, u)) \in Nat
  BY FS_Subset, FS_CardinalityType DEF Below
<1>2. ASSUME NEW u \in b, NEW v \in b, u < v
      PROVE  Cardinality(Below(b, u)) < Cardinality(Below(b, v))
  <2>0. u \in Nat /\ v \in Nat /\ \A w \in b : w \in Nat
    OBVIOUS
  <2>1. Below(b, u) \cup {v} \subseteq Below(b, v) /\ v \notin Below(b, u)
    <3>1. v <= v /\ ~(v <= u)
      BY <1>2, <2>0
    <3>2. \A w \in b : w <= u => w <= v
      BY <1>2, <2>0
    <3> QED
      BY <3>1, <3>2 DEF Below
  <2>2. /\ IsFiniteSet(Below(b, u) \cup {v})
        /\ Cardinality(Below(b, u) \cup {v}) = Cardinality(Below(b, u)) + 1
    BY <1>1, <2>1, FS_AddElement
  <2>3. Cardinality(Below(b, u) \cup {v}) <= Cardinality(Below(b, v))
    BY <1>1, <2>1, FS_Subset
  <2> QED
    BY <1>1, <2>2, <2>3
<1>3. ASSUME NEW u \in b, NEW v \in b, Cardinality(Below(b, u)) = Cardinality(Below(b, v))
      PROVE  u = v
  <2>1. CASE u < v
    BY <1>1, <1>2, <1>3, <2>1
  <2>2. CASE v < u
    BY <1>1, <1>2, <1>3, <2>2
  <2> QED
    BY <2>1, <2>2
<1> QED
  BY <1>1, <1>3, FS_CardinalityType

LEMMA BehindFinite ==
    ASSUME NEW b, IsFiniteSet(b), NEW old, NEW n, NEW s
    PROVE  IsFiniteSet(Behind(b, old, n, s)) /\ Cardinality(Behind(b, old, n, s)) \in Nat
BY FS_Subset, FS_CardinalityType DEF Behind

(* A message less: the older ones come up by one, and one of them at most  *)
(* comes up to n.                                                          *)
LEMMA OneGone ==
    ASSUME NEW b, IsFiniteSet(b), b \subseteq Nat, NEW u \in b, NEW old, NEW s,
           NEW n \in Nat, NEW g \in Nat, Cardinality(Behind(b, old, n, s)) <= g
    PROVE  Cardinality(Behind(b \ {u}, old, n, s)) <= g + 1
<1> DEFINE c == b \ {u}
           now == Behind(c, old, n, s)
           before == Behind(b, old, n, s)
<1>1. IsFiniteSet(c) /\ Cardinality(c) = Cardinality(b) - 1 /\ c \subseteq Nat
  BY FS_RemoveElement
<1>2. Cardinality(b) \in Nat
  BY FS_CardinalityType
<1>3. ASSUME NEW m \in c
      PROVE  \/ Cardinality(Below(c, m)) = Cardinality(Below(b, m))
             \/ Cardinality(Below(c, m)) = Cardinality(Below(b, m)) - 1
  <2>1. CASE m < u
    <3>1. Below(c, m) = Below(b, m)
      BY <2>1 DEF Below
    <3> QED
      BY <3>1
  <2>2. CASE u < m
    <3>0. u <= m
      BY <2>2
    <3>1. Below(c, m) = Below(b, m) \ {u} /\ u \in Below(b, m)
      BY <3>0 DEF Below
    <3>2. IsFiniteSet(Below(b, m))
      BY Numbering
    <3> QED
      BY <3>1, <3>2, FS_RemoveElement
  <2> QED
    BY <2>1, <2>2
<1>4. \A m \in now : m \in before \/ (m \in b /\ Cardinality(b) - Cardinality(Below(b, m)) = n)
  <2>1. ASSUME NEW m \in now
        PROVE  m \in before \/ (m \in b /\ Cardinality(b) - Cardinality(Below(b, m)) = n)
    <3>1. m \in c /\ m \in old /\ m \notin s /\ m \in b
      BY DEF Behind
    <3>2. Cardinality(c) + 1 - Cardinality(Below(c, m)) <= n
      BY DEF Behind
    <3>3. Cardinality(Below(b, m)) \in Nat
      BY Numbering
    <3>4. \/ Cardinality(b) + 1 - Cardinality(Below(b, m)) <= n
          \/ Cardinality(b) - Cardinality(Below(b, m)) = n
      BY <1>1, <1>2, <1>3, <3>1, <3>2, <3>3
    <3>5. ASSUME Cardinality(b) + 1 - Cardinality(Below(b, m)) <= n
          PROVE  m \in before
      <4> HIDE DEF now, c
      <4>1. m \in old \cap b
        BY <3>1
      <4> QED
        BY <3>1, <3>5, <4>1 DEF Behind
    <3> QED
      BY <3>1, <3>4, <3>5
  <2> QED
    BY <2>1
<1>5. IsFiniteSet(before) /\ Cardinality(before) \in Nat
  BY BehindFinite
<1>6. CASE now \subseteq before
  <2>1. Cardinality(now) <= Cardinality(before) /\ Cardinality(now) \in Nat
    BY <1>5, <1>6, FS_Subset, FS_CardinalityType
  <2> QED
    BY <1>5, <2>1
<1>7. CASE ~(now \subseteq before)
  <2>1. PICK e \in now : e \notin before
    BY <1>7
  <2>2. ASSUME NEW m \in now, m \notin before PROVE m = e
    <3>1. /\ m \in b /\ e \in b
          /\ Cardinality(b) - Cardinality(Below(b, m)) = n
          /\ Cardinality(b) - Cardinality(Below(b, e)) = n
      BY <1>4, <2>1, <2>2
    <3>2. Cardinality(Below(b, m)) \in Nat /\ Cardinality(Below(b, e)) \in Nat
      BY Numbering
    <3>3. Cardinality(Below(b, m)) = Cardinality(Below(b, e))
      BY <3>1, <3>2, <1>2
    <3> QED
      BY <3>1, <3>3, Numbering
  <2>3. now \subseteq before \cup {e}
    BY <2>2
  <2>4. /\ IsFiniteSet(before \cup {e})
        /\ Cardinality(before \cup {e}) = Cardinality(before) + 1
    BY <1>5, <2>1, FS_AddElement
  <2>5. Cardinality(now) <= Cardinality(before \cup {e}) /\ Cardinality(now) \in Nat
    BY <2>3, <2>4, FS_Subset, FS_CardinalityType
  <2> QED
    BY <1>5, <2>4, <2>5
<1> QED
  BY <1>6, <1>7

(* A message more: everything else goes one deeper.                        *)
LEMMA OneMore ==
    ASSUME NEW b, IsFiniteSet(b), NEW k \in Nat, b \subseteq 1..k, NEW old, old \subseteq 1..k,
           NEW s, NEW n \in Nat
    PROVE  Behind(b \cup {k + 1}, old, n, s) \subseteq Behind(b, old, n, s)
<1> DEFINE c == b \cup {k + 1}
<1>1. k + 1 \notin b /\ b \subseteq Nat
  OBVIOUS
<1>2. Cardinality(c) = Cardinality(b) + 1 /\ Cardinality(b) \in Nat
  BY <1>1, FS_AddElement, FS_CardinalityType
<1>3. ASSUME NEW m \in Behind(c, old, n, s) PROVE m \in Behind(b, old, n, s)
  <2>1. m \in old /\ m \in c /\ m \notin s /\ m \in b /\ m \in 1..k
    BY DEF Behind
  <2>2. Below(c, m) = Below(b, m)
    BY <2>1 DEF Below
  <2>3. Cardinality(Below(b, m)) \in Nat
    BY <1>1, Numbering
  <2>4. Cardinality(c) + 1 - Cardinality(Below(c, m)) <= n
    BY DEF Behind
  <2> QED
    BY <1>2, <2>1, <2>2, <2>3, <2>4 DEF Behind
<1> QED
  BY <1>3

-----------------------------------------------------------------------------
LEMMA BoxFinite ==
    ASSUME PagingTypeOK
    PROVE  IsFiniteSet(box) /\ box \subseteq Nat /\ Cardinality(box) \in Nat
<1>1. IsFiniteSet(1..newest)
  BY FS_Interval DEF PagingTypeOK
<1>2. IsFiniteSet(box)
  BY <1>1, FS_Subset DEF PagingTypeOK
<1> QED
  BY <1>2, FS_CardinalityType DEF PagingTypeOK

LEMMA PagingStarts == PagingInit => PagingInv
<1> SUFFICES ASSUME PagingInit PROVE PagingInv
  OBVIOUS
<1>1. PagingTypeOK
  BY PagingAssumption DEF PagingInit, PagingTypeOK
<1>2. LeftBehind(offset, seen) = {}
  BY DEF PagingInit, LeftBehind
<1> QED
  BY <1>1, <1>2, FS_EmptySet DEF PagingInit, PagingInv, SkipsBounded, WindowCloses

LEMMA ArriveKeeps ==
    ASSUME PagingInv, Arrive
    PROVE  PagingInv'
<1>1. PagingTypeOK /\ IsFiniteSet(box)
  BY BoxFinite DEF PagingInv
<1>2. /\ newest' = newest + 1 /\ box' = box \cup {newest + 1} /\ limit' = limit
      /\ offset' = offset /\ view' = view /\ seen' = seen /\ start' = start /\ gone' = gone
  BY DEF Arrive, walkVars
<1>3. PagingTypeOK'
  BY <1>1, <1>2 DEF PagingTypeOK
<1>4. ASSUME NEW n \in Nat, NEW s, Cardinality(Behind(box, start, n, s)) <= gone
      PROVE  Cardinality(Behind(box', start, n, s)) <= gone
  <2>1. Behind(box', start, n, s) \subseteq Behind(box, start, n, s)
    BY <1>1, <1>2, OneMore DEF PagingTypeOK
  <2>2. /\ Cardinality(Behind(box', start, n, s)) <= Cardinality(Behind(box, start, n, s))
        /\ Cardinality(Behind(box', start, n, s)) \in Nat
        /\ Cardinality(Behind(box, start, n, s)) \in Nat
    BY <1>1, <2>1, BehindFinite, FS_Subset, FS_CardinalityType
  <2> QED
    BY <1>1, <1>4, <2>2 DEF PagingTypeOK
<1>5. /\ Cardinality(Behind(box', start, offset, seen)) <= gone
      /\ view # {} => Cardinality(Behind(box', start, offset + limit, seen \cup view)) <= gone
  BY <1>1, <1>4, BehindIs DEF PagingInv, SkipsBounded, WindowCloses, PagingTypeOK
<1> QED
  BY <1>2, <1>3, <1>5
     DEF PagingInv, SkipsBounded, WindowCloses, LeftBehind, Behind, Depth, Number, Below

LEMMA ExpungeKeeps ==
    ASSUME PagingInv, NEW u \in box, Expunge(u)
    PROVE  PagingInv'
<1>1. PagingTypeOK /\ IsFiniteSet(box) /\ box \subseteq Nat
  BY BoxFinite DEF PagingInv
<1>2. /\ newest' = newest /\ box' = box \ {u} /\ limit' = limit
      /\ offset' = offset /\ view' = view /\ seen' = seen /\ start' = start
      /\ gone' = IF limit = 0 THEN 0 ELSE gone + 1
  BY DEF Expunge, walkVars
<1>3. PagingTypeOK'
  BY <1>1, <1>2 DEF PagingTypeOK
<1>4. /\ Cardinality(Behind(box', start, offset, seen)) <= gone'
      /\ view # {} => Cardinality(Behind(box', start, offset + limit, seen \cup view)) <= gone'
  <2>1. CASE limit = 0
    <3>1. Behind(box', start, offset, seen) = {} /\ view = {} /\ gone' = 0
      BY <1>1, <1>2, <2>1 DEF PagingTypeOK, Behind
    <3> QED
      BY <3>1, FS_EmptySet
  <2>2. CASE limit # 0
    <3>1. gone' = gone + 1 /\ gone \in Nat /\ offset \in Nat /\ offset + limit \in Nat
      BY <1>1, <1>2, <2>2 DEF PagingTypeOK
    <3>2. /\ Cardinality(Behind(box, start, offset, seen)) <= gone
          /\ view # {} => Cardinality(Behind(box, start, offset + limit, seen \cup view)) <= gone
      BY BehindIs DEF PagingInv, SkipsBounded, WindowCloses
    <3>3. Cardinality(Behind(box \ {u}, start, offset, seen)) <= gone + 1
      BY <1>1, <3>1, <3>2, OneGone
    <3>4. view # {} =>
            Cardinality(Behind(box \ {u}, start, offset + limit, seen \cup view)) <= gone + 1
      BY <1>1, <3>1, <3>2, OneGone
    <3> QED
      BY <1>2, <3>1, <3>3, <3>4
  <2> QED
    BY <2>1, <2>2
<1> QED
  BY <1>2, <1>3, <1>4
     DEF PagingInv, SkipsBounded, WindowCloses, LeftBehind, Behind, Depth, Number, Below

-----------------------------------------------------------------------------
(* The sorting of the answers.                                             *)

Ahead(answers, records, k) == {j \in records : Precedes(answers, j, k)}

Ranked(answers, records, i) ==
    CHOOSE k \in records : Cardinality(Ahead(answers, records, k)) = i

(* Every rank is taken once, and a lower rank stands ahead.                *)
LEMMA RanksSort ==
    ASSUME NEW answers, NEW records, IsFiniteSet(records), records \subseteq Nat,
           \A k \in records : answers[k].number \in Nat
    PROVE  /\ Cardinality(records) \in Nat
           /\ \A i \in 1..Cardinality(records) : Ranked(answers, records, i) \in records
           /\ \A k \in records : \E i \in 1..Cardinality(records) :
                 Ranked(answers, records, i) = k
           /\ \A i, j \in 1..Cardinality(records) : i < j =>
                 /\ Ranked(answers, records, i) # Ranked(answers, records, j)
                 /\ Precedes(answers, Ranked(answers, records, i), Ranked(answers, records, j))
<1> DEFINE n == Cardinality(records)
           A(k) == Ahead(answers, records, k)
           rank == [k \in records |-> Cardinality(A(k))]
           at(i) == Ranked(answers, records, i)
<1>1. n \in Nat /\ IsFiniteSet(1..n) /\ Cardinality(1..n) = n
  BY FS_CardinalityType, FS_Interval
<1>2. /\ \A k \in records : Precedes(answers, k, k)
      /\ \A j, k \in records : Precedes(answers, j, k) \/ Precedes(answers, k, j)
      /\ \A j, k \in records : Precedes(answers, j, k) /\ Precedes(answers, k, j) => j = k
      /\ \A i, j, k \in records :
            Precedes(answers, i, j) /\ Precedes(answers, j, k) => Precedes(answers, i, k)
  <2>1. \A k \in records : k \in Nat /\ answers[k].number \in Nat
    OBVIOUS
  <2> QED
    BY <2>1 DEF Precedes
<1>3. ASSUME NEW k \in records
      PROVE  /\ IsFiniteSet(A(k)) /\ Cardinality(A(k)) \in Nat /\ k \in A(k)
             /\ Cardinality(A(k)) \in 1..n
  <2>1. A(k) \subseteq records /\ k \in A(k)
    BY <1>2 DEF Ahead
  <2>2. IsFiniteSet(A(k)) /\ Cardinality(A(k)) \in Nat /\ Cardinality(A(k)) <= n
    BY <2>1, FS_Subset, FS_CardinalityType
  <2>3. Cardinality(A(k)) # 0
    BY <2>1, <2>2, FS_EmptySet
  <2> QED
    BY <1>1, <2>1, <2>2, <2>3
<1>4. ASSUME NEW j \in records, NEW k \in records, j # k, Precedes(answers, j, k)
      PROVE  Cardinality(A(j)) < Cardinality(A(k))
  <2>1. A(j) \cup {k} \subseteq A(k) /\ k \notin A(j)
    BY <1>2, <1>4 DEF Ahead
  <2>2. /\ IsFiniteSet(A(j) \cup {k})
        /\ Cardinality(A(j) \cup {k}) = Cardinality(A(j)) + 1
    BY <1>3, <2>1, FS_AddElement
  <2>3. Cardinality(A(j) \cup {k}) <= Cardinality(A(k))
    BY <1>3, <2>1, FS_Subset
  <2> QED
    BY <1>3, <2>2, <2>3
<1>5. /\ rank \in [records -> 1..n]
      /\ \A k \in records : rank[k] = Cardinality(A(k)) /\ rank[k] \in Nat
  BY <1>3
<1>6. /\ \A j, k \in records : j # k /\ Precedes(answers, j, k) => rank[j] < rank[k]
      /\ \A i : at(i) = CHOOSE k \in records : rank[k] = i
  <2>1. ASSUME NEW i PROVE at(i) = CHOOSE k \in records : rank[k] = i
    BY DEF Ranked
  <2> QED
    BY <1>4, <1>5, <2>1
<1> HIDE DEF rank, n, A, at
<1>7. ASSUME NEW j \in records, NEW k \in records, rank[j] = rank[k] PROVE j = k
  <2>1. ~(rank[j] < rank[k]) /\ ~(rank[k] < rank[j])
    BY <1>5, <1>7
  <2> QED
    BY <1>2, <1>6, <2>1
<1>8. rank \in Injection(records, 1..n)
  BY <1>5, <1>7, Fun_IsInj
<1>9. rank \in Surjection(records, 1..n)
  <2>1. Cardinality(records) = Cardinality(1..n)
    BY <1>1 DEF n
  <2> QED
    BY <1>1, <1>8, <2>1, FS_Injection
<1>10. \A i \in 1..n : at(i) \in records /\ rank[at(i)] = i
  <2>1. \A i \in 1..n : \E k \in records : rank[k] = i
    BY <1>9, Fun_SurjectionProperties
  <2> QED
    BY <1>6, <2>1
<1>11. ASSUME NEW k \in records PROVE \E i \in 1..n : at(i) = k
  <2>1. rank[k] \in 1..n
    BY <1>5
  <2>2. at(rank[k]) = k
    BY <1>7, <1>10, <2>1
  <2> QED
    BY <2>1, <2>2
<1>12. ASSUME NEW i \in 1..n, NEW j \in 1..n, i < j
       PROVE  at(i) # at(j) /\ Precedes(answers, at(i), at(j))
  <2>1. at(i) # at(j) /\ at(i) \in records /\ at(j) \in records
    BY <1>10, <1>12
  <2>2. ~(rank[at(j)] < rank[at(i)])
    BY <1>1, <1>10, <1>12
  <2> QED
    BY <1>2, <1>6, <2>1, <2>2
<1> QED
  BY <1>1, <1>10, <1>11, <1>12 DEF n, at

(* What comes of the answers, whatever their order: every header once, by  *)
(* falling number, when the server numbers the headers apart.              *)
LEMMA NewestFirstIs ==
    ASSUME NEW T, IsFiniteSet(T), NEW answers \in SetToSeqs(T),
           \A a \in T : a.number \in Nat,
           \A a, b \in T : a.header /\ b.header /\ a.number = b.number => a = b
    PROVE  \E n \in Nat : \E s \in [1..n -> T] :
             /\ NewestFirst(answers) = [i \in 1..n |-> s[i].uid]
             /\ \A i \in 1..n : s[i].header
             /\ \A a \in T : a.header => \E i \in 1..n : s[i] = a
             /\ \A i, j \in 1..n : i < j => s[i].number > s[j].number
<1> DEFINE m == Cardinality(T)
           records == {k \in DOMAIN answers : answers[k].header}
           n == Cardinality(records)
           s == [i \in 1..n |-> answers[Ranked(answers, records, i)]]
<1>1. m \in Nat /\ IsFiniteSet(1..m) /\ Cardinality(1..m) = m
  BY FS_CardinalityType, FS_Interval
<1>2. /\ answers \in [1..m -> T] /\ DOMAIN answers = 1..m
      /\ \A j, k \in 1..m : j # k => answers[j] # answers[k]
  BY DEF SetToSeqs
<1>3. \A a \in T : \E k \in 1..m : answers[k] = a
  <2> HIDE DEF m
  <2>1. answers \in Injection(1..m, T)
    BY <1>2, Fun_IsInj
  <2>2. Cardinality(1..m) = Cardinality(T)
    BY <1>1 DEF m
  <2>3. answers \in Surjection(1..m, T)
    BY <2>1, <2>2, FS_Injection
  <2> QED
    BY <2>3 DEF Surjection
<1>4. records \subseteq 1..m /\ \A k \in records : answers[k] \in T /\ answers[k].header
  BY <1>2
<1>5. IsFiniteSet(records) /\ records \subseteq Nat
  BY <1>1, <1>4, FS_Subset
<1>6. NewestFirst(answers) = [i \in 1..n |-> answers[Ranked(answers, records, i)].uid]
  BY DEF NewestFirst, Ranked, Ahead
<1>7. \A a \in T : a.header => \E k \in records : answers[k] = a
  BY <1>2, <1>3
<1> HIDE DEF records, m
<1>8. /\ n \in Nat
      /\ \A i \in 1..n : Ranked(answers, records, i) \in records
      /\ \A k \in records : \E i \in 1..n : Ranked(answers, records, i) = k
      /\ \A i, j \in 1..n : i < j =>
            /\ Ranked(answers, records, i) # Ranked(answers, records, j)
            /\ Precedes(answers, Ranked(answers, records, i), Ranked(answers, records, j))
  <2>1. \A k \in records : answers[k].number \in Nat
    BY <1>4
  <2> QED
    BY <1>5, <2>1, RanksSort
<1> HIDE DEF n
<1>9. s \in [1..n -> T] /\ \A i \in 1..n : s[i].header
  BY <1>4, <1>8
<1>10. NewestFirst(answers) = [i \in 1..n |-> s[i].uid]
  BY <1>6
<1>11. \A a \in T : a.header => \E i \in 1..n : s[i] = a
  BY <1>7, <1>8
<1>12. ASSUME NEW i \in 1..n, NEW j \in 1..n, i < j PROVE s[i].number > s[j].number
  <2> DEFINE p == Ranked(answers, records, i)
             q == Ranked(answers, records, j)
  <2>1. /\ p \in records /\ q \in records /\ p # q /\ Precedes(answers, p, q)
        /\ s[i] = answers[p] /\ s[j] = answers[q]
    BY <1>8, <1>12
  <2>2. /\ answers[p].header /\ answers[q].header /\ answers[p] \in T /\ answers[q] \in T
        /\ answers[p] # answers[q]
    BY <1>2, <1>4, <2>1
  <2>3. answers[p].number # answers[q].number
    BY <2>2
  <2> QED
    BY <2>1, <2>3 DEF Precedes
<1> HIDE DEF s
<1> QED
  BY <1>8, <1>9, <1>10, <1>11, <1>12

(* The page FETCH makes: the messages answered, the newest first.          *)
LEMMA PageIs ==
    ASSUME PagingTypeOK, NEW answered \in SUBSET view, NEW news \in SUBSET box,
           NEW answers \in SetToSeqs(FetchAnswers(answered, news))
    PROVE  /\ ToSet(NewestFirst(answers)) = answered
           /\ \A i, j \in 1..Len(NewestFirst(answers)) :
                 i < j => NewestFirst(answers)[i] > NewestFirst(answers)[j]
<1> DEFINE b == view \cup box
           T == FetchAnswers(answered, news)
<1>1. /\ IsFiniteSet(b) /\ b \subseteq Nat /\ IsFiniteSet(answered) /\ IsFiniteSet(news)
      /\ answered \subseteq b /\ news \subseteq b
  <2>1. b \subseteq 1..newest /\ newest \in Nat /\ answered \subseteq b /\ news \subseteq b
    BY DEF PagingTypeOK
  <2>2. IsFiniteSet(1..newest)
    BY <2>1, FS_Interval
  <2>3. b \subseteq Nat /\ answered \subseteq 1..newest /\ news \subseteq 1..newest
    BY <2>1
  <2> QED
    BY <2>1, <2>2, <2>3, FS_Subset
<1>2. \A u : SequenceNumber(u) = Cardinality(Below(b, u))
  BY DEF SequenceNumber, Below
<1>3. IsFiniteSet(T)
  <2> DEFINE heads == {FetchAnswer(u, TRUE) : u \in answered}
             flags == {FetchAnswer(u, FALSE) : u \in news}
  <2>1. [u \in answered |-> FetchAnswer(u, TRUE)] \in Surjection(answered, heads)
    BY DEF Surjection
  <2>2. [u \in news |-> FetchAnswer(u, FALSE)] \in Surjection(news, flags)
    BY DEF Surjection
  <2>3. T = heads \cup flags
    BY DEF FetchAnswers
  <2> HIDE DEF heads, flags, T
  <2>4. IsFiniteSet(heads) /\ IsFiniteSet(flags)
    BY <1>1, <2>1, <2>2, FS_Surjection
  <2> QED
    BY <2>3, <2>4, FS_Union
<1>4. ASSUME NEW a \in T
      PROVE  /\ a.uid \in b /\ a.number = SequenceNumber(a.uid) /\ a.header \in BOOLEAN
             /\ a = FetchAnswer(a.uid, a.header)
             /\ a.header => a.uid \in answered
  <2>1. CASE \E u \in answered : a = FetchAnswer(u, TRUE)
    <3>1. PICK u \in answered : a = FetchAnswer(u, TRUE)
      BY <2>1
    <3>2. a.uid = u /\ a.number = SequenceNumber(u) /\ a.header = TRUE
      BY <3>1 DEF FetchAnswer
    <3> QED
      BY <1>1, <3>1, <3>2
  <2>2. CASE \E u \in news : a = FetchAnswer(u, FALSE)
    <3>1. PICK u \in news : a = FetchAnswer(u, FALSE)
      BY <2>2
    <3>2. a.uid = u /\ a.number = SequenceNumber(u) /\ a.header = FALSE
      BY <3>1 DEF FetchAnswer
    <3> QED
      BY <1>1, <3>1, <3>2
  <2> QED
    BY <2>1, <2>2 DEF FetchAnswers
<1>5. \A u \in answered : FetchAnswer(u, TRUE) \in T /\ FetchAnswer(u, TRUE).header
                         /\ FetchAnswer(u, TRUE).uid = u
  BY DEF FetchAnswers, FetchAnswer
<1> HIDE DEF b, T
<1>6. /\ \A u : SequenceNumber(u) \in Nat
      /\ \A u, v \in b : SequenceNumber(u) = SequenceNumber(v) => u = v
  BY <1>1, <1>2, Numbering
<1>7. ASSUME NEW u \in b, NEW v \in b, SequenceNumber(u) > SequenceNumber(v)
      PROVE  u > v
  <2>0. u \in Nat /\ v \in Nat /\ \A w \in b : w \in Nat
    BY <1>1
  <2>1. ASSUME u <= v PROVE FALSE
    <3>1. Below(b, u) \subseteq Below(b, v)
      <4>1. \A w \in b : w <= u => w <= v
        BY <2>0, <2>1
      <4> QED
        BY <4>1 DEF Below
    <3>2. Cardinality(Below(b, u)) <= Cardinality(Below(b, v))
      BY <1>1, <3>1, Numbering, FS_Subset
    <3>3. SequenceNumber(u) <= SequenceNumber(v)
      BY <1>2, <3>2
    <3>4. SequenceNumber(u) \in Nat /\ SequenceNumber(v) \in Nat
      BY <1>6
    <3> QED
      BY <1>7, <3>3, <3>4
  <2> QED
    BY <2>0, <2>1
<1>8. PICK n \in Nat : \E s \in [1..n -> T] :
        /\ NewestFirst(answers) = [i \in 1..n |-> s[i].uid]
        /\ \A i \in 1..n : s[i].header
        /\ \A a \in T : a.header => \E i \in 1..n : s[i] = a
        /\ \A i, j \in 1..n : i < j => s[i].number > s[j].number
  <2>1. \A a \in T : a.number \in Nat
    BY <1>4, <1>6
  <2>2. ASSUME NEW a \in T, NEW c \in T, a.header, c.header, a.number = c.number PROVE a = c
    <3>1. a.uid = c.uid
      BY <1>4, <1>6, <2>2
    <3>2. a.header = TRUE /\ c.header = TRUE
      BY <1>4, <2>2
    <3>3. a = FetchAnswer(a.uid, TRUE) /\ c = FetchAnswer(c.uid, TRUE)
      BY <1>4, <3>2
    <3> QED
      BY <3>1, <3>3
  <2>3. answers \in SetToSeqs(T)
    BY DEF T
  <2> QED
    BY <1>3, <2>1, <2>2, <2>3, NewestFirstIs
<1>12. PICK s \in [1..n -> T] :
        /\ NewestFirst(answers) = [i \in 1..n |-> s[i].uid]
        /\ \A i \in 1..n : s[i].header
        /\ \A a \in T : a.header => \E i \in 1..n : s[i] = a
        /\ \A i, j \in 1..n : i < j => s[i].number > s[j].number
  BY <1>8
<1>9. ToSet(NewestFirst(answers)) = answered
  <2>1. ToSet(NewestFirst(answers)) = {s[i].uid : i \in 1..n}
    BY <1>12 DEF ToSet
  <2>2. \A i \in 1..n : s[i].uid \in answered
    BY <1>4, <1>12
  <2>3. ASSUME NEW u \in answered PROVE \E i \in 1..n : s[i].uid = u
    <3>1. PICK i \in 1..n : s[i] = FetchAnswer(u, TRUE)
      BY <1>5, <1>12
    <3> QED
      BY <1>5, <3>1
  <2> QED
    BY <2>1, <2>2, <2>3
<1>10. NewestFirst(answers) \in Seq(b) /\ Len(NewestFirst(answers)) = n
  BY <1>4, <1>12
<1>11. ASSUME NEW i \in 1..n, NEW j \in 1..n, i < j
       PROVE  NewestFirst(answers)[i] > NewestFirst(answers)[j]
  <2>1. /\ s[i] \in T /\ s[j] \in T /\ s[i].number > s[j].number
        /\ NewestFirst(answers)[i] = s[i].uid /\ NewestFirst(answers)[j] = s[j].uid
    BY <1>12, <1>11
  <2> QED
    BY <1>4, <1>7, <2>1
<1> QED
  BY <1>9, <1>10, <1>11

(* The steps that leave the folder alone: the depths stand.                *)
LEMMA WalkKeeps ==
    ASSUME PagingInv, StartWalk \/ SelectFolder \/ FetchPage \/ FetchFails \/ EndWalk
    PROVE  PagingInv'
<1>1. /\ PagingTypeOK /\ IsFiniteSet(box) /\ box \subseteq Nat /\ Cardinality(box) \in Nat
      /\ box' = box /\ newest' = newest
  BY BoxFinite DEF PagingInv, StartWalk, SelectFolder, FetchPage, FetchFails, EndWalk, folderVars
<1>2. /\ \A m : Cardinality(Below(box, m)) \in Nat
      /\ \A old, n, s : /\ IsFiniteSet(Behind(box, old, n, s))
                        /\ Cardinality(Behind(box, old, n, s)) \in Nat
  BY <1>1, Numbering, BehindFinite
<1>3. /\ gone \in Nat /\ limit \in Nat /\ offset \in Nat
      /\ Cardinality(Behind(box, start, offset, seen)) <= gone
      /\ view # {} => Cardinality(Behind(box, start, offset + limit, seen \cup view)) <= gone
  BY <1>1, BehindIs DEF PagingInv, SkipsBounded, WindowCloses, PagingTypeOK
<1> SUFFICES
      /\ PagingTypeOK'
      /\ Cardinality(Behind(box, start', offset', seen')) <= gone'
      /\ view' # {} =>
           Cardinality(Behind(box, start', offset' + limit', seen' \cup view')) <= gone'
  BY <1>1 DEF PagingInv, SkipsBounded, WindowCloses, LeftBehind, Behind, Depth, Number, Below
<1>4. CASE StartWalk
  <2>1. /\ limit' \in 1..MaxLimit /\ start' = box /\ offset' = 0 /\ view' = {} /\ seen' = {}
        /\ gone' = 0
    BY <1>1, <1>4 DEF StartWalk, PagingTypeOK
  <2>2. Behind(box, start', offset', seen') = {}
    <3>1. ASSUME NEW m \in box PROVE Cardinality(Below(box, m)) <= Cardinality(box)
      BY <1>1, FS_Subset DEF Below
    <3>2. ASSUME NEW m \in box PROVE ~(Cardinality(box) + 1 - Cardinality(Below(box, m)) <= 0)
      BY <1>1, <1>2, <3>1
    <3> QED
      BY <2>1, <3>2 DEF Behind
  <2>3. PagingTypeOK'
    BY <1>1, <2>1, PagingAssumption DEF PagingTypeOK
  <2> QED
    BY <2>1, <2>2, <2>3, FS_EmptySet
<1>5. CASE SelectFolder
  <2>1. /\ limit' = limit /\ start' = start /\ offset' = offset /\ seen' = seen /\ gone' = gone
        /\ limit # 0 /\ view = {} /\ view' \in {{}, PageRange}
    BY <1>5 DEF SelectFolder, walkVars
  <2>2. PageRange \subseteq box
    BY DEF PageRange
  <2>3. PagingTypeOK'
    BY <1>1, <2>1, <2>2 DEF PagingTypeOK
  <2>4. Behind(box, start, offset + limit, seen \cup PageRange) \subseteq
        Behind(box, start, offset, seen)
    <3>1. ASSUME NEW m \in Behind(box, start, offset + limit, seen \cup PageRange)
          PROVE  m \in Behind(box, start, offset, seen)
      <4>1. /\ m \in box /\ m \in start /\ m \notin seen /\ m \notin PageRange
            /\ Cardinality(box) + 1 - Cardinality(Below(box, m)) <= offset + limit
        BY DEF Behind
      <4>2. \/ Cardinality(Below(box, m)) < Cardinality(box) - offset - limit + 1
            \/ Cardinality(Below(box, m)) > Cardinality(box) - offset
        <5>1. Number(m) = Cardinality(Below(box, m))
          BY DEF Number, Below
        <5>2. \/ ~(Cardinality(box) - offset - limit + 1 <= Number(m))
              \/ ~(Number(m) <= Cardinality(box) - offset)
          BY <4>1 DEF PageRange
        <5> QED
          BY <1>1, <1>2, <1>3, <5>1, <5>2
      <4>3. Cardinality(box) + 1 - Cardinality(Below(box, m)) <= offset
        BY <1>1, <1>2, <1>3, <4>1, <4>2
      <4> QED
        BY <4>1, <4>3 DEF Behind
    <3> QED
      BY <3>1
  <2>5. Cardinality(Behind(box, start, offset + limit, seen \cup PageRange)) <= gone
    <3>1. Cardinality(Behind(box, start, offset + limit, seen \cup PageRange)) <=
          Cardinality(Behind(box, start, offset, seen))
      BY <1>2, <2>4, FS_Subset
    <3> QED
      BY <1>2, <1>3, <3>1
  <2> QED
    BY <1>3, <2>1, <2>3, <2>5
<1>6. CASE FetchPage
  <2>1. PICK answered \in SUBSET view :
          view \cap box \subseteq answered /\ seen' = seen \cup answered
    <3>1. PICK answered \in SUBSET view, news \in SUBSET box :
            /\ view \cap box \subseteq answered
            /\ \E answers \in SetToSeqs(FetchAnswers(answered, news)) :
                 page' = NewestFirst(answers)
      BY <1>6 DEF FetchPage
    <3>2. ToSet(page') = answered
      BY <1>1, <3>1, PageIs
    <3> QED
      BY <1>6, <3>1, <3>2 DEF FetchPage
  <2>2. /\ limit' = limit /\ start' = start /\ offset' = offset + limit /\ gone' = gone
        /\ view # {} /\ view' = {}
    BY <1>6 DEF FetchPage
  <2>3. PagingTypeOK'
    BY <1>1, <2>1, <2>2 DEF PagingTypeOK
  <2>4. Behind(box, start, offset + limit, seen') \subseteq
        Behind(box, start, offset + limit, seen \cup view)
    BY <2>1 DEF Behind
  <2>5. Cardinality(Behind(box, start, offset + limit, seen')) <=
        Cardinality(Behind(box, start, offset + limit, seen \cup view))
    BY <1>2, <2>4, FS_Subset
  <2> QED
    BY <1>2, <1>3, <2>2, <2>3, <2>5
<1>7. CASE FetchFails
  <2>1. /\ limit' = limit /\ start' = start /\ offset' = offset /\ seen' = seen /\ gone' = gone
        /\ view' = {}
    BY <1>7 DEF FetchFails, walkVars
  <2> QED
    BY <1>1, <1>3, <2>1 DEF PagingTypeOK
<1>8. CASE EndWalk
  <2>1. /\ limit' = 0 /\ start' = {} /\ offset' = 0 /\ seen' = {} /\ gone' = 0 /\ view' = {}
    BY <1>8 DEF EndWalk
  <2>2. Behind(box, start', offset', seen') = {}
    BY <2>1 DEF Behind
  <2> QED
    BY <1>1, <2>1, <2>2, FS_EmptySet, PagingAssumption DEF PagingTypeOK
<1> QED
  BY <1>4, <1>5, <1>6, <1>7, <1>8

(* The walk's account holds in every run.                                  *)
THEOREM PagingInvariant == PagingSpec => []PagingInv
<1>1. PagingInit => PagingInv
  BY PagingStarts
<1>2. PagingInv /\ [PagingNext]_pagingVars => PagingInv'
  <2> SUFFICES ASSUME PagingInv, [PagingNext]_pagingVars PROVE PagingInv'
    OBVIOUS
  <2>1. CASE UNCHANGED pagingVars
    BY <2>1 DEF pagingVars, PagingInv, PagingTypeOK, SkipsBounded, WindowCloses, LeftBehind,
                Depth, Number
  <2> QED
    BY <2>1, ArriveKeeps, ExpungeKeeps, WalkKeeps DEF PagingNext
<1> QED
  BY <1>1, <1>2, PTL DEF PagingSpec

(* list_emails: a walk misses no more messages than were expunged under it.*)
THEOREM WalksMissLittle == PagingSpec => []SkipsBounded
<1>1. PagingInv => SkipsBounded
  BY DEF PagingInv
<1> QED
  BY <1>1, PagingInvariant, PTL

-----------------------------------------------------------------------------
(* Every place up to the number of messages is some message's.             *)
LEMMA Numbered ==
    ASSUME NEW b, IsFiniteSet(b), b \subseteq Nat
    PROVE  \A k \in 1..Cardinality(b) : \E u \in b : Cardinality(Below(b, u)) = k
<1> DEFINE n == Cardinality(b)
           number == [u \in b |-> Cardinality(Below(b, u))]
<1>1. n \in Nat /\ IsFiniteSet(1..n) /\ Cardinality(1..n) = n
  BY FS_CardinalityType, FS_Interval
<1>2. ASSUME NEW u \in b PROVE Cardinality(Below(b, u)) \in 1..n
  <2>1. u \in Below(b, u) /\ Below(b, u) \subseteq b /\ Below(b, u) # {}
    BY DEF Below
  <2>2. IsFiniteSet(Below(b, u)) /\ Cardinality(Below(b, u)) \in Nat
    BY Numbering
  <2>3. Cardinality(Below(b, u)) # 0
    BY <2>1, <2>2, FS_EmptySet
  <2>4. Cardinality(Below(b, u)) <= n
    BY <2>1, FS_Subset
  <2> QED
    BY <1>1, <2>2, <2>3, <2>4
<1>3. number \in [b -> 1..n] /\ \A u \in b : number[u] = Cardinality(Below(b, u))
  BY <1>2
<1> HIDE DEF number, n
<1>4. number \in Injection(b, 1..n)
  BY <1>3, Numbering, Fun_IsInj
<1>5. number \in Surjection(b, 1..n)
  <2>1. Cardinality(b) = Cardinality(1..n)
    BY <1>1 DEF n
  <2> QED
    BY <1>1, <1>4, <2>1, FS_Injection
<1>6. \A k \in 1..n : \E u \in b : number[u] = k
  BY <1>5, Fun_SurjectionProperties
<1>7. \A k \in 1..n : \E u \in b : Cardinality(Below(b, u)) = k
  BY <1>3, <1>6
<1> QED
  BY <1>7 DEF n

(* Sorting.                                                               *)
LEMMA AscendingIs ==
    ASSUME NEW b, IsFiniteSet(b), b \subseteq Nat
    PROVE  /\ Ascending(b) \in Seq(b)
           /\ Len(Ascending(b)) = Cardinality(b)
           /\ ToSet(Ascending(b)) = b
           /\ \A i, j \in 1..Cardinality(b) : i < j => Ascending(b)[i] < Ascending(b)[j]
<1> DEFINE n == Cardinality(b)
           s == Ascending(b)
<1>1. n \in Nat
  BY FS_CardinalityType
<1>2. s = [k \in 1..n |-> CHOOSE u \in b : Cardinality(Below(b, u)) = k]
  BY DEF Ascending, Below
<1> HIDE DEF s, n
<1>3. \A k \in 1..n : s[k] \in b /\ Cardinality(Below(b, s[k])) = k
  <2>1. \A k \in 1..n : \E u \in b : Cardinality(Below(b, u)) = k
    BY Numbered DEF n
  <2> QED
    BY <1>2, <2>1
<1>4. s \in [1..n -> b] /\ DOMAIN s = 1..n
  BY <1>2, <1>3
<1>5. s \in Seq(b) /\ Len(s) = n
  BY <1>1, <1>4
<1>6. \A u \in b : \E k \in 1..n : s[k] = u
  <2>1. ASSUME NEW u \in b PROVE Cardinality(Below(b, u)) \in 1..n
    <3>1. u \in Below(b, u) /\ Below(b, u) \subseteq b /\ Below(b, u) # {}
      BY DEF Below
    <3>2. IsFiniteSet(Below(b, u)) /\ Cardinality(Below(b, u)) \in Nat
      BY Numbering
    <3>3. Cardinality(Below(b, u)) # 0
      BY <3>1, <3>2, FS_EmptySet
    <3>4. Cardinality(Below(b, u)) <= n
      BY <3>1, FS_Subset DEF n
    <3> QED
      BY <1>1, <3>2, <3>3, <3>4
  <2>2. \A u, v \in b : Cardinality(Below(b, u)) = Cardinality(Below(b, v)) => u = v
    BY Numbering
  <2> QED
    BY <1>3, <2>1, <2>2
<1>7. ToSet(s) = b
  BY <1>3, <1>4, <1>6 DEF ToSet
<1>8. ASSUME NEW i \in 1..n, NEW j \in 1..n, i < j PROVE s[i] < s[j]
  <2>1. s[i] \in b /\ s[j] \in b /\ s[i] \in Nat /\ s[j] \in Nat
    BY <1>3
  <2>2. ASSUME s[j] <= s[i] PROVE FALSE
    <3>1. Below(b, s[j]) \subseteq Below(b, s[i])
      <4>1. \A v \in b : v <= s[j] => v <= s[i]
        BY <2>1, <2>2
      <4> QED
        BY <4>1 DEF Below
    <3>2. IsFiniteSet(Below(b, s[i]))
      BY Numbering
    <3>3. Cardinality(Below(b, s[j])) <= Cardinality(Below(b, s[i]))
      BY <3>1, <3>2, FS_Subset
    <3> QED
      BY <1>1, <1>3, <1>8, <3>3
  <2> QED
    BY <2>1, <2>2
<1> QED
  BY <1>5, <1>7, <1>8 DEF s, n

(* Only FETCH writes a page, and what it writes is sorted.                 *)
LEMMA PageStays ==
    ASSUME PagingTypeOK, PageNewestFirst, [PagingNext]_pagingVars
    PROVE  PageNewestFirst'
<1>1. CASE FetchPage
  <2>1. PICK answered \in SUBSET view, news \in SUBSET box :
          \E answers \in SetToSeqs(FetchAnswers(answered, news)) : page' = NewestFirst(answers)
    BY <1>1 DEF FetchPage
  <2> QED
    BY <2>1, PageIs DEF PageNewestFirst
<1>2. CASE page' = << >>
  BY <1>2 DEF PageNewestFirst
<1>3. CASE page' = page
  BY <1>3 DEF PageNewestFirst
<1> QED
  BY <1>1, <1>2, <1>3 DEF PagingNext, pagingVars, Arrive, Expunge, StartWalk, SelectFolder,
                          FetchFails, EndWalk

(* Paging: what its variables hold.                                        *)
THEOREM PagingTyped == PagingSpec => []PagingTypeOK
<1>1. PagingInv => PagingTypeOK
  BY DEF PagingInv
<1> QED
  BY <1>1, PagingInvariant, PTL

(* list_emails: a page is newest first, in whatever order FETCH answers.   *)
THEOREM PagesAreNewestFirst == PagingSpec => []PageNewestFirst
<1>1. PagingInit => PageNewestFirst
  BY DEF PagingInit, PageNewestFirst
<1>2. PagingTypeOK /\ PageNewestFirst /\ [PagingNext]_pagingVars => PageNewestFirst'
  BY PageStays
<1> QED
  BY <1>1, <1>2, PagingTyped, PTL DEF PagingSpec
=============================================================================
