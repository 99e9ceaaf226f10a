----------------------------- MODULE ItemProofs -----------------------------
(***************************************************************************)
(* Proofs about the contents of items and how they come and are read:      *)
(* PullPage, Health, Import, Reading and Values, scenes of the vault       *)
(* content model.                                                          *)
(*                                                                         *)
(* PullPage: the loop that cuts a page takes as many items as the          *)
(* reference does; by a least counterexample, no item of a page was        *)
(* skipped or comes twice, wherever the two limits cut.                    *)
(*                                                                         *)
(* Health: a report in the cache is of the generation it is filed under,   *)
(* and the generation moves with every change a report depends on.         *)
(*                                                                         *)
(* Import: the keys of the file are in the vault or in the writes still    *)
(* queued, and the places of a batch's items are a recursive function of   *)
(* the file.                                                               *)
(*                                                                         *)
(* Reading: an item keeps its kind and its fields theirs, and the id of a  *)
(* field is not given out twice, so a row on a screen, however old, asks   *)
(* for the value it shows or for none.                                     *)
(*                                                                         *)
(* Values: a date's number grows by one from a day to the next, through    *)
(* the ends of months, years and centuries; a stored set-up of one-time    *)
(* codes is one the checks passed, which keeps it passing; the sums of two *)
(* card numbers that differ in a digit or in the order of two are apart by *)
(* less than ten.                                                          *)
(***************************************************************************)
EXTENDS PullPage, Health, Import, Reading, Values, FiniteSetTheorems, WellFoundedInduction, TLAPS

-----------------------------------------------------------------------------
(* PullPage: least, greatest and sums                                       *)

\* A set of numbers that is not empty has a least one, which Min finds.
LEMMA LeastOf ==
    ASSUME NEW S, S \subseteq Nat, S # {}
    PROVE  Min(S) \in S /\ \A y \in S : Min(S) <= y
<1> DEFINE R == OpToRel(<, Nat)
<1>1. \E x \in S : \A y \in S : ~(<<y, x>> \in R)
  BY NatLessThanWellFounded, WFMin
<1>2. \A x, y \in Nat : <<y, x>> \in R <=> y < x
  BY DEF OpToRel
<1> HIDE DEF R
<1>3. PICK x \in S : \A y \in S : ~(<<y, x>> \in R)
  BY <1>1
<1>4. \A y \in S : x \in Nat /\ y \in Nat /\ ~(y < x)
  BY <1>2, <1>3
<1>5. \A y \in S : x <= y
  BY <1>4
<1> QED
  BY <1>5 DEF Min

\* A set of numbers up to n that is not empty has a greatest one, which Max finds.
LEMMA GreatestOf ==
    ASSUME NEW n \in Nat, NEW S, S \subseteq 0..n, S # {}
    PROVE  Max(S) \in S /\ \A y \in S : y <= Max(S)
<1> DEFINE T == {n - y : y \in S}
<1>0. PICK s \in S : TRUE
  OBVIOUS
<1>1. T \subseteq Nat /\ n - s \in T
  BY <1>0
<1>2. Min(T) \in T /\ \A t \in T : Min(T) <= t
  <2> HIDE DEF T
  <2> QED BY <1>1, LeastOf
<1>3. PICK x \in S : Min(T) = n - x
  BY <1>2
<1>4. \A y \in S : n - x <= n - y
  BY <1>2, <1>3
<1>5. \A y \in S : x >= y
  BY <1>4
<1> QED
  BY <1>5 DEF Max

PullRows == [revision : Nat, bytes : Nat]

\* The running total of the bytes exists, grows, and is what Bytes computes of
\* each beginning.
LEMMA TotalExists ==
    ASSUME NEW rs \in Seq(PullRows)
    PROVE  \E f \in [0..Len(rs) -> Nat] :
             f[0] = 0 /\ \A k \in 1..Len(rs) : f[k] = f[k - 1] + rs[k].bytes
<1> DEFINE Reaches(n) == \E f \in [0..n -> Nat] : f[0] = 0 /\ \A k \in 1..n : f[k] = f[k - 1] + rs[k].bytes
           Bad == {n \in 0..Len(rs) : ~Reaches(n)}
<1>0. Len(rs) \in Nat /\ \A k \in 1..Len(rs) : rs[k].bytes \in Nat
  <2>1. \A k \in 1..Len(rs) : rs[k] \in PullRows
    OBVIOUS
  <2> QED BY <2>1 DEF PullRows
<1>1. Reaches(0)
  <2> WITNESS [k \in 0..0 |-> 0] \in [0..0 -> Nat]
  <2> QED OBVIOUS
<1>2. ASSUME NEW n \in 1..Len(rs), Reaches(n - 1) PROVE Reaches(n)
  <2>1. PICK f \in [0..(n - 1) -> Nat] : f[0] = 0 /\ \A k \in 1..(n - 1) : f[k] = f[k - 1] + rs[k].bytes
    BY <1>2
  <2> DEFINE g == [k \in 0..n |-> IF k = n THEN f[n - 1] + rs[n].bytes ELSE f[k]]
  <2>2. g \in [0..n -> Nat]
    BY <2>1, <1>0
  <2>3. g[0] = 0 /\ \A k \in 1..n : g[k] = g[k - 1] + rs[k].bytes
    BY <2>1, <1>0
  <2> HIDE DEF g
  <2> QED BY <2>2, <2>3
<1> HIDE DEF Reaches
<1>3. ASSUME Bad # {} PROVE FALSE
  <2>1. Min(Bad) \in Bad /\ \A y \in Bad : Min(Bad) <= y
    <3>1. Bad \subseteq Nat
      BY <1>0
    <3> HIDE DEF Bad
    <3> QED BY <1>3, <3>1, LeastOf
  <2> DEFINE m == Min(Bad)
  <2>2. m \in 0..Len(rs) /\ ~Reaches(m)
    BY <2>1
  <2>3. m # 0
    BY <1>1, <2>2
  <2>4. m - 1 \in 0..Len(rs) /\ ~(m <= m - 1)
    BY <1>0, <2>2, <2>3
  <2>5. Reaches(m - 1)
    BY <2>1, <2>4
  <2>6. m \in 1..Len(rs)
    BY <1>0, <2>2, <2>3
  <2> QED BY <1>2, <2>2, <2>5, <2>6
<1>4. Reaches(Len(rs))
  BY <1>0, <1>3
<1> QED
  BY <1>4 DEF Reaches

IsTotal(rs, f) == f[0] = 0 /\ \A k \in 1..Len(rs) : f[k] = f[k - 1] + rs[k].bytes

LEMMA BytesIsTotal ==
    ASSUME NEW rs \in Seq(PullRows), NEW f \in [0..Len(rs) -> Nat], IsTotal(rs, f)
    PROVE  Bytes(rs) = f[Len(rs)]
<1> DEFINE Def(u) == [k \in 0..Len(rs) |-> IF k = 0 THEN 0 ELSE u[k - 1] + rs[k].bytes]
           U == CHOOSE u : u = Def(u)
           Bad == {k \in 0..Len(rs) : U[k] # f[k]}
<1>0. Len(rs) \in Nat
  OBVIOUS
<1>1. f = Def(f)
  BY <1>0 DEF IsTotal
<1>2. U = Def(U)
  <2> HIDE DEF Def
  <2> QED BY <1>1
<1>3. Bytes(rs) = U[Len(rs)]
  BY DEF Bytes
<1> HIDE DEF U
<1>4. U[0] = 0 /\ \A k \in 1..Len(rs) : U[k] = U[k - 1] + rs[k].bytes
  <2>1. \A k \in 0..Len(rs) : U[k] = IF k = 0 THEN 0 ELSE U[k - 1] + rs[k].bytes
    BY <1>2
  <2> QED BY <2>1, <1>0
<1>5. ASSUME Bad # {} PROVE FALSE
  <2>1. Bad \subseteq Nat
    BY <1>0
  <2>2. Min(Bad) \in Bad /\ \A y \in Bad : Min(Bad) <= y
    <3> HIDE DEF Bad
    <3> QED BY <1>5, <2>1, LeastOf
  <2> DEFINE m == Min(Bad)
  <2>3. m \in 0..Len(rs) /\ U[m] # f[m]
    BY <2>2
  <2> HIDE DEF m
  <2>4. m # 0
    BY <1>4, <2>3 DEF IsTotal
  <2>5. m \in 1..Len(rs) /\ m - 1 \in 0..Len(rs) /\ ~(m <= m - 1)
    BY <1>0, <2>3, <2>4
  <2>6. U[m - 1] = f[m - 1]
    BY <2>2, <2>5 DEF m
  <2> QED BY <1>4, <2>3, <2>5, <2>6 DEF IsTotal
<1> QED
  BY <1>0, <1>3, <1>5

LEMMA BytesGrow ==
    ASSUME NEW rs \in Seq(PullRows), NEW a \in 0..Len(rs), NEW b \in 0..Len(rs), a <= b
    PROVE  /\ Bytes(SubSeq(rs, 1, a)) \in Nat
           /\ Bytes(SubSeq(rs, 1, b)) \in Nat
           /\ Bytes(SubSeq(rs, 1, a)) <= Bytes(SubSeq(rs, 1, b))
<1>0. Len(rs) \in Nat /\ \A k \in 1..Len(rs) : rs[k].bytes \in Nat
  <2>1. \A k \in 1..Len(rs) : rs[k] \in PullRows
    OBVIOUS
  <2> QED BY <2>1 DEF PullRows
<1>1. PICK f \in [0..Len(rs) -> Nat] : IsTotal(rs, f)
  BY TotalExists DEF IsTotal
<1>2. ASSUME NEW k \in 0..Len(rs) PROVE Bytes(SubSeq(rs, 1, k)) = f[k]
  <2> DEFINE r == SubSeq(rs, 1, k)
             g == [i \in 0..k |-> f[i]]
  <2>1. r \in Seq(PullRows) /\ Len(r) = k /\ \A i \in 1..k : r[i] = rs[i]
    OBVIOUS
  <2>2. g \in [0..Len(r) -> Nat]
    BY <2>1, <1>0
  <2>3. IsTotal(r, g)
    <3>1. \A i \in 1..k : f[i] = f[i - 1] + rs[i].bytes
      BY <1>0, <1>1 DEF IsTotal
    <3>2. \A i \in 1..k : g[i] = f[i] /\ g[i - 1] = f[i - 1]
      BY <1>0
    <3>3. g[0] = f[0] /\ f[0] = 0
      BY <1>0, <1>1 DEF IsTotal
    <3> HIDE DEF g, r
    <3> QED BY <2>1, <3>1, <3>2, <3>3 DEF IsTotal
  <2>4. g[k] = f[k]
    BY <1>0
  <2> HIDE DEF g, r
  <2>5. Bytes(r) = g[Len(r)]
    BY <2>1, <2>2, <2>3, BytesIsTotal
  <2> QED BY <2>1, <2>4, <2>5 DEF r
<1> DEFINE Bad == {k \in a..Len(rs) : f[k] < f[a]}
<1>3. ASSUME Bad # {} PROVE FALSE
  <2>1. Bad \subseteq Nat
    BY <1>0
  <2>2. Min(Bad) \in Bad /\ \A y \in Bad : Min(Bad) <= y
    <3> HIDE DEF Bad
    <3> QED BY <1>3, <2>1, LeastOf
  <2> DEFINE m == Min(Bad)
  <2>3. m \in a..Len(rs) /\ f[m] < f[a]
    BY <2>2
  <2>4. \A y \in Bad : m <= y
    BY <2>2
  <2> HIDE DEF m
  <2>5. m # a
    BY <2>3, <1>0
  <2>6. m \in 1..Len(rs) /\ m - 1 \in a..Len(rs) /\ ~(m <= m - 1)
    BY <1>0, <2>3, <2>5
  <2>7. ~(f[m - 1] < f[a])
    BY <2>4, <2>6
  <2>8. f[m] = f[m - 1] + rs[m].bytes
    BY <1>1, <2>6 DEF IsTotal
  <2>9. f[m] \in Nat /\ f[m - 1] \in Nat /\ f[a] \in Nat /\ rs[m].bytes \in Nat
    BY <1>0, <1>1, <2>3, <2>6
  <2> QED BY <2>3, <2>7, <2>8, <2>9
<1>4. ~(f[b] < f[a])
  BY <1>0, <1>3
<1>5. f[a] \in Nat /\ f[b] \in Nat
  BY <1>0, <1>1
<1> QED
  BY <1>2, <1>4, <1>5

-----------------------------------------------------------------------------
(* PullPage: the loop of page_len                                           *)

Ordered(rs) == \A i, j \in 1..Len(rs) : i <= j => rs[i].revision <= rs[j].revision

\* Where the revision of the row after `end` ends.
RunEnd(rs, end) == Max({k \in DOMAIN rs : rs[k].revision = rs[end + 1].revision})

LEMMA RunEndIs ==
    ASSUME NEW rs \in Seq(PullRows), Ordered(rs), NEW end \in 0..Len(rs), end # Len(rs)
    PROVE  /\ RunEnd(rs, end) \in (end + 1)..Len(rs)
           /\ \A k \in (end + 1)..RunEnd(rs, end) : rs[k].revision = rs[end + 1].revision
           /\ \A k \in (RunEnd(rs, end) + 1)..Len(rs) : rs[k].revision # rs[end + 1].revision
<1> DEFINE L == Len(rs)
           S == {k \in DOMAIN rs : rs[k].revision = rs[end + 1].revision}
           m == Max(S)
<1>0. L \in Nat /\ end \in Nat /\ end + 1 \in 1..L /\ end + 1 <= L
  OBVIOUS
<1>a. DOMAIN rs = 1..L
  OBVIOUS
<1>3. \A k \in 1..L : rs[k].revision \in Nat
  <2>1. \A k \in 1..L : rs[k] \in PullRows
    OBVIOUS
  <2> QED BY <2>1 DEF PullRows
<1>b. \A i, j \in 1..L : i <= j => rs[i].revision <= rs[j].revision
  BY DEF Ordered
<1> HIDE DEF L
<1>1. S \subseteq 0..L /\ end + 1 \in S
  BY <1>0, <1>a
<1>2. m \in S /\ \A y \in S : y <= m
  <2> HIDE DEF S
  <2> QED BY <1>0, <1>1, GreatestOf
<1> HIDE DEF m
<1>4. m \in (end + 1)..L
  <2>1. m \in 0..L /\ end + 1 <= m
    BY <1>1, <1>2
  <2> QED BY <1>0, <2>1
<1>5. ASSUME NEW k \in (end + 1)..m PROVE rs[k].revision = rs[end + 1].revision
  <2>1. k \in 1..L /\ end + 1 <= k /\ k <= m /\ m \in 1..L
    BY <1>0, <1>4
  <2>2. rs[end + 1].revision <= rs[k].revision /\ rs[k].revision <= rs[m].revision
    BY <1>0, <1>b, <2>1
  <2>3. rs[m].revision = rs[end + 1].revision
    BY <1>2
  <2>4. rs[k].revision \in Nat /\ rs[end + 1].revision \in Nat
    BY <1>0, <1>3, <2>1
  <2> QED BY <2>2, <2>3, <2>4
<1>6. ASSUME NEW k \in (m + 1)..L PROVE rs[k].revision # rs[end + 1].revision
  <2>1. k \in 1..L /\ ~(k <= m)
    BY <1>0, <1>4
  <2> QED BY <1>a, <1>2, <2>1
<1>7. RunEnd(rs, end) = m
  BY DEF RunEnd, m
<1> QED
  BY <1>4, <1>5, <1>6, <1>7 DEF L

\* One turn of the loop.
Turn(rs, complete, g, end) ==
    IF end >= complete THEN end
    ELSE IF end > 0 /\ (RunEnd(rs, end) > MaxPullPage \/ Bytes(SubSeq(rs, 1, RunEnd(rs, end))) > MaxBytes)
         THEN end ELSE g[RunEnd(rs, end)]

\* The loop ends: there is a function that takes a turn from each place.
LEMMA GrowIs ==
    ASSUME NEW rs \in Seq(PullRows), Ordered(rs), NEW complete \in 0..Len(rs)
    PROVE  \E g : /\ \A end \in 0..Len(rs) : g[end] = Turn(rs, complete, g, end)
                  /\ Grow(rs, complete) = g[0]
<1> DEFINE L == Len(rs)
           Reaches(n) == \E g \in [0..L -> 0..L] : \A end \in (L - n)..L : g[end] = Turn(rs, complete, g, end)
           Bad == {n \in 0..L : ~Reaches(n)}
<1>0. L \in Nat /\ complete <= L /\ complete \in Nat
  OBVIOUS
<1> HIDE DEF L
<1>1. Reaches(0)
  <2> DEFINE g == [k \in 0..L |-> L]
  <2>1. g \in [0..L -> 0..L]
    BY <1>0
  <2>2. \A end \in (L - 0)..L : end = L /\ g[end] = L /\ end >= complete
    BY <1>0
  <2>3. \A end \in (L - 0)..L : g[end] = Turn(rs, complete, g, end)
    <3> HIDE DEF g
    <3> QED BY <2>2 DEF Turn
  <2> HIDE DEF g
  <2> QED BY <2>1, <2>3
<1>2. ASSUME NEW n \in 1..L, Reaches(n - 1) PROVE Reaches(n)
  <2>1. PICK g \in [0..L -> 0..L] : \A end \in (L - (n - 1))..L : g[end] = Turn(rs, complete, g, end)
    BY <1>2
  <2> DEFINE e == L - n
             h == [k \in 0..L |-> IF k = e THEN Turn(rs, complete, g, e) ELSE g[k]]
  <2>2. e \in 0..L /\ e # L
    BY <1>0
  <2>3. RunEnd(rs, e) \in (e + 1)..L
    BY <2>2, RunEndIs DEF L
  <2>4. Turn(rs, complete, g, e) \in 0..L
    BY <1>0, <2>2, <2>3 DEF Turn
  <2>5. h \in [0..L -> 0..L]
    BY <2>4
  <2>6. h[e] = Turn(rs, complete, g, e)
    BY <2>2
  <2>7. \A k \in (e + 1)..L : h[k] = g[k]
    BY <2>2, <1>0
  <2>8. \A k \in (e + 1)..L : k = L \/ RunEnd(rs, k) \in (e + 1)..L
    <3> TAKE k \in (e + 1)..L
    <3>1. k \in 0..L
      BY <2>2, <1>0
    <3>2. k # L => RunEnd(rs, k) \in (k + 1)..L
      BY <3>1, RunEndIs DEF L
    <3> QED BY <1>0, <2>2, <3>1, <3>2
  <2> HIDE DEF h
  <2>9. Turn(rs, complete, h, e) = Turn(rs, complete, g, e)
    BY <2>3, <2>7 DEF Turn
  <2>10. \A k \in (e + 1)..L : Turn(rs, complete, h, k) = Turn(rs, complete, g, k)
    <3> TAKE k \in (e + 1)..L
    <3>1. CASE k = L
      BY <3>1, <1>0 DEF Turn
    <3>2. CASE RunEnd(rs, k) \in (e + 1)..L
      BY <3>2, <2>7 DEF Turn
    <3> QED BY <2>8, <3>1, <3>2
  <2>11. \A k \in (L - n)..L : k = e \/ k \in (e + 1)..L
    BY <1>0
  <2>12. \A k \in (e + 1)..L : g[k] = Turn(rs, complete, g, k)
    <3>1. L - (n - 1) = e + 1
      BY <1>0
    <3> QED BY <2>1, <3>1
  <2>13. \A k \in (L - n)..L : h[k] = Turn(rs, complete, h, k)
    BY <2>6, <2>7, <2>9, <2>10, <2>11, <2>12
  <2> QED BY <2>5, <2>13
<1> HIDE DEF Reaches
<1>3. ASSUME Bad # {} PROVE FALSE
  <2>1. Min(Bad) \in Bad /\ \A y \in Bad : Min(Bad) <= y
    <3>1. Bad \subseteq Nat
      BY <1>0
    <3> HIDE DEF Bad
    <3> QED BY <1>3, <3>1, LeastOf
  <2> DEFINE m == Min(Bad)
  <2>2. m \in 0..L /\ ~Reaches(m)
    BY <2>1
  <2>3. m # 0
    BY <1>1, <2>2
  <2>4. m - 1 \in 0..L /\ ~(m <= m - 1)
    BY <1>0, <2>2, <2>3
  <2>5. Reaches(m - 1)
    BY <2>1, <2>4
  <2>6. m \in 1..L
    BY <1>0, <2>2, <2>3
  <2> QED BY <1>2, <2>2, <2>5, <2>6
<1>4. Reaches(L)
  BY <1>0, <1>3
<1>5. PICK g \in [0..L -> 0..L] : \A end \in 0..L : g[end] = Turn(rs, complete, g, end)
  <2>1. L - L = 0
    BY <1>0
  <2> QED BY <1>4, <2>1 DEF Reaches
<1> DEFINE Def(u) == [end \in 0..L |-> Turn(rs, complete, u, end)]
           U == CHOOSE u : u = Def(u)
<1>6. g = Def(g)
  BY <1>5
<1>7. U = Def(U)
  <2> HIDE DEF Def
  <2> QED BY <1>6
<1>8. Grow(rs, complete) = U[0]
  BY DEF Grow, Turn, RunEnd, L
<1> HIDE DEF U
<1>9. \A end \in 0..L : U[end] = Turn(rs, complete, U, end)
  BY <1>7
<1> QED
  BY <1>8, <1>9 DEF L

\* From anywhere, the end of the next revision is the next boundary.
LEMMA RunEndIsNext ==
    ASSUME NEW rs \in Seq(PullRows), Ordered(rs), NEW end \in 0..Len(rs), end # Len(rs)
    PROVE  /\ RunEnd(rs, end) \in Boundaries(rs)
           /\ \A k \in Boundaries(rs) : k > end => RunEnd(rs, end) <= k
<1> DEFINE L == Len(rs)
           m == RunEnd(rs, end)
<1>0. L \in Nat /\ end \in 0..L /\ DOMAIN rs = 1..L
  OBVIOUS
<1>1. /\ m \in (end + 1)..L
      /\ \A k \in (end + 1)..m : rs[k].revision = rs[end + 1].revision
      /\ \A k \in (m + 1)..L : rs[k].revision # rs[end + 1].revision
  BY RunEndIs
<1>2. Boundaries(rs) = {k \in 1..L : k = L \/ rs[k].revision # rs[k + 1].revision}
  BY <1>0 DEF Boundaries
<1> HIDE DEF L, m
<1>3. m \in 1..L /\ m \in (end + 1)..m
  BY <1>0, <1>1
<1>4. m # L => m + 1 \in (m + 1)..L
  BY <1>0, <1>1
<1>5. m \in Boundaries(rs)
  <2>1. rs[m].revision = rs[end + 1].revision
    BY <1>1, <1>3
  <2>2. m # L => rs[m + 1].revision # rs[end + 1].revision
    BY <1>1, <1>4
  <2> QED BY <1>2, <1>3, <2>1, <2>2
<1>6. ASSUME NEW k \in Boundaries(rs), k > end, ~(m <= k) PROVE FALSE
  <2>1. k \in 1..L /\ (k = L \/ rs[k].revision # rs[k + 1].revision)
    BY <1>2
  <2>2. k \in (end + 1)..m /\ k + 1 \in (end + 1)..m /\ k # L
    BY <1>0, <1>1, <1>6, <2>1
  <2>3. rs[k].revision = rs[k + 1].revision
    BY <1>1, <2>2
  <2> QED BY <2>1, <2>2, <2>3
<1> QED
  BY <1>5, <1>6 DEF m

\* The boundaries a page may end at.
Fits(rs, complete) ==
    {k \in Boundaries(rs) : k <= complete /\ k <= MaxPullPage /\ Bytes(SubSeq(rs, 1, k)) <= MaxBytes}

\* The loop finds the last of them, or else the end of the first revision.
LEMMA GrowFinds ==
    ASSUME NEW rs \in Seq(PullRows), Ordered(rs), NEW complete \in Boundaries(rs)
    PROVE  /\ Grow(rs, complete) \in {RunEnd(rs, 0)} \cup Fits(rs, complete)
           /\ RunEnd(rs, 0) <= Grow(rs, complete)
           /\ Grow(rs, complete) <= complete
           /\ \A k \in Fits(rs, complete) : k <= Grow(rs, complete)
<1> DEFINE L == Len(rs)
           B == Boundaries(rs)
           F == Fits(rs, complete)
<1>0. L \in Nat
  OBVIOUS
<1>1. B \subseteq 1..L /\ complete \in B /\ complete \in 1..L
  <2>1. DOMAIN rs = 1..L
    OBVIOUS
  <2> QED BY <2>1 DEF Boundaries
<1>2. PICK U : /\ \A end \in 0..L : U[end] = Turn(rs, complete, U, end)
               /\ Grow(rs, complete) = U[0]
  <2>1. complete \in 0..Len(rs)
    BY <1>0, <1>1
  <2> QED BY <2>1, GrowIs
<1>3. F = {k \in B : k <= complete /\ k <= MaxPullPage /\ Bytes(SubSeq(rs, 1, k)) <= MaxBytes}
  BY DEF Fits
<1>4. \A end \in 0..L : end # L => /\ RunEnd(rs, end) \in B
                                   /\ RunEnd(rs, end) > end
                                   /\ \A k \in B : k > end => RunEnd(rs, end) <= k
  <2> TAKE end \in 0..L
  <2> HAVE end # L
  <2>1. RunEnd(rs, end) \in (end + 1)..L
    BY RunEndIs
  <2>2. RunEnd(rs, end) > end
    <3>1. \A r \in (end + 1)..L : r > end
      BY <1>0
    <3> QED BY <2>1, <3>1
  <2> QED BY <2>2, RunEndIsNext
<1>5. \A a, b \in B : a <= b => /\ Bytes(SubSeq(rs, 1, a)) \in Nat
                                /\ Bytes(SubSeq(rs, 1, b)) \in Nat
                                /\ Bytes(SubSeq(rs, 1, a)) <= Bytes(SubSeq(rs, 1, b))
  <2> TAKE a, b \in B
  <2> HAVE a <= b
  <2>1. a \in 0..Len(rs) /\ b \in 0..Len(rs)
    BY <1>0, <1>1
  <2> QED BY <2>1, BytesGrow
<1>6. MaxBytes \in Nat /\ MaxPullPage \in Nat
  BY PullPageAssumption
<1> HIDE DEF L, B, F
<1> DEFINE Claim(end) == U[end] \in {end} \cup F /\ end <= U[end] /\ U[end] <= complete /\ \A k \in F : k <= U[end]
           Bad == {n \in 0..complete : complete - n \in B /\ ~Claim(complete - n)}
<1>7. ASSUME NEW end \in B, end <= complete,
             \A e \in B : e > end /\ e <= complete => Claim(e)
      PROVE  Claim(end)
  <2>1. end \in 0..L /\ end > 0 /\ complete \in 1..L
    BY <1>0, <1>1
  <2>2. U[end] = Turn(rs, complete, U, end)
    BY <1>2, <2>1
  <2>3. CASE end >= complete
    <3>1. end = complete /\ U[end] = end
      BY <1>7, <2>1, <2>2, <2>3 DEF Turn
    <3>2. \A k \in F : k <= complete
      BY <1>3
    <3> QED BY <1>1, <2>1, <3>1, <3>2
  <2>4. CASE end < complete
    <3> DEFINE next == RunEnd(rs, end)
    <3>1. end # L
      BY <1>0, <2>1, <2>4
    <3>2. next \in B /\ next > end /\ next <= complete /\ \A k \in B : k > end => next <= k
      BY <1>1, <1>4, <2>1, <2>4, <3>1
    <3>3. CASE next > MaxPullPage \/ Bytes(SubSeq(rs, 1, next)) > MaxBytes
      <4>1. U[end] = end
        BY <2>1, <2>2, <2>4, <3>3 DEF Turn
      <4>2. ASSUME NEW k \in F, k > end PROVE FALSE
        <5>1. k \in B /\ next <= k /\ k <= MaxPullPage /\ Bytes(SubSeq(rs, 1, k)) <= MaxBytes
          BY <1>3, <3>2, <4>2
        <5>2. k \in Nat /\ next \in Nat
          <6> HIDE DEF next
          <6>1. k \in 1..L /\ next \in 1..L
            BY <1>1, <3>2, <5>1
          <6> QED BY <6>1
        <5>3. /\ Bytes(SubSeq(rs, 1, next)) \in Nat /\ Bytes(SubSeq(rs, 1, k)) \in Nat
              /\ Bytes(SubSeq(rs, 1, next)) <= Bytes(SubSeq(rs, 1, k))
          BY <1>5, <3>2, <5>1
        <5> HIDE DEF next
        <5> QED BY <1>6, <3>3, <5>1, <5>2, <5>3
      <4>3. \A k \in F : k \in 1..L
        BY <1>1, <1>3
      <4> QED BY <1>0, <1>7, <2>1, <4>1, <4>2, <4>3
    <3>4. CASE ~(next > MaxPullPage \/ Bytes(SubSeq(rs, 1, next)) > MaxBytes)
      <4>1. U[end] = U[next]
        <5>1. ~(end >= complete)
          BY <1>1, <1>0, <2>1, <2>4
        <5> QED BY <5>1, <2>2, <3>4 DEF Turn
      <4>2. Claim(next)
        BY <1>7, <3>2
      <4>3. next \in F
        <5> HIDE DEF next
        <5>0. next \in 1..L /\ next <= next
          BY <1>1, <3>2
        <5>1. next \in Nat /\ Bytes(SubSeq(rs, 1, next)) \in Nat
          BY <5>0, <1>5, <3>2
        <5>2. next <= MaxPullPage /\ Bytes(SubSeq(rs, 1, next)) <= MaxBytes
          BY <1>6, <3>4, <5>1
        <5> QED BY <1>3, <3>2, <5>2
      <4>4. \A k \in F : k \in 1..L
        BY <1>1, <1>3
      <4>5. U[next] \in F /\ next <= U[next]
        BY <4>2, <4>3
      <4>6. end <= U[next]
        <5> DEFINE u == U[next]
        <5>1. u \in 1..L /\ next \in 1..L /\ next <= u /\ next > end
          BY <3>2, <4>3, <4>4, <4>5
        <5> HIDE DEF next, u
        <5>2. end <= u
          BY <1>0, <2>1, <5>1
        <5> QED BY <5>2 DEF u
      <4> QED BY <4>1, <4>2, <4>5, <4>6
    <3> QED BY <3>3, <3>4
  <2> QED
    BY <1>0, <2>1, <2>3, <2>4
<1>8. ASSUME Bad # {} PROVE FALSE
  <2>0. complete \in Nat
    BY <1>0, <1>1
  <2>1. Min(Bad) \in Bad /\ \A y \in Bad : Min(Bad) <= y
    <3>1. Bad \subseteq Nat
      BY <2>0
    <3> HIDE DEF Bad
    <3> QED BY <1>8, <3>1, LeastOf
  <2> DEFINE m == Min(Bad)
  <2> HIDE DEF Claim
  <2>2. m \in 0..complete /\ complete - m \in B /\ ~Claim(complete - m)
    BY <2>1
  <2>3. \A y \in Bad : m <= y
    BY <2>1
  <2> HIDE DEF m
  <2>4. ASSUME NEW e \in B, e > complete - m, e <= complete PROVE Claim(e)
    <3>1. e \in Nat
      BY <1>1
    <3>2. complete - e \in 0..complete /\ complete - (complete - e) = e /\ ~(m <= complete - e)
      BY <2>0, <2>2, <2>4, <3>1
    <3> QED BY <2>3, <3>2
  <2>5. complete - m <= complete
    BY <2>0, <2>2
  <2> QED BY <1>7, <2>2, <2>4, <2>5
<1>9. ASSUME NEW e \in B, e <= complete PROVE Claim(e)
  <2>1. complete \in Nat /\ e \in Nat
    BY <1>0, <1>1
  <2>2. complete - e \in 0..complete /\ complete - (complete - e) = e
    BY <1>9, <2>1
  <2> HIDE DEF Claim
  <2> QED BY <1>8, <2>2
<1> DEFINE first == RunEnd(rs, 0)
<1>10. 0 \in 0..L /\ 0 # L /\ complete > 0
  BY <1>0, <1>1
<1>11. first \in B /\ first <= complete
  BY <1>1, <1>4, <1>10
<1>12. U[0] = U[first]
  <2>1. ~(0 >= complete)
    BY <1>0, <1>1, <1>10
  <2>2. U[0] = Turn(rs, complete, U, 0)
    BY <1>2, <1>10
  <2> QED BY <2>1, <2>2 DEF Turn
<1>13. Claim(first)
  <2> HIDE DEF Claim, first
  <2> QED BY <1>9, <1>11
<1> QED
  BY <1>2, <1>12, <1>13 DEF F

-----------------------------------------------------------------------------
(* PullPage: the window                                                     *)

\* No revision has more rows than a batch.
ShortRuns(rs) == \A k \in 1..(Len(rs) - MaxPerBatch) : rs[k].revision # rs[k + MaxPerBatch].revision

Fitting(rs) == {k \in Boundaries(rs) : k <= MaxPullPage /\ Bytes(SubSeq(rs, 1, k)) <= MaxBytes}

\* What is in the reference's set and above all of it is the reference.
LEMMA IsReference ==
    ASSUME NEW rs \in Seq(PullRows), NEW first \in Boundaries(rs), \A k \in Boundaries(rs) : first <= k,
           NEW e \in {first} \cup Fitting(rs), first <= e, \A k \in Fitting(rs) : k <= e
    PROVE  e = ReferenceLen(rs)
<1> DEFINE L == Len(rs)
           B == Boundaries(rs)
           F == Fitting(rs)
<1>0. L \in Nat
  OBVIOUS
<1>1. B \subseteq 1..L
  <2>1. DOMAIN rs = 1..L
    OBVIOUS
  <2> QED BY <2>1 DEF Boundaries
<1>2. F \subseteq B
  BY DEF Fitting
<1>3. ReferenceLen(rs) = Max(F \cup {Min(B)})
  BY DEF ReferenceLen, Fitting
<1> HIDE DEF L, B, F
<1>4. Min(B) \in B /\ \A k \in B : Min(B) <= k
  <2>1. B \subseteq Nat
    BY <1>0, <1>1
  <2> QED BY <2>1, LeastOf DEF B
<1>5. first \in B /\ \A k \in B : first <= k
  BY DEF B
<1>6. first = Min(B)
  <2>1. first \in 1..L /\ Min(B) \in 1..L /\ first <= Min(B) /\ Min(B) <= first
    BY <1>1, <1>4, <1>5
  <2> QED BY <2>1
<1> DEFINE S == F \cup {first}
<1>7. S \subseteq 0..L /\ e \in S
  <2>1. S \subseteq 1..L
    BY <1>1, <1>2, <1>5
  <2>2. e \in S
    BY DEF F
  <2>3. \A k \in 1..L : k \in 0..L
    BY <1>0
  <2> HIDE DEF S
  <2> QED BY <2>1, <2>2, <2>3
<1>8. \A k \in S : k <= e
  BY DEF F
<1> HIDE DEF S
<1>9. Max(S) \in S /\ \A y \in S : y <= Max(S)
  BY <1>0, <1>7, GreatestOf
<1>10. Max(S) \in 0..L /\ e \in 0..L /\ Max(S) <= e /\ e <= Max(S)
  BY <1>7, <1>8, <1>9
<1>11. Max(S) = e
  BY <1>10
<1> QED
  BY <1>3, <1>6, <1>11 DEF S

\* With the last rows in the window, the loop goes over all of them.
LEMMA OpenWindow ==
    ASSUME NEW a \in Seq(PullRows), Ordered(a), a # <<>>
    PROVE  Grow(a, Len(a)) = ReferenceLen(a) /\ Grow(a, Len(a)) \in Boundaries(a)
<1> DEFINE L == Len(a)
           e == Grow(a, L)
<1>0. L \in Nat /\ 0 \in 0..L /\ 0 # L
  OBVIOUS
<1>1. Boundaries(a) \subseteq 1..L /\ L \in Boundaries(a)
  <2>1. DOMAIN a = 1..L /\ L \in 1..L
    OBVIOUS
  <2> QED BY <2>1 DEF Boundaries
<1>2. /\ e \in {RunEnd(a, 0)} \cup Fits(a, L) /\ RunEnd(a, 0) <= e /\ e <= L
      /\ \A k \in Fits(a, L) : k <= e
  BY <1>1, GrowFinds
<1>3. RunEnd(a, 0) \in Boundaries(a) /\ \A k \in Boundaries(a) : k > 0 => RunEnd(a, 0) <= k
  BY <1>0, RunEndIsNext
<1> HIDE DEF e, L
<1>4. \A k \in Boundaries(a) : k > 0 /\ k <= L
  <2>1. \A k \in 1..L : k > 0 /\ k <= L
    BY <1>0
  <2> QED BY <1>1, <2>1
<1>5. Fits(a, L) = Fitting(a)
  BY <1>4 DEF Fits, Fitting
<1>6. e \in Boundaries(a)
  BY <1>2, <1>3, <1>5 DEF Fitting
<1>7. e = ReferenceLen(a)
  BY <1>2, <1>3, <1>4, <1>5, IsReference
<1> QED
  BY <1>6, <1>7 DEF e, L

\* In a full window the revision that may be cut short starts past the longest
\* page, so that the loop up to it finds what it would find without a window.
LEMMA FullWindow ==
    ASSUME NEW a \in Seq(PullRows), Ordered(a), ShortRuns(a),
           NEW W \in 1..Len(a), W = MaxPullPage + MaxPerBatch + 1,
           NEW w \in Seq(PullRows), Len(w) = W, \A k \in 1..W : w[k] = a[k],
           \A k \in 1..W : SubSeq(w, 1, k) = SubSeq(a, 1, k),
           NEW c, c = Min({k \in DOMAIN w : w[k].revision = w[Len(w)].revision}) - 1
    PROVE  /\ Grow(w, c) = ReferenceLen(a) /\ Grow(w, c) \in Boundaries(a)
           /\ Grow(w, c) \in 1..W /\ Grow(w, c) # W
<1> DEFINE L == Len(a)
           e == Grow(w, c)
           S == {k \in DOMAIN w : w[k].revision = w[Len(w)].revision}
           s == Min(S)
<1>0. L \in Nat /\ W \in 1..L /\ W \in Nat /\ W \in 1..W
  OBVIOUS
<1>1. MaxPullPage \in Nat /\ MaxPerBatch \in Nat /\ MaxPerBatch > 0 /\ MaxPullPage > 0
  BY PullPageAssumption
<1>2. DOMAIN a = 1..L /\ DOMAIN w = 1..W
  OBVIOUS
<1>3. \A k \in 1..L : a[k].revision \in Nat
  <2>1. \A k \in 1..L : a[k] \in PullRows
    OBVIOUS
  <2> QED BY <2>1 DEF PullRows
<1>4. \A i, j \in 1..L : i <= j => a[i].revision <= a[j].revision
  BY DEF Ordered
<1>5. \A k \in 1..(L - MaxPerBatch) : a[k].revision # a[k + MaxPerBatch].revision
  BY DEF ShortRuns
<1>6. Ordered(w)
  <2>1. 1..W \subseteq 1..L
    BY <1>0
  <2> QED BY <1>4, <2>1 DEF Ordered
<1>7. S = {k \in 1..W : a[k].revision = a[W].revision}
  BY <1>0, <1>2
<1> HIDE DEF L, S
<1>8. S \subseteq Nat /\ W \in S
  <2>1. \A k \in 1..W : k \in Nat
    OBVIOUS
  <2> QED BY <1>0, <1>7, <2>1
<1>9. s \in S /\ \A k \in S : s <= k
  BY <1>8, LeastOf
<1>10. c = s - 1
  BY DEF S
<1> HIDE DEF s
<1>11. s \in 1..W /\ a[s].revision = a[W].revision
  BY <1>7, <1>9
<1>12. s >= MaxPullPage + 2
  <2> SUFFICES ASSUME ~(s >= MaxPullPage + 2) PROVE FALSE
    OBVIOUS
  <2>1. /\ s \in 1..(L - MaxPerBatch) /\ s + MaxPerBatch \in 1..L /\ s + MaxPerBatch <= W
        /\ s <= s + MaxPerBatch /\ s \in 1..L
    BY <1>0, <1>1, <1>11
  <2>2. a[s].revision <= a[s + MaxPerBatch].revision /\ a[s + MaxPerBatch].revision <= a[W].revision
    BY <1>0, <1>4, <2>1
  <2>3. a[s].revision \in Nat /\ a[s + MaxPerBatch].revision \in Nat /\ a[W].revision \in Nat
    BY <1>0, <1>3, <2>1
  <2>4. a[s].revision = a[s + MaxPerBatch].revision
    BY <1>11, <2>2, <2>3
  <2> QED BY <1>5, <2>1, <2>4
<1>13. c \in 1..W /\ c # W /\ c > MaxPullPage /\ c + 1 = s /\ ~(s <= c)
  BY <1>1, <1>10, <1>11, <1>12
<1>14. \A k \in 1..W : k # W => (k \in Boundaries(w) <=> k \in Boundaries(a))
  <2> TAKE k \in 1..W
  <2> HAVE k # W
  <2>1. k \in 1..L /\ k # L /\ k + 1 \in 1..W
    BY <1>0
  <2>2. k \in Boundaries(w) <=> w[k].revision # w[k + 1].revision
    BY <1>2, <2>1 DEF Boundaries
  <2>3. k \in Boundaries(a) <=> a[k].revision # a[k + 1].revision
    BY <1>2, <2>1 DEF Boundaries, L
  <2> QED BY <2>1, <2>2, <2>3
<1>15. Boundaries(w) \subseteq 1..W /\ Boundaries(a) \subseteq 1..L
  BY <1>2 DEF Boundaries
<1>16. c \in Boundaries(w)
  <2>1. c \in 1..L /\ c # L
    BY <1>0, <1>13
  <2>2. a[c].revision # a[W].revision
    BY <1>7, <1>9, <1>13
  <2>3. a[c].revision # a[c + 1].revision
    BY <1>11, <1>13, <2>2
  <2>4. c \in Boundaries(a)
    BY <1>2, <2>1, <2>3 DEF Boundaries
  <2> QED BY <1>13, <1>14, <2>4
<1>17. /\ e \in {RunEnd(w, 0)} \cup Fits(w, c) /\ RunEnd(w, 0) <= e /\ e <= c
       /\ \A k \in Fits(w, c) : k <= e
  BY <1>6, <1>16, GrowFinds
<1> DEFINE first == RunEnd(w, 0)
<1>18. first \in Boundaries(w) /\ \A k \in Boundaries(w) : k > 0 => first <= k
  <2>1. 0 \in 0..Len(w) /\ 0 # Len(w)
    BY <1>0
  <2> QED BY <1>6, <2>1, RunEndIsNext
<1>19. Fits(w, c) = Fitting(a)
  <2>1. ASSUME NEW k \in Fits(w, c) PROVE k \in Fitting(a)
    <3>1. k \in Boundaries(w) /\ k <= c /\ k <= MaxPullPage /\ Bytes(SubSeq(w, 1, k)) <= MaxBytes
      BY DEF Fits
    <3>2. k \in 1..W /\ k # W
      <4>1. k \in 1..W
        BY <1>15, <3>1
      <4>2. k <= c /\ c \in 1..W /\ c # W
        BY <1>13, <3>1
      <4> QED BY <4>1, <4>2
    <3> QED BY <1>14, <3>1, <3>2 DEF Fitting
  <2>2. ASSUME NEW k \in Fitting(a) PROVE k \in Fits(w, c)
    <3>1. k \in Boundaries(a) /\ k <= MaxPullPage /\ Bytes(SubSeq(a, 1, k)) <= MaxBytes
      BY DEF Fitting
    <3>2. k \in 1..W /\ k # W /\ k <= c
      <4>1. k \in 1..L
        BY <1>15, <3>1
      <4>2. k <= MaxPullPage /\ c \in 1..W /\ c # W /\ c > MaxPullPage
        BY <1>13, <3>1
      <4> QED BY <1>0, <1>1, <4>1, <4>2
    <3> QED BY <1>14, <3>1, <3>2 DEF Fits
  <2> QED BY <2>1, <2>2
<1> HIDE DEF first, e
<1>20. \A k \in 1..W : k > 0
  OBVIOUS
<1>21. first \in 1..W /\ first <= c
  BY <1>13, <1>15, <1>16, <1>18, <1>20
<1>22. first # W
  BY <1>13, <1>21
<1>23. first \in Boundaries(a)
  BY <1>14, <1>18, <1>21, <1>22
<1>24. \A k \in Boundaries(a) : first <= k
  <2> TAKE k \in Boundaries(a)
  <2>1. k \in 1..L
    BY <1>15
  <2>2. CASE k \in 1..W /\ k # W
    BY <1>14, <1>18, <1>20, <2>2
  <2>3. CASE k >= W
    BY <1>0, <1>21, <2>1, <2>3
  <2>4. (k \in 1..W /\ k # W) \/ k >= W
    BY <1>0, <2>1
  <2> QED BY <2>2, <2>3, <2>4
<1>25. e \in {first} \cup Fitting(a) /\ first <= e /\ \A k \in Fitting(a) : k <= e
  BY <1>17, <1>19 DEF first
<1>26. e = ReferenceLen(a)
  BY <1>23, <1>24, <1>25, IsReference
<1>27. e \in Boundaries(a)
  BY <1>23, <1>25 DEF Fitting
<1>28. e \in 1..L /\ e <= c
  BY <1>15, <1>17, <1>27
<1>29. e \in 1..W /\ e # W
  BY <1>0, <1>13, <1>28
<1> QED
  BY <1>26, <1>27, <1>29 DEF e

\* The page that page_len cuts from the window is the reference's.
LEMMA WindowCut ==
    ASSUME NEW a \in Seq(PullRows), Ordered(a), ShortRuns(a), a # <<>>
    PROVE  LET w == SubSeq(a, 1, Min({Window, Len(a)}))
               e == PageLen(w, Len(w) = Window)
           IN  /\ e = ReferenceLen(a) /\ e \in Boundaries(a)
               /\ e \in 1..Len(w) /\ w[e] = a[e]
               /\ e < Len(w) <=> e < Len(a)
<1> DEFINE L == Len(a)
           W == Window
           n == Min({W, L})
           w == SubSeq(a, 1, n)
           e == PageLen(w, Len(w) = W)
<1>0. L \in Nat /\ L > 0
  OBVIOUS
<1>1. W \in Nat /\ W = MaxPullPage + MaxPerBatch + 1 /\ W > 0
  BY PullPageAssumption DEF Window
<1> HIDE DEF W
<1>2. n \in {W, L} /\ n <= W /\ n <= L
  <2>1. {W, L} \subseteq Nat /\ W \in {W, L} /\ L \in {W, L}
    BY <1>0, <1>1
  <2> QED BY <2>1, LeastOf
<1> HIDE DEF n
<1>3. n \in 1..L
  <2> HIDE DEF L
  <2> QED BY <1>0, <1>1, <1>2
<1>4. /\ w \in Seq(PullRows) /\ Len(w) = n /\ \A k \in 1..n : w[k] = a[k]
  BY <1>3
<1>5. \A k \in 1..n : SubSeq(w, 1, k) = SubSeq(a, 1, k)
  BY <1>3
<1>6. CASE n # W
  <2>1. n = L
    BY <1>2, <1>6
  <2>2. w = a
    BY <2>1
  <2>3. Complete(w, Len(w) = W) = Len(a)
    BY <1>4, <1>6, <2>2 DEF Complete
  <2>4. e = Grow(a, Len(a))
    BY <2>2, <2>3 DEF PageLen
  <2> HIDE DEF e, w
  <2>5. e = ReferenceLen(a) /\ e \in Boundaries(a)
    BY <2>4, OpenWindow
  <2>6. e \in 1..Len(a)
    BY <2>5 DEF Boundaries
  <2>7. e \in 1..Len(w) /\ w[e] = a[e] /\ (e < Len(w) <=> e < Len(a))
    BY <2>2, <2>6
  <2> QED BY <2>5, <2>7 DEF e, w, n, W
<1>7. CASE n = W
  <2> DEFINE c == Min({k \in DOMAIN w : w[k].revision = w[Len(w)].revision}) - 1
  <2>1. w # <<>>
    BY <1>3, <1>4
  <2>2. Complete(w, Len(w) = W) = c
    BY <1>4, <1>7, <2>1 DEF Complete
  <2>3. e = Grow(w, c)
    BY <2>2 DEF PageLen
  <2> HIDE DEF e, w
  <2>4. /\ e = ReferenceLen(a) /\ e \in Boundaries(a)
        /\ e \in 1..W /\ e # W
    BY <1>1, <1>3, <1>4, <1>5, <1>7, <2>3, FullWindow
  <2>5. e \in 1..Len(w) /\ w[e] = a[e]
    BY <1>4, <1>7, <2>4
  <2>6. e < W /\ e < L
    <3> HIDE DEF L
    <3> QED BY <1>0, <1>1, <1>3, <1>7, <2>4
  <2> QED BY <1>4, <1>7, <2>4, <2>5, <2>6 DEF e, w, n, W
<1> QED
  BY <1>6, <1>7

-----------------------------------------------------------------------------
(* PullPage: the inductive invariant                                        *)

\* Revisions do not fall and none has more rows than a batch; what was sent is
\* what the cursor covers.
PullInv ==
    /\ table \in Seq(PullRows) /\ Ordered(table) /\ ShortRuns(table)
    /\ since \in Nat
    /\ Len(sent) \in 0..Len(table)
    /\ NothingSkipped

\* The rows a cursor covers, once it is known where they end.
LEMMA UptoIs ==
    ASSUME table \in Seq(PullRows), NEW cursor, NEW n \in 0..Len(table),
           \A k \in 1..Len(table) : table[k].revision <= cursor <=> k <= n
    PROVE  Upto(cursor) = n
<1> DEFINE L == Len(table)
           S == {0} \cup {k \in DOMAIN table : table[k].revision <= cursor}
<1>0. L \in Nat /\ n \in 0..L
  OBVIOUS
<1>1. DOMAIN table = 1..L
  OBVIOUS
<1>2. S = {0} \cup {k \in 1..L : k <= n}
  BY <1>1
<1>3. Upto(cursor) = Max(S)
  BY DEF Upto
<1> HIDE DEF L, S
<1>4. S \subseteq 0..L /\ n \in S /\ \A k \in S : k <= n
  BY <1>0, <1>2
<1>5. Max(S) \in S /\ \A y \in S : y <= Max(S)
  BY <1>0, <1>4, GreatestOf
<1>6. Max(S) \in 0..L /\ Max(S) <= n /\ n <= Max(S)
  BY <1>4, <1>5
<1> QED
  BY <1>0, <1>3, <1>6

\* The rows past the cursor are the table's last.
LEMMA AfterIs ==
    ASSUME PullInv
    PROVE  /\ Upto(since) = Len(sent)
           /\ After(since) \in Seq(PullRows) /\ Len(After(since)) = Len(table) - Len(sent)
           /\ \A k \in 1..Len(After(since)) : After(since)[k] = table[Len(sent) + k]
           /\ Ordered(After(since)) /\ ShortRuns(After(since))
<1> DEFINE L == Len(table)
           n == Len(sent)
           a == After(since)
<1>0. L \in Nat /\ n \in 0..L /\ MaxPerBatch \in Nat /\ n \in Nat
  BY PullPageAssumption DEF PullInv
<1>1. table \in Seq(PullRows)
  BY DEF PullInv
<1>2. Upto(since) = n
  <2>1. DOMAIN table = 1..L
    BY <1>1
  <2>2. \A k \in 1..L : table[k].revision <= since <=> k <= n
    BY <2>1 DEF PullInv, NothingSkipped
  <2> QED BY <1>0, <1>1, <2>2, UptoIs
<1>3. a = SubSeq(table, n + 1, L)
  BY <1>2 DEF After
<1>4. a \in Seq(PullRows) /\ Len(a) = L - n /\ \A k \in 1..(L - n) : a[k] = table[n + k]
  <2>1. SubSeq(table, n + 1, L) \in Seq(PullRows)
    BY <1>0, <1>1
  <2>2. Len(SubSeq(table, n + 1, L)) = L - n
    BY <1>0, <1>1
  <2>3. \A k \in 1..(L - n) : SubSeq(table, n + 1, L)[k] = table[n + k]
    BY <1>0, <1>1
  <2> QED BY <1>3, <2>1, <2>2, <2>3
<1>5. \A i, j \in 1..L : i <= j => table[i].revision <= table[j].revision
  BY DEF PullInv, Ordered
<1>6. \A k \in 1..(L - MaxPerBatch) : table[k].revision # table[k + MaxPerBatch].revision
  BY DEF PullInv, ShortRuns
<1> HIDE DEF L, n, a
<1>7. Ordered(a)
  <2>1. \A i, j \in 1..(L - n) : i <= j => n + i \in 1..L /\ n + j \in 1..L /\ n + i <= n + j
    BY <1>0
  <2> QED BY <1>4, <1>5, <2>1 DEF Ordered
<1>8. ShortRuns(a)
  <2> SUFFICES ASSUME NEW k \in 1..((L - n) - MaxPerBatch) PROVE a[k].revision # a[k + MaxPerBatch].revision
    BY <1>4 DEF ShortRuns
  <2>1. /\ k \in 1..(L - n) /\ k + MaxPerBatch \in 1..(L - n) /\ n + k \in 1..(L - MaxPerBatch)
        /\ n + (k + MaxPerBatch) = (n + k) + MaxPerBatch
    BY <1>0
  <2>2. a[k] = table[n + k] /\ a[k + MaxPerBatch] = table[(n + k) + MaxPerBatch]
    BY <1>4, <2>1
  <2> QED BY <1>6, <2>1, <2>2
<1> QED
  BY <1>2, <1>4, <1>7, <1>8 DEF a, L, n

\* Every state the invariant allows gives the page of the reference.
LEMMA CutIs == PullInv => WindowIsEnough
<1> SUFFICES ASSUME PullInv, After(since) # <<>>
             PROVE  /\ End = ReferenceLen(After(since))
                    /\ HasMore <=> End < Len(After(since))
  BY DEF WindowIsEnough
<1> QED
  BY AfterIs, WindowCut DEF End, HasMore, Sized

LEMMA PullStep == PullInv /\ [PullPageNext]_pullVars => PullInv'
<1> SUFFICES ASSUME PullInv, [PullPageNext]_pullVars PROVE PullInv'
  OBVIOUS
<1>1. CASE Pull
  <2> DEFINE L == Len(table)
             n == Len(sent)
             a == After(since)
             e == End
             through == Sized(since)[End].revision
  <2>0. table \in Seq(PullRows)
    BY DEF PullInv
  <2>1. L \in Nat /\ n \in 0..L /\ n \in Nat
    BY <2>0 DEF PullInv
  <2>2. /\ Upto(since) = n /\ a \in Seq(PullRows) /\ Len(a) = L - n
        /\ \A k \in 1..Len(a) : a[k] = table[n + k]
        /\ Ordered(a) /\ ShortRuns(a)
    BY AfterIs
  <2>3. a # <<>>
    <3> SUFFICES ASSUME a = <<>> PROVE FALSE
      OBVIOUS
    <3>1. Sized(since) = <<>>
      <4>1. Min({Window, 0}) = 0
        <5>1. {Window, 0} \subseteq Nat
          BY PullPageAssumption DEF Window
        <5>2. Min({Window, 0}) \in {Window, 0} /\ Min({Window, 0}) <= 0
          BY <5>1, LeastOf
        <5>3. Min({Window, 0}) \in Nat
          BY <5>1, <5>2
        <5> QED BY <5>2, <5>3
      <4>2. Sized(since) = SubSeq(<<>>, 1, Min({Window, Len(<<>>)}))
        BY DEF Sized
      <4>3. Len(<<>>) = 0
        OBVIOUS
      <4> QED BY <4>1, <4>2, <4>3
    <3>2. Complete(Sized(since), Len(Sized(since)) = Window) = 0
      BY <3>1 DEF Complete
    <3>3. End = Grow(<<>>, 0)
      BY <3>1, <3>2 DEF End, PageLen
    <3>4. Grow(<<>>, 0) = 0
      <4>1. <<>> \in Seq(PullRows) /\ Ordered(<<>>) /\ 0 \in 0..Len(<<>>)
        BY DEF Ordered
      <4>2. PICK g : /\ \A end \in 0..Len(<<>>) : g[end] = Turn(<<>>, 0, g, end)
                     /\ Grow(<<>>, 0) = g[0]
        BY <4>1, GrowIs
      <4> QED BY <4>1, <4>2 DEF Turn
    <3> QED BY <1>1, <3>3, <3>4 DEF Pull
  <2>4. /\ e \in Boundaries(a) /\ e \in 1..Len(Sized(since)) /\ Sized(since)[e] = a[e]
    BY <2>2, <2>3, WindowCut DEF End, Sized
  <2>5. e \in 1..(L - n) /\ (e = L - n \/ a[e].revision # a[e + 1].revision)
    <3>1. DOMAIN a = 1..Len(a)
      BY <2>2
    <3> QED BY <2>2, <2>4, <3>1 DEF Boundaries
  <2>6. through = table[n + e].revision
    BY <2>2, <2>4, <2>5
  <2>7. since' = through /\ sent' = sent \o SubSeq(table, Upto(since) + 1, Upto(through)) /\ table' = table
    BY <1>1 DEF Pull
  <2>8. \A k \in 1..L : table[k].revision \in Nat
    <3>1. \A k \in 1..L : table[k] \in PullRows
      BY <2>0
    <3> QED BY <3>1 DEF PullRows
  <2>9. \A i, j \in 1..L : i <= j => table[i].revision <= table[j].revision
    BY DEF PullInv, Ordered
  <2>a. e # L - n => a[e + 1] = table[n + e + 1] /\ a[e] = table[n + e]
    <3>1. e # L - n => e + 1 \in 1..(L - n) /\ n + (e + 1) = n + e + 1
      BY <2>1, <2>5
    <3> QED BY <2>2, <2>5, <3>1
  <2>b. sent = SubSeq(table, 1, n)
    BY DEF PullInv, NothingSkipped
  <2> HIDE DEF L, n, a, e, through
  <2> DEFINE m == n + e
  <2>10. m \in 1..L /\ m \in 0..L /\ n <= m
    BY <2>1, <2>5
  <2>11. through \in Nat
    BY <2>6, <2>8, <2>10
  <2>12. \A k \in 1..L : table[k].revision <= through <=> k <= m
    <3> TAKE k \in 1..L
    <3>1. k <= m => table[k].revision <= through
      BY <2>6, <2>9, <2>10
    <3>2. ASSUME ~(k <= m) PROVE ~(table[k].revision <= through)
      <4>1. e # L - n /\ m + 1 \in 1..L /\ m + 1 <= k /\ m <= m + 1
        BY <2>1, <2>5, <2>10, <3>2
      <4>2. table[m].revision # table[m + 1].revision
        BY <2>5, <2>a, <4>1
      <4>3. table[m].revision <= table[m + 1].revision /\ table[m + 1].revision <= table[k].revision
        BY <2>9, <2>10, <4>1
      <4>4. table[m].revision \in Nat /\ table[m + 1].revision \in Nat /\ table[k].revision \in Nat
        BY <2>8, <2>10, <4>1
      <4>5. through = table[m].revision
        BY <2>6
      <4> QED BY <4>2, <4>3, <4>4, <4>5
    <3> QED BY <3>1, <3>2
  <2>13. Upto(through) = m
    BY <2>0, <2>10, <2>12, UptoIs DEF L
  <2>14. sent' = SubSeq(table, 1, n) \o SubSeq(table, n + 1, m)
    BY <2>2, <2>7, <2>13, <2>b
  <2>15. sent' = SubSeq(table, 1, m) /\ Len(sent') = m
    <3> DEFINE x == SubSeq(table, 1, n)
               y == SubSeq(table, n + 1, m)
               z == SubSeq(table, 1, m)
    <3>1. x \in Seq(PullRows) /\ Len(x) = n /\ \A k \in 1..n : x[k] = table[k]
      BY <2>0, <2>1 DEF L
    <3>2. y \in Seq(PullRows) /\ Len(y) = m - n /\ \A k \in 1..(m - n) : y[k] = table[n + k]
      <4> HIDE DEF m
      <4> QED BY <2>0, <2>1, <2>10 DEF L
    <3>3. z \in Seq(PullRows) /\ Len(z) = m /\ \A k \in 1..m : z[k] = table[k]
      <4> HIDE DEF m
      <4> QED BY <2>0, <2>10 DEF L
    <3> HIDE DEF x, y, z, m
    <3>4. x \o y \in Seq(PullRows) /\ Len(x \o y) = m
      BY <2>1, <2>10, <3>1, <3>2
    <3>5. \A k \in 1..m : (x \o y)[k] = table[k]
      <4> TAKE k \in 1..m
      <4>1. CASE k <= n
        <5>1. k \in 1..n
          BY <2>1, <2>10, <4>1
        <5>2. (x \o y)[k] = x[k]
          BY <3>1, <3>2, <5>1
        <5> QED BY <3>1, <5>1, <5>2
      <4>2. CASE ~(k <= n)
        <5>1. k - n \in 1..(m - n) /\ n + (k - n) = k /\ k \in (n + 1)..m
          BY <2>1, <2>10, <4>2
        <5>2. (x \o y)[k] = y[k - n]
          BY <2>1, <2>10, <3>1, <3>2, <4>2, <5>1
        <5> QED BY <3>2, <5>1, <5>2
      <4> QED BY <4>1, <4>2
    <3>6. x \o y = z
      <4> DEFINE xy == x \o y
      <4>1. xy \in Seq(PullRows) /\ Len(xy) = m /\ \A k \in 1..m : xy[k] = table[k]
        BY <3>4, <3>5
      <4> HIDE DEF xy
      <4>2. xy \in [1..m -> PullRows] /\ z \in [1..m -> PullRows]
        BY <3>3, <4>1
      <4>3. xy = z
        BY <3>3, <4>1, <4>2
      <4> QED BY <4>3 DEF xy
    <3> QED BY <2>14, <3>3, <3>6 DEF x, y, z
  <2> HIDE DEF m
  <2>16. NothingSkipped'
    <3>1. DOMAIN table = 1..L
      BY <2>0 DEF L
    <3> QED BY <2>7, <2>12, <2>15, <3>1 DEF NothingSkipped
  <2>17. (table \in Seq(PullRows) /\ Ordered(table) /\ ShortRuns(table))'
    BY <2>7 DEF PullInv, Ordered, ShortRuns
  <2>18. (since \in Nat)' /\ (Len(sent) \in 0..Len(table))'
    BY <2>7, <2>10, <2>11, <2>15 DEF L
  <2> QED BY <2>16, <2>17, <2>18 DEF PullInv
<1>2. CASE UNCHANGED pullVars
  BY <1>2 DEF PullInv, pullVars, Ordered, ShortRuns, NothingSkipped
<1> QED
  BY <1>1, <1>2 DEF PullPageNext, PullIdle

LEMMA PullStart == PullPageInit => PullInv
<1> SUFFICES ASSUME PullPageInit PROVE PullInv
  OBVIOUS
<1>a. PICK n \in 0..MaxRows : \E starts \in SUBSET (1..n), bytes \in [1..n -> Sizes] :
        /\ n > 0 => 1 \in starts
        /\ \A k \in 1..(n - MaxPerBatch) : \E j \in starts : j > k /\ j <= k + MaxPerBatch
        /\ table = Vault(n, starts, bytes)
  BY DEF PullPageInit
<1>1. PICK starts \in SUBSET (1..n), bytes \in [1..n -> Sizes] :
        /\ n > 0 => 1 \in starts
        /\ \A k \in 1..(n - MaxPerBatch) : \E j \in starts : j > k /\ j <= k + MaxPerBatch
        /\ table = Vault(n, starts, bytes)
  BY <1>a
<1>0. MaxRows \in Nat /\ n \in Nat /\ Sizes \subseteq Nat /\ MaxPerBatch \in Nat /\ MaxPerBatch > 0
  BY PullPageAssumption
<1> DEFINE Upon(k) == {j \in starts : j <= k}
           rv(k) == Cardinality(Upon(k))
<1>2. \A k : IsFiniteSet(Upon(k))
  <2>1. IsFiniteSet(1..n)
    BY <1>0, FS_Interval
  <2>2. \A k : Upon(k) \subseteq 1..n
    OBVIOUS
  <2> QED BY <2>1, <2>2, FS_Subset
<1>3. \A k : rv(k) \in Nat
  BY <1>2, FS_CardinalityType
<1>4. \A i, j \in 1..n : i <= j => rv(i) <= rv(j)
  <2> TAKE i, j \in 1..n
  <2> HAVE i <= j
  <2>1. Upon(i) \subseteq Upon(j)
    <3>1. \A u \in 1..n : u <= i => u <= j
      BY <1>0
    <3> QED BY <3>1
  <2> HIDE DEF Upon
  <2> QED BY <1>2, <2>1, FS_Subset
<1>5. \A k \in 1..(n - MaxPerBatch) : rv(k) # rv(k + MaxPerBatch)
  <2> TAKE k \in 1..(n - MaxPerBatch)
  <2>1. PICK j \in starts : j > k /\ j <= k + MaxPerBatch
    BY <1>1
  <2>2. Upon(k) \subseteq Upon(k + MaxPerBatch) /\ j \in Upon(k + MaxPerBatch) /\ j \notin Upon(k)
    <3>1. \A u \in 1..n : u <= k => u <= k + MaxPerBatch
      BY <1>0
    <3>2. j \in 1..n /\ ~(j <= k)
      BY <1>0, <2>1
    <3> QED BY <2>1, <3>1, <3>2
  <2> HIDE DEF Upon
  <2> QED BY <1>2, <2>2, FS_Subset
<1>6. \A k \in 1..n : rv(k) > 0
  <2> TAKE k \in 1..n
  <2>1. 1 \in Upon(k)
    BY <1>0, <1>1
  <2> HIDE DEF Upon
  <2>2. rv(k) # 0
    BY <1>2, <2>1, FS_EmptySet
  <2> QED BY <1>3, <2>2
<1> HIDE DEF rv
<1>7. table = [k \in 1..n |-> [revision |-> rv(k), bytes |-> bytes[k]]]
  BY <1>1 DEF Vault, rv
<1>8. table \in Seq(PullRows) /\ Len(table) = n /\ \A k \in 1..n : table[k].revision = rv(k)
  <2>1. \A k \in 1..n : [revision |-> rv(k), bytes |-> bytes[k]] \in PullRows
    BY <1>0, <1>1, <1>3 DEF PullRows
  <2>2. table \in [1..n -> PullRows]
    BY <1>7, <2>1
  <2>3. \A k \in 1..n : table[k].revision = rv(k)
    BY <1>7
  <2>4. table \in Seq(PullRows) /\ Len(table) = n
    BY <1>0, <2>2
  <2> QED BY <2>3, <2>4
<1>9. Ordered(table)
  BY <1>4, <1>8 DEF Ordered
<1>10. ShortRuns(table)
  <2> SUFFICES ASSUME NEW k \in 1..(n - MaxPerBatch) PROVE table[k].revision # table[k + MaxPerBatch].revision
    BY <1>8 DEF ShortRuns
  <2>1. k \in 1..n /\ k + MaxPerBatch \in 1..n
    BY <1>0
  <2> QED BY <1>5, <1>8, <2>1
<1>11. since = 0 /\ sent = <<>> /\ Len(sent) = 0
  BY DEF PullPageInit
<1>12. NothingSkipped
  <2>1. DOMAIN table = 1..n
    BY <1>8
  <2>2. SubSeq(table, 1, 0) = <<>>
    BY <1>8
  <2>3. \A k \in 1..n : ~(rv(k) <= 0) /\ ~(k <= 0)
    BY <1>3, <1>6
  <2>4. \A k \in DOMAIN table : table[k].revision <= since <=> k <= Len(sent)
    BY <1>8, <1>11, <2>1, <2>3
  <2> QED BY <1>11, <2>2, <2>4 DEF NothingSkipped
<1> QED
  BY <1>0, <1>8, <1>9, <1>10, <1>11, <1>12 DEF PullInv

\* For any numbers of rows, sizes and limits: no pull leaves a row out, cuts a
\* batch or sends a row twice, and the page cut from the window is the longest
\* the limits allow (sync.rs page_len, pull).
THEOREM PagesAreWholeHolds == PullPageSpec => []PagesAreWhole
<1>1. PullInv => PagesAreWhole
  BY CutIs DEF PagesAreWhole, PullInv
<1> QED
  BY <1>1, PullStart, PullStep, PTL DEF PullPageSpec

-----------------------------------------------------------------------------
(* Health                                                                   *)

\* The session's fields, one for one: numbers and the flag.
SessionTyped ==
    /\ session = [open |-> session.open, epoch |-> session.epoch,
                  generation |-> session.generation, health |-> session.health]
    /\ session.open \in BOOLEAN /\ session.epoch \in Nat /\ session.generation \in Nat

\* The report that is kept is one of the logins as they are.
KeptIsTrue ==
    session.health # Nothing => session.open /\ session.health = Compute(Snapshot, session.health.at)

\* A snapshot of an earlier session or generation never passes for a later one;
\* one of this generation still is what the logins are.
ReportsFit ==
    \A c \in Callers : report[c] # Nothing =>
        LET r == report[c] IN
        /\ r.epoch \in Nat /\ r.generation \in Nat
        /\ r.epoch <= session.epoch
        /\ ~session.open => r.epoch < session.epoch
        /\ r.epoch = session.epoch => r.generation <= session.generation
        /\ r.epoch = session.epoch /\ r.generation = session.generation => r.facts = Snapshot

\* A login has its parts, here and in a write on its way.
LoginsTyped ==
    /\ report = [c \in Callers |-> report[c]] /\ logins = [i \in LoginIds |-> logins[i]]
    /\ \A i \in LoginIds : logins[i] = Nothing \/ ContentShape(logins[i])
    /\ pending # Nothing => pending.content = Nothing \/ ContentShape(pending.content)

HealthInv == SessionTyped /\ KeptIsTrue /\ ReportsFit /\ LoginsTyped

\* Taking the known checks out of a login leaves its websites as they are.
LEMMA SameButIgnored ==
    ASSUME NEW f, ContentShape(f), NEW x
    PROVE  LET g == [f EXCEPT !.ignored = x] IN ContentShape(g) /\ g.urls = f.urls /\ g.opens = f.opens
BY DEF ContentShape

LEMMA SameHelp ==
    ASSUME NEW f, NEW g, f.urls = g.urls
    PROVE  PasskeyHelp(f) = PasskeyHelp(g) /\ TwoFactorHelp(f) = TwoFactorHelp(g)
<1>1. HostsOf(f) = HostsOf(g)
  BY DEF HostsOf
<1>2. NamesOf(f) = NamesOf(g)
  BY <1>1 DEF NamesOf
<1> QED BY <1>2 DEF PasskeyHelp, TwoFactorHelp

LEMMA HealthStart == HealthInit => HealthInv
<1> SUFFICES ASSUME HealthInit PROVE HealthInv
  OBVIOUS
<1>1. SessionTyped /\ KeptIsTrue
  BY DEF HealthInit, SessionTyped, KeptIsTrue, Opening
<1>2. ReportsFit
  BY DEF HealthInit, ReportsFit
<1>3. LoginsTyped
  BY HealthAssumption DEF HealthInit, LoginsTyped
<1> QED BY <1>1, <1>2, <1>3 DEF HealthInv

\* What one caller's snapshot may be, of the session se and the logins' snapshot now.
ReportFits(r, se, now) ==
    /\ r.epoch \in Nat /\ r.generation \in Nat
    /\ r.epoch <= se.epoch
    /\ ~se.open => r.epoch < se.epoch
    /\ r.epoch = se.epoch => r.generation <= se.generation
    /\ r.epoch = se.epoch /\ r.generation = se.generation => r.facts = now

LEMMA ReportsFitIs == ReportsFit <=> \A c \in Callers : report[c] # Nothing => ReportFits(report[c], session, Snapshot)
BY DEF ReportsFit, ReportFits

LEMMA ReportsFitNext ==
    ReportsFit' <=> \A c \in Callers : report'[c] # Nothing => ReportFits(report'[c], session', Snapshot')
BY DEF ReportsFit, ReportFits

\* A step that changes a login makes a generation of its own: no snapshot is
\* taken for one of it.
LEMMA ChangeFits ==
    ASSUME HealthInv, session' = Changed(session), UNCHANGED report, session.open
    PROVE  SessionTyped' /\ KeptIsTrue' /\ ReportsFit'
<1>1. session' = [open |-> session.open, epoch |-> session.epoch,
                  generation |-> session.generation + 1, health |-> Nothing]
  BY DEF HealthInv, SessionTyped, Changed
<1>2. SessionTyped'
  BY <1>1 DEF HealthInv, SessionTyped
<1>3. KeptIsTrue'
  BY <1>1 DEF KeptIsTrue
<1>4. ReportsFit'
  <2> SUFFICES ASSUME NEW c \in Callers, report[c] # Nothing PROVE ReportFits(report[c], session', Snapshot')
    BY ReportsFitNext
  <2>1. ReportFits(report[c], session, Snapshot)
    BY ReportsFitIs DEF HealthInv
  <2>2. session.epoch \in Nat /\ session.generation \in Nat
    BY DEF HealthInv, SessionTyped
  <2>3. session'.epoch = session.epoch /\ session'.open = session.open /\ session'.generation = session.generation + 1
    BY <1>1
  <2> QED BY <2>1, <2>2, <2>3 DEF ReportFits
<1> QED BY <1>2, <1>3, <1>4

LEMMA HealthStep == HealthInv /\ [HealthNext]_healthVars => HealthInv'
<1> SUFFICES ASSUME HealthInv, [HealthNext]_healthVars PROVE HealthInv'
  OBVIOUS
<1>0. SessionTyped /\ KeptIsTrue /\ ReportsFit /\ LoginsTyped
  BY DEF HealthInv
<1>a. logins' = logins => Snapshot' = Snapshot
  BY DEF Snapshot
<1>1. ASSUME NEW c \in Callers, TakeSnapshot(c) PROVE HealthInv'
  <2> DEFINE r == [facts |-> Snapshot, at |-> time, epoch |-> session.epoch, generation |-> session.generation]
  <2>0. Snapshot' = Snapshot /\ session' = session /\ report' = [report EXCEPT ![c] = r] /\ session.open
    BY <1>1, <1>a DEF TakeSnapshot
  <2>1. SessionTyped' /\ KeptIsTrue'
    BY <1>0, <2>0 DEF SessionTyped, KeptIsTrue
  <2>2. ReportFits(r, session, Snapshot)
    BY <1>0, <2>0 DEF SessionTyped, ReportFits
  <2> HIDE DEF r
  <2>3. report' = [d \in Callers |-> IF d = c THEN r ELSE report[d]]
    BY <1>0, <2>0 DEF LoginsTyped
  <2>4. ReportsFit'
    BY <1>0, <2>0, <2>2, <2>3, ReportsFitIs, ReportsFitNext
  <2>5. LoginsTyped'
    <3>1. logins' = logins /\ pending' = pending
      BY <1>1 DEF TakeSnapshot
    <3>2. report' = [d \in Callers |-> report'[d]]
      BY <2>3
    <3> QED BY <1>0, <3>1, <3>2 DEF LoginsTyped
  <2> QED BY <2>1, <2>4, <2>5 DEF HealthInv
<1>2. ASSUME NEW c \in Callers, FinishReport(c) PROVE HealthInv'
  <2>0. Snapshot' = Snapshot /\ report' = [report EXCEPT ![c] = Nothing] /\ logins' = logins /\ pending' = pending
    BY <1>2, <1>a DEF FinishReport
  <2>1. report' = [d \in Callers |-> IF d = c THEN Nothing ELSE report[d]]
    BY <1>0, <2>0 DEF LoginsTyped
  <2>2. LoginsTyped'
    <3>2. report' = [d \in Callers |-> report'[d]]
      BY <2>1
    <3> QED BY <1>0, <2>0, <3>2 DEF LoginsTyped
  <2>3. CASE session' = session
    <3>1. SessionTyped' /\ KeptIsTrue'
      BY <1>0, <2>0, <2>3 DEF SessionTyped, KeptIsTrue
    <3>2. ReportsFit'
      BY <1>0, <2>0, <2>1, <2>3, ReportsFitIs, ReportsFitNext
    <3> QED BY <2>2, <3>1, <3>2 DEF HealthInv
  <2>4. CASE session' # session
    <3> DEFINE h == Compute(report[c].facts, report[c].at)
    <3>1. session.open /\ StillTrue(report[c]) /\ session' = [session EXCEPT !.health = h]
      BY <1>2, <2>4 DEF FinishReport
    <3>2. session' = [open |-> session.open, epoch |-> session.epoch,
                      generation |-> session.generation, health |-> h]
      BY <1>0, <3>1 DEF SessionTyped
    <3>3. report[c].facts = Snapshot
      BY <1>0, <1>2, <3>1, ReportsFitIs DEF ReportFits, StillTrue, FinishReport
    <3>4. h.at = report[c].at
      BY DEF Compute
    <3>5. h = Compute(Snapshot, h.at)
      BY <3>3, <3>4
    <3> HIDE DEF h
    <3>6. SessionTyped'
      BY <1>0, <3>2 DEF SessionTyped
    <3>7. KeptIsTrue'
      BY <2>0, <3>1, <3>2, <3>5 DEF KeptIsTrue
    <3>8. ReportsFit'
      <4>1. session'.open = session.open /\ session'.epoch = session.epoch /\ session'.generation = session.generation
        BY <3>2
      <4>2. \A r : ReportFits(r, session, Snapshot) => ReportFits(r, session', Snapshot')
        BY <2>0, <4>1 DEF ReportFits
      <4> QED BY <1>0, <2>1, <4>2, ReportsFitIs, ReportsFitNext
    <3> QED BY <2>2, <3>6, <3>7, <3>8 DEF HealthInv
  <2> QED BY <2>3, <2>4
<1>3. ASSUME UNCHANGED <<logins, session, report>>, pending' # Nothing => pending'.content = Nothing \/ ContentShape(pending'.content)
      PROVE  HealthInv'
  <2>1. SessionTyped' /\ KeptIsTrue'
    BY <1>0, <1>3, <1>a DEF SessionTyped, KeptIsTrue
  <2>2. ReportsFit'
    BY <1>0, <1>3, <1>a, ReportsFitIs, ReportsFitNext
  <2>3. LoginsTyped'
    BY <1>0, <1>3 DEF LoginsTyped
  <2> QED BY <2>1, <2>2, <2>3 DEF HealthInv
<1>4. ASSUME NEW i \in LoginIds, NEW f, f = Nothing \/ ContentShape(f), StageWrite(i, f) PROVE HealthInv'
  <2>1. UNCHANGED <<logins, session, report>> /\ pending'.content = f
    BY <1>4 DEF StageWrite
  <2> QED BY <1>3, <1>4, <2>1
<1>5. ASSUME NEW i \in LoginIds, NEW checks \in Dismissals, StageIgnored(i, checks) PROVE HealthInv'
  <2>1. ContentShape(logins[i])
    BY <1>0, <1>5 DEF StageIgnored, LoginsTyped
  <2>2. ContentShape([logins[i] EXCEPT !.ignored = checks])
    BY <2>1, SameButIgnored
  <2>3. StageWrite(i, [logins[i] EXCEPT !.ignored = checks])
    BY <1>5 DEF StageIgnored
  <2> QED BY <1>4, <2>2, <2>3
<1>6. ASSUME NEW i \in LoginIds, NEW f, f = Nothing \/ ContentShape(f), session.open,
             logins' = [logins EXCEPT ![i] = f], session' = Changed(session), UNCHANGED report,
             pending' = pending \/ pending' = Nothing
      PROVE  HealthInv'
  <2>1. SessionTyped' /\ KeptIsTrue' /\ ReportsFit'
    BY <1>6, ChangeFits
  <2>2. logins' = [j \in LoginIds |-> IF j = i THEN f ELSE logins[j]]
    BY <1>0, <1>6 DEF LoginsTyped
  <2>3. LoginsTyped'
    <3>1. logins' = [j \in LoginIds |-> logins'[j]]
      BY <2>2
    <3>2. \A j \in LoginIds : logins'[j] = Nothing \/ ContentShape(logins'[j])
      BY <1>0, <1>6, <2>2 DEF LoginsTyped
    <3> QED BY <1>0, <1>6, <3>1, <3>2 DEF LoginsTyped
  <2> QED BY <2>1, <2>3 DEF HealthInv
<1>7. ASSUME NEW i \in LoginIds, NEW f \in Contents \cup {Nothing}, Pulled(i, f) PROVE HealthInv'
  <2>1. f = Nothing \/ ContentShape(f)
    BY HealthAssumption
  <2> QED BY <1>6, <1>7, <2>1 DEF Pulled
<1>8. CASE CommitHealthWrite
  <2>1. CASE session.open /\ session.epoch = pending.epoch
    <3>1. /\ pending # Nothing /\ logins' = [logins EXCEPT ![pending.id] = pending.content]
          /\ session' = Changed(session) /\ UNCHANGED report /\ pending' = Nothing
      BY <1>8, <2>1 DEF CommitHealthWrite
    <3>2. pending.content = Nothing \/ ContentShape(pending.content)
      BY <1>0, <3>1 DEF LoginsTyped
    <3>3. CASE pending.id \in LoginIds
      BY <1>6, <2>1, <3>1, <3>2, <3>3
    <3>4. CASE pending.id \notin LoginIds
      <4>1. logins' = logins
        BY <1>0, <3>1, <3>4 DEF LoginsTyped
      <4>2. LoginsTyped'
        BY <1>0, <3>1, <4>1 DEF LoginsTyped
      <4>3. SessionTyped' /\ KeptIsTrue' /\ ReportsFit'
        BY <2>1, <3>1, ChangeFits
      <4> QED BY <4>2, <4>3 DEF HealthInv
    <3> QED BY <3>3, <3>4
  <2>2. CASE ~(session.open /\ session.epoch = pending.epoch)
    BY <1>3, <1>8, <2>2 DEF CommitHealthWrite
  <2> QED BY <2>1, <2>2
<1>9. CASE LockHealth
  <2>1. session' = [open |-> FALSE, epoch |-> session.epoch + 1, generation |-> session.generation, health |-> Nothing]
    BY <1>0, <1>9 DEF LockHealth, SessionTyped
  <2>2. SessionTyped' /\ KeptIsTrue'
    BY <1>0, <2>1 DEF SessionTyped, KeptIsTrue
  <2>3. ReportsFit'
    <3> SUFFICES ASSUME NEW c \in Callers, report[c] # Nothing PROVE ReportFits(report[c], session', Snapshot')
      BY <1>9, ReportsFitNext DEF LockHealth
    <3>1. ReportFits(report[c], session, Snapshot)
      BY <1>0, ReportsFitIs
    <3>2. session.epoch \in Nat /\ session'.epoch = session.epoch + 1
      BY <1>0, <2>1 DEF SessionTyped
    <3> QED BY <3>1, <3>2 DEF ReportFits
  <2>4. LoginsTyped'
    BY <1>0, <1>9 DEF LockHealth, LoginsTyped
  <2> QED BY <2>2, <2>3, <2>4 DEF HealthInv
<1>10. CASE UnlockHealth
  <2>1. session' = [open |-> TRUE, epoch |-> session.epoch, generation |-> 0, health |-> Nothing] /\ ~session.open
    BY <1>10 DEF UnlockHealth, Opening
  <2>2. SessionTyped' /\ KeptIsTrue'
    BY <1>0, <2>1 DEF SessionTyped, KeptIsTrue
  <2>3. ReportsFit'
    <3> SUFFICES ASSUME NEW c \in Callers, report[c] # Nothing PROVE ReportFits(report[c], session', Snapshot')
      BY <1>10, ReportsFitNext DEF UnlockHealth
    <3>1. ReportFits(report[c], session, Snapshot)
      BY <1>0, ReportsFitIs
    <3>2. session.epoch \in Nat /\ session'.epoch = session.epoch /\ session'.open
      BY <1>0, <2>1 DEF SessionTyped
    <3> QED BY <2>1, <3>1, <3>2 DEF ReportFits
  <2>4. LoginsTyped'
    BY <1>0, <1>10 DEF UnlockHealth, LoginsTyped
  <2> QED BY <2>2, <2>3, <2>4 DEF HealthInv
<1>11. CASE DropWrite \/ HealthTick \/ UNCHANGED healthVars
  BY <1>0, <1>3, <1>11 DEF DropWrite, HealthTick, healthVars, LoginsTyped
<1>12. \A f \in Contents \cup {Nothing} : f = Nothing \/ ContentShape(f)
  BY HealthAssumption
<1> QED
  BY <1>1, <1>2, <1>4, <1>5, <1>7, <1>8, <1>9, <1>10, <1>11, <1>12 DEF HealthNext

LEMMA HealthHolds == HealthInv => CachedIsTrue
<1> SUFFICES ASSUME HealthInv, session.health # Nothing PROVE CachedIsTrue
  BY DEF CachedIsTrue
<1> DEFINE h == session.health
<1>1. session.open /\ h = Compute(Snapshot, h.at)
  BY DEF HealthInv, KeptIsTrue
<1>2. ASSUME NEW i \in DOMAIN h.issues
      PROVE  h.issues[i].help <=>
               \/ "passkey" \in h.issues[i].checks /\ HelpUrl(i, "passkey")
               \/ "passkey" \notin h.issues[i].checks /\ "twoFactor" \in h.issues[i].checks /\ HelpUrl(i, "twoFactor")
  <2> DEFINE at == h.at
             kept == Kept(Snapshot, i, at)
  <2>1. h.issues = [j \in {j \in DOMAIN Snapshot : Kept(Snapshot, j, at) # {}} |-> Issue(Snapshot, j, at)]
    BY <1>1 DEF Compute
  <2>2. i \in DOMAIN Snapshot /\ h.issues[i] = Issue(Snapshot, i, at)
    BY <2>1
  <2>3. /\ h.issues[i].checks = kept
        /\ h.issues[i].help = (\/ "passkey" \in kept /\ PasskeyHelp(Snapshot[i])
                               \/ "passkey" \notin kept /\ "twoFactor" \in kept /\ TwoFactorHelp(Snapshot[i]))
    BY <2>2 DEF Issue
  <2>4. i \in LoginIds /\ logins[i] # Nothing /\ Snapshot[i] = [logins[i] EXCEPT !.ignored = KnownChecks(@)]
    BY <2>2 DEF Snapshot
  <2>5. ContentShape(logins[i])
    BY <2>4 DEF HealthInv, LoginsTyped
  <2>6. Snapshot[i].urls = logins[i].urls
    BY <2>4, <2>5, SameButIgnored
  <2>7. PasskeyHelp(Snapshot[i]) = PasskeyHelp(logins[i]) /\ TwoFactorHelp(Snapshot[i]) = TwoFactorHelp(logins[i])
    BY <2>6, SameHelp
  <2>8. HelpUrl(i, "passkey") = PasskeyHelp(logins[i]) /\ HelpUrl(i, "twoFactor") = TwoFactorHelp(logins[i])
    BY <2>4 DEF HelpUrl, PasskeyHelp, TwoFactorHelp, HelpFor
  <2> HIDE DEF at, kept, h
  <2> QED BY <2>3, <2>7, <2>8
<1> QED
  BY <1>1, <1>2 DEF CachedIsTrue

\* For any logins, callers and sites: the report handed out from the cache is
\* the one the logins of this moment give, and its links open (client
\* health.rs health_report, core vault.rs store_health).
THEOREM CachedIsTrueHolds == HealthSpec => []CachedIsTrue
BY HealthStart, HealthStep, HealthHolds, PTL DEF HealthSpec

-----------------------------------------------------------------------------
(* Import: where values go                                                  *)

\* The values a computation of L steps goes through.
IsRun(L, a, step, f) == f[0] = a /\ \A k \in 1..L : f[k] = step[k][f[k - 1]]

\* A recursive definition over 0..n with values in a set has a solution.
LEMMA RecursionReaches ==
    ASSUME NEW L \in Nat, NEW S, NEW a \in S, NEW step \in [1..L -> [S -> S]]
    PROVE  \E f \in [0..L -> S] : IsRun(L, a, step, f)
<1> DEFINE Reaches(n) == \E f \in [0..n -> S] : f[0] = a /\ \A k \in 1..n : f[k] = step[k][f[k - 1]]
           Bad == {n \in 0..L : ~Reaches(n)}
<1>1. Reaches(0)
  <2> WITNESS [k \in 0..0 |-> a] \in [0..0 -> S]
  <2> QED OBVIOUS
<1>2. ASSUME NEW n \in 1..L, Reaches(n - 1) PROVE Reaches(n)
  <2>1. PICK f \in [0..(n - 1) -> S] : f[0] = a /\ \A k \in 1..(n - 1) : f[k] = step[k][f[k - 1]]
    BY <1>2
  <2> DEFINE g == [k \in 0..n |-> IF k = n THEN step[n][f[n - 1]] ELSE f[k]]
  <2>2. f[n - 1] \in S /\ step[n][f[n - 1]] \in S
    BY <2>1
  <2>3. g \in [0..n -> S]
    BY <2>1, <2>2
  <2>4. g[0] = a /\ \A k \in 1..n : g[k] = step[k][g[k - 1]]
    BY <2>1
  <2> HIDE DEF g
  <2> QED BY <2>3, <2>4
<1> HIDE DEF Reaches
<1>3. ASSUME Bad # {} PROVE FALSE
  <2>1. Min(Bad) \in Bad /\ \A y \in Bad : Min(Bad) <= y
    <3>1. Bad \subseteq Nat
      OBVIOUS
    <3> HIDE DEF Bad
    <3> QED BY <1>3, <3>1, LeastOf
  <2> DEFINE m == Min(Bad)
  <2>2. m \in 0..L /\ ~Reaches(m)
    BY <2>1
  <2>3. m # 0
    BY <1>1, <2>2
  <2>4. m - 1 \in 0..L /\ ~(m <= m - 1)
    BY <2>2, <2>3
  <2>5. Reaches(m - 1)
    BY <2>1, <2>4
  <2>6. m \in 1..L
    BY <2>2, <2>3
  <2> QED BY <1>2, <2>2, <2>5, <2>6
<1>4. Reaches(L)
  BY <1>3
<1> QED
  BY <1>4 DEF Reaches, IsRun

\* What holds at first and is kept by every step holds at the end: of the
\* numbers up to L, those at which it holds.
LEMMA RecursionKeeps ==
    ASSUME NEW L \in Nat, NEW G, G \subseteq 0..L, 0 \in G,
           \A n \in 1..L : n - 1 \in G => n \in G
    PROVE  G = 0..L
<1> DEFINE Bad == (0..L) \ G
<1>1. ASSUME Bad # {} PROVE FALSE
  <2>1. Min(Bad) \in Bad /\ \A y \in Bad : Min(Bad) <= y
    <3>1. Bad \subseteq Nat
      OBVIOUS
    <3> HIDE DEF Bad
    <3> QED BY <1>1, <3>1, LeastOf
  <2> DEFINE m == Min(Bad)
  <2>2. m \in 1..L /\ m \notin G
    BY <2>1
  <2>3. m - 1 \in 0..L /\ ~(m <= m - 1)
    BY <2>2
  <2>4. m - 1 \in G
    BY <2>1, <2>3
  <2> QED BY <2>2, <2>4
<1> QED
  BY <1>1

Places == {"own", "notes", "field", "counted", "not a value", "past the limit", "second designated", "changed", "not read"}
AllSlots == LoginSlots \cup CardSlots \cup BankSlots

\* The places found so far, with what has been used up.
Tallies == [slots : SUBSET AllSlots, urls : Nat, fields : Nat, places : Seq(Places)]

LEMMA TallyIs ==
    ASSUME NEW acc \in Tallies
    PROVE  /\ acc.slots \in SUBSET AllSlots /\ acc.urls \in Nat /\ acc.fields \in Nat
           /\ acc.places \in Seq(Places)
BY DEF Tallies

LEMMA PutIs ==
    ASSUME NEW acc \in Tallies, NEW place \in Places
    PROVE  Put(acc, place) \in Tallies /\ Put(acc, place).places = Append(acc.places, place)
<1>1. Append(acc.places, place) \in Seq(Places)
  BY TallyIs
<1> QED
  BY <1>1 DEF Tallies, Put

\* A value that is not read is part of a login, in an entry that is none.
LEMMA NotReadIs ==
    ASSUME NEW e, NEW v, NotRead(e, v)
    PROVE  Accounted(e, v, "not read")
<1>1. KindOf(e) # "login" /\ v.as \in {"username", "password", "form-text", "form-secret", "totp", "url", "passkey"}
  BY DEF NotRead, LoginParts
<1> QED
  BY <1>1 DEF Accounted

\* A value that is changed is not of its format, and in one of the slots that
\* change values.
LEMMA WholeOrCutIs ==
    ASSUME NEW e, NEW v, ~NotRead(e, v),
           FormSlot(e, v) = "title" \/ v.good \/ FormSlot(e, v) \in ChangedSlots(KindOf(e))
    PROVE  WholeOrCut(v) \in Places /\ Accounted(e, v, WholeOrCut(v))
<1>1. CASE v.good
  BY <1>1 DEF WholeOrCut, Accounted, Places
<1>2. CASE ~v.good
  <2>1. FormSlot(e, v) \in {"title", "username", "holder", "accountType"}
    BY <1>2 DEF ChangedSlots
  <2>2. v.as \in {"title", "username", "form-text", "holder", "accountType"}
    BY <2>1 DEF FormSlot
  <2> QED BY <1>2, <2>2 DEF WholeOrCut, Accounted, Places
<1> QED
  BY <1>1, <1>2

\* Each value goes to one place more, and is accounted for there.
LEMMA PutValueKeeps ==
    ASSUME NEW e, NEW acc \in Tallies, NEW v
    PROVE  /\ PutValue(e, acc, v) \in Tallies
           /\ \E p \in Places : Accounted(e, v, p) /\ PutValue(e, acc, v).places = Append(acc.places, p)
<1> DEFINE Good(a) == a \in Tallies /\ \E p \in Places : Accounted(e, v, p) /\ a.places = Append(acc.places, p)
<1>1. \A a \in Tallies, p \in Places : Accounted(e, v, p) /\ a.places = acc.places => Good(Put(a, p))
  BY PutIs
<1>2. \A x \in SUBSET AllSlots : [acc EXCEPT !.slots = x] \in Tallies /\ [acc EXCEPT !.slots = x].places = acc.places
  BY DEF Tallies
<1>3. [acc EXCEPT !.urls = @ + 1] \in Tallies /\ [acc EXCEPT !.urls = @ + 1].places = acc.places
  <2>1. \A x \in Nat : [acc EXCEPT !.urls = x] \in Tallies /\ [acc EXCEPT !.urls = x].places = acc.places
    BY DEF Tallies
  <2>2. acc.urls + 1 \in Nat
    BY TallyIs
  <2> QED BY <2>1, <2>2
<1>4. \A a \in Tallies : [a EXCEPT !.fields = @ + 1] \in Tallies /\ [a EXCEPT !.fields = @ + 1].places = a.places
  <2>1. \A a \in Tallies, x \in Nat : [a EXCEPT !.fields = x] \in Tallies /\ [a EXCEPT !.fields = x].places = a.places
    BY DEF Tallies
  <2>2. \A a \in Tallies : a.fields + 1 \in Nat
    BY TallyIs
  <2> QED BY <2>1, <2>2
<1>5. \A p \in {"own", "notes", "field", "counted", "not a value", "past the limit", "second designated"} :
          p \in Places /\ Accounted(e, v, p)
  BY DEF Places, Accounted
<1> HIDE DEF Good
<1>6. \A a \in Tallies : a.places = acc.places => Good(CustomField(e, a))
  BY <1>1, <1>4, <1>5 DEF CustomField
<1>7. Good(Rest(e, acc, v))
  BY <1>1, <1>5, <1>6 DEF Rest, OnePasswordRest, BitwardenRest
<1>8. Good(PutUrl(e, acc, v))
  BY <1>1, <1>3, <1>5, <1>6 DEF PutUrl
<1>9. acc.slots \cup {FormSlot(e, v)} \in SUBSET AllSlots \/ FormSlot(e, v) \notin Slots(KindOf(e))
  <2>1. Slots(KindOf(e)) \subseteq AllSlots
    BY DEF Slots, AllSlots
  <2> QED BY <2>1, TallyIs
<1>10. CASE NotRead(e, v)
  <2>1. "not read" \in Places /\ Accounted(e, v, "not read")
    BY <1>10, NotReadIs DEF Places
  <2>2. PutValue(e, acc, v) = Put(acc, "not read")
    BY <1>10 DEF PutValue
  <2>3. Good(PutValue(e, acc, v))
    BY <1>1, <2>1, <2>2
  <2> QED BY <2>3 DEF Good
<1>11. CASE ~NotRead(e, v)
  <2>1. FormSlot(e, v) = "title" \/ v.good \/ FormSlot(e, v) \in ChangedSlots(KindOf(e)) =>
          WholeOrCut(v) \in Places /\ Accounted(e, v, WholeOrCut(v))
    BY <1>11, WholeOrCutIs
  <2>2. Good(PutValue(e, acc, v))
    BY <1>1, <1>2, <1>5, <1>7, <1>8, <1>9, <1>11, <2>1 DEF PutValue
  <2> QED BY <2>2 DEF Good
<1> QED
  BY <1>10, <1>11

\* The places of an entry are as many as its values, and each is accounted for.
LEMMA PlacedKeeps ==
    ASSUME NEW e, e.vals \in Seq(Range(e.vals))
    PROVE  \A k \in 1..Len(e.vals) : Accounted(e, e.vals[k], Placed(e)[k])
<1> DEFINE L == Len(e.vals)
           Def(u) == [n \in 0..Len(e.vals) |-> IF n = 0 THEN Empty ELSE PutValue(e, u[n - 1], e.vals[n])]
           U == CHOOSE u : u = Def(u)
<1>0. L \in Nat
  OBVIOUS
<1>1. Empty \in Tallies /\ Empty.places = <<>>
  <2>1. <<>> \in Seq(Places) /\ {} \in SUBSET AllSlots /\ 0 \in Nat
    OBVIOUS
  <2> QED BY <2>1 DEF Empty, Tallies
<1> DEFINE step == [n \in 1..L |-> [acc \in Tallies |-> PutValue(e, acc, e.vals[n])]]
<1>2. step \in [1..L -> [Tallies -> Tallies]]
  <2>1. \A n \in 1..L, acc \in Tallies : PutValue(e, acc, e.vals[n]) \in Tallies
    BY PutValueKeeps
  <2> QED BY <2>1
<1>3. \E f \in [0..L -> Tallies] : IsRun(L, Empty, step, f)
  <2>1. Empty \in Tallies
    BY <1>1
  <2> HIDE DEF step, L
  <2> QED BY <1>0, <2>1, <1>2, RecursionReaches
<1>4. PICK f \in [0..L -> Tallies] : f[0] = Empty /\ \A k \in 1..L : f[k] = step[k][f[k - 1]]
  BY <1>3 DEF IsRun
<1>5. \A k \in 1..L : f[k - 1] \in Tallies /\ f[k] = PutValue(e, f[k - 1], e.vals[k])
  <2>1. \A k \in 1..L, acc \in Tallies : step[k][acc] = PutValue(e, acc, e.vals[k])
    OBVIOUS
  <2> HIDE DEF step, L
  <2>2. \A k \in 1..L : k - 1 \in 0..L
    BY <1>0
  <2> QED BY <2>1, <2>2, <1>4
<1>6. f = Def(f)
  <2> HIDE DEF step
  <2>1. \A k \in 0..L : f[k] = IF k = 0 THEN Empty ELSE PutValue(e, f[k - 1], e.vals[k])
    BY <1>0, <1>4, <1>5
  <2>2. f = [k \in 0..L |-> f[k]]
    BY <1>4
  <2> QED BY <2>1, <2>2
<1>7. U = Def(U)
  <2> HIDE DEF Def
  <2> QED BY <1>6
<1>8. Placed(e) = U[L].places
  BY DEF Placed
<1> HIDE DEF U
<1>9. U[0] = Empty /\ \A n \in 1..L : U[n] = PutValue(e, U[n - 1], e.vals[n])
  <2>1. \A n \in 0..L : U[n] = IF n = 0 THEN Empty ELSE PutValue(e, U[n - 1], e.vals[n])
    BY <1>7
  <2> HIDE DEF L
  <2> QED BY <1>0, <2>1
<1> HIDE DEF L, step
<1> DEFINE TallyFits(n) ==
               /\ U[n] \in Tallies /\ Len(U[n].places) = n
               /\ \A k \in 1..n : Accounted(e, e.vals[k], U[n].places[k])
           G == {n \in 0..L : TallyFits(n)}
<1>10. TallyFits(0)
  BY <1>1, <1>9
<1>11. ASSUME NEW n \in 1..L, TallyFits(n - 1) PROVE TallyFits(n)
  <2> DEFINE acc == U[n - 1]
             v == e.vals[n]
  <2>1. acc \in Tallies /\ Len(acc.places) = n - 1 /\ \A k \in 1..(n - 1) : Accounted(e, e.vals[k], acc.places[k])
    BY <1>11
  <2>2. U[n] = PutValue(e, acc, v)
    BY <1>9
  <2> HIDE DEF acc, v, TallyFits
  <2>3. PutValue(e, acc, v) \in Tallies /\ \E p \in Places : Accounted(e, v, p) /\ PutValue(e, acc, v).places = Append(acc.places, p)
    BY <2>1, PutValueKeeps
  <2>4. PICK p \in Places : Accounted(e, v, p) /\ U[n].places = Append(acc.places, p)
    BY <2>2, <2>3
  <2>5. acc.places \in Seq(Places) /\ n \in Nat /\ n > 0
    BY <1>0, <2>1, TallyIs
  <2>6. Len(U[n].places) = n /\ U[n].places[n] = p /\ \A k \in 1..(n - 1) : U[n].places[k] = acc.places[k]
    BY <2>1, <2>4, <2>5
  <2>7. \A k \in 1..n : k = n \/ k \in 1..(n - 1)
    BY <2>5
  <2>8. \A k \in 1..n : Accounted(e, e.vals[k], U[n].places[k])
    BY <2>1, <2>4, <2>6, <2>7 DEF v
  <2> QED BY <2>2, <2>3, <2>6, <2>8 DEF TallyFits
<1> HIDE DEF TallyFits
<1>12. G = 0..L
  <2>1. G \subseteq 0..L /\ 0 \in G /\ \A n \in 1..L : n - 1 \in G => n \in G
    BY <1>0, <1>10, <1>11
  <2> HIDE DEF G
  <2> QED BY <1>0, <2>1, RecursionKeeps
<1>13. \A k \in 1..L : Accounted(e, e.vals[k], U[L].places[k])
  <2>1. L \in G
    BY <1>0, <1>12
  <2> QED BY <2>1 DEF TallyFits
<1> QED
  BY <1>8, <1>13 DEF L

\* Every value of every entry of a file is accounted for.
LEMMA FileValuesKept ==
    ASSUME file \in Files
    PROVE  EveryValueIsKept
<1> SUFFICES ASSUME NEW i \in DOMAIN file, NEW j \in DOMAIN file[i].vals
             PROVE  Accounted(file[i], file[i].vals[j], Placed(file[i])[j])
  BY DEF EveryValueIsKept
<1>1. file[i] \in Range(file)
  BY DEF Range
<1>2. file[i].vals \in Seq(Range(file[i].vals))
  BY <1>1, ImportAssumption
<1>3. j \in 1..Len(file[i].vals)
  BY <1>2
<1> QED
  BY <1>2, <1>3, PlacedKeeps

-----------------------------------------------------------------------------
(* Import: what is staged                                                   *)

HasKey(items, key) == \E i \in DOMAIN items : items[i].key = key
Queued(q, key) == \E i \in DOMAIN q : q[i].op = "add" /\ q[i].item.key = key

NewWrite(wr, at, it) == [op |-> wr, at |-> at, item |-> it]

\* The writes an import of f may stage.
WritesOf(f) == [op : {"add", "upgrade"}, at : Nat, item : {ItemOf(e) : e \in Range(f)}]

LEMMA NewWriteIs ==
    ASSUME NEW wr, NEW at, NEW it
    PROVE  NewWrite(wr, at, it).op = wr /\ NewWrite(wr, at, it).at = at /\ NewWrite(wr, at, it).item = it
BY DEF NewWrite

LEMMA NewWriteFits ==
    ASSUME NEW f, NEW e \in Range(f), NEW wr \in {"add", "upgrade"}, NEW at \in Nat
    PROVE  NewWrite(wr, at, ItemOf(e)) \in WritesOf(f)
BY DEF NewWrite, WritesOf

LEMMA StageOneIs ==
    ASSUME NEW I, NEW items \in Seq(I), NEW acc, NEW e
    PROVE  \/ HasKey(items, ItemOf(e).key) /\ StageOne(items, acc, e) = acc
           \/ /\ HasKey(items, ItemOf(e).key)
              /\ \E i \in DOMAIN items : StageOne(items, acc, e) = Append(acc, NewWrite("upgrade", i, ItemOf(e)))
           \/ ~HasKey(items, ItemOf(e).key) /\ StageOne(items, acc, e) = Append(acc, NewWrite("add", 0, ItemOf(e)))
<1> DEFINE it == ItemOf(e)
           target == {i \in Upgradable(items, it.key) : \A w \in Range(acc) : w.op = "upgrade" => w.at # i}
<1>1. Upgradable(items, it.key) \subseteq PlainLogins(items, it.key)
  BY DEF Upgradable
<1>2. \A i \in PlainLogins(items, it.key) : i \in DOMAIN items /\ items[i].key = it.key
  BY DEF PlainLogins
<1>3. target \subseteq Upgradable(items, it.key)
  OBVIOUS
<1>4. StageOne(items, acc, e) =
        IF it.sso /\ target # {} THEN Append(acc, NewWrite("upgrade", CHOOSE i \in target : TRUE, it))
        ELSE IF HasKey(items, it.key) THEN acc
        ELSE Append(acc, NewWrite("add", 0, it))
  BY DEF StageOne, StageItem, NewWrite, HasKey
<1> HIDE DEF it, target
<1>5. CASE it.sso /\ target # {}
  <2> DEFINE i == CHOOSE x \in target : TRUE
  <2>1. i \in target
    BY <1>5
  <2>2. i \in DOMAIN items /\ HasKey(items, it.key)
    BY <2>1, <1>1, <1>2, <1>3 DEF HasKey
  <2>3. StageOne(items, acc, e) = Append(acc, NewWrite("upgrade", i, it))
    BY <1>4, <1>5
  <2> HIDE DEF i
  <2> QED BY <2>2, <2>3 DEF it
<1>6. CASE ~(it.sso /\ target # {})
  BY <1>4, <1>6 DEF it
<1> QED
  BY <1>5, <1>6

\* What is staged of the first n entries: every one the vault does not have.
StageFits(items, f, n, q) ==
    /\ q \in Seq(WritesOf(f))
    /\ \A k \in 1..n : Parsed(f[k]) => HasKey(items, ItemOf(f[k]).key) \/ Queued(q, ItemOf(f[k]).key)
    /\ \A i \in DOMAIN q : q[i].op = "add" =>
         /\ ~HasKey(items, q[i].item.key)
         /\ \E k \in DOMAIN f : Parsed(f[k]) /\ q[i].item = ItemOf(f[k])

LEMMA StageOneFits ==
    ASSUME NEW I, NEW items \in Seq(I), NEW f, f \in Seq(Range(f)), NEW n \in 1..Len(f), NEW q,
           StageFits(items, f, n - 1, q), Parsed(f[n])
    PROVE  StageFits(items, f, n, StageOne(items, q, f[n]))
<1> DEFINE W == WritesOf(f)
           it == ItemOf(f[n])
           r == StageOne(items, q, f[n])
<1>1. q \in Seq(W) /\ f[n] \in Range(f) /\ n \in DOMAIN f
  BY DEF StageFits, Range
<1>2. \A k \in 1..(n - 1) : Parsed(f[k]) => HasKey(items, ItemOf(f[k]).key) \/ Queued(q, ItemOf(f[k]).key)
  BY DEF StageFits
<1>3. \A i \in DOMAIN q : q[i].op = "add" =>
         /\ ~HasKey(items, q[i].item.key)
         /\ \E k \in DOMAIN f : Parsed(f[k]) /\ q[i].item = ItemOf(f[k])
  BY DEF StageFits
<1>4. ASSUME NEW x, x \in W, r = Append(q, x),
             x.op = "add" => ~HasKey(items, x.item.key) /\ x.item = it,
             HasKey(items, it.key) \/ (x.op = "add" /\ x.item = it)
      PROVE  StageFits(items, f, n, r)
  <2> HIDE DEF W, it, r
  <2>1. /\ r \in Seq(W) /\ Len(q) \in Nat /\ Len(r) = Len(q) + 1
        /\ r[Len(q) + 1] = x /\ \A i \in 1..Len(q) : r[i] = q[i]
    BY <1>1, <1>4
  <2>2. DOMAIN r = 1..(Len(q) + 1) /\ DOMAIN q = 1..Len(q)
    BY <2>1, <1>1
  <2>3. \A key : Queued(q, key) => Queued(r, key)
    BY <2>1, <2>2 DEF Queued
  <2>4. HasKey(items, it.key) \/ Queued(r, it.key)
    <3>1. Len(q) + 1 \in DOMAIN r
      BY <2>1, <2>2
    <3> DEFINE z == Len(q) + 1
    <3>2. z \in DOMAIN r /\ r[z] = x
      BY <3>1, <2>1
    <3> HIDE DEF z
    <3>3. x.op = "add" /\ x.item = it => Queued(r, it.key)
      BY <3>2 DEF Queued
    <3> QED BY <3>3, <1>4
  <2>5. \A k \in 1..n : Parsed(f[k]) => HasKey(items, ItemOf(f[k]).key) \/ Queued(r, ItemOf(f[k]).key)
    <3> TAKE k \in 1..n
    <3>1. k = n \/ k \in 1..(n - 1)
      OBVIOUS
    <3>2. CASE k = n
      BY <3>2, <2>4 DEF it
    <3>3. CASE k \in 1..(n - 1)
      BY <3>3, <1>2, <2>3
    <3> QED BY <3>1, <3>2, <3>3
  <2>6. ASSUME NEW i \in DOMAIN r, r[i].op = "add"
        PROVE  ~HasKey(items, r[i].item.key) /\ \E k \in DOMAIN f : Parsed(f[k]) /\ r[i].item = ItemOf(f[k])
    <3>1. i \in DOMAIN q \/ i = Len(q) + 1
      BY <2>1, <2>2
    <3>2. CASE i \in DOMAIN q
      <4>1. r[i] = q[i]
        BY <3>2, <2>1, <2>2
      <4> QED BY <4>1, <3>2, <2>6, <1>3
    <3>3. CASE i = Len(q) + 1
      <4>1. r[i] = x
        BY <3>3, <2>1
      <4>2. x.op = "add"
        BY <4>1, <2>6
      <4>3. ~HasKey(items, x.item.key) /\ x.item = ItemOf(f[n]) /\ n \in DOMAIN f
        BY <4>2, <1>4, <1>1 DEF it
      <4> QED BY <4>1, <4>3
    <3> QED BY <3>1, <3>2, <3>3
  <2>7. r \in Seq(WritesOf(f))
    BY <2>1 DEF W
  <2> QED BY <2>5, <2>6, <2>7 DEF StageFits
<1>5. ASSUME HasKey(items, it.key), r = q PROVE StageFits(items, f, n, r)
  <2>1. \A k \in 1..n : Parsed(f[k]) => HasKey(items, ItemOf(f[k]).key) \/ Queued(q, ItemOf(f[k]).key)
    <3> TAKE k \in 1..n
    <3>1. k = n \/ k \in 1..(n - 1)
      OBVIOUS
    <3> QED BY <3>1, <1>2, <1>5
  <2> HIDE DEF it, r
  <2>2. StageFits(items, f, n, q)
    BY <2>1, <1>1, <1>3 DEF StageFits
  <2> QED BY <2>2, <1>5
<1>6. ASSUME NEW i \in DOMAIN items, HasKey(items, it.key), r = Append(q, NewWrite("upgrade", i, it))
      PROVE  StageFits(items, f, n, r)
  <2> DEFINE x == NewWrite("upgrade", i, it)
  <2>1. i \in Nat
    OBVIOUS
  <2>2. x \in W /\ x.op # "add"
    BY <2>1, <1>1, NewWriteIs, NewWriteFits
  <2>3. r = Append(q, x)
    BY <1>6
  <2> HIDE DEF x, it, r, W
  <2> QED BY <2>2, <2>3, <1>4, <1>6
<1>7. ASSUME ~HasKey(items, it.key), r = Append(q, NewWrite("add", 0, it))
      PROVE  StageFits(items, f, n, r)
  <2> DEFINE x == NewWrite("add", 0, it)
  <2>2. x \in W /\ x.op = "add" /\ x.item = it
    BY <1>1, NewWriteIs, NewWriteFits
  <2>3. r = Append(q, x)
    BY <1>7
  <2> HIDE DEF x, it, r, W
  <2> QED BY <2>2, <2>3, <1>4, <1>7
<1> QED
  BY StageOneIs, <1>5, <1>6, <1>7

\* The whole file.
LEMMA StageImportFits ==
    ASSUME NEW I, NEW items \in Seq(I), NEW f, f \in Seq(Range(f))
    PROVE  StageFits(items, f, Len(f), StageImport(items, f))
<1> DEFINE L == Len(f)
           S == Seq(WritesOf(f))
           Step(acc, n) == IF Parsed(f[n]) THEN StageOne(items, acc, f[n]) ELSE acc
           Def(u) == [n \in 0..Len(f) |-> IF n = 0 THEN <<>> ELSE IF Parsed(f[n]) THEN StageOne(items, u[n - 1], f[n]) ELSE u[n - 1]]
           U == CHOOSE u : u = Def(u)
           step == [n \in 1..L |-> [acc \in S |-> Step(acc, n)]]
<1>0. L \in Nat
  OBVIOUS
<1>1. \A n \in 1..L, acc \in S : Step(acc, n) \in S
  <2> TAKE n \in 1..L, acc \in S
  <2> DEFINE it == ItemOf(f[n])
  <2>1. f[n] \in Range(f)
    BY DEF Range
  <2>2. \A i \in DOMAIN items : NewWrite("upgrade", i, it) \in WritesOf(f)
    <3>1. \A i \in DOMAIN items : i \in Nat
      OBVIOUS
    <3> QED BY <2>1, <3>1, NewWriteFits
  <2>3. NewWrite("add", 0, it) \in WritesOf(f)
    BY <2>1, NewWriteFits
  <2>4. \A x \in WritesOf(f) : Append(acc, x) \in S
    OBVIOUS
  <2>5. StageOne(items, acc, f[n]) \in S
    <3>1. \/ StageOne(items, acc, f[n]) = acc
          \/ \E i \in DOMAIN items : StageOne(items, acc, f[n]) = Append(acc, NewWrite("upgrade", i, it))
          \/ StageOne(items, acc, f[n]) = Append(acc, NewWrite("add", 0, it))
      BY StageOneIs
    <3> HIDE DEF S, it
    <3> QED BY <3>1, <2>2, <2>3, <2>4
  <2> QED BY <2>5
<1>2. step \in [1..L -> [S -> S]]
  <2> HIDE DEF Step, S, L
  <2> QED BY <1>1
<1>3. \E g \in [0..L -> S] : IsRun(L, <<>>, step, g)
  <2>1. <<>> \in S
    OBVIOUS
  <2> HIDE DEF step, L, S
  <2> QED BY <1>0, <2>1, <1>2, RecursionReaches
<1>4. PICK g \in [0..L -> S] : g[0] = <<>> /\ \A k \in 1..L : g[k] = step[k][g[k - 1]]
  BY <1>3 DEF IsRun
<1>5. \A k \in 1..L : g[k] = Step(g[k - 1], k)
  <2>1. \A k \in 1..L, acc \in S : step[k][acc] = Step(acc, k)
    OBVIOUS
  <2> HIDE DEF step, L, S, Step
  <2>2. \A k \in 1..L : k - 1 \in 0..L
    BY <1>0
  <2> QED BY <2>1, <2>2, <1>4
<1>6. g = Def(g)
  <2> HIDE DEF step, S
  <2>1. \A k \in 0..L : g[k] = IF k = 0 THEN <<>> ELSE IF Parsed(f[k]) THEN StageOne(items, g[k - 1], f[k]) ELSE g[k - 1]
    BY <1>0, <1>4, <1>5
  <2>2. g = [k \in 0..L |-> g[k]]
    BY <1>4
  <2> QED BY <2>1, <2>2
<1>7. U = Def(U)
  <2> HIDE DEF Def
  <2> QED BY <1>6
<1>8. StageImport(items, f) = U[L]
  BY DEF StageImport
<1> HIDE DEF U
<1>9. U[0] = <<>> /\ \A n \in 1..L : U[n] = IF Parsed(f[n]) THEN StageOne(items, U[n - 1], f[n]) ELSE U[n - 1]
  <2>1. \A n \in 0..L : U[n] = IF n = 0 THEN <<>> ELSE IF Parsed(f[n]) THEN StageOne(items, U[n - 1], f[n]) ELSE U[n - 1]
    BY <1>7
  <2> HIDE DEF L
  <2> QED BY <1>0, <2>1
<1> DEFINE G == {n \in 0..L : StageFits(items, f, n, U[n])}
<1>10. StageFits(items, f, 0, U[0])
  BY <1>9 DEF StageFits
<1>11. ASSUME NEW n \in 1..L, StageFits(items, f, n - 1, U[n - 1]) PROVE StageFits(items, f, n, U[n])
  <2>1. CASE Parsed(f[n])
    <3>1. StageFits(items, f, n, StageOne(items, U[n - 1], f[n]))
      BY <1>11, <2>1, StageOneFits
    <3> QED BY <3>1, <2>1, <1>9
  <2>2. CASE ~Parsed(f[n])
    <3> DEFINE q == U[n - 1]
    <3>1. U[n] = q /\ StageFits(items, f, n - 1, q)
      BY <2>2, <1>9, <1>11
    <3> HIDE DEF q
    <3>2. \A k \in 1..n : Parsed(f[k]) => k \in 1..(n - 1)
      BY <2>2
    <3>3. StageFits(items, f, n, q)
      BY <3>1, <3>2 DEF StageFits
    <3> QED BY <3>1, <3>3
  <2> QED BY <2>1, <2>2
<1>12. G = 0..L
  <2> HIDE DEF L
  <2>1. G \subseteq 0..L /\ 0 \in G /\ \A n \in 1..L : n - 1 \in G => n \in G
    BY <1>0, <1>10, <1>11
  <2> HIDE DEF G
  <2> QED BY <1>0, <2>1, RecursionKeeps
<1> QED
  BY <1>0, <1>8, <1>12

-----------------------------------------------------------------------------
(* Import: what is written                                                  *)

\* The items a vault that held those of b may hold after an import of f.
HeldItems(f, b) ==
    [key : {ItemOf(e).key : e \in Range(f)} \cup {x.key : x \in Range(b)},
     sso : BOOLEAN \cup {x.sso : x \in Range(b)},
     secret : {ItemOf(e).secret : e \in Range(f)} \cup {x.secret : x \in Range(b)}]

LEMMA ItemIsHeld ==
    ASSUME NEW f, NEW b, NEW e \in Range(f)
    PROVE  ItemOf(e) \in HeldItems(f, b)
<1>1. ItemOf(e) = [key |-> ItemOf(e).key, sso |-> ItemOf(e).sso, secret |-> ItemOf(e).secret] /\ ItemOf(e).sso \in BOOLEAN
  BY DEF ItemOf
<1> QED
  BY <1>1 DEF HeldItems

LEMMA VaultIsHeld ==
    ASSUME NEW f, NEW b \in Vaults
    PROVE  b \in Seq(HeldItems(f, b))
<1>1. b \in Seq(Range(b)) /\ \A x \in Range(b) : IsVaultItem(x)
  BY ImportAssumption
<1>2. \A x \in Range(b) : x \in HeldItems(f, b)
  BY <1>1 DEF IsVaultItem, HeldItems
<1> HIDE DEF HeldItems
<1> QED
  BY <1>1, <1>2

\* One write: the vault keeps its keys and has the one that was added.
LEMMA WrittenIs ==
    ASSUME NEW f, NEW b, NEW items \in Seq(HeldItems(f, b)), NEW w \in WritesOf(f)
    PROVE  /\ Written(items, w) \in Seq(HeldItems(f, b))
           /\ \A key : HasKey(items, key) => HasKey(Written(items, w), key)
           /\ w.op = "add" => HasKey(Written(items, w), w.item.key)
<1> DEFINE I == HeldItems(f, b)
<1>0. w.item \in I
  BY ItemIsHeld DEF WritesOf
<1>1. CASE w.op = "add"
  <2> HIDE DEF I
  <2> DEFINE r == Append(items, w.item)
             z == Len(items) + 1
  <2>0. items \in Seq(I)
    BY DEF I
  <2>1. r \in Seq(I) /\ z \in DOMAIN r /\ r[z] = w.item
    BY <1>0, <2>0
  <2>2. \A i \in DOMAIN items : i \in DOMAIN r /\ r[i] = items[i]
    BY <1>0, <2>0
  <2>3. Written(items, w) = r
    BY <1>1 DEF Written
  <2> HIDE DEF r, z
  <2>4. (\A key : HasKey(items, key) => HasKey(r, key)) /\ HasKey(r, w.item.key)
    BY <2>1, <2>2 DEF HasKey
  <2> QED BY <2>1, <2>3, <2>4 DEF I
<1>2. CASE w.op # "add"
  <2> DEFINE r == [items EXCEPT ![w.at].sso = TRUE]
  <2>1. \A x \in I : [x EXCEPT !.sso = TRUE] \in I /\ [x EXCEPT !.sso = TRUE].key = x.key
    BY DEF HeldItems
  <2> HIDE DEF I
  <2>0. items \in Seq(I)
    BY DEF I
  <2>2. \A i \in DOMAIN items : items[i] \in I
    BY <2>0
  <2>3. DOMAIN r = DOMAIN items /\ \A i \in DOMAIN items : r[i] \in I /\ r[i].key = items[i].key
    BY <2>1, <2>2
  <2>4. r \in Seq(I)
    <3>1. r = [i \in DOMAIN items |-> r[i]]
      OBVIOUS
    <3>2. DOMAIN items = 1..Len(items) /\ Len(items) \in Nat
      BY <2>0
    <3> HIDE DEF r
    <3> QED BY <3>1, <3>2, <2>3
  <2>5. Written(items, w) = r
    BY <1>2 DEF Written
  <2> HIDE DEF r
  <2>6. \A key : HasKey(items, key) => HasKey(r, key)
    BY <2>3 DEF HasKey
  <2> QED BY <1>2, <2>4, <2>5, <2>6 DEF I
<1> QED
  BY <1>1, <1>2

\* What the first n writes leave.
WrittenFits(f, b, items, n, r) ==
    /\ r \in Seq(HeldItems(f, b))
    /\ \A key : HasKey(items, key) => HasKey(r, key)
    /\ \A i \in 1..n : queue[i].op = "add" => HasKey(r, queue[i].item.key)

LEMMA AllWrittenFits ==
    ASSUME NEW f, NEW b, NEW items \in Seq(HeldItems(f, b)), queue \in Seq(WritesOf(f)), NEW L \in 0..Len(queue)
    PROVE  WrittenFits(f, b, items, L, AllWritten(items, L))
<1> DEFINE S == Seq(HeldItems(f, b))
           Def(u) == [k \in 0..L |-> IF k = 0 THEN items ELSE Written(u[k - 1], queue[k])]
           U == CHOOSE u : u = Def(u)
           step == [n \in 1..L |-> [acc \in S |-> Written(acc, queue[n])]]
<1>0. L \in Nat /\ \A n \in 1..L : queue[n] \in WritesOf(f)
  OBVIOUS
<1>1. \A n \in 1..L, acc \in S : Written(acc, queue[n]) \in S
  BY <1>0, WrittenIs
<1>2. step \in [1..L -> [S -> S]]
  <2> HIDE DEF S
  <2> QED BY <1>1
<1>3. \E g \in [0..L -> S] : IsRun(L, items, step, g)
  <2>1. items \in S /\ L \in Nat
    BY <1>0
  <2> HIDE DEF step, S
  <2> QED BY <2>1, <1>2, RecursionReaches
<1>4. PICK g \in [0..L -> S] : g[0] = items /\ \A k \in 1..L : g[k] = step[k][g[k - 1]]
  BY <1>3 DEF IsRun
<1>5. \A k \in 1..L : g[k] = Written(g[k - 1], queue[k])
  <2>1. \A k \in 1..L, acc \in S : step[k][acc] = Written(acc, queue[k])
    OBVIOUS
  <2> HIDE DEF step, S
  <2>2. \A k \in 1..L : k - 1 \in 0..L
    BY <1>0
  <2> QED BY <2>1, <2>2, <1>4
<1>6. g = Def(g)
  <2> HIDE DEF step, S
  <2>3. \A k \in 0..L : k = 0 \/ (k # 0 /\ k \in 1..L)
    BY <1>0
  <2>1. \A k \in 0..L : g[k] = IF k = 0 THEN items ELSE Written(g[k - 1], queue[k])
    BY <2>3, <1>4, <1>5
  <2>2. g = [k \in 0..L |-> g[k]]
    BY <1>4
  <2> QED BY <2>1, <2>2
<1>7. U = Def(U)
  <2> HIDE DEF Def
  <2> QED BY <1>6
<1>8. AllWritten(items, L) = U[L]
  BY DEF AllWritten
<1> HIDE DEF U
<1>9. U[0] = items /\ \A n \in 1..L : U[n] = Written(U[n - 1], queue[n])
  <2>1. \A n \in 0..L : U[n] = IF n = 0 THEN items ELSE Written(U[n - 1], queue[n])
    BY <1>7
  <2> QED BY <1>0, <2>1
<1> DEFINE G == {n \in 0..L : WrittenFits(f, b, items, n, U[n])}
<1>10. WrittenFits(f, b, items, 0, U[0])
  BY <1>9 DEF WrittenFits
<1>11. ASSUME NEW n \in 1..L, WrittenFits(f, b, items, n - 1, U[n - 1]) PROVE WrittenFits(f, b, items, n, U[n])
  <2> DEFINE r == U[n - 1]
             w == queue[n]
             t == U[n]
  <2>1. t = Written(r, w) /\ w \in WritesOf(f)
    BY <1>0, <1>9
  <2>2. WrittenFits(f, b, items, n - 1, r)
    BY <1>11
  <2>3. \A i \in 1..n : i = n \/ i \in 1..(n - 1)
    OBVIOUS
  <2>5. w = queue[n]
    OBVIOUS
  <2> HIDE DEF r, w, t
  <2>4. /\ t \in Seq(HeldItems(f, b))
        /\ \A key : HasKey(r, key) => HasKey(t, key)
        /\ w.op = "add" => HasKey(t, w.item.key)
    BY <2>1, <2>2, WrittenIs DEF WrittenFits
  <2>6. WrittenFits(f, b, items, n, t)
    BY <2>2, <2>3, <2>4, <2>5 DEF WrittenFits
  <2> QED BY <2>6 DEF t
<1>12. G = 0..L
  <2>1. G \subseteq 0..L /\ 0 \in G /\ \A n \in 1..L : n - 1 \in G => n \in G
    BY <1>0, <1>10, <1>11
  <2> HIDE DEF G
  <2> QED BY <1>0, <2>1, RecursionKeeps
<1> QED
  BY <1>0, <1>8, <1>12

ImportInv ==
    /\ file \in Files /\ before \in Vaults
    /\ vault \in Seq(HeldItems(file, before)) /\ queue \in Seq(WritesOf(file))
    /\ phase = "sending" => \A k \in DOMAIN file : Parsed(file[k]) =>
         HasKey(vault, ItemOf(file[k]).key) \/ Queued(queue, ItemOf(file[k]).key)
    /\ phase = "done" => \A k \in DOMAIN file : Parsed(file[k]) => HasKey(vault, ItemOf(file[k]).key)

LEMMA ImportInvInit == ImportInit => ImportInv
<1> SUFFICES ASSUME ImportInit PROVE ImportInv
  OBVIOUS
<1>1. file \in Files /\ before \in Vaults /\ vault = before /\ queue = <<>> /\ phase = "idle"
  BY DEF ImportInit
<1>2. vault \in Seq(HeldItems(file, before)) /\ queue \in Seq(WritesOf(file))
  BY <1>1, VaultIsHeld
<1>3. phase # "sending" /\ phase # "done"
  BY <1>1
<1> QED
  BY <1>1, <1>2, <1>3 DEF ImportInv

LEMMA BatchIsWritten ==
    ASSUME ImportInv, queue # <<>>
    PROVE  /\ BatchLen \in 0..Len(queue)
           /\ WrittenFits(file, before, vault, BatchLen, AllWritten(vault, BatchLen))
<1>1. Len(queue) \in Nat /\ MaxBatch \in Nat
  BY ImportAssumption DEF ImportInv
<1>2. BatchLen \in 0..Len(queue)
  BY <1>1 DEF BatchLen
<1> QED
  BY <1>2, AllWrittenFits DEF ImportInv

LEMMA ImportInvNext == ImportInv /\ [ImportNext]_importVars => ImportInv'
<1> SUFFICES ASSUME ImportInv, [ImportNext]_importVars PROVE ImportInv'
  OBVIOUS
<1>0. file \in Files /\ before \in Vaults /\ vault \in Seq(HeldItems(file, before)) /\ queue \in Seq(WritesOf(file))
  BY DEF ImportInv
<1>f. file \in Seq(Range(file)) /\ DOMAIN file = 1..Len(file)
  BY <1>0, ImportAssumption
<1>1. CASE StartImport
  <2>1. file' = file /\ before' = before /\ vault' = vault /\ queue' = StageImport(vault, file) /\ phase' = "sending"
    BY <1>1 DEF StartImport
  <2>2. StageFits(vault, file, Len(file), queue')
    BY <2>1, <1>0, <1>f, StageImportFits
  <2>3. queue' \in Seq(WritesOf(file))
    BY <2>2 DEF StageFits
  <2>4. \A k \in DOMAIN file : Parsed(file[k]) => HasKey(vault, ItemOf(file[k]).key) \/ Queued(queue', ItemOf(file[k]).key)
    BY <2>2, <1>f DEF StageFits
  <2> QED BY <1>0, <2>1, <2>3, <2>4 DEF ImportInv
<1>2. CASE SendBatch
  <2> DEFINE r == AllWritten(vault, BatchLen)
             n == BatchLen
  <2>1. file' = file /\ before' = before /\ vault' = r /\ phase' = "sending" /\ phase = "sending"
        /\ queue' = SubSeq(queue, n + 1, Len(queue))
    BY <1>2 DEF SendBatch
  <2>2. n \in 0..Len(queue) /\ WrittenFits(file, before, vault, n, r)
    BY <1>2, BatchIsWritten DEF SendBatch
  <2> HIDE DEF r, n
  <2>3. queue' \in Seq(WritesOf(file)) /\ \A i \in 1..Len(queue) : i > n => i - n \in DOMAIN queue' /\ queue'[i - n] = queue[i]
    BY <2>1, <2>2, <1>0
  <2>4. ASSUME NEW key, Queued(queue, key) PROVE HasKey(r, key) \/ Queued(queue', key)
    <3>1. PICK i \in DOMAIN queue : queue[i].op = "add" /\ queue[i].item.key = key
      BY <2>4 DEF Queued
    <3>2. i \in 1..Len(queue)
      BY <1>0
    <3>3. CASE i <= n
      <4>1. i \in 1..n
        BY <3>2, <3>3, <2>2
      <4> QED BY <4>1, <3>1, <2>2 DEF WrittenFits
    <3>4. CASE i > n
      <4> DEFINE z == i - n
      <4>1. z \in DOMAIN queue' /\ queue'[z] = queue[i]
        BY <2>3, <3>2, <3>4
      <4> HIDE DEF z
      <4> QED BY <4>1, <3>1 DEF Queued
    <3> QED BY <3>2, <3>3, <3>4, <2>2
  <2>5. \A key : HasKey(vault, key) => HasKey(r, key)
    BY <2>2 DEF WrittenFits
  <2>6. \A k \in DOMAIN file : Parsed(file[k]) => HasKey(vault, ItemOf(file[k]).key) \/ Queued(queue, ItemOf(file[k]).key)
    BY <2>1 DEF ImportInv
  <2>7. \A k \in DOMAIN file : Parsed(file[k]) => HasKey(r, ItemOf(file[k]).key) \/ Queued(queue', ItemOf(file[k]).key)
    BY <2>4, <2>5, <2>6
  <2>8. r \in Seq(HeldItems(file, before))
    BY <2>2 DEF WrittenFits
  <2> QED BY <1>0, <2>1, <2>3, <2>7, <2>8 DEF ImportInv
<1>3. CASE BatchFails
  <2>1. file' = file /\ before' = before /\ vault' \in {vault, AllWritten(vault, BatchLen)} /\ queue' = <<>> /\ phase' = "idle"
    BY <1>3 DEF BatchFails
  <2>2. AllWritten(vault, BatchLen) \in Seq(HeldItems(file, before))
    BY <1>3, BatchIsWritten DEF BatchFails, WrittenFits
  <2>3. queue' \in Seq(WritesOf(file)) /\ vault' \in Seq(HeldItems(file, before))
    BY <2>1, <2>2, <1>0
  <2>4. phase' # "sending" /\ phase' # "done"
    BY <2>1
  <2> QED BY <1>0, <2>1, <2>3, <2>4 DEF ImportInv
<1>4. CASE ImportEnds
  <2>1. file' = file /\ before' = before /\ vault' = vault /\ queue' = queue /\ queue = <<>> /\ phase = "sending" /\ phase' = "done"
    BY <1>4 DEF ImportEnds
  <2>2. \A key : ~Queued(queue, key)
    BY <2>1 DEF Queued
  <2>3. \A k \in DOMAIN file : Parsed(file[k]) => HasKey(vault, ItemOf(file[k]).key)
    BY <2>1, <2>2 DEF ImportInv
  <2> QED BY <1>0, <2>1, <2>3 DEF ImportInv
<1>5. CASE UNCHANGED importVars
  BY <1>5 DEF ImportInv, importVars
<1> QED
  BY <1>1, <1>2, <1>3, <1>4, <1>5 DEF ImportNext

LEMMA ImportInvImplies == ASSUME ImportInv PROVE ImportIsWhole
<1>0. file \in Files /\ vault \in Seq(HeldItems(file, before))
  BY DEF ImportInv
<1>1. EveryValueIsKept
  BY <1>0, FileValuesKept
<1>2. ASSUME phase = "done", NEW w \in Range(StageImport(vault, file)), w.op = "add" PROVE FALSE
  <2> DEFINE q == StageImport(vault, file)
  <2>1. StageFits(vault, file, Len(file), q)
    BY <1>0, ImportAssumption, StageImportFits
  <2> HIDE DEF q
  <2>2. PICK i \in DOMAIN q : q[i] = w
    BY <1>2 DEF Range, q
  <2>3. ~HasKey(vault, w.item.key) /\ \E k \in DOMAIN file : Parsed(file[k]) /\ w.item = ItemOf(file[k])
    BY <1>2, <2>1, <2>2 DEF StageFits
  <2> QED BY <1>2, <2>3 DEF ImportInv
<1>3. ImportAgainAddsNothing
  BY <1>2 DEF ImportAgainAddsNothing
<1> QED
  BY <1>1, <1>3 DEF ImportIsWhole

\* An import loses no value of an entry but the ones that Accounted lists,
\* whatever the files are, and importing a file again adds no item, whatever
\* became of the attempts before (stage_import, push_batches).
THEOREM ImportIsWholeHolds == ImportSpec => []ImportIsWhole
<1>1. ImportInv => ImportIsWhole
  BY ImportInvImplies
<1> QED
  BY <1>1, ImportInvInit, ImportInvNext, PTL DEF ImportSpec

-----------------------------------------------------------------------------
(* Reading: what a screen shows and what a call hands out, while the item   *)
(* changes behind it.                                                       *)

\* A value is of the field it is in, or there is none.
Versions(k) == {Version(k, n) : n \in 0..MaxItemChanges}
IsOf(v, k) == v = NoText \/ v \in Versions(k)

IsField(f, i) == f.id = i /\ IsOf(f.value, i) /\ f = FieldOf(i, f.kind, f.value)

IsEntry(it) ==
    /\ it = [type |-> it.type, title |-> it.title, username |-> it.username, site |-> it.site, tag |-> it.tag,
             provider |-> it.provider, own |-> it.own, custom |-> it.custom, ids |-> it.ids, history |-> it.history]
    /\ it.type \in ReadTypes
    /\ it.title = Version("title", 0) /\ it.username = Version("username", 0) /\ it.site = Version("website", 0)
    /\ it.tag = Version("tag", 0) /\ it.provider = Version("provider", 0)
    /\ it.own = [k \in OwnKeys(it.type) |-> it.own[k]]
    /\ \A k \in OwnKeys(it.type) : IsOf(it.own[k], k)
    /\ it.custom = [i \in DOMAIN it.custom |-> it.custom[i]]
    /\ DOMAIN it.custom \subseteq it.ids /\ DOMAIN it.custom \subseteq CustomIds
    /\ \A i \in DOMAIN it.custom : IsField(it.custom[i], i)
    /\ it.history \in Seq(Versions("password"))

\* A row of a custom field is of one the item has or had, and masked as it is.
RowsFit(it, shown) ==
    \A row \in shown : row.key \in CustomIds =>
        /\ row.key \in it.ids
        /\ row.key \in DOMAIN it.custom =>
             /\ row.masked = IsConcealed(it.custom[row.key].kind)
             /\ IsConcealed(it.custom[row.key].kind) => row.value = Sealed

LEMMA RowIs ==
    ASSUME NEW k, NEW masked, NEW has, NEW v
    PROVE  /\ ScreenRow(k, masked, has, v).key = k /\ ScreenRow(k, masked, has, v).masked = masked
           /\ ScreenRow(k, masked, has, v).value = v
BY DEF ScreenRow

LEMMA OwnKeysAre == \A t \in ReadTypes : OwnKeys(t) \subseteq OtherKeys
BY DEF ReadTypes, OwnKeys, OtherKeys, FilledNames

\* Rows of other keys say nothing of custom fields.
LEMMA OtherRowsFit ==
    ASSUME NEW it, NEW shown, \A row \in shown : row.key \in OtherKeys
    PROVE  RowsFit(it, shown)
BY ReadingAssumption DEF RowsFit

LEMMA RowsJoin ==
    ASSUME NEW it, NEW r, NEW s, RowsFit(it, r), RowsFit(it, s)
    PROVE  RowsFit(it, r \cup s)
BY DEF RowsFit

LEMMA CustomRowsFit ==
    ASSUME NEW it, IsEntry(it)
    PROVE  RowsFit(it, PhoneCustomRows(it)) /\ RowsFit(it, Views(it))
<1>0. DOMAIN it.custom \subseteq it.ids
  BY DEF IsEntry
<1>1. \A row \in PhoneCustomRows(it) : row.key \in DOMAIN it.custom /\ row.masked = IsConcealed(it.custom[row.key].kind) /\ row.value = Sealed
  <2> SUFFICES ASSUME NEW i \in DOMAIN it.custom, NEW row,
                      row = ScreenRow(i, IsConcealed(it.custom[i].kind), FALSE, Sealed)
               PROVE  row.key \in DOMAIN it.custom /\ row.masked = IsConcealed(it.custom[row.key].kind) /\ row.value = Sealed
    BY DEF PhoneCustomRows
  <2>1. row.key = i /\ row.masked = IsConcealed(it.custom[i].kind) /\ row.value = Sealed
    BY DEF ScreenRow
  <2> QED BY <2>1
<1>2. \A row \in Views(it) : /\ row.key \in DOMAIN it.custom /\ row.masked = IsConcealed(it.custom[row.key].kind)
                             /\ IsConcealed(it.custom[row.key].kind) => row.value = Sealed
  <2> SUFFICES ASSUME NEW i \in DOMAIN it.custom, NEW row,
                      row = ScreenRow(i, IsConcealed(it.custom[i].kind), Is(it.custom[i].value),
                                      IF IsConcealed(it.custom[i].kind) THEN Sealed ELSE it.custom[i].value)
               PROVE  /\ row.key \in DOMAIN it.custom /\ row.masked = IsConcealed(it.custom[row.key].kind)
                      /\ IsConcealed(it.custom[row.key].kind) => row.value = Sealed
    BY DEF Views
  <2> QED BY RowIs
<1>3. RowsFit(it, PhoneCustomRows(it))
  BY <1>0, <1>1 DEF RowsFit
<1>4. RowsFit(it, Views(it))
  BY <1>0, <1>2 DEF RowsFit
<1> QED
  BY <1>3, <1>4

LEMMA OwnRowsFit ==
    ASSUME NEW it, NEW ks, ks \subseteq OtherKeys
    PROVE  RowsFit(it, OpenRows(it, ks)) /\ RowsFit(it, MaskedRows(it, ks))
<1>1. \A row \in OpenRows(it, ks) : row.key \in OtherKeys
  BY DEF OpenRows, ScreenRow
<1>2. \A row \in MaskedRows(it, ks) : row.key \in OtherKeys
  BY DEF MaskedRows, ScreenRow
<1> QED
  BY <1>1, <1>2, OtherRowsFit

LEMMA OverviewRowsFit ==
    ASSUME NEW it, NEW masked
    PROVE  RowsFit(it, OwnRows(Overview(it), masked))
<1>1. Overview(it).has \subseteq {"password", "totp", "notes"}
  BY DEF Overview
<1>2. {"password", "totp", "notes"} \subseteq OtherKeys
  BY DEF OtherKeys
<1>3. \A row \in OwnRows(Overview(it), masked) : row.key \in OtherKeys
  BY <1>1, <1>2 DEF OwnRows, ScreenRow
<1> QED
  BY <1>3, OtherRowsFit

LEMMA OneRowFits ==
    ASSUME NEW it, NEW k \in OtherKeys, NEW masked, NEW has, NEW v
    PROVE  RowsFit(it, {ScreenRow(k, masked, has, v)})
<1>1. \A row \in {ScreenRow(k, masked, has, v)} : row.key \in OtherKeys
  BY RowIs
<1> QED
  BY <1>1, OtherRowsFit

\* What either app shows of an item fits the item.
LEMMA ViewFits ==
    ASSUME NEW it, IsEntry(it), NEW a
    PROVE  RowsFit(it, View(a, it))
<1> DEFINE R == it
<1>0. it.type \in {"login", "note", "identity", "card", "bank"} /\ DOMAIN it.own \subseteq OtherKeys
  BY OwnKeysAre DEF IsEntry, ReadTypes
<1>k. /\ {"bank", "holder", "branch", "branchDigit"} \subseteq OtherKeys /\ {"account", "password", "notes"} \subseteq OtherKeys
      /\ {"bank", "holder", "branch", "branchDigit", "notes"} \subseteq OtherKeys /\ {"account", "password"} \subseteq OtherKeys
      /\ {"card.holder", "card.expiry", "card.notes"} \subseteq OtherKeys /\ {"card.number", "card.code"} \subseteq OtherKeys
      /\ "username" \in OtherKeys /\ "website" \in OtherKeys /\ "content" \in OtherKeys /\ "address" \in OtherKeys
  BY DEF OtherKeys
<1>1. RowsFit(it, BankView(it)) /\ RowsFit(it, RevealBank(it)) /\ RowsFit(it, RevealCard(it))
  BY <1>k, CustomRowsFit, OwnRowsFit, RowsJoin DEF BankView, RevealBank, RevealCard
<1>2. RowsFit(it, RevealIdentity(it))
  BY <1>0, <1>k, OwnRowsFit, OneRowFits, RowsJoin DEF RevealIdentity
<1>3. RowsFit(it, DesktopView(it))
  <2>1. CASE it.type = "login"
    BY <2>1, <1>k, CustomRowsFit, OverviewRowsFit, OneRowFits, RowsJoin DEF DesktopView
  <2>2. CASE it.type = "note"
    BY <2>2, <1>k, CustomRowsFit, OneRowFits, RowsJoin DEF DesktopView
  <2>3. CASE it.type \in {"card", "identity", "bank"}
    BY <2>3, <1>1, <1>2 DEF DesktopView
  <2> QED BY <1>0, <2>1, <2>2, <2>3
<1>4. RowsFit(it, ItemView(it))
  <2>1. CASE it.type = "login"
    <3> DEFINE o == Overview(it)
               S == {ScreenRow(p[1], FALSE, TRUE, p[2]) : p \in {q \in {<<"username", o.username>>, <<"website", o.site>>} : Is(q[2])}}
    <3>1. ItemView(it) = S \cup OwnRows(o, {"password", "notes"}) \cup PhoneCustomRows(it)
      BY <2>1 DEF ItemView
    <3>2. \A row \in S : row.key \in OtherKeys
      <4> HIDE DEF o
      <4>1. \A row \in S : \E p \in {<<"username", o.username>>, <<"website", o.site>>} : row = ScreenRow(p[1], FALSE, TRUE, p[2])
        OBVIOUS
      <4>2. \A row \in S : row.key \in {"username", "website"}
        BY <4>1 DEF ScreenRow
      <4> QED BY <4>2, <1>k
    <3> HIDE DEF S
    <3>3. RowsFit(it, S)
      BY <3>2, OtherRowsFit
    <3>4. RowsFit(it, OwnRows(o, {"password", "notes"})) /\ RowsFit(it, PhoneCustomRows(it))
      BY CustomRowsFit, OverviewRowsFit
    <3> HIDE DEF o
    <3>5. RowsFit(it, S \cup OwnRows(o, {"password", "notes"}))
      BY <3>3, <3>4, RowsJoin
    <3>6. RowsFit(it, S \cup OwnRows(o, {"password", "notes"}) \cup PhoneCustomRows(it))
      BY <3>4, <3>5, RowsJoin
    <3> QED BY <3>1, <3>6
  <2>2. CASE it.type = "note"
    BY <2>2, <1>k, CustomRowsFit, OneRowFits, RowsJoin DEF ItemView
  <2>3. CASE it.type = "card"
    <3>1. \A row \in ItemView(it) : row.key \in OwnKeys("card")
      BY <2>3 DEF ItemView, ScreenRow
    <3>2. OwnKeys("card") \subseteq OtherKeys
      BY OwnKeysAre DEF ReadTypes
    <3> QED BY <3>1, <3>2, OtherRowsFit
  <2>4. CASE it.type = "identity"
    <3>1. \A row \in ItemView(it) : row.key \in FilledNames
      BY <2>4 DEF ItemView, ScreenRow
    <3>2. FilledNames \subseteq OtherKeys
      BY DEF OtherKeys
    <3> QED BY <3>1, <3>2, OtherRowsFit
  <2>5. CASE it.type = "bank"
    BY <2>5, <1>1 DEF ItemView
  <2> QED BY <1>0, <2>1, <2>2, <2>3, <2>4, <2>5
<1> QED
  BY <1>3, <1>4 DEF View

\* A masked row carries no value.
RowsMasked(shown) == \A row \in shown : row.masked => row.value = Sealed

LEMMA ViewMasked ==
    ASSUME NEW it, IsEntry(it), NEW a
    PROVE  RowsMasked(View(a, it))
<1>1. RowsMasked(PhoneCustomRows(it))
  BY DEF RowsMasked, PhoneCustomRows, ScreenRow
<1>2. RowsMasked(Views(it))
  BY DEF RowsMasked, Views, ScreenRow
<1>3. \A o, m : RowsMasked(OwnRows(o, m))
  BY DEF RowsMasked, OwnRows, ScreenRow
<1>4. \A ks : RowsMasked(OpenRows(it, ks))
  BY DEF RowsMasked, OpenRows, ScreenRow
<1>5. \A ks : RowsMasked(MaskedRows(it, ks))
  BY DEF RowsMasked, MaskedRows, ScreenRow
<1>6. \A r, s : RowsMasked(r) /\ RowsMasked(s) => RowsMasked(r \cup s)
  BY DEF RowsMasked
<1>7. \A k, has, v : RowsMasked({ScreenRow(k, FALSE, has, v)})
  BY DEF RowsMasked, ScreenRow
<1>8. RowsMasked(BankView(it)) /\ RowsMasked(RevealBank(it)) /\ RowsMasked(RevealCard(it)) /\ RowsMasked(RevealIdentity(it))
  BY <1>1, <1>2, <1>4, <1>5, <1>6, <1>7 DEF BankView, RevealBank, RevealCard, RevealIdentity
<1>t. it.type \in {"login", "note", "identity", "card", "bank"}
  BY DEF IsEntry, ReadTypes
<1>9. RowsMasked(DesktopView(it))
  <2>1. CASE it.type = "login"
    BY <2>1, <1>2, <1>3, <1>6, <1>7 DEF DesktopView
  <2>2. CASE it.type = "note"
    BY <2>2, <1>2, <1>6, <1>7 DEF DesktopView
  <2>3. CASE it.type \in {"card", "identity", "bank"}
    BY <2>3, <1>8 DEF DesktopView
  <2> QED BY <1>t, <2>1, <2>2, <2>3
<1>10. RowsMasked(ItemView(it))
  <2>1. CASE it.type = "login"
    <3> DEFINE o == Overview(it)
               P == {q \in {<<"username", o.username>>, <<"website", o.site>>} : Is(q[2])}
               S == {ScreenRow(p[1], FALSE, TRUE, p[2]) : p \in P}
    <3>1. ItemView(it) = S \cup OwnRows(o, {"password", "notes"}) \cup PhoneCustomRows(it)
      BY <2>1 DEF ItemView
    <3> HIDE DEF P, o
    <3>2. RowsMasked(S)
      BY DEF RowsMasked, ScreenRow
    <3> HIDE DEF S
    <3> QED BY <3>1, <3>2, <1>1, <1>3, <1>6
  <2>2. CASE it.type = "note"
    BY <2>2, <1>1, <1>6, <1>7 DEF ItemView
  <2>3. CASE it.type = "card"
    BY <2>3 DEF ItemView, RowsMasked, ScreenRow
  <2>4. CASE it.type = "identity"
    BY <2>4 DEF ItemView, RowsMasked, ScreenRow
  <2>5. CASE it.type = "bank"
    BY <2>5, <1>8 DEF ItemView
  <2> QED BY <1>t, <2>1, <2>2, <2>3, <2>4, <2>5
<1> QED
  BY <1>9, <1>10 DEF View

\* Of a card, an account and, on the phone, an identity every row that is not
\* of a custom field is of a value of its own.
AsksItsOwn(a, t) == t \in {"card", "bank"} \/ (t = "identity" /\ a = "phone")
RowsOwn(a, t, shown) ==
    AsksItsOwn(a, t) => \A row \in shown : row.key \in CustomIds \/ row.key \in OwnKeys(t)

LEMMA ViewOwn ==
    ASSUME NEW it, IsEntry(it), NEW a
    PROVE  RowsOwn(a, it.type, View(a, it))
<1>c. \A row \in PhoneCustomRows(it) \cup Views(it) : row.key \in CustomIds
  <2>1. DOMAIN it.custom \subseteq CustomIds
    BY DEF IsEntry
  <2>2. \A row \in PhoneCustomRows(it) : row.key \in DOMAIN it.custom
    BY DEF PhoneCustomRows, ScreenRow
  <2>3. \A row \in Views(it) : row.key \in DOMAIN it.custom
    BY DEF Views, ScreenRow
  <2> QED BY <2>1, <2>2, <2>3
<1>o. \A ks : \A row \in OpenRows(it, ks) \cup MaskedRows(it, ks) : row.key \in ks
  <2> SUFFICES ASSUME NEW ks
               PROVE  \A row \in OpenRows(it, ks) \cup MaskedRows(it, ks) : row.key \in ks
    OBVIOUS
  <2>1. \A row \in OpenRows(it, ks) : row.key \in ks
    BY DEF OpenRows, ScreenRow
  <2>2. \A row \in MaskedRows(it, ks) : row.key \in ks
    BY DEF MaskedRows, ScreenRow
  <2> QED BY <2>1, <2>2
<1>1. CASE it.type = "card"
  <2>1. {"card.holder", "card.expiry", "card.notes"} \subseteq OwnKeys("card") /\ {"card.number", "card.code"} \subseteq OwnKeys("card")
    BY DEF OwnKeys
  <2>2. \A row \in RevealCard(it) : row.key \in OwnKeys("card")
    BY <2>1, <1>o DEF RevealCard
  <2>3. \A row \in ItemView(it) : row.key \in OwnKeys("card")
    BY <1>1 DEF ItemView, ScreenRow
  <2>4. View(a, it) \in {RevealCard(it), ItemView(it)}
    BY <1>1 DEF View, DesktopView
  <2> QED BY <1>1, <2>2, <2>3, <2>4 DEF RowsOwn
<1>2. CASE it.type = "bank"
  <2>1. /\ {"bank", "holder", "branch", "branchDigit"} \subseteq OwnKeys("bank") /\ {"account", "password", "notes"} \subseteq OwnKeys("bank")
        /\ {"bank", "holder", "branch", "branchDigit", "notes"} \subseteq OwnKeys("bank") /\ {"account", "password"} \subseteq OwnKeys("bank")
    BY DEF OwnKeys
  <2>2. \A row \in RevealBank(it) : row.key \in CustomIds \/ row.key \in OwnKeys("bank")
    BY <2>1, <1>o, <1>c DEF RevealBank
  <2>3. \A row \in BankView(it) : row.key \in CustomIds \/ row.key \in OwnKeys("bank")
    BY <2>1, <1>o, <1>c DEF BankView
  <2>4. View(a, it) \in {RevealBank(it), BankView(it)}
    BY <1>2 DEF View, DesktopView, ItemView
  <2> QED BY <1>2, <2>2, <2>3, <2>4 DEF RowsOwn
<1>3. CASE it.type = "identity" /\ a = "phone"
  <2>1. DOMAIN it.own = OwnKeys("identity")
    BY <1>3 DEF IsEntry
  <2>2. \A row \in ItemView(it) : row.key \in DOMAIN it.own
    BY <1>3 DEF ItemView, ScreenRow
  <2> QED BY <1>3, <2>1, <2>2 DEF RowsOwn, View
<1> QED
  BY <1>1, <1>2, <1>3 DEF RowsOwn, AsksItsOwn

\* A good answer to the key k is a value of k, or its code.
AnswerFits(g, k) == g.why = "ok" /\ Is(g.value) => g.value[1] = k \/ g.value = Code(k)

LEMMA OfFits ==
    ASSUME NEW k, NEW v, IsOf(v, k)
    PROVE  AnswerFits(OrNotFound(v), k) /\ AnswerFits(HandsOut(v), k)
BY DEF IsOf, Versions, Version, AnswerFits, OrNotFound, HandsOut, Refuses, Is

LEMMA RefusalFits == \A k : \A e \in {"not_found", "invalid", "denied", "locked", "none"} : AnswerFits(Refuses(e), k)
BY DEF AnswerFits, Refuses

LEMMA CodeFits == \A k : AnswerFits(HandsOut(Code(k)), k)
BY DEF AnswerFits, HandsOut

LEMMA FieldsFit ==
    ASSUME NEW f, NEW i, IsField(f, i)
    PROVE  AnswerFits(FieldTotp(f), i) /\ AnswerFits(IntoText(f), i) /\ AnswerFits(Concealed(f), i)
<1>0. f.id = i /\ IsOf(f.value, i)
  BY DEF IsField
<1>1. AnswerFits(FieldTotp(f), i)
  BY <1>0, RefusalFits, CodeFits DEF FieldTotp
<1>2. AnswerFits(IntoText(f), i)
  BY <1>0, <1>1, OfFits DEF IntoText
<1>3. AnswerFits(Concealed(f), i)
  BY <1>0, RefusalFits, OfFits DEF Concealed
<1> QED
  BY <1>1, <1>2, <1>3

\* The call for a row's value, of the item as it now is.
LEMMA RevealFits ==
    ASSUME NEW it, IsEntry(it), NEW a, NEW k,
           AsksItsOwn(a, it.type) => k \in CustomIds \/ k \in OwnKeys(it.type)
    PROVE  AnswerFits(Reveal(a, it, k), k)
<1>0. /\ it.type \in ReadTypes /\ \A j \in OwnKeys(it.type) : IsOf(it.own[j], j)
      /\ \A i \in DOMAIN it.custom : IsField(it.custom[i], i)
  BY DEF IsEntry
<1>t. k = "totp" => AnswerFits(TotpCode(it), k)
  BY RefusalFits, CodeFits DEF TotpCode
<1>s. AnswerFits(RevealSecret(it, k), k)
  <2>1. CASE <<it.type, k>> \in {<<"login", "password">>, <<"login", "notes">>}
    <3>1. it.type = "login" /\ k \in OwnKeys(it.type)
      BY <2>1 DEF OwnKeys
    <3> QED BY <2>1, <3>1, <1>0, OfFits DEF RevealSecret
  <2>2. CASE ~ <<it.type, k>> \in {<<"login", "password">>, <<"login", "notes">>} /\ <<it.type, k>> = <<"note", "content">>
    <3>1. it.type = "note" /\ k \in OwnKeys(it.type)
      BY <2>2 DEF OwnKeys
    <3>2. RevealSecret(it, k) = HandsOut(it.own[k])
      BY <2>2 DEF RevealSecret
    <3> QED BY <3>1, <3>2, <1>0, OfFits
  <2>3. CASE ~ <<it.type, k>> \in {<<"login", "password">>, <<"login", "notes">>} /\ <<it.type, k>> # <<"note", "content">>
    BY <2>3, RefusalFits DEF RevealSecret
  <2> QED BY <2>1, <2>2, <2>3
<1>v. \A t : (t = it.type => k \in OwnKeys(it.type)) => AnswerFits(ValueOf(it, t, k), k)
  BY <1>0, RefusalFits, OfFits DEF ValueOf
<1>1. CASE k \in CustomIds
  <2>1. CASE ItemField(it, k).found
    <3>1. ItemField(it, k).field = it.custom[k] /\ k \in DOMAIN it.custom
      BY <2>1 DEF ItemField
    <3> DEFINE f == it.custom[k]
    <3>2. AnswerFits(FieldTotp(f), k) /\ AnswerFits(IntoText(f), k) /\ AnswerFits(Concealed(f), k)
      BY <3>1, <1>0, FieldsFit
    <3>3. PhoneReveal(it, k) = IntoText(f)
      BY <1>1, <2>1, <3>1 DEF PhoneReveal, OnField
    <3>4. DesktopReveal(it, k) = IF f.kind = "otp" THEN FieldTotp(f) ELSE Concealed(f)
      BY <1>1, <2>1, <3>1 DEF DesktopReveal, OnField
    <3> QED BY <3>2, <3>3, <3>4 DEF Reveal
  <2>2. CASE ~ItemField(it, k).found
    <3>1. Reveal(a, it, k) = Refuses("not_found")
      BY <1>1, <2>2 DEF Reveal, PhoneReveal, DesktopReveal, OnField
    <3> QED BY <3>1, RefusalFits
  <2> QED BY <2>1, <2>2
<1>2. CASE k \notin CustomIds /\ a = "phone"
  <2>1. CASE k = "totp"
    BY <1>2, <2>1, <1>t DEF Reveal, PhoneReveal
  <2>2. CASE k # "totp" /\ it.type = "bank"
    BY <1>2, <2>2, <1>v DEF Reveal, PhoneReveal, AsksItsOwn
  <2>3. CASE k # "totp" /\ it.type # "bank" /\ k \in OwnKeys("card")
    BY <1>2, <2>3, <1>v DEF Reveal, PhoneReveal
  <2>4. CASE k # "totp" /\ it.type = "identity" /\ k \notin OwnKeys("card")
    BY <1>2, <2>4, <1>v, RefusalFits DEF Reveal, PhoneReveal, AsksItsOwn
  <2>5. CASE k # "totp" /\ it.type \notin {"bank", "identity"} /\ k \notin OwnKeys("card")
    BY <1>2, <2>5, <1>s DEF Reveal, PhoneReveal
  <2> QED BY <2>1, <2>2, <2>3, <2>4, <2>5
<1>3. CASE k \notin CustomIds /\ a # "phone"
  <2>1. CASE k = "totp"
    BY <1>3, <2>1, <1>t DEF Reveal, DesktopReveal
  <2>2. CASE k # "totp" /\ it.type \in {"card", "bank"}
    BY <1>3, <2>2, <1>v DEF Reveal, DesktopReveal, AsksItsOwn
  <2>3. CASE k # "totp" /\ it.type \notin {"card", "bank"}
    BY <1>3, <2>3, <1>s DEF Reveal, DesktopReveal
  <2> QED BY <2>1, <2>2, <2>3
<1> QED
  BY <1>1, <1>2, <1>3

LEMMA FirstVersion == \A k : IsOf(Version(k, 0), k) /\ IsOf(NoText, k)
<1>1. 0 \in 0..MaxItemChanges
  BY ReadingAssumption
<1> QED BY <1>1 DEF IsOf, Versions

LEMMA NextVersion ==
    ASSUME NEW n \in 0..MaxItemChanges
    PROVE  \A k : IsOf(Version(k, n), k) /\ IsOf(NoText, k)
BY DEF IsOf, Versions

\* The item keeps its kind, its fields their kinds and no field another's
\* identifier; what is on the screen fits it, however old it is.
ReadInv ==
    /\ IsEntry(entry) /\ changes \in 0..MaxItemChanges
    /\ RowsMasked(screen.rows)
    /\ RowsFit(entry, screen.rows) /\ RowsOwn(readApp, entry.type, screen.rows)
    /\ screen = [rows |-> screen.rows, previous |-> screen.previous]
    /\ AnswersTheAsked

LEMMA NoAnswerFits == given' = NoAnswer => AnswersTheAsked'
BY DEF NoAnswer, AnswersTheAsked

LEMMA NoScreenFits ==
    ASSUME NEW it, NEW a, NEW t
    PROVE  RowsFit(it, NoScreen.rows) /\ RowsOwn(a, t, NoScreen.rows) /\ RowsMasked(NoScreen.rows) /\ NoScreen = [rows |-> NoScreen.rows, previous |-> NoScreen.previous]
BY DEF NoScreen, RowsFit, RowsOwn, RowsMasked

LEMMA FilledIsEntry ==
    ASSUME NEW t \in ReadTypes, NEW there, NEW c,
           c = [i \in DOMAIN c |-> c[i]], DOMAIN c \subseteq CustomIds, \A i \in DOMAIN c : IsField(c[i], i)
    PROVE  IsEntry(Filled(t, there, c))
<1> DEFINE e == Filled(t, there, c)
<1>1. /\ e.type = t /\ e.custom = c /\ e.ids = DOMAIN c /\ e.history = <<>>
      /\ e.title = Version("title", 0) /\ e.username = Version("username", 0) /\ e.site = Version("website", 0)
      /\ e.tag = Version("tag", 0) /\ e.provider = Version("provider", 0)
      /\ e.own = [k \in OwnKeys(t) |-> IF k \in there \cup {"content"} THEN Version(k, 0) ELSE NoText]
      /\ e = [type |-> e.type, title |-> e.title, username |-> e.username, site |-> e.site, tag |-> e.tag,
              provider |-> e.provider, own |-> e.own, custom |-> e.custom, ids |-> e.ids, history |-> e.history]
  BY DEF Filled
<1> HIDE DEF e
<1>2. e.own = [k \in OwnKeys(e.type) |-> e.own[k]]
  BY <1>1
<1>3. \A k \in OwnKeys(e.type) : IsOf(e.own[k], k)
  BY <1>1, FirstVersion
<1>4. e.history \in Seq(Versions("password"))
  BY <1>1
<1>5. e.type \in ReadTypes /\ DOMAIN e.custom \subseteq e.ids /\ DOMAIN e.custom \subseteq CustomIds
  BY <1>1
<1>6. e.custom = [i \in DOMAIN e.custom |-> e.custom[i]] /\ \A i \in DOMAIN e.custom : IsField(e.custom[i], i)
  BY <1>1
<1>7. IsEntry(e)
  BY <1>1, <1>2, <1>3, <1>4, <1>5, <1>6 DEF IsEntry
<1> QED
  BY <1>7 DEF e

LEMMA SomeFieldsAreFields ==
    ASSUME NEW t, NEW c \in SomeFields(t)
    PROVE  c = [i \in DOMAIN c |-> c[i]] /\ DOMAIN c \subseteq CustomIds /\ \A i \in DOMAIN c : IsField(c[i], i)
<1>1. CASE c = NoFields
  <2>1. DOMAIN c = {} /\ c = [i \in DOMAIN c |-> c[i]]
    BY <1>1 DEF NoFields
  <2> QED BY <2>1
<1>2. CASE c # NoFields
  <2> DEFINE F(i, kind) == {[j \in {i} |-> FieldOf(i, kind, v)] : v \in {NoText, Version(i, 0)}}
         G == UNION {F(i, kind) : i \in CustomIds, kind \in FieldKinds}
  <2>a. SomeFields(t) \subseteq {NoFields} \cup G
    <3>1. SomeFields(t) = {NoFields} \cup IF ~CarriesFields(t) THEN {} ELSE G
      BY DEF SomeFields
    <3> HIDE DEF G
    <3> QED BY <3>1
  <2> HIDE DEF F
  <2>b. PICK i \in CustomIds, kind \in FieldKinds : c \in F(i, kind)
    BY <1>2, <2>a
  <2>1. \E v \in {NoText, Version(i, 0)} : c = [j \in {i} |-> FieldOf(i, kind, v)]
    BY <2>b DEF F
  <2>2. PICK v \in {NoText, Version(i, 0)} : c = [j \in {i} |-> FieldOf(i, kind, v)]
    BY <2>1
  <2>3. IsOf(v, i)
    BY <2>2, FirstVersion
  <2>4. IsField(FieldOf(i, kind, v), i)
    BY <2>3 DEF IsField, FieldOf
  <2>5. DOMAIN c = {i} /\ c[i] = FieldOf(i, kind, v) /\ c = [j \in DOMAIN c |-> c[j]]
    BY <2>2
  <2> QED BY <2>4, <2>5
<1> QED
  BY <1>1, <1>2

LEMMA ReadInvInit == ReadInit => ReadInv
<1> SUFFICES ASSUME ReadInit PROVE ReadInv
  OBVIOUS
<1>1. IsEntry(entry)
  <2>1. \A t : NoFields \in SomeFields(t)
    BY DEF SomeFields
  <2>2. PICK t \in ReadTypes : \E there : \E c \in SomeFields(t) : entry = Filled(t, there, c)
    <3>1. PICK t \in ReadTypes : \/ \E s \in Fillings(t) : entry = Filled(t, s, NoFields)
                                 \/ \E c \in SomeFields(t) : entry = Filled(t, OwnKeys(t), c)
      BY DEF ReadInit
    <3> QED BY <3>1, <2>1
  <2>3. PICK there : \E c \in SomeFields(t) : entry = Filled(t, there, c)
    BY <2>2
  <2>4. PICK c \in SomeFields(t) : entry = Filled(t, there, c)
    BY <2>3
  <2> QED BY <2>4, SomeFieldsAreFields, FilledIsEntry
<1>2. changes \in 0..MaxItemChanges /\ screen = NoScreen /\ given = NoAnswer
  BY ReadingAssumption DEF ReadInit
<1>3. AnswersTheAsked
  BY <1>2 DEF NoAnswer, AnswersTheAsked
<1> QED
  BY <1>1, <1>2, <1>3, NoScreenFits DEF ReadInv

LEMMA OpenScreenKeeps == ReadInv /\ OpenScreen => ReadInv'
<1> SUFFICES ASSUME ReadInv, OpenScreen PROVE ReadInv'
  OBVIOUS
<1>1. screen'.rows = View(readApp, entry) /\ screen' = [rows |-> screen'.rows, previous |-> screen'.previous]
  BY DEF OpenScreen
<1>2. entry' = entry /\ readApp' = readApp /\ changes' = changes /\ given' = NoAnswer
  BY DEF OpenScreen
<1>3. RowsFit(entry, View(readApp, entry)) /\ RowsOwn(readApp, entry.type, View(readApp, entry)) /\ RowsMasked(View(readApp, entry))
  BY ViewFits, ViewOwn, ViewMasked DEF ReadInv
<1> QED
  BY <1>1, <1>2, <1>3, NoAnswerFits DEF ReadInv

\* A call changes nothing but the answer.
LEMMA AnsweredKeeps ==
    ASSUME ReadInv, NEW k, NEW how, NEW got, Answered(k, how, got), how \in {"reveal", "previous"} => AnswerFits(got, k)
    PROVE  ReadInv'
<1>1. entry' = entry /\ readApp' = readApp /\ changes' = changes /\ screen' = screen
  BY DEF Answered
<1>2. given'.key = k /\ given'.how = how
  BY DEF Answered
<1>3. given'.answer \in {got, Refuses("locked"), Refuses("not_found")}
  BY DEF Answered
<1>4. how \in {"reveal", "previous"} => AnswerFits(given'.answer, k)
  BY <1>3, RefusalFits
<1>5. AnswersTheAsked'
  BY <1>2, <1>4 DEF AnswersTheAsked, AnswerFits
<1> QED
  BY <1>1, <1>5 DEF ReadInv

LEMMA AskValueKeeps == ReadInv /\ AskValue => ReadInv'
<1> SUFFICES ASSUME ReadInv, AskValue PROVE ReadInv'
  OBVIOUS
<1>1. PICK k \in AskKeys \cup {d \in {"accountDigit"} : "account" \in AskKeys} : Answered(k, "reveal", Reveal(readApp, entry, k))
  BY DEF AskValue
<1>2. AsksItsOwn(readApp, entry.type) => \A j \in AskKeys : j \in CustomIds \/ j \in OwnKeys(entry.type)
  BY DEF ReadInv, RowsOwn, AskKeys
<1>3. AsksItsOwn(readApp, entry.type) => k \in CustomIds \/ k \in OwnKeys(entry.type)
  <2> SUFFICES ASSUME AsksItsOwn(readApp, entry.type), k = "accountDigit", "account" \in AskKeys
               PROVE  k \in OwnKeys(entry.type)
    BY <1>1, <1>2
  <2>1. "account" \notin CustomIds
    BY ReadingAssumption DEF OtherKeys
  <2>2. "account" \in OwnKeys(entry.type)
    BY <1>2, <2>1
  <2>3. entry.type \in {"card", "bank", "identity"}
    BY DEF AsksItsOwn
  <2>4. entry.type = "bank"
    BY <2>2, <2>3 DEF OwnKeys, FilledNames
  <2> QED BY <2>4 DEF OwnKeys
<1>4. AnswerFits(Reveal(readApp, entry, k), k)
  BY <1>3, RevealFits DEF ReadInv
<1> QED
  BY <1>1, <1>4, AnsweredKeeps

LEMMA OtherCallsKeep == ReadInv /\ (AskCopy \/ AskDetails \/ OpenFieldUrl \/ RevealPrevious) => ReadInv'
<1> SUFFICES ASSUME ReadInv PROVE AskCopy \/ AskDetails \/ OpenFieldUrl \/ RevealPrevious => ReadInv'
  OBVIOUS
<1>1. ASSUME AskCopy PROVE ReadInv'
  <2>1. PICK k \in CopyKeys : Answered(k, "copy", Copy(entry, k))
    BY <1>1 DEF AskCopy
  <2> QED BY <2>1, AnsweredKeeps
<1>2. ASSUME AskDetails PROVE ReadInv'
  BY <1>2, AnsweredKeeps DEF AskDetails
<1>3. ASSUME OpenFieldUrl PROVE ReadInv'
  <2>1. PICK row \in screen.rows : Answered(row.key, "open", OnField(entry, row.key, FieldUrl))
    BY <1>3 DEF OpenFieldUrl
  <2> QED BY <2>1, AnsweredKeeps
<1>4. ASSUME RevealPrevious PROVE ReadInv'
  <2> DEFINE got(i) == IF i <= Len(entry.history) THEN HandsOut(entry.history[i]) ELSE Refuses("not_found")
  <2>1. PICK i \in 1..screen.previous : Answered("password", "previous", got(i))
    BY <1>4 DEF RevealPrevious
  <2>2. AnswerFits(got(i), "password")
    <3>1. CASE i <= Len(entry.history)
      <4>1. entry.history \in Seq(Versions("password"))
        BY DEF ReadInv, IsEntry
      <4>2. i \in 1..Len(entry.history)
        BY <3>1, <4>1
      <4>3. entry.history[i] \in Versions("password")
        BY <4>1, <4>2
      <4> QED BY <3>1, <4>3, OfFits DEF IsOf
    <3>2. CASE ~ i <= Len(entry.history)
      BY <3>2, RefusalFits
    <3> QED BY <3>1, <3>2
  <2> HIDE DEF got
  <2> QED BY <2>1, <2>2, AnsweredKeeps
<1> QED
  BY <1>1, <1>2, <1>3, <1>4

LEMMA LockOrMoveKeeps == ReadInv /\ (LockReader \/ MoveItem) => ReadInv'
<1> SUFFICES ASSUME ReadInv PROVE LockReader \/ MoveItem => ReadInv'
  OBVIOUS
<1>1. ASSUME LockReader PROVE ReadInv'
  <2>1. entry' = entry /\ readApp' = readApp /\ changes' = changes /\ given' = NoAnswer /\ screen' \in {screen, NoScreen}
    BY <1>1 DEF LockReader
  <2> QED BY <2>1, NoAnswerFits, NoScreenFits DEF ReadInv
<1>2. ASSUME MoveItem PROVE ReadInv'
  <2>1. entry' = entry /\ readApp' = readApp /\ changes' = changes /\ given' = NoAnswer /\ screen' = screen
    BY <1>2 DEF MoveItem
  <2> QED BY <2>1, NoAnswerFits DEF ReadInv
<1> QED
  BY <1>1, <1>2

\* Fields after an edit are fields, those that stay keep their kinds, and one
\* that is new has an identifier that the item never had.
LEMMA ChangedFieldsAre ==
    ASSUME ReadInv, changes + 1 \in 0..MaxItemChanges, NEW c \in ChangedFields(entry.custom)
    PROVE  /\ c = [i \in DOMAIN c |-> c[i]] /\ DOMAIN c \subseteq CustomIds
           /\ \A i \in DOMAIN c : IsField(c[i], i)
           /\ \A i \in DOMAIN c \cap entry.ids : i \in DOMAIN entry.custom /\ c[i].kind = entry.custom[i].kind
<1> DEFINE old == entry.custom
           n == changes + 1
<1>0. /\ old = [i \in DOMAIN old |-> old[i]] /\ DOMAIN old \subseteq entry.ids /\ DOMAIN old \subseteq CustomIds
      /\ \A i \in DOMAIN old : IsField(old[i], i)
  BY DEF ReadInv, IsEntry
<1>n. n \in 0..MaxItemChanges
  OBVIOUS
<1> HIDE DEF n
<1>v. \A i : IsOf(NoText, i) /\ IsOf(Version(i, n), i)
  BY <1>n, NextVersion
<1>c. \/ \E i \in DOMAIN old : c = [j \in DOMAIN old \ {i} |-> old[j]]
      \/ \E i \in DOMAIN old : \E v \in {NoText, Version(i, n)} : c = [old EXCEPT ![i].value = v]
      \/ \E i \in CustomIds \ entry.ids : \E kind \in FieldKinds :
            c = [j \in DOMAIN old \cup {i} |-> IF j = i THEN FieldOf(i, kind, Version(i, n)) ELSE old[j]]
  <2> DEFINE A == {[j \in DOMAIN old \ {i} |-> old[j]] : i \in DOMAIN old}
             B(i) == {[old EXCEPT ![i].value = v] : v \in {NoText, Version(i, n)}}
             C(i, kind) == [j \in DOMAIN old \cup {i} |-> IF j = i THEN FieldOf(i, kind, Version(i, n)) ELSE old[j]]
             P == UNION {B(i) : i \in DOMAIN old}
             Q == {C(i, kind) : i \in CustomIds \ entry.ids, kind \in FieldKinds}
  <2>1. ChangedFields(old) = A \cup P \cup Q
    BY DEF ChangedFields, n
  <2>2. c \in ChangedFields(old)
    OBVIOUS
  <2> HIDE DEF old, A, B, C
  <2>3. c \in P => \E i \in DOMAIN old : c \in B(i)
    OBVIOUS
  <2>4. c \in Q => \E i \in CustomIds \ entry.ids : \E kind \in FieldKinds : c = C(i, kind)
    OBVIOUS
  <2> HIDE DEF P, Q
  <2>5. c \in A \/ c \in P \/ c \in Q
    BY <2>1, <2>2
  <2> USE DEF A, B, C
  <2> QED BY <2>3, <2>4, <2>5
<1> HIDE DEF old
<1>1. CASE \E i \in DOMAIN old : c = [j \in DOMAIN old \ {i} |-> old[j]]
  <2>1. PICK i \in DOMAIN old : c = [j \in DOMAIN old \ {i} |-> old[j]]
    BY <1>1
  <2>2. DOMAIN c = DOMAIN old \ {i} /\ \A j \in DOMAIN c : c[j] = old[j]
    BY <2>1
  <2>3. c = [j \in DOMAIN c |-> c[j]]
    BY <2>1
  <2> QED BY <2>2, <2>3, <1>0 DEF old
<1>2. CASE \E i \in DOMAIN old : \E v \in {NoText, Version(i, n)} : c = [old EXCEPT ![i].value = v]
  <2>0. PICK i \in DOMAIN old : \E v \in {NoText, Version(i, n)} : c = [old EXCEPT ![i].value = v]
    BY <1>2
  <2>1. PICK v \in {NoText, Version(i, n)} : c = [old EXCEPT ![i].value = v]
    BY <2>0
  <2>2. DOMAIN c = DOMAIN old /\ c[i] = [old[i] EXCEPT !.value = v] /\ \A j \in DOMAIN old : j # i => c[j] = old[j]
    BY <2>1, <1>0
  <2>3. c = [j \in DOMAIN c |-> c[j]]
    BY <2>1, <1>0
  <2>4. IsOf(v, i)
    BY <1>v
  <2>5. old[i] = FieldOf(i, old[i].kind, old[i].value)
    BY <1>0 DEF IsField
  <2>6. c[i] = FieldOf(i, old[i].kind, v)
    BY <2>2, <2>5 DEF FieldOf
  <2>7. IsField(c[i], i) /\ c[i].kind = old[i].kind
    BY <2>4, <2>6 DEF IsField, FieldOf
  <2> QED BY <2>2, <2>3, <2>7, <1>0 DEF old
<1>3. CASE \E i \in CustomIds \ entry.ids : \E kind \in FieldKinds :
              c = [j \in DOMAIN old \cup {i} |-> IF j = i THEN FieldOf(i, kind, Version(i, n)) ELSE old[j]]
  <2>1. PICK i \in CustomIds \ entry.ids, kind \in FieldKinds :
              c = [j \in DOMAIN old \cup {i} |-> IF j = i THEN FieldOf(i, kind, Version(i, n)) ELSE old[j]]
    BY <1>3
  <2>2. DOMAIN c = DOMAIN old \cup {i} /\ c[i] = FieldOf(i, kind, Version(i, n)) /\ \A j \in DOMAIN old : c[j] = old[j]
    BY <2>1, <1>0
  <2>3. c = [j \in DOMAIN c |-> c[j]]
    BY <2>1
  <2>4. IsField(c[i], i)
    BY <2>2, <1>v DEF IsField, FieldOf
  <2> QED BY <2>2, <2>3, <2>4, <1>0 DEF old
<1> QED
  BY <1>c, <1>1, <1>2, <1>3

LEMMA ChangeItemKeeps == ReadInv /\ ChangeItem => ReadInv'
<1> SUFFICES ASSUME ReadInv, ChangeItem PROVE ReadInv'
  OBVIOUS
<1>0. readApp' = readApp /\ screen' = screen /\ given' = NoAnswer /\ changes' \in 0..MaxItemChanges /\ changes + 1 \in 0..MaxItemChanges
  <2>1. changes \in 0..MaxItemChanges /\ changes < MaxItemChanges /\ changes' = changes + 1 /\ MaxItemChanges \in Nat
    BY ReadingAssumption DEF ChangeItem, ReadInv
  <2>2. readApp' = readApp /\ screen' = screen /\ given' = NoAnswer
    BY DEF ChangeItem
  <2> QED BY <2>1, <2>2
<1>e. /\ entry = [type |-> entry.type, title |-> entry.title, username |-> entry.username, site |-> entry.site, tag |-> entry.tag,
                  provider |-> entry.provider, own |-> entry.own, custom |-> entry.custom, ids |-> entry.ids, history |-> entry.history]
      /\ entry.type \in ReadTypes /\ DOMAIN entry.own = OwnKeys(entry.type)
      /\ entry.title = Version("title", 0) /\ entry.username = Version("username", 0) /\ entry.site = Version("website", 0)
      /\ entry.tag = Version("tag", 0) /\ entry.provider = Version("provider", 0)
      /\ entry.own = [k \in OwnKeys(entry.type) |-> entry.own[k]]
      /\ \A k \in OwnKeys(entry.type) : IsOf(entry.own[k], k)
      /\ entry.custom = [i \in DOMAIN entry.custom |-> entry.custom[i]]
      /\ DOMAIN entry.custom \subseteq entry.ids /\ DOMAIN entry.custom \subseteq CustomIds
      /\ \A i \in DOMAIN entry.custom : IsField(entry.custom[i], i)
      /\ entry.history \in Seq(Versions("password"))
  BY DEF ReadInv, IsEntry
<1>1. CASE \E k \in DOMAIN entry.own : \E v \in {NoText, Version(k, changes + 1)} :
            entry' = [entry EXCEPT !.own[k] = v,
                         !.history = IF entry.type = "login" /\ k = "password" /\ Is(entry.own[k]) THEN <<entry.own[k]>> \o @ ELSE @]
  <2>0. PICK k \in DOMAIN entry.own : \E v \in {NoText, Version(k, changes + 1)} :
            entry' = [entry EXCEPT !.own[k] = v,
                         !.history = IF entry.type = "login" /\ k = "password" /\ Is(entry.own[k]) THEN <<entry.own[k]>> \o @ ELSE @]
    BY <1>1
  <2>1. PICK v \in {NoText, Version(k, changes + 1)} :
            entry' = [entry EXCEPT !.own[k] = v,
                         !.history = IF entry.type = "login" /\ k = "password" /\ Is(entry.own[k]) THEN <<entry.own[k]>> \o @ ELSE @]
    BY <2>0
  <2> DEFINE h == IF entry.type = "login" /\ k = "password" /\ Is(entry.own[k]) THEN <<entry.own[k]>> \o entry.history ELSE entry.history
             w == [entry.own EXCEPT ![k] = v]
  <2>2. h \in Seq(Versions("password"))
    <3>1. CASE k = "password" /\ Is(entry.own[k])
      <4>1. entry.own[k] \in Versions("password")
        BY <3>1, <1>e DEF IsOf, Is
      <4> QED BY <4>1, <1>e
    <3>2. CASE ~(k = "password" /\ Is(entry.own[k]))
      BY <3>2, <1>e
    <3> QED BY <3>1, <3>2
  <2>3. w = [j \in OwnKeys(entry.type) |-> w[j]] /\ w[k] = v /\ \A j \in OwnKeys(entry.type) : j # k => w[j] = entry.own[j]
    BY <1>e
  <2>4. IsOf(v, k)
    BY <1>0, <2>1, NextVersion
  <2>5. \A j \in OwnKeys(entry.type) : IsOf(w[j], j)
    BY <2>3, <2>4, <1>e
  <2>6. entry' = [entry EXCEPT !.own = w, !.history = h]
    BY <2>1
  <2> HIDE DEF h, w
  <2>7. /\ entry'.own = w /\ entry'.history = h /\ entry'.type = entry.type /\ entry'.custom = entry.custom /\ entry'.ids = entry.ids
        /\ entry'.title = entry.title /\ entry'.username = entry.username /\ entry'.site = entry.site
        /\ entry'.tag = entry.tag /\ entry'.provider = entry.provider
        /\ entry' = [type |-> entry'.type, title |-> entry'.title, username |-> entry'.username, site |-> entry'.site, tag |-> entry'.tag,
                  provider |-> entry'.provider, own |-> entry'.own, custom |-> entry'.custom, ids |-> entry'.ids, history |-> entry'.history]
    BY <2>6, <1>e
  <2>8. IsEntry(entry')
    BY <2>7, <2>2, <2>3, <2>5, <1>e DEF IsEntry
  <2>9. RowsFit(entry', screen.rows) /\ RowsOwn(readApp, entry'.type, screen.rows)
    BY <2>7 DEF ReadInv, RowsFit
  <2> QED BY <2>8, <2>9, <1>0, NoAnswerFits DEF ReadInv
<1>2. CASE \E c \in ChangedFields(entry.custom) : entry' = [entry EXCEPT !.custom = c, !.ids = @ \cup DOMAIN c]
  <2>1. PICK c \in ChangedFields(entry.custom) : entry' = [entry EXCEPT !.custom = c, !.ids = @ \cup DOMAIN c]
    BY <1>2
  <2>2. /\ entry'.own = entry.own /\ entry'.history = entry.history /\ entry'.type = entry.type /\ entry'.custom = c /\ entry'.ids = entry.ids \cup DOMAIN c
        /\ entry'.title = entry.title /\ entry'.username = entry.username /\ entry'.site = entry.site
        /\ entry'.tag = entry.tag /\ entry'.provider = entry.provider
        /\ entry' = [type |-> entry'.type, title |-> entry'.title, username |-> entry'.username, site |-> entry'.site, tag |-> entry'.tag,
                  provider |-> entry'.provider, own |-> entry'.own, custom |-> entry'.custom, ids |-> entry'.ids, history |-> entry'.history]
    BY <2>1, <1>e
  <2>3. /\ c = [i \in DOMAIN c |-> c[i]] /\ DOMAIN c \subseteq CustomIds
        /\ \A i \in DOMAIN c : IsField(c[i], i)
        /\ \A i \in DOMAIN c \cap entry.ids : i \in DOMAIN entry.custom /\ c[i].kind = entry.custom[i].kind
    BY <1>0, ChangedFieldsAre
  <2>4. IsEntry(entry')
    BY <2>2, <2>3, <1>e DEF IsEntry
  <2>5. RowsFit(entry', screen.rows)
    <3> SUFFICES ASSUME NEW row \in screen.rows, row.key \in CustomIds
                 PROVE  /\ row.key \in entry'.ids
                        /\ row.key \in DOMAIN c =>
                             /\ row.masked = IsConcealed(c[row.key].kind)
                             /\ IsConcealed(c[row.key].kind) => row.value = Sealed
      BY <2>2 DEF RowsFit
    <3>1. /\ row.key \in entry.ids
          /\ row.key \in DOMAIN entry.custom =>
                             /\ row.masked = IsConcealed(entry.custom[row.key].kind)
                             /\ IsConcealed(entry.custom[row.key].kind) => row.value = Sealed
      BY DEF ReadInv, RowsFit
    <3> QED BY <3>1, <2>2, <2>3
  <2> QED BY <2>2, <2>4, <2>5, <1>0, NoAnswerFits DEF ReadInv
<1> QED
  BY <1>1, <1>2 DEF ChangeItem

-----------------------------------------------------------------------------
\* Every row whose value did not travel can be asked for.
AnswerOf(a, it, row) ==
    LET g == Reveal(a, it, row.key) IN g.why \in {"ok", "not_found"} /\ (row.has => g.why = "ok")
RowsAnswered(a, it, shown) == \A row \in shown : row.value = Sealed => AnswerOf(a, it, row)

LEMMA ValuesAreNotSealed ==
    /\ \A k \in OtherKeys \cup CustomIds : \A v : IsOf(v, k) => v # Sealed
    /\ \A s \in SUBSET ((OtherKeys \cup CustomIds) \X (0..MaxItemChanges)) : <<"address", s>> # Sealed
    /\ NoText # Sealed
<1> DEFINE V == (OtherKeys \cup CustomIds) \X (0..MaxItemChanges)
<1>0. Sealed # NoText /\ Sealed \notin V /\ Sealed \notin {"address"} \X SUBSET V
  BY SealedAssumption
<1>1. \A k \in OtherKeys \cup CustomIds : Versions(k) \subseteq V
  BY DEF Versions, Version
<1>2. \A s \in SUBSET V : <<"address", s>> \in {"address"} \X SUBSET V
  OBVIOUS
<1> HIDE DEF V
<1>3. \A k \in OtherKeys \cup CustomIds : \A v : IsOf(v, k) => v # Sealed
  BY <1>0, <1>1 DEF IsOf
<1>4. \A s \in SUBSET V : <<"address", s>> # Sealed
  BY <1>0, <1>2
<1> QED
  BY <1>0, <1>3, <1>4 DEF V

LEMMA Whys ==
    ASSUME NEW v
    PROVE  /\ OrNotFound(v).why \in {"ok", "not_found"} /\ (Is(v) => OrNotFound(v).why = "ok")
           /\ HandsOut(v).why = "ok" /\ Refuses("not_found").why = "not_found"
BY DEF OrNotFound, HandsOut, Refuses

LEMMA TotpWhys ==
    ASSUME NEW f, f.kind = "otp"
    PROVE  FieldTotp(f).why \in {"ok", "not_found"} /\ (Is(f.value) => FieldTotp(f).why = "ok")
BY DEF FieldTotp, HandsOut, Refuses

LEMMA JoinAnswered ==
    ASSUME NEW a, NEW it, NEW r, NEW s, RowsAnswered(a, it, r), RowsAnswered(a, it, s)
    PROVE  RowsAnswered(a, it, r \cup s)
BY DEF RowsAnswered

\* On the phone no row of a custom field says that there is a value.
LEMMA PhoneCustomAnswered ==
    ASSUME NEW it, IsEntry(it)
    PROVE  RowsAnswered("phone", it, PhoneCustomRows(it))
<1> SUFFICES ASSUME NEW i \in DOMAIN it.custom, NEW row,
                    row = ScreenRow(i, IsConcealed(it.custom[i].kind), FALSE, Sealed)
             PROVE  AnswerOf("phone", it, row)
  BY DEF RowsAnswered, PhoneCustomRows
<1>1. row.key = i /\ row.has = FALSE
  BY DEF ScreenRow
<1>2. i \in CustomIds
  BY DEF IsEntry
<1>3. Reveal("phone", it, i) \in {IntoText(it.custom[i]), Refuses("not_found")}
  <2>1. ItemField(it, i).field = it.custom[i]
    BY DEF ItemField
  <2> QED BY <1>2, <2>1 DEF Reveal, PhoneReveal, OnField
<1>4. IntoText(it.custom[i]).why \in {"ok", "not_found"}
  BY TotpWhys, Whys DEF IntoText
<1>5. Reveal("phone", it, i).why \in {"ok", "not_found"}
  BY <1>3, <1>4, Whys
<1> QED
  BY <1>1, <1>5 DEF AnswerOf

LEMMA ViewsAnswered ==
    ASSUME NEW it, IsEntry(it), NEW a, a # "phone", CarriesFields(it.type)
    PROVE  RowsAnswered(a, it, Views(it))
<1> SUFFICES ASSUME NEW i \in DOMAIN it.custom, NEW row,
                    row = ScreenRow(i, IsConcealed(it.custom[i].kind), Is(it.custom[i].value),
                                    IF IsConcealed(it.custom[i].kind) THEN Sealed ELSE it.custom[i].value),
                    row.value = Sealed
             PROVE  AnswerOf(a, it, row)
  BY DEF RowsAnswered, Views
<1> DEFINE f == it.custom[i]
<1>1. row.key = i /\ row.has = Is(f.value) /\ (~IsConcealed(f.kind) => f.value = Sealed)
  BY DEF ScreenRow
<1>2. i \in CustomIds /\ IsOf(f.value, i)
  BY DEF IsEntry, IsField
<1>3. IsConcealed(f.kind)
  BY <1>1, <1>2, ValuesAreNotSealed
<1>4. ItemField(it, i).field = f /\ ItemField(it, i).found
  BY DEF ItemField
<1>5. Reveal(a, it, i) = IF f.kind = "otp" THEN FieldTotp(f) ELSE Concealed(f)
  BY <1>2, <1>4 DEF Reveal, DesktopReveal, OnField
<1>6. CASE f.kind = "otp"
  BY <1>1, <1>5, <1>6, TotpWhys DEF AnswerOf
<1>7. CASE f.kind = "password"
  <2>1. Reveal(a, it, i) = OrNotFound(f.value)
    BY <1>5, <1>7 DEF Concealed
  <2> QED BY <1>1, <2>1, Whys DEF AnswerOf
<1> QED
  BY <1>3, <1>6, <1>7 DEF IsConcealed

\* A login's own rows are those it has a value for.
LEMMA LoginRowsAnswered ==
    ASSUME NEW it, IsEntry(it), it.type = "login", NEW a, NEW masked
    PROVE  RowsAnswered(a, it, OwnRows(Overview(it), masked))
<1>1. Overview(it).has = {k \in DOMAIN it.own : Is(it.own[k])} \cap {"password", "totp", "notes"}
  BY DEF Overview
<1> SUFFICES ASSUME NEW k \in Overview(it).has, NEW row, row = ScreenRow(k, k \in masked, TRUE, Sealed)
             PROVE  AnswerOf(a, it, row)
  BY DEF RowsAnswered, OwnRows
<1>2. row.key = k
  BY DEF ScreenRow
<1>3. Is(it.own[k]) /\ k \in {"password", "totp", "notes"}
  BY <1>1
<1>4. k \notin CustomIds /\ k \notin OwnKeys("card")
  BY <1>3, ReadingAssumption DEF OtherKeys, OwnKeys
<1>5. CASE k = "totp"
  <2>1. Reveal(a, it, k) = HandsOut(Code("totp"))
    BY <1>3, <1>4, <1>5 DEF Reveal, PhoneReveal, DesktopReveal, TotpCode
  <2> QED BY <1>2, <2>1, Whys DEF AnswerOf
<1>6. CASE k \in {"password", "notes"}
  <2>1. Reveal(a, it, k) = RevealSecret(it, k)
    BY <1>4, <1>6 DEF Reveal, PhoneReveal, DesktopReveal
  <2>2. <<it.type, k>> \in {<<"login", "password">>, <<"login", "notes">>}
    BY <1>6
  <2>3. RevealSecret(it, k) = OrNotFound(it.own[k])
    BY <2>2 DEF RevealSecret
  <2> QED BY <1>2, <1>3, <2>1, <2>3, Whys DEF AnswerOf
<1> QED
  BY <1>3, <1>5, <1>6

\* A row with its value is not asked for.
LEMMA OpenAnswered ==
    ASSUME NEW it, IsEntry(it), NEW a, NEW ks, ks \subseteq OwnKeys(it.type)
    PROVE  RowsAnswered(a, it, OpenRows(it, ks))
<1>1. \A k \in ks : it.own[k] # Sealed
  BY OwnKeysAre, ValuesAreNotSealed DEF IsEntry
<1>2. \A row \in OpenRows(it, ks) : row.value # Sealed
  BY <1>1 DEF OpenRows, ScreenRow
<1> QED
  BY <1>2 DEF RowsAnswered

LEMMA OneOpenAnswered ==
    ASSUME NEW it, NEW a, NEW k, NEW masked, NEW has, NEW v, v # Sealed
    PROVE  RowsAnswered(a, it, {ScreenRow(k, masked, has, v)})
<1>1. \A row \in {ScreenRow(k, masked, has, v)} : row.value = v
  BY RowIs
<1> QED BY <1>1 DEF RowsAnswered

\* Values of a card or an account, one at a time.
LEMMA OwnValueAnswers ==
    ASSUME NEW it, IsEntry(it), NEW a, NEW k \in OwnKeys(it.type),
           it.type = "bank" \/ it.type = "card" \/ (it.type = "identity" /\ a = "phone")
    PROVE  Reveal(a, it, k) = OrNotFound(it.own[k])
<1>1. k \notin CustomIds /\ k # "totp"
  BY OwnKeysAre, ReadingAssumption DEF IsEntry, OwnKeys, FilledNames
<1>2. ValueOf(it, it.type, k) = OrNotFound(it.own[k])
  BY DEF ValueOf
<1>3. CASE it.type \in {"bank", "card"}
  <2>1. PhoneReveal(it, k) = ValueOf(it, it.type, k)
    BY <1>1, <1>3 DEF PhoneReveal
  <2>2. DesktopReveal(it, k) = ValueOf(it, it.type, k)
    BY <1>1, <1>3 DEF DesktopReveal
  <2> QED BY <2>1, <2>2, <1>2 DEF Reveal
<1>4. CASE it.type = "identity" /\ a = "phone"
  <2>1. k \in IdentityField /\ k \notin OwnKeys("card")
    BY <1>4 DEF OwnKeys, IdentityField, FilledNames
  <2>2. PhoneReveal(it, k) = ValueOf(it, it.type, k)
    BY <1>1, <1>4, <2>1 DEF PhoneReveal
  <2> QED BY <2>2, <1>2, <1>4 DEF Reveal
<1> QED
  BY <1>3, <1>4

LEMMA MaskedAnswered ==
    ASSUME NEW it, IsEntry(it), NEW a, it.type = "bank" \/ it.type = "card", NEW ks, ks \subseteq OwnKeys(it.type)
    PROVE  RowsAnswered(a, it, MaskedRows(it, ks))
<1> SUFFICES ASSUME NEW k \in ks, NEW row, row = ScreenRow(k, TRUE, Is(it.own[k]), Sealed)
             PROVE  AnswerOf(a, it, row)
  BY DEF RowsAnswered, MaskedRows
<1>1. row.key = k /\ row.has = Is(it.own[k])
  BY DEF ScreenRow
<1>2. Reveal(a, it, k) = OrNotFound(it.own[k])
  BY OwnValueAnswers
<1> QED
  BY <1>1, <1>2, Whys DEF AnswerOf

LEMMA AddressIsNotSealed ==
    ASSUME NEW it, IsEntry(it)
    PROVE  FormattedAddress(it) # Sealed
<1> DEFINE parts == {k \in AddressOf \cap DOMAIN it.own : Is(it.own[k])}
           s == {it.own[k] : k \in parts}
           V == (OtherKeys \cup CustomIds) \X (0..MaxItemChanges)
<1>1. \A k \in parts : k \in OtherKeys /\ it.own[k] \in Versions(k)
  BY OwnKeysAre DEF IsEntry, IsOf, Is
<1>2. \A k \in OtherKeys : Versions(k) \subseteq V
  BY DEF Versions, Version
<1>3. FormattedAddress(it) = IF parts = {} THEN NoText ELSE <<"address", s>>
  BY DEF FormattedAddress
<1> HIDE DEF parts, V
<1>4. s \in SUBSET V
  BY <1>1, <1>2
<1> HIDE DEF s
<1>5. <<"address", s>> # Sealed /\ NoText # Sealed
  BY <1>4, ValuesAreNotSealed DEF V
<1> QED
  BY <1>3, <1>5

LEMMA NoteContentAnswered ==
    ASSUME NEW it, it.type = "note", NEW a
    PROVE  RowsAnswered(a, it, {ScreenRow("content", FALSE, TRUE, Sealed)})
<1>1. "content" \notin CustomIds /\ "content" \notin OwnKeys("card")
  BY ReadingAssumption DEF OtherKeys, OwnKeys
<1>2. Reveal(a, it, "content") = RevealSecret(it, "content")
  BY <1>1 DEF Reveal, PhoneReveal, DesktopReveal
<1>3. ~ <<it.type, "content">> \in {<<"login", "password">>, <<"login", "notes">>} /\ <<it.type, "content">> = <<"note", "content">>
  OBVIOUS
<1>4. RevealSecret(it, "content") = HandsOut(it.own["content"])
  BY <1>3 DEF RevealSecret
<1>5. \A row \in {ScreenRow("content", FALSE, TRUE, Sealed)} : row.key = "content"
  BY DEF ScreenRow
<1> QED
  BY <1>2, <1>4, <1>5, Whys DEF RowsAnswered, AnswerOf

LEMMA PhoneViewAnswered ==
    ASSUME NEW it, IsEntry(it)
    PROVE  RowsAnswered("phone", it, ItemView(it))
<1>t. it.type \in {"login", "note", "identity", "card", "bank"} /\ DOMAIN it.own = OwnKeys(it.type)
  BY DEF IsEntry, ReadTypes
<1>1. CASE it.type = "login"
  <2> DEFINE o == Overview(it)
             P == {q \in {<<"username", o.username>>, <<"website", o.site>>} : Is(q[2])}
             S == {ScreenRow(p[1], FALSE, TRUE, p[2]) : p \in P}
  <2>1. ItemView(it) = S \cup OwnRows(o, {"password", "notes"}) \cup PhoneCustomRows(it)
    BY <1>1 DEF ItemView
  <2>2. o.username = Version("username", 0) /\ o.site = Version("website", 0)
    BY <1>1 DEF Overview, IsEntry
  <2>3. o.username # Sealed /\ o.site # Sealed
    BY <2>2, FirstVersion, ValuesAreNotSealed DEF OtherKeys
  <2>4. RowsAnswered("phone", it, OwnRows(o, {"password", "notes"}))
    BY <1>1, LoginRowsAnswered
  <2> HIDE DEF o
  <2>5. \A p \in P : p[2] # Sealed
    BY <2>3
  <2> HIDE DEF P
  <2>6. \A row \in S : row.value # Sealed
    BY <2>5 DEF ScreenRow
  <2> HIDE DEF S
  <2>7. RowsAnswered("phone", it, S)
    BY <2>6 DEF RowsAnswered
  <2>8. RowsAnswered("phone", it, S \cup OwnRows(o, {"password", "notes"}))
    BY <2>4, <2>7, JoinAnswered
  <2>9. RowsAnswered("phone", it, PhoneCustomRows(it))
    BY PhoneCustomAnswered
  <2> QED BY <2>1, <2>8, <2>9, JoinAnswered
<1>2. CASE it.type = "note"
  BY <1>2, NoteContentAnswered, PhoneCustomAnswered, JoinAnswered DEF ItemView
<1>3. CASE it.type = "card"
  <2> SUFFICES ASSUME NEW k \in OwnKeys("card"), NEW row,
                      row = ScreenRow(k, k \in {"card.number", "card.code", "card.notes"}, FALSE, Sealed)
               PROVE  AnswerOf("phone", it, row)
    BY <1>3 DEF RowsAnswered, ItemView
  <2>1. row.key = k /\ row.has = FALSE
    BY DEF ScreenRow
  <2>2. Reveal("phone", it, k) = OrNotFound(it.own[k])
    BY <1>3, OwnValueAnswers
  <2> QED BY <2>1, <2>2, Whys DEF AnswerOf
<1>4. CASE it.type = "identity"
  <2> SUFFICES ASSUME NEW k \in FilledNames \cap DOMAIN it.own, Is(it.own[k]), NEW row,
                      row = ScreenRow(k, k \in Documents, TRUE, Sealed)
               PROVE  AnswerOf("phone", it, row)
    BY <1>4 DEF RowsAnswered, ItemView
  <2>1. row.key = k
    BY DEF ScreenRow
  <2>2. Reveal("phone", it, k) = OrNotFound(it.own[k])
    BY <1>t, <1>4, OwnValueAnswers
  <2> QED BY <2>1, <2>2, Whys DEF AnswerOf
<1>5. CASE it.type = "bank"
  <2>1. {"bank", "holder", "branch", "branchDigit"} \subseteq OwnKeys(it.type) /\ {"account", "password", "notes"} \subseteq OwnKeys(it.type)
    BY <1>5 DEF OwnKeys
  <2> QED BY <1>5, <2>1, OpenAnswered, MaskedAnswered, PhoneCustomAnswered, JoinAnswered DEF ItemView, BankView
<1> QED
  BY <1>t, <1>1, <1>2, <1>3, <1>4, <1>5

LEMMA DesktopViewAnswered ==
    ASSUME NEW it, IsEntry(it), NEW a, a # "phone"
    PROVE  RowsAnswered(a, it, DesktopView(it))
<1>t. it.type \in {"login", "note", "identity", "card", "bank"} /\ DOMAIN it.own = OwnKeys(it.type)
  BY DEF IsEntry, ReadTypes
<1>1. CASE it.type = "login"
  <2>1. Overview(it).username = Version("username", 0)
    BY <1>1 DEF Overview, IsEntry
  <2>2. Overview(it).username # Sealed
    BY <2>1, FirstVersion, ValuesAreNotSealed DEF OtherKeys
  <2>3. RowsAnswered(a, it, Views(it))
    BY <1>1, ViewsAnswered DEF CarriesFields
  <2> QED BY <1>1, <2>2, <2>3, OneOpenAnswered, LoginRowsAnswered, JoinAnswered DEF DesktopView
<1>2. CASE it.type = "note"
  <2>1. RowsAnswered(a, it, Views(it))
    BY <1>2, ViewsAnswered DEF CarriesFields
  <2> QED BY <1>2, <2>1, NoteContentAnswered, JoinAnswered DEF DesktopView
<1>3. CASE it.type = "card"
  <2>1. {"card.holder", "card.expiry", "card.notes"} \subseteq OwnKeys(it.type) /\ {"card.number", "card.code"} \subseteq OwnKeys(it.type)
    BY <1>3 DEF OwnKeys
  <2> QED BY <1>3, <2>1, OpenAnswered, MaskedAnswered, JoinAnswered DEF DesktopView, RevealCard
<1>4. CASE it.type = "identity"
  <2>1. RowsAnswered(a, it, OpenRows(it, DOMAIN it.own))
    BY <1>t, OpenAnswered
  <2>2. RowsAnswered(a, it, {ScreenRow("address", FALSE, Is(FormattedAddress(it)), FormattedAddress(it))})
    BY AddressIsNotSealed, OneOpenAnswered
  <2> QED BY <1>4, <2>1, <2>2, JoinAnswered DEF DesktopView, RevealIdentity
<1>5. CASE it.type = "bank"
  <2>1. {"bank", "holder", "branch", "branchDigit", "notes"} \subseteq OwnKeys(it.type) /\ {"account", "password"} \subseteq OwnKeys(it.type)
    BY <1>5 DEF OwnKeys
  <2>2. RowsAnswered(a, it, Views(it))
    BY <1>5, ViewsAnswered DEF CarriesFields
  <2> QED BY <1>5, <2>1, <2>2, OpenAnswered, MaskedAnswered, JoinAnswered DEF DesktopView, RevealBank
<1> QED
  BY <1>t, <1>1, <1>2, <1>3, <1>4, <1>5

LEMMA AllRowsAnswered == ReadInv => RowsAreAnswered
<1> SUFFICES ASSUME ReadInv PROVE RowsAreAnswered
  OBVIOUS
<1>1. RowsAnswered(readApp, entry, View(readApp, entry))
  BY PhoneViewAnswered, DesktopViewAnswered DEF ReadInv, View
<1> QED
  BY <1>1 DEF RowsAreAnswered, RowsAnswered, AnswerOf

\* The words of the list and of the search are of other fields than those
\* that stay sealed.
SecretKeys == {"password", "totp", "account", "accountDigit", "card.number", "card.code", "content"} \cup Documents \cup CustomIds
ShownKeys == {"title", "tag", "provider", "last4", "username", "website", "email", "bank", "branch"}

LEMMA ShownIsNoSecret ==
    ASSUME NEW k \in ShownKeys, NEW v, v = NoText \/ v \in Versions(k)
    PROVE  \A j \in SecretKeys : \A n \in 0..MaxItemChanges : v # Version(j, n)
<1>1. k \in OtherKeys /\ k \notin {"password", "totp", "account", "accountDigit", "card.number", "card.code", "content"} \cup Documents
  BY DEF ShownKeys, OtherKeys, Documents, FilledNames
<1>2. k \notin SecretKeys
  BY <1>1, ReadingAssumption DEF SecretKeys
<1> SUFFICES ASSUME NEW j \in SecretKeys, NEW n \in 0..MaxItemChanges PROVE v # Version(j, n)
  OBVIOUS
<1>3. CASE v = NoText
  BY <1>3 DEF NoText, Version
<1>4. CASE v \in Versions(k)
  <2>1. v[1] = k
    BY <1>4 DEF Versions, Version
  <2>2. Version(j, n)[1] = j
    BY DEF Version
  <2> QED BY <1>2, <2>1, <2>2
<1> QED
  BY <1>3, <1>4

LEMMA OverviewShows ==
    ASSUME NEW it, IsEntry(it), NEW v,
           v \in {Overview(it).title, Overview(it).username, Overview(it).tag, Overview(it).site,
                  Overview(it).provider, Overview(it).last4} \cup Overview(it).bank
    PROVE  \E k \in ShownKeys : v = NoText \/ v \in Versions(k)
<1> DEFINE o == Overview(it)
<1>0. /\ \A k \in OwnKeys(it.type) : IsOf(it.own[k], k)
      /\ DOMAIN it.own = OwnKeys(it.type)
      /\ it.title = Version("title", 0) /\ it.username = Version("username", 0) /\ it.site = Version("website", 0)
      /\ it.tag = Version("tag", 0) /\ it.provider = Version("provider", 0)
  BY DEF IsEntry
<1>z. \A k : Version(k, 0) \in Versions(k)
  BY ReadingAssumption DEF Versions
<1>k. \A k \in {"title", "tag", "provider", "last4", "username", "website", "email", "bank", "branch"} : k \in ShownKeys
  BY DEF ShownKeys
<1>1. o.title = it.title /\ o.tag = it.tag
  BY DEF Overview
<1>2. o.site = NoText \/ o.site = it.site
  BY DEF Overview
<1>3. o.provider = NoText \/ o.provider = it.provider
  BY DEF Overview
<1>4. o.last4 = NoText \/ o.last4 = Version("last4", 0)
  BY DEF Overview, Version
<1>5. o.username = NoText \/ o.username = it.username \/ ("email" \in DOMAIN it.own /\ o.username = it.own["email"])
  <2>1. o.username = CASE it.type = "login" -> it.username
                       [] it.type = "identity" /\ "email" \in DOMAIN it.own -> it.own["email"]
                       [] OTHER -> NoText
    BY DEF Overview
  <2> HIDE DEF o
  <2>2. CASE it.type = "login"
    BY <2>1, <2>2
  <2>3. CASE it.type = "identity" /\ "email" \in DOMAIN it.own
    BY <2>1, <2>3
  <2>4. CASE it.type # "login" /\ ~(it.type = "identity" /\ "email" \in DOMAIN it.own)
    BY <2>1, <2>4
  <2> QED BY <2>2, <2>3, <2>4
<1>6. \A w \in o.bank : it.type = "bank" /\ w \in {it.own["bank"], it.own["branch"]}
  BY DEF Overview
<1>7. it.type = "bank" => "bank" \in OwnKeys(it.type) /\ "branch" \in OwnKeys(it.type)
  BY DEF OwnKeys
<1>8. v \in {o.title, o.username, o.tag, o.site, o.provider, o.last4} \/ v \in o.bank
  OBVIOUS
<1> HIDE DEF o
<1>9. CASE v \in {o.title, o.tag, o.site, o.provider, o.last4}
  BY <1>9, <1>0, <1>1, <1>2, <1>3, <1>4, <1>z, <1>k
<1>10. CASE v = o.username
  BY <1>10, <1>0, <1>5, <1>z, <1>k DEF IsOf
<1>11. CASE v \in o.bank
  BY <1>11, <1>0, <1>6, <1>7, <1>k DEF IsOf
<1> QED
  BY <1>8, <1>9, <1>10, <1>11

LEMMA SealedStay == ReadInv => SealedStaySealed
<1> SUFFICES ASSUME ReadInv PROVE SealedStaySealed
  OBVIOUS
<1> DEFINE o == Overview(entry)
           secret == {Version(k, n) : k \in SecretKeys, n \in 0..MaxItemChanges}
           words == {o.title, o.username, o.tag, o.site, o.provider, o.last4} \cup o.bank
<1>0. IsEntry(entry)
  BY DEF ReadInv
<1>1. \A v \in words : v \notin secret
  <2> SUFFICES ASSUME NEW v \in words PROVE v \notin secret
    OBVIOUS
  <2>1. \E k \in ShownKeys : v = NoText \/ v \in Versions(k)
    BY <1>0, OverviewShows
  <2>2. \A j \in SecretKeys : \A n \in 0..MaxItemChanges : v # Version(j, n)
    BY <2>1, ShownIsNoSecret
  <2> QED BY <2>2
<1>2. NoText \notin secret
  BY DEF Version, NoText
<1>3. SearchWords(o) \subseteq words
  BY DEF SearchWords
<1>4. Summary(o).subtitle \in {o.username, o.last4, NoText}
  <2>1. Summary(o).subtitle = CASE o.type = "login" -> o.username [] o.type = "card" -> o.last4 [] OTHER -> NoText
    BY DEF Summary
  <2> HIDE DEF o
  <2>2. CASE o.type = "login"
    BY <2>1, <2>2
  <2>3. CASE o.type = "card"
    BY <2>1, <2>3
  <2>4. CASE o.type # "login" /\ o.type # "card"
    BY <2>1, <2>4
  <2> QED BY <2>2, <2>3, <2>4
<1>5. SearchWords(o) \cap secret = {} /\ {Summary(o).subtitle} \cap secret = {}
  <2>1. o.username \in words /\ o.last4 \in words
    OBVIOUS
  <2> HIDE DEF secret, words, o
  <2> QED BY <1>1, <1>2, <1>3, <1>4, <2>1
<1>6. \A row \in screen.rows : row.masked => row.value = Sealed
  BY DEF ReadInv, RowsMasked
<1> HIDE DEF o
<1> QED
  BY <1>5, <1>6 DEF SealedStaySealed, SecretKeys, o

LEMMA Summaries == SummariesHide
<1> SUFFICES ASSUME NEW n \in 1..20, NEW d \in 0..2
             PROVE  CardSummary(n) \in {0, 4} /\ CardSummary(n) + 8 <= (IF CardSummary(n) = 0 THEN 8 ELSE n)
                    /\ BankSummary(n, d) <= 3 /\ (BankSummary(n, d) > 0 => n + d - BankSummary(n, d) >= 1)
  BY DEF SummariesHide
<1>1. CardSummary(n) \in {0, 4} /\ CardSummary(n) + 8 <= (IF CardSummary(n) = 0 THEN 8 ELSE n)
  BY DEF CardSummary, MinForLast4
<1>2. BankSummary(n, d) <= 3 /\ (BankSummary(n, d) > 0 => n + d - BankSummary(n, d) >= 1)
  BY DEF BankSummary, MinForLast3
<1> QED
  BY <1>1, <1>2

\* However old a screen is, and whatever another device did to the item since
\* it was opened: every row can be asked for and a row that says there is a
\* value gets it; the value handed out is of the field that was asked for, or
\* its code; each custom field that the item still has stays masked, or not,
\* as its kind says; and no secret leaves with the list, the search or a
\* masked row (vault.rs, mobile items.rs, desktop commands).
THEOREM ReadingIsTrueHolds == ReadSpec => []ReadingIsTrue
<1>1. ReadInv /\ [ReadNext]_readVars => ReadInv'
  <2> SUFFICES ASSUME ReadInv, [ReadNext]_readVars PROVE ReadInv'
    OBVIOUS
  <2>1. CASE UNCHANGED readVars
    BY <2>1 DEF readVars, ReadInv, AnswersTheAsked
  <2> QED
    BY <2>1, OpenScreenKeeps, AskValueKeeps, OtherCallsKeep, LockOrMoveKeeps, ChangeItemKeeps DEF ReadNext
<1>2. ReadInv => AnswersTheAsked /\ MasksStay
  <2> SUFFICES ASSUME ReadInv, NEW row \in screen.rows, row.key \in DOMAIN entry.custom
               PROVE  LET secret == entry.custom[row.key].kind \in {"password", "otp"} IN
                      row.masked = secret /\ (secret => row.value = Sealed)
    BY DEF MasksStay, ReadInv
  <2>1. row.key \in CustomIds
    BY DEF ReadInv, IsEntry
  <2> QED BY <2>1 DEF ReadInv, RowsFit, IsConcealed
<1>3. ReadInv => ReadingIsTrue
  BY <1>2, AllRowsAnswered, SealedStay, Summaries DEF ReadingIsTrue
<1> QED
  BY ReadInvInit, <1>1, <1>3, PTL DEF ReadSpec

-----------------------------------------------------------------------------
(* Values: the number of a day, for every date from the year 1 on.          *)

\* The days before the first of March of a year, from the formula.
EraDays(era, yoe) == era * 146097 + (yoe * 365 + yoe \div 4 - yoe \div 100)
YearDays(y) == EraDays(y \div 400, y - (y \div 400) * 400)
MonthDays(m) == (153 * ((m + 9) % 12) + 2) \div 5
IsLeap(y) == (y % 4 = 0 /\ y % 100 # 0) \/ y % 400 = 0

\* A year that ends with a leap day has 366 days, any other 365: the carry from
\* the last day of February to the first of March.
LEMMA YearStep ==
    ASSUME NEW y \in Nat
    PROVE  YearDays(y + 1) = YearDays(y) + (IF IsLeap(y + 1) THEN 366 ELSE 365)
<1> DEFINE e == y \div 400
           r == y - e * 400
<1>1. e \in Nat /\ r \in 0..399 /\ y = 400 * e + r
  OBVIOUS
<1> HIDE DEF e, r
<1>2. CASE r < 399
  <2>1. (y + 1) \div 400 = e /\ (y + 1) - ((y + 1) \div 400) * 400 = r + 1
    BY <1>1, <1>2
  <2>2. (y + 1) % 4 = (r + 1) % 4 /\ (y + 1) % 100 = (r + 1) % 100 /\ (y + 1) % 400 = r + 1
    BY <1>1, <1>2
  <2>3. YearDays(y) = EraDays(e, r)
    BY DEF YearDays, e, r
  <2>4. YearDays(y + 1) = EraDays(e, r + 1)
    BY <2>1 DEF YearDays
  <2>5. (r + 1) \div 4 - (r + 1) \div 100 - (r \div 4 - r \div 100)
          = IF (r + 1) % 4 = 0 /\ (r + 1) % 100 # 0 THEN 1 ELSE 0
    BY <1>1, <1>2
  <2>6. IsLeap(y + 1) <=> (r + 1) % 4 = 0 /\ (r + 1) % 100 # 0
    BY <1>1, <1>2, <2>2 DEF IsLeap
  <2> QED BY <1>1, <1>2, <2>3, <2>4, <2>5, <2>6 DEF EraDays
<1>3. CASE r = 399
  <2>1. (y + 1) \div 400 = e + 1 /\ (y + 1) - ((y + 1) \div 400) * 400 = 0
    BY <1>1, <1>3
  <2>2. (y + 1) % 400 = 0
    BY <1>1, <1>3
  <2>3. YearDays(y) = EraDays(e, 399)
    BY <1>3 DEF YearDays, e, r
  <2>4. YearDays(y + 1) = EraDays(e + 1, 0)
    BY <2>1 DEF YearDays
  <2> QED BY <1>1, <2>2, <2>3, <2>4 DEF IsLeap, EraDays
<1> QED BY <1>1, <1>2, <1>3

\* The polynomial over months gives the days before each month, counted from March.
LEMMA MonthTable ==
    /\ MonthDays(3) = 0 /\ MonthDays(4) = 31 /\ MonthDays(5) = 61 /\ MonthDays(6) = 92
    /\ MonthDays(7) = 122 /\ MonthDays(8) = 153 /\ MonthDays(9) = 184 /\ MonthDays(10) = 214
    /\ MonthDays(11) = 245 /\ MonthDays(12) = 275 /\ MonthDays(1) = 306 /\ MonthDays(2) = 337
BY DEF MonthDays

\* days_from_civil is the days before the year, before the month and of the month.
LEMMA CivilIs ==
    ASSUME NEW t, t.y \in Int, t.m \in 1..12, t.d \in Int
    PROVE  DaysFromCivil(t) = YearDays(IF t.m <= 2 THEN t.y - 1 ELSE t.y) + (MonthDays(t.m) + t.d - 1) - 719468
<1> DEFINE y == IF t.m <= 2 THEN t.y - 1 ELSE t.y
           era == y \div 400
           yoe == y - era * 400
           M == MonthDays(t.m)
<1>1. DaysFromCivil(t) = era * 146097 + (yoe * 365 + yoe \div 4 - yoe \div 100 + (M + t.d - 1)) - 719468
  BY SMTT(10) DEF DaysFromCivil, MonthDays
<1>2. YearDays(y) = EraDays(era, yoe)
  BY SMTT(10) DEF YearDays
<1>3. y \in Int
  OBVIOUS
<1>4. M \in Int
  BY DEF MonthDays
<1> HIDE DEF y, M
<1>5. era \in Int /\ yoe \in Int
  BY <1>3
<1>6. yoe \div 4 \in Int /\ yoe \div 100 \in Int
  BY <1>5
<1> HIDE DEF era, yoe
<1>7. DaysFromCivil(t) = EraDays(era, yoe) + (M + t.d - 1) - 719468
  BY <1>1, <1>4, <1>5, <1>6, SMTT(10) DEF EraDays
<1> QED
  BY <1>2, <1>7, SMTT(10) DEF M, y

\* The months that days_in_month gives 31, 30 and 28 or 29 days.
LEMMA MonthLengths ==
    ASSUME NEW y \in Nat, NEW m \in 1..12
    PROVE  /\ m \in {1, 3, 5, 7, 8, 10, 12} => DaysInMonth(y, m) = 31
           /\ m \in {4, 6, 9, 11} => DaysInMonth(y, m) = 30
           /\ m = 2 => DaysInMonth(y, m) = IF IsLeap(y) THEN 29 ELSE 28
           /\ DaysInMonth(y, m) \in 28..31
<1>1. CASE m \in {1, 3, 5, 7, 8, 10, 12}
  BY <1>1 DEF DaysInMonth
<1>2. CASE m \in {4, 6, 9, 11}
  BY <1>2 DEF DaysInMonth
<1>3. CASE m = 2 /\ IsLeap(y)
  BY <1>3 DEF DaysInMonth, IsLeap
<1>4. CASE m = 2 /\ ~IsLeap(y)
  BY <1>4 DEF DaysInMonth, IsLeap
<1> QED BY <1>1, <1>2, <1>3, <1>4

Number(y, m, d) == YearDays(IF m <= 2 THEN y - 1 ELSE y) + (MonthDays(m) + d - 1) - 719468

\* The days before a year are a whole number.
LEMMA YearDaysTyped == ASSUME NEW y \in Nat PROVE YearDays(y) \in Int
<1> DEFINE e == y \div 400
           r == y - e * 400
<1>1. e \in Int /\ r \in Int
  OBVIOUS
<1>2. YearDays(y) = EraDays(e, r)
  BY DEF YearDays
<1> HIDE DEF e, r
<1>3. r \div 4 \in Int /\ r \div 100 \in Int
  BY <1>1
<1>4. EraDays(e, r) \in Int
  BY <1>1, <1>3, SMTT(10) DEF EraDays
<1> QED BY <1>2, <1>4, SMTT(10)

\* One more day, wherever in the year.
LEMMA NextDayStep ==
    ASSUME NEW y \in Nat \ {0}, NEW m \in 1..12, NEW d \in 1..DaysInMonth(y, m)
    PROVE  /\ d < DaysInMonth(y, m) => Number(y, m, d + 1) = Number(y, m, d) + 1
           /\ d = DaysInMonth(y, m) /\ m < 12 => Number(y, m + 1, 1) = Number(y, m, d) + 1
           /\ d = DaysInMonth(y, m) /\ m = 12 => Number(y + 1, 1, 1) = Number(y, m, d) + 1
<1>0. y - 1 \in Nat /\ YearDays(y - 1) \in Int /\ YearDays(y) \in Int /\ y \in Nat /\ (y + 1) - 1 = y /\ (y - 1) + 1 = y
  BY YearDaysTyped
<1>1. YearDays(y) = YearDays(y - 1) + (IF IsLeap(y) THEN 366 ELSE 365)
  BY <1>0, YearStep
<1>2. d \in Int
  BY <1>0, MonthLengths
<1>3. ASSUME d < DaysInMonth(y, m) PROVE Number(y, m, d + 1) = Number(y, m, d) + 1
  <2>1. MonthDays(m) \in Int
    BY DEF MonthDays
  <2> QED BY <1>0, <1>2, <2>1, SMTT(10) DEF Number
<1>4. ASSUME d = DaysInMonth(y, m), m = 12 PROVE Number(y + 1, 1, 1) = Number(y, m, d) + 1
  <2>1. d = 31
    BY <1>0, <1>4, MonthLengths
  <2> QED BY <1>0, <1>4, <2>1, MonthTable, SMTT(10) DEF Number
<1>5. ASSUME d = DaysInMonth(y, m), m = 2 PROVE Number(y, m + 1, 1) = Number(y, m, d) + 1
  <2>1. d = IF IsLeap(y) THEN 29 ELSE 28
    BY <1>0, <1>5, MonthLengths
  <2>2. Number(y, 3, 1) = YearDays(y) + 0 - 719468
    BY <1>0, MonthTable, SMTT(10) DEF Number
  <2>3. Number(y, 2, d) = YearDays(y - 1) + (336 + d) - 719468
    BY <1>0, <1>2, MonthTable, SMTT(10) DEF Number
  <2>4. m + 1 = 3
    BY <1>5
  <2> QED BY <1>0, <1>1, <1>2, <1>5, <2>1, <2>2, <2>3, <2>4, SMTT(10)
<1>6. ASSUME d = DaysInMonth(y, m), m # 2, m < 12 PROVE Number(y, m + 1, 1) = Number(y, m, d) + 1
  <2>1. MonthDays(m + 1) = MonthDays(m) + d /\ MonthDays(m) \in Int
    BY <1>0, <1>6, MonthLengths, MonthTable, SMTT(10)
  <2>2. m <= 2 <=> m + 1 <= 2
    BY <1>6
  <2> QED BY <1>0, <1>2, <2>1, <2>2, SMTT(10) DEF Number
<1> QED BY <1>3, <1>4, <1>5, <1>6, SMTT(10)

\* Every date there is, from the year 1 on.
EveryDate == {t \in [y : Nat \ {0}, m : 1..12, d : 1..31] : ParsesYmd(t)}

\* The day number identity.rs computes with shifts of eras and a polynomial over
\* months (days_from_civil) counts days: for every date from the year 1 on, the
\* next date of the calendar, with the month lengths and leap years days_in_month
\* gives, has the next number, and 1970-01-01 has number 0.
THEOREM DaysAreCounted == ASSUME Dates \subseteq EveryDate PROVE DaysCount
<1>1. ASSUME NEW y \in Int, NEW m \in 1..12, NEW d \in Int
      PROVE  DaysFromCivil([y |-> y, m |-> m, d |-> d]) = Number(y, m, d)
  <2> DEFINE t == [y |-> y, m |-> m, d |-> d]
  <2>1. t.y = y /\ t.m = m /\ t.d = d
    OBVIOUS
  <2> HIDE DEF t
  <2>2. DaysFromCivil(t) = YearDays(IF t.m <= 2 THEN t.y - 1 ELSE t.y) + (MonthDays(t.m) + t.d - 1) - 719468
    BY <2>1, CivilIs, SMTT(10)
  <2>3. DaysFromCivil(t) = Number(y, m, d)
    BY <2>1, <2>2, SMTT(10) DEF Number
  <2> QED BY <2>3, SMTT(10) DEF t
<1>2. Number(1970, 1, 1) = 0
  <2>1. 1969 \div 400 = 4 /\ 1969 - 4 * 400 = 369
    BY SMTT(10)
  <2>2. YearDays(1969) = EraDays(4, 369)
    BY <2>1, SMTT(10) DEF YearDays
  <2> QED BY <2>2, MonthTable, SMTT(10) DEF Number, EraDays
<1>3. DaysFromCivil([y |-> 1970, m |-> 1, d |-> 1]) = 0
  BY <1>1, <1>2, SMTT(10)
<1>4. ASSUME NEW y \in Nat \ {0}, NEW m \in 1..12, NEW d \in 1..31, d \in 1..DaysInMonth(y, m)
      PROVE  DaysFromCivil(NextDate([y |-> y, m |-> m, d |-> d])) = DaysFromCivil([y |-> y, m |-> m, d |-> d]) + 1
  <2> DEFINE t == [y |-> y, m |-> m, d |-> d]
  <2>0. DaysInMonth(y, m) \in 28..31 /\ (m = 12 => DaysInMonth(y, m) = 31) /\ y \in Nat /\ y \in Int /\ d \in Int
    BY MonthLengths
  <2>1. DaysFromCivil(t) = Number(y, m, d)
    BY <1>1, <2>0, SMTT(10)
  <2>2. t.y = y /\ t.m = m /\ t.d = d
    OBVIOUS
  <2>3. CASE d < DaysInMonth(y, m)
    <3>1. NextDate(t) = [y |-> y, m |-> m, d |-> d + 1]
      BY <2>2, <2>3 DEF NextDate
    <3>2. d + 1 \in Int
      BY <2>0
    <3> QED BY <1>1, <1>4, <2>0, <2>1, <2>3, <3>1, <3>2, NextDayStep, SMTT(10)
  <2>4. CASE d = DaysInMonth(y, m) /\ m < 12
    <3>1. NextDate(t) = [y |-> y, m |-> m + 1, d |-> 1]
      <4>1. ~(t.d < DaysInMonth(t.y, t.m)) /\ t.m < 12
        BY <2>0, <2>2, <2>4
      <4> QED BY <2>2, <4>1 DEF NextDate
    <3>2. m + 1 \in 1..12
      BY <2>4
    <3> QED BY <1>1, <1>4, <2>0, <2>1, <2>4, <3>1, <3>2, NextDayStep, SMTT(10)
  <2>5. CASE d = DaysInMonth(y, m) /\ m = 12
    <3>1. NextDate(t) = [y |-> y + 1, m |-> 1, d |-> 1]
      <4>1. ~(t.d < DaysInMonth(t.y, t.m)) /\ ~(t.m < 12)
        BY <2>0, <2>2, <2>5
      <4> QED BY <2>2, <4>1 DEF NextDate
    <3>2. y + 1 \in Int /\ 1 \in 1..12
      BY <2>0
    <3> QED BY <1>1, <1>4, <2>0, <2>1, <2>5, <3>1, <3>2, NextDayStep, SMTT(10)
  <2> QED BY <1>4, <2>0, <2>3, <2>4, <2>5
<1>5. ASSUME NEW t \in Dates PROVE DaysFromCivil(NextDate(t)) = DaysFromCivil(t) + 1
  <2>1. t \in [y : Nat \ {0}, m : 1..12, d : 1..31] /\ ParsesYmd(t)
    BY DEF EveryDate
  <2>2. t.y \in Nat \ {0} /\ t.m \in 1..12 /\ t.d \in 1..31 /\ t = [y |-> t.y, m |-> t.m, d |-> t.d]
    BY <2>1
  <2>3. t.d \in 1..DaysInMonth(t.y, t.m)
    BY <2>1 DEF ParsesYmd
  <2> QED BY <1>4, <2>2, <2>3
<1> QED
  BY <1>3, <1>5 DEF DaysCount

-----------------------------------------------------------------------------
(* Values: the set-up of one-time codes, for every period and moment.       *)

\* A moment is so many whole periods and a rest of less than one.
LEMMA Division ==
    ASSUME NEW p \in Nat \ {0}, NEW t \in Nat
    PROVE  /\ t \div p \in Nat /\ t % p \in 0..(p - 1)
           /\ t = p * (t \div p) + (t % p)
<1> DEFINE k == t \div p
           s == t % p
<1>1. k \in Int /\ s \in 0..(p - 1)
  BY SMTT(10)
<1>2. t = p * k + s
  BY SMTT(10)
<1> HIDE DEF k, s
<1>3. ASSUME k < 0 PROVE FALSE
  <2>1. p * (k + 1) <= 0
    BY <1>1, <1>3, SMTT(10)
  <2>2. p * (k + 1) = p * k + p
    BY <1>1, SMTT(10)
  <2> DEFINE a == p * k
             b == p * (k + 1)
  <2>3. a \in Int /\ b \in Int /\ b <= 0 /\ b = a + p /\ t = a + s
    BY <1>1, <1>2, <2>1, <2>2, SMTT(10)
  <2> HIDE DEF a, b
  <2> QED BY <1>1, <2>3
<1> QED
  BY <1>1, <1>2, <1>3 DEF k, s

\* What is between two multiples of the period has the quotient of the first.
LEMMA Quotient ==
    ASSUME NEW p \in Nat \ {0}, NEW q \in Nat, NEW r \in 0..(p - 1)
    PROVE  (p * q + r) \div p = q
<1> DEFINE t == p * q + r
           k == t \div p
           s == t % p
<1>1. t \in Nat
  BY SMTT(10)
<1>2. k \in Nat /\ s \in 0..(p - 1) /\ t = p * k + s
  <2> HIDE DEF t
  <2> QED BY <1>1, Division
<1>3. p * q + r = p * k + s
  BY <1>2
<1> HIDE DEF t, k, s
<1>4. ASSUME k < q PROVE FALSE
  <2>1. PICK j \in Nat : q = k + 1 + j
    <3>1. q - k - 1 \in Nat /\ q = k + 1 + (q - k - 1)
      BY <1>2, <1>4
    <3> QED BY <3>1
  <2>2. p * q = p * k + p + p * j
    BY <1>2, <2>1, SMTT(10)
  <2>3. p * j \in Nat /\ p * k \in Nat
    BY <1>2, <2>1, SMTT(10)
  <2> DEFINE a == p * j
             b == p * k
             c == p * q
  <2>4. c = b + p + a /\ a \in Nat /\ b \in Nat /\ c + r = b + s
    BY <2>2, <2>3, <1>3
  <2> HIDE DEF a, b, c
  <2> QED BY <1>2, <2>4
<1>5. ASSUME q < k PROVE FALSE
  <2>1. PICK j \in Nat : k = q + 1 + j
    <3>1. k - q - 1 \in Nat /\ k = q + 1 + (k - q - 1)
      BY <1>2, <1>5
    <3> QED BY <3>1
  <2>2. p * k = p * q + p + p * j
    BY <1>2, <2>1, SMTT(10)
  <2>3. p * j \in Nat /\ p * q \in Nat
    BY <1>2, <2>1, SMTT(10)
  <2> DEFINE a == p * j
             b == p * k
             c == p * q
  <2>4. b = c + p + a /\ a \in Nat /\ c \in Nat /\ c + r = b + s
    BY <2>2, <2>3, <1>3
  <2> HIDE DEF a, b, c
  <2> QED BY <1>2, <2>4
<1>6. k = q
  BY <1>2, <1>4, <1>5
<1> QED
  BY <1>6 DEF k, t

\* The code at a moment lasts its seconds left and not one more.
LEMMA CodeLasts ==
    ASSUME NEW s, s.period \in Nat \ {0}, NEW t \in Nat
    PROVE  LET c == CodeAt(s, t) IN
           /\ c.left \in 1..s.period
           /\ CodeAt(s, t + c.left - 1).counter = c.counter
           /\ CodeAt(s, t + c.left).counter = c.counter + 1
<1> DEFINE p == s.period
           q == t \div p
           r == t % p
<1>1. q \in Nat /\ r \in 0..(p - 1) /\ t = p * q + r
  <2> HIDE DEF p
  <2> QED BY Division DEF p
<1>2. CodeAt(s, t).left = p - r /\ CodeAt(s, t).counter = q
  BY DEF CodeAt
<1>3. \A u : CodeAt(s, u).counter = u \div p
  BY DEF CodeAt
<1> HIDE DEF p, q, r
<1>4. p \in Nat \ {0}
  BY DEF p
<1>5. t + (p - r) - 1 = p * q + (p - 1) /\ t + (p - r) = p * (q + 1) + 0
  <2>1. p * q \in Nat /\ p * (q + 1) = p * q + p
    BY <1>1, <1>4, SMTT(10)
  <2> DEFINE b == p * q
  <2> HIDE DEF b
  <2>2. t = b + r /\ b \in Nat
    BY <1>1, <2>1 DEF b
  <2>3. t + (p - r) - 1 = b + (p - 1) /\ t + (p - r) = b + p
    BY <1>1, <1>4, <2>2
  <2>4. b + p = p * (q + 1) + 0
    BY <2>1, <1>4 DEF b
  <2> QED BY <2>3, <2>4 DEF b
<1>6. (p * q + (p - 1)) \div p = q
  BY <1>1, <1>4, Quotient
<1>7. (p * (q + 1) + 0) \div p = q + 1
  <2>1. q + 1 \in Nat /\ 0 \in 0..(p - 1)
    BY <1>1, <1>4
  <2> QED BY <1>4, <2>1, Quotient
<1>8. p - r \in 1..p
  BY <1>1, <1>4
<1> QED
  BY <1>2, <1>3, <1>5, <1>6, <1>7, <1>8, Zenon DEF p

\* The mark for a text that was not given is none.
LEMMA NotGivenIsNoText == NotGiven \notin Texts
<1>1. "not given" \notin Characters
  BY DEF Characters
<1>2. NotGiven[1] = "not given" /\ Len(NotGiven) = 1
  BY DEF NotGiven
<1>3. ASSUME NotGiven \in Seq(Characters) PROVE FALSE
  <2>1. \A s \in Seq(Characters) : Len(s) = 1 => s[1] \in Characters
    OBVIOUS
  <2>2. NotGiven[1] \in Characters
    <3> HIDE DEF NotGiven
    <3> QED BY <1>2, <1>3, <2>1
  <2>3. "not given" \in Characters
    BY <1>2, <2>2, Zenon
  <2> QED BY <1>1, <2>3
<1> QED
  BY <1>3 DEF Texts

\* Cutting a label at its colon leaves a text that is not cut further.
LEMMA CutText ==
    ASSUME NEW t \in Texts
    PROVE  LabelCut(t) \in Texts /\ LabelCut(LabelCut(t)) = LabelCut(t)
<1>0. Len(t) \in Nat /\ MaxLabelLen \in Nat /\ t \in Seq(Characters)
  BY ValuesAssumption DEF Texts
<1> DEFINE n == IF Len(t) <= MaxLabelLen THEN Len(t) ELSE MaxLabelLen
<1>1. \A a, b \in Nat : Min({a, b}) = IF a <= b THEN a ELSE b
  <2> SUFFICES ASSUME NEW a \in Nat, NEW b \in Nat PROVE Min({a, b}) = IF a <= b THEN a ELSE b
    OBVIOUS
  <2>1. Min({a, b}) \in {a, b} /\ \A y \in {a, b} : Min({a, b}) <= y
    <3>1. {a, b} \subseteq Nat /\ a \in {a, b}
      OBVIOUS
    <3> DEFINE S == {a, b}
    <3> HIDE DEF S
    <3>2. S \subseteq Nat /\ S # {}
      BY <3>1 DEF S
    <3>3. Min(S) \in S /\ \A y \in S : Min(S) <= y
      BY <3>2, LeastOf
    <3> QED BY <3>3 DEF S
  <2> QED BY <2>1
<1>2. LabelCut(t) = SubSeq(t, 1, n)
  BY <1>0, <1>1 DEF LabelCut
<1>3. n \in 0..Len(t) /\ n <= MaxLabelLen
  BY <1>0
<1> HIDE DEF n
<1>4. SubSeq(t, 1, n) \in Seq(Characters) /\ Len(SubSeq(t, 1, n)) = n
  BY <1>0, <1>3
<1> DEFINE c == SubSeq(t, 1, n)
<1>5. LabelCut(c) = SubSeq(c, 1, n)
  BY <1>0, <1>1, <1>3, <1>4 DEF LabelCut
<1>6. SubSeq(c, 1, n) = c
  <2> HIDE DEF c
  <2> QED BY <1>4 DEF c
<1> QED
  BY <1>2, <1>4, <1>5, <1>6 DEF Texts

\* An issuer that is not set is a text that no cut shortens.
LEMMA UnsetIsText == Unset \in Texts /\ LabelCut(Unset) = Unset
<1>1. Unset \in Texts
  BY DEF Unset, Texts
<1>2. Len(LabelCut(Unset)) = 0
  <2>1. MaxLabelLen \in Nat
    BY ValuesAssumption
  <2>2. {0, MaxLabelLen} \subseteq Nat /\ {0, MaxLabelLen} # {}
    BY <2>1
  <2>3. Min({0, MaxLabelLen}) \in {0, MaxLabelLen} /\ \A y \in {0, MaxLabelLen} : Min({0, MaxLabelLen}) <= y
    <3> DEFINE S == {0, MaxLabelLen}
    <3> HIDE DEF S
    <3>1. S \subseteq Nat /\ S # {}
      BY <2>2 DEF S
    <3>2. Min(S) \in S /\ \A y \in S : Min(S) <= y
      BY <3>1, LeastOf
    <3> QED BY <3>2 DEF S
  <2>4. Min({0, MaxLabelLen}) = 0
    BY <2>1, <2>3
  <2>5. LabelCut(Unset) = SubSeq(<<>>, 1, 0)
    BY <2>4 DEF LabelCut, Unset
  <2> QED BY <2>5
<1>3. LabelCut(Unset) \in Texts
  BY <1>1, CutText
<1> QED
  BY <1>1, <1>2, <1>3 DEF Texts, Unset

\* Trimming a text leaves a text.
LEMMA TrimText == ASSUME NEW t \in Texts PROVE Trim(t) \in Texts
<1> DEFINE solid == {i \in DOMAIN t : t[i] \notin SpaceChars}
<1>0. t \in Seq(Characters) /\ Len(t) \in Nat /\ DOMAIN t = 1..Len(t)
  BY DEF Texts
<1>1. CASE solid = {}
  <2>1. Trim(t) = Unset
    BY <1>1 DEF Trim
  <2> QED BY <2>1, UnsetIsText
<1>2. CASE solid # {}
  <2>1. Trim(t) = SubSeq(t, Min(solid), Max(solid))
    BY <1>2 DEF Trim
  <2>2. solid \subseteq 1..Len(t)
    BY <1>0
  <2> HIDE DEF solid
  <2>3. Min(solid) \in solid
    <3>1. solid \subseteq Nat
      BY <1>0, <2>2
    <3> QED BY <1>2, <3>1, LeastOf
  <2>4. Max(solid) \in solid
    <3>1. solid \subseteq 0..Len(t)
      BY <1>0, <2>2
    <3> QED BY <1>0, <1>2, <3>1, GreatestOf
  <2>5. SubSeq(t, Min(solid), Max(solid)) \in Seq(Characters)
    <3>1. Min(solid) \in 1..Len(t) /\ Max(solid) \in 1..Len(t)
      BY <2>2, <2>3, <2>4
    <3> QED BY <1>0, <3>1
  <2> QED BY <2>1, <2>5 DEF Texts
<1> QED BY <1>1, <1>2

\* The two parts of a label are texts, and its issuer is not cut further.
LEMMA LabelTexts ==
    ASSUME NEW l \in Texts
    PROVE  /\ LabelParts(l)[1] \in Texts /\ LabelCut(LabelParts(l)[1]) = LabelParts(l)[1]
           /\ LabelParts(l)[2] \in Texts
<1> DEFINE colons == {i \in DOMAIN l : l[i] = ":"}
<1>0. l \in Seq(Characters) /\ Len(l) \in Nat /\ DOMAIN l = 1..Len(l)
  BY DEF Texts
<1>1. CASE colons = {}
  <2>1. LabelParts(l) = <<Unset, LabelCut(Trim(l))>>
    BY <1>1 DEF LabelParts
  <2> QED BY <2>1, UnsetIsText, TrimText, CutText
<1>2. CASE colons # {}
  <2> DEFINE a == SubSeq(l, 1, Min(colons) - 1)
             b == SubSeq(l, Min(colons) + 1, Len(l))
  <2>1. LabelParts(l) = <<LabelCut(Trim(a)), LabelCut(Trim(b))>>
    BY <1>2 DEF LabelParts
  <2>2. Min(colons) \in 1..Len(l)
    <3>1. colons \subseteq 1..Len(l) /\ colons \subseteq Nat
      BY <1>0
    <3> HIDE DEF colons
    <3> QED BY <1>2, <3>1, LeastOf
  <2> HIDE DEF colons
  <2>3. a \in Texts /\ b \in Texts
    BY <1>0, <2>2 DEF Texts
  <2> HIDE DEF a, b
  <2>4. Trim(a) \in Texts /\ Trim(b) \in Texts
    BY <2>3, TrimText
  <2> QED BY <2>1, <2>4, CutText
<1> QED BY <1>1, <1>2

IsSetup(v) ==
    /\ v = [secret |-> v.secret, algorithm |-> v.algorithm, digits |-> v.digits,
            period |-> v.period, issuer |-> v.issuer, account |-> v.account]
    /\ v.algorithm \in {"SHA1", "SHA256", "SHA512"} /\ ValidSetup(v)
    /\ v.issuer \in Texts /\ LabelCut(v.issuer) = v.issuer /\ v.account \in Texts

SetupInv ==
    /\ saved = [kind |-> "none"] \/ saved = [kind |-> saved.kind, v |-> saved.v, day |-> saved.day]
    /\ saved.kind = "otp" => IsSetup(saved.v)

\* What is read of a text that may be read is a setup.
LEMMA ReadIsSetup ==
    ASSUME NEW in, ParseTotpOk(in),
           in.uri => in.issuer \in Texts \cup {NotGiven} /\ in.label \in Texts
    PROVE  IsSetup(ParseTotp(in))
<1>1. CASE in.uri
  <2> DEFINE i == IF in.issuer # NotGiven THEN LabelCut(in.issuer) ELSE LabelParts(in.label)[1]
             a == LabelParts(in.label)[2]
             v == ParseTotp(in)
  <2>1. v = [secret |-> in.secret, algorithm |-> in.algorithm, digits |-> in.digits, period |-> in.period,
             issuer |-> i, account |-> a]
    BY <1>1 DEF ParseTotp
  <2>2. i \in Texts /\ LabelCut(i) = i /\ a \in Texts
    BY <1>1, CutText, LabelTexts
  <2>3. in.algorithm \in {"SHA1", "SHA256", "SHA512"} /\ ValidSetup(v)
    BY <1>1 DEF ParseTotpOk
  <2> HIDE DEF i, a, v
  <2>4. v.algorithm = in.algorithm /\ v.issuer = i /\ v.account = a
        /\ v = [secret |-> v.secret, algorithm |-> v.algorithm, digits |-> v.digits,
                period |-> v.period, issuer |-> v.issuer, account |-> v.account]
    BY <2>1
  <2>5. IsSetup(v)
    BY <2>2, <2>3, <2>4, Zenon DEF IsSetup
  <2> QED BY <2>5 DEF v
<1>2. CASE ~in.uri
  <2> DEFINE v == ParseTotp(in)
  <2>1. v = [secret |-> in.secret, algorithm |-> "SHA1", digits |-> 6, period |-> 30, issuer |-> Unset, account |-> Unset]
    BY <1>2 DEF ParseTotp
  <2>2. SecretOk(in.secret)
    BY <1>2 DEF ParseTotpOk
  <2> HIDE DEF v
  <2>3. v.secret = in.secret /\ v.algorithm = "SHA1" /\ v.digits = 6 /\ v.period = 30 /\ v.issuer = Unset /\ v.account = Unset
        /\ v = [secret |-> v.secret, algorithm |-> v.algorithm, digits |-> v.digits,
                period |-> v.period, issuer |-> v.issuer, account |-> v.account]
    BY <2>1
  <2>4. v.digits \in {6, 8} /\ v.period \in 1..MaxPeriod
    BY <2>3, ValuesAssumption
  <2>5. ValidSetup(v)
    BY <2>2, <2>3, <2>4, Zenon DEF ValidSetup
  <2>6. IsSetup(v)
    BY <2>3, <2>5, UnsetIsText, Zenon DEF IsSetup
  <2> QED BY <2>6 DEF v
<1> QED BY <1>1, <1>2

\* The URI of a setup.
LEMMA UriIs ==
    ASSUME NEW v, IsSetup(v)
    PROVE  LET u == ToOtpauthUri(v) IN
           /\ u.uri = TRUE /\ u.type = "totp"
           /\ u.secret = v.secret /\ u.algorithm = v.algorithm /\ u.digits = v.digits /\ u.period = v.period
           /\ u.issuer = (IF v.issuer = Unset THEN NotGiven ELSE v.issuer)
           /\ u.issuer \in Texts \cup {NotGiven} /\ u.label \in Texts
<1> DEFINE l == IF v.issuer # Unset /\ v.account # Unset THEN v.issuer \o <<":">> \o v.account ELSE v.issuer \o v.account
           n == UriFixed + (8 * v.secret.bytes + 4) \div 5 + EncodedLen(l) + EncodedLen(v.issuer)
           u == ToOtpauthUri(v)
<1>1. v.issuer \in Texts /\ v.account \in Texts
  BY DEF IsSetup
<1>2. l \in Texts
  <2>1. ":" \in Characters
    BY DEF Characters
  <2>2. <<":">> \in Seq(Characters)
    BY <2>1
  <2>3. \A s, t \in Seq(Characters) : s \o t \in Seq(Characters)
    OBVIOUS
  <2> QED BY <1>1, <2>2, <2>3 DEF Texts
<1> HIDE DEF n, l
<1>3. u = [uri |-> TRUE, type |-> "totp", secret |-> v.secret, algorithm |-> v.algorithm, digits |-> v.digits,
           period |-> v.period, issuer |-> IF v.issuer = Unset THEN NotGiven ELSE v.issuer, label |-> l, len |-> n]
  BY DEF ToOtpauthUri, n, l
<1> HIDE DEF u
<1>4. /\ u.uri = TRUE /\ u.type = "totp"
      /\ u.secret = v.secret /\ u.algorithm = v.algorithm /\ u.digits = v.digits /\ u.period = v.period
      /\ u.issuer = (IF v.issuer = Unset THEN NotGiven ELSE v.issuer) /\ u.label = l
  BY <1>3
<1>5. u.issuer \in Texts \cup {NotGiven}
  BY <1>1, <1>4
<1> QED
  BY <1>2, <1>4, <1>5, Zenon DEF u

\* What an editor or a restore reads back of a setup.
LEMMA SetupPasses ==
    ASSUME NEW v, IsSetup(v), ToOtpauthUri(v).len <= MaxUriLen
    PROVE  LET uri == ToOtpauthUri(v) IN
           /\ ParseTotpOk(uri)
           /\ \A k \in {"secret", "algorithm", "digits", "period"} : ParseTotp(uri)[k] = v[k]
           /\ v.issuer # Unset => ParseTotp(uri).issuer = v.issuer
<1> DEFINE u == ToOtpauthUri(v)
           w == ParseTotp(u)
           i == IF u.issuer # NotGiven THEN LabelCut(u.issuer) ELSE LabelParts(u.label)[1]
           a == LabelParts(u.label)[2]
<1>1. /\ u.uri = TRUE /\ u.type = "totp"
      /\ u.secret = v.secret /\ u.algorithm = v.algorithm /\ u.digits = v.digits /\ u.period = v.period
      /\ u.issuer = (IF v.issuer = Unset THEN NotGiven ELSE v.issuer)
  BY UriIs
<1>2. u.len <= MaxUriLen
  OBVIOUS
<1> HIDE DEF u
<1>3. w = [secret |-> u.secret, algorithm |-> u.algorithm, digits |-> u.digits, period |-> u.period, issuer |-> i, account |-> a]
  BY <1>1 DEF ParseTotp
<1> HIDE DEF w, i, a
<1>4. w.secret = v.secret /\ w.algorithm = v.algorithm /\ w.digits = v.digits /\ w.period = v.period /\ w.issuer = i
  BY <1>1, <1>3
<1>5. v.algorithm \in {"SHA1", "SHA256", "SHA512"} /\ ValidSetup(v) /\ v.issuer \in Texts /\ LabelCut(v.issuer) = v.issuer
  BY DEF IsSetup
<1>6. ValidSetup(w)
  BY <1>4, <1>5, Zenon DEF ValidSetup
<1>7. ParseTotpOk(u)
  BY <1>1, <1>2, <1>5, <1>6 DEF ParseTotpOk, w
<1>8. v.issuer # Unset => i = v.issuer
  BY <1>1, <1>5, NotGivenIsNoText DEF i
<1>9. \A k \in {"secret", "algorithm", "digits", "period"} : w[k] = v[k]
  BY <1>4
<1> QED
  BY <1>4, <1>7, <1>8, <1>9, Zenon DEF u, w

\* Nothing is saved at first.
LEMMA SetupStart == ValuesInit => SetupInv
<1> SUFFICES ASSUME ValuesInit PROVE SetupInv
  OBVIOUS
<1>1. saved = [kind |-> "none"]
  BY DEF ValuesInit
<1>2. saved.kind = "none"
  BY <1>1
<1> QED BY <1>1, <1>2 DEF SetupInv

\* A value of a kind that is stored, or stored anew.
LEMMA StoredShape ==
    ASSUME NEW k, NEW v, NEW d, k = "otp" => IsSetup(v)
    PROVE  LET s == [kind |-> k, v |-> v, day |-> d] IN
           /\ s = [kind |-> s.kind, v |-> s.v, day |-> s.day]
           /\ s.kind = "otp" => IsSetup(s.v)
<1> DEFINE s == [kind |-> k, v |-> v, day |-> d]
<1>1. s.kind = k /\ s.v = v /\ s.day = d
  OBVIOUS
<1>3. s.kind = "otp" => IsSetup(s.v)
  BY <1>1, Zenon
<1>4. s = [kind |-> s.kind, v |-> s.v, day |-> s.day]
  BY <1>1
<1> QED
  BY <1>3, <1>4, Zenon

\* Every save keeps the stored set-up one that the checks passed.
LEMMA SetupStep == SetupInv /\ [ValuesNext]_valueVars => SetupInv'
<1> SUFFICES ASSUME SetupInv, [ValuesNext]_valueVars PROVE SetupInv'
  OBVIOUS
<1>0. ASSUME NEW k, NEW v, NEW d, k = "otp" => IsSetup(v), saved' = [kind |-> k, v |-> v, day |-> d]
      PROVE  SetupInv'
  BY <1>0, StoredShape DEF SetupInv
<1>1. CASE Save
  <2>0. PICK kind \in ValueKinds : \E f \in Forms(kind) :
            FormOk(kind, f, dayNow) /\ saved' = [kind |-> kind, v |-> FormClean(kind, f), day |-> dayNow]
    BY <1>1 DEF Save
  <2>1. PICK f \in Forms(kind) : FormOk(kind, f, dayNow) /\ saved' = [kind |-> kind, v |-> FormClean(kind, f), day |-> dayNow]
    BY <2>0
  <2>2. ASSUME kind = "otp" PROVE IsSetup(FormClean(kind, f))
    <3>1. Forms(kind) = Setups /\ FormClean(kind, f) = ParseTotp(f) /\ FormOk(kind, f, dayNow) = ParseTotpOk(f)
      BY <2>2 DEF Forms, FormClean, FormOk
    <3>2. ParseTotpOk(f) /\ f \in Setups
      BY <2>1, <3>1
    <3>3. f.uri => f.issuer \in Texts \cup {NotGiven} /\ f.label \in Texts
      BY <3>2, ValuesAssumption
    <3>4. IsSetup(ParseTotp(f))
      BY <3>2, <3>3, ReadIsSetup
    <3> QED BY <3>1, <3>4
  <2> QED BY <1>0, <2>1, <2>2
<1>2. CASE SaveFromPage
  <2>1. PICK f \in Cards : saved' = [kind |-> "card", v |-> CardClean(f), day |-> dayNow]
    BY <1>2 DEF SaveFromPage
  <2> QED BY <1>0, <2>1
<1>3. ASSUME NEW v, NEW d, saved.kind # "none", saved.kind = "otp" => IsSetup(v),
             saved' = [saved EXCEPT !.v = v, !.day = d] \/ saved' = [saved EXCEPT !.v = v]
      PROVE  SetupInv'
  <2>1. saved = [kind |-> saved.kind, v |-> saved.v, day |-> saved.day]
    <3>1. saved # [kind |-> "none"]
      BY <1>3
    <3> QED BY <3>1 DEF SetupInv
  <2>2. saved' = [kind |-> saved.kind, v |-> v, day |-> d] \/ saved' = [kind |-> saved.kind, v |-> v, day |-> saved.day]
    BY <1>3, <2>1
  <2> QED BY <1>0, <1>3, <2>2
<1>4. CASE EditBank
  <2>1. PICK v : saved' = [saved EXCEPT !.v = v, !.day = dayNow]
    BY <1>4 DEF EditBank
  <2>2. saved.kind = "bank"
    BY <1>4 DEF EditBank
  <2> QED BY <1>3, <2>1, <2>2 DEF SetupInv
<1>5. CASE EditCard
  <2>1. PICK v : saved' = [saved EXCEPT !.v = v, !.day = dayNow]
    BY <1>5 DEF EditCard
  <2>2. saved.kind = "card"
    BY <1>5 DEF EditCard
  <2> QED BY <1>3, <2>1, <2>2 DEF SetupInv
<1>6. CASE RestoreValue
  <2> DEFINE f == Typed(saved.kind, saved.v)
             v == FormClean(saved.kind, f)
  <2>1. saved.kind # "none" /\ FormOk(saved.kind, f, saved.day) /\ saved' = [saved EXCEPT !.v = v]
    BY <1>6 DEF RestoreValue
  <2>2. ASSUME saved.kind = "otp" PROVE IsSetup(v)
    <3>1. f = ToOtpauthUri(saved.v) /\ v = ParseTotp(f) /\ FormOk(saved.kind, f, saved.day) = ParseTotpOk(f)
      BY <2>2 DEF Typed, FormClean, FormOk
    <3>2. IsSetup(saved.v)
      BY <2>2 DEF SetupInv
    <3>3. f.issuer \in Texts \cup {NotGiven} /\ f.label \in Texts
      BY <3>1, <3>2, UriIs
    <3> HIDE DEF f
    <3>4. IsSetup(ParseTotp(f))
      BY <2>1, <3>1, <3>3, ReadIsSetup
    <3> QED BY <3>1, <3>4
  <2> HIDE DEF v
  <2> QED BY <1>3, <2>1, <2>2
<1>7. CASE DayPasses \/ UNCHANGED valueVars
  BY <1>7 DEF DayPasses, valueVars, SetupInv
<1> QED
  BY <1>1, <1>2, <1>4, <1>5, <1>6, <1>7 DEF ValuesNext

\* One-time codes, totp.rs: whatever set-up is typed, scanned or imported and
\* whatever is saved after it, a stored set-up passes the checks of parse again
\* when to_otpauth_uri writes it and parse reads it back, and the code shown at a moment
\* lasts exactly until that of the next counter, for every period and moment.
THEOREM SetupsStayHolds == ValuesSpec => [](CodesFollowOn /\ (saved.kind = "otp" => StoredPassesAgain))
<1>1. ASSUME SetupInv PROVE CodesFollowOn /\ (saved.kind = "otp" => StoredPassesAgain)
  <2> SUFFICES ASSUME saved.kind = "otp" PROVE CodesFollowOn /\ StoredPassesAgain
    BY DEF CodesFollowOn
  <2>1. IsSetup(saved.v)
    BY <1>1 DEF SetupInv
  <2>2. saved.v.period \in Nat \ {0}
    BY <2>1, ValuesAssumption DEF IsSetup, ValidSetup
  <2>3. CodesFollowOn
    BY <2>2, CodeLasts, ValuesAssumption DEF CodesFollowOn
  <2>4. StoredPassesAgain
    BY <2>1, SetupPasses DEF StoredPassesAgain
  <2> QED BY <2>3, <2>4
<1> QED
  BY <1>1, SetupStart, SetupStep, PTL DEF ValuesSpec

-----------------------------------------------------------------------------
(* Values: the check digit of a card number, for numbers of every length.   *)

\* What a digit counts in a place that counts once (0) and in one that counts
\* double (1).
Weight(place, d) == IF place = 0 THEN d ELSE IF 2 * d > 9 THEN 2 * d - 9 ELSE 2 * d
PlaceOf(n, i) == (Len(n) - i) % 2
Counted(n, i) == Weight(PlaceOf(n, i), DigitValue(n[i]))

\* Each digit has a value of its own.
LEMMA DigitValues ==
    /\ \A c \in DigitChars : DigitValue(c) \in 0..9 /\ Decimal[DigitValue(c) + 1] = c
    /\ DigitValue("0") = 0 /\ DigitValue("9") = 9
<1>1. DOMAIN Decimal = 1..10
  BY DEF Decimal
<1>2. DigitChars = {Decimal[k] : k \in DOMAIN Decimal}
  BY DEF DigitChars, ToSet
<1>3. ASSUME NEW c \in DigitChars PROVE DigitValue(c) \in 0..9 /\ Decimal[DigitValue(c) + 1] = c
  <2>1. \E k \in DOMAIN Decimal : Decimal[k] = c
    BY <1>2
  <2> DEFINE k == CHOOSE k \in DOMAIN Decimal : Decimal[k] = c
  <2>2. k \in DOMAIN Decimal /\ Decimal[k] = c
    BY <2>1
  <2>3. DigitValue(c) = k - 1
    BY DEF DigitValue
  <2> HIDE DEF k
  <2>4. k \in 1..10
    BY <1>1, <2>2
  <2> QED BY <2>2, <2>3, <2>4
<1>4. "0" \in DigitChars /\ "9" \in DigitChars
  <2>1. Decimal[1] = "0" /\ Decimal[10] = "9"
    BY DEF Decimal
  <2> QED BY <1>1, <1>2, <2>1
<1>5. DigitValue("0") = 0 /\ DigitValue("9") = 9
  <2>1. \A k \in 0..9 : Decimal[k + 1] = "0" => k = 0
    BY DEF Decimal
  <2>2. \A k \in 0..9 : Decimal[k + 1] = "9" => k = 9
    BY DEF Decimal
  <2> QED BY <1>3, <1>4, <2>1, <2>2
<1> QED BY <1>3, <1>5

\* Two digits count differently in either place, and two neighbours other than
\* 0 and 9 count differently when they are swapped.
LEMMA WeightsApart ==
    ASSUME NEW p \in {0, 1}, NEW x \in 0..9, NEW y \in 0..9
    PROVE  /\ Weight(p, x) \in 0..9 /\ Weight(1 - p, x) \in 0..9
           /\ x # y => Weight(p, x) # Weight(p, y)
           /\ x # y /\ ~(x = 0 /\ y = 9) /\ ~(x = 9 /\ y = 0) =>
                Weight(p, y) + Weight(1 - p, x) # Weight(p, x) + Weight(1 - p, y)
           /\ Weight(p, y) + Weight(1 - p, x) - (Weight(p, x) + Weight(1 - p, y)) \in -9..9
<1>1. CASE p = 0
  BY <1>1 DEF Weight
<1>2. CASE p = 1
  BY <1>2 DEF Weight
<1> QED BY <1>1, <1>2

\* The sums of the first digits of a number.
IsSums(n, f) == f[0] = 0 /\ \A k \in 1..Len(n) : f[k] = f[k - 1] + Counted(n, k)

\* A digit counts between 0 and 9 wherever it stands.
LEMMA CountedIs ==
    ASSUME NEW n \in Seq(DigitChars), NEW k \in 1..Len(n)
    PROVE  Counted(n, k) \in 0..9 /\ PlaceOf(n, k) \in {0, 1} /\ DigitValue(n[k]) \in 0..9
<1>1. n[k] \in DigitChars
  OBVIOUS
<1>2. DigitValue(n[k]) \in 0..9
  BY <1>1, DigitValues
<1>3. PlaceOf(n, k) \in {0, 1}
  BY DEF PlaceOf
<1> QED BY <1>2, <1>3, WeightsApart DEF Counted

\* The loop of check_digit_ok adds up these sums.
LEMMA SumsAre ==
    ASSUME NEW n \in Seq(DigitChars), n # <<>>
    PROVE  \E f \in [0..Len(n) -> Nat] : IsSums(n, f) /\ (CheckDigitOk(n) <=> f[Len(n)] % 10 = 0)
<1> DEFINE L == Len(n)
           counts(i) == LET d == DigitValue(n[i])
                        IN  IF (Len(n) - i) % 2 = 0 THEN d ELSE IF 2 * d > 9 THEN 2 * d - 9 ELSE 2 * d
           Def(u) == [k \in 0..Len(n) |-> IF k = 0 THEN 0 ELSE u[k - 1] + counts(k)]
           up == CHOOSE u : u = Def(u)
<1>0. L \in Nat
  OBVIOUS
<1>1. \A k : counts(k) = Counted(n, k)
  BY DEF Counted, Weight, PlaceOf
<1>2. CheckDigitOk(n) <=> AllDigits(n) /\ up[L] % 10 = 0
  BY DEF CheckDigitOk
<1>3. AllDigits(n)
  BY DEF AllDigits, Unset
<1> DEFINE step == [k \in 1..L |-> [a \in Nat |-> a + Counted(n, k)]]
<1>4. step \in [1..L -> [Nat -> Nat]]
  <2>1. \A k \in 1..L, a \in Nat : a + Counted(n, k) \in Nat
    BY CountedIs
  <2> QED BY <2>1
<1>5. PICK f \in [0..L -> Nat] : IsRun(L, 0, step, f)
  <2>1. 0 \in Nat
    OBVIOUS
  <2> HIDE DEF step, L
  <2> QED BY <1>0, <1>4, <2>1, RecursionReaches
<1>6. f[0] = 0 /\ \A k \in 1..L : f[k] = f[k - 1] + Counted(n, k)
  <2>1. \A k \in 1..L, a \in Nat : step[k][a] = a + Counted(n, k)
    OBVIOUS
  <2> HIDE DEF step, L
  <2>2. \A k \in 1..L : k - 1 \in 0..L
    BY <1>0
  <2> QED BY <1>5, <2>1, <2>2 DEF IsRun
<1> HIDE DEF counts, step
<1>7. f = Def(f)
  <2>1. \A k \in 0..L : f[k] = IF k = 0 THEN 0 ELSE f[k - 1] + counts(k)
    BY <1>0, <1>1, <1>6
  <2>2. f = [k \in 0..L |-> f[k]]
    BY <1>5
  <2> QED BY <2>1, <2>2
<1>8. up = Def(up)
  <2> HIDE DEF Def
  <2> QED BY <1>7
<1> HIDE DEF up
<1>9. DOMAIN up = 0..L /\ up[0] = 0 /\ \A k \in 1..L : up[k] = up[k - 1] + Counted(n, k)
  <2>1. \A k \in 0..L : up[k] = IF k = 0 THEN 0 ELSE up[k - 1] + counts(k)
    BY <1>8
  <2>2. DOMAIN up = 0..L
    BY <1>8
  <2> HIDE DEF L
  <2> QED BY <1>0, <1>1, <2>1, <2>2
<1> HIDE DEF L
<1> DEFINE G == {k \in 0..L : up[k] \in Nat}
<1>10. G = 0..L
  <2>1. 0 \in G
    BY <1>0, <1>9
  <2>2. ASSUME NEW k \in 1..L, k - 1 \in G PROVE k \in G
    <3>1. Counted(n, k) \in 0..9
      BY CountedIs DEF L
    <3> QED BY <1>0, <1>9, <2>2, <3>1, SMTT(30)
  <2>3. G \subseteq 0..L
    OBVIOUS
  <2> HIDE DEF G
  <2> QED BY <1>0, <2>1, <2>2, <2>3, RecursionKeeps
<1>11. up \in [0..L -> Nat]
  <2>1. \A k \in 0..L : up[k] \in Nat
    BY <1>10
  <2>2. up = [k \in 0..L |-> up[k]]
    BY <1>8, <1>9 DEF L
  <2> QED BY <2>1, <2>2
<1>12. IsSums(n, up)
  BY <1>9 DEF IsSums, L
<1> QED
  BY <1>2, <1>3, <1>11, <1>12 DEF L

\* Two numbers that differ between two places only.
LEMMA SumsApart ==
    ASSUME NEW n \in Seq(DigitChars), NEW m \in Seq(DigitChars), Len(m) = Len(n),
           NEW f \in [0..Len(n) -> Nat], IsSums(n, f), NEW g \in [0..Len(n) -> Nat], IsSums(m, g),
           NEW i \in 1..Len(n), NEW j \in i..Len(n),
           \A k \in 1..Len(n) : k \notin i..j => m[k] = n[k]
    PROVE  g[i - 1] = f[i - 1] /\ g[Len(n)] - f[Len(n)] = g[j] - f[j]
<1> DEFINE L == Len(n)
<1>0. L \in Nat
  OBVIOUS
<1>1. \A k \in 1..L : k \notin i..j => Counted(m, k) = Counted(n, k)
  BY DEF Counted, PlaceOf
<1>2. \A k \in 1..L : Counted(n, k) \in 0..9 /\ Counted(m, k) \in 0..9
  BY CountedIs
<1>3. f[0] = 0 /\ g[0] = 0 /\ \A k \in 1..L : f[k] = f[k - 1] + Counted(n, k) /\ g[k] = g[k - 1] + Counted(m, k)
  BY DEF IsSums
<1>4. f \in [0..L -> Nat] /\ g \in [0..L -> Nat] /\ i \in 1..L /\ j \in i..L
  OBVIOUS
<1> HIDE DEF L
<1> DEFINE G == {k \in 0..L : k < i => g[k] = f[k]}
           H == {k \in 0..L : k >= j => g[k] - f[k] = g[j] - f[j]}
<1>5. G = 0..L
  <2>1. 0 \in G /\ G \subseteq 0..L
    BY <1>0, <1>3
  <2>2. ASSUME NEW k \in 1..L, k - 1 \in G PROVE k \in G
    <3> SUFFICES ASSUME k < i PROVE g[k] = f[k]
      BY <1>0
    <3>1. g[k - 1] = f[k - 1] /\ k \notin i..j
      BY <1>4, <2>2
    <3> QED BY <1>1, <1>3, <3>1
  <2> HIDE DEF G
  <2> QED BY <1>0, <2>1, <2>2, RecursionKeeps
<1>6. H = 0..L
  <2>1. 0 \in H /\ H \subseteq 0..L
    BY <1>0, <1>4
  <2>2. ASSUME NEW k \in 1..L, k - 1 \in H PROVE k \in H
    <3>1. CASE k < j
      BY <1>0, <1>4, <3>1
    <3>2. CASE k = j
      BY <1>0, <1>4, <3>2
    <3>3. CASE k > j
      <4>1. k - 1 >= j /\ k \notin i..j /\ k - 1 \in 0..L /\ k \in 0..L /\ j \in 0..L
        BY <1>0, <1>4, <3>3
      <4>2. g[k - 1] - f[k - 1] = g[j] - f[j]
        BY <2>2, <4>1
      <4>3. f[k] = f[k - 1] + Counted(n, k) /\ g[k] = g[k - 1] + Counted(n, k) /\ Counted(n, k) \in Nat
        <5>1. Counted(m, k) = Counted(n, k)
          BY <1>1, <4>1
        <5>2. f[k] = f[k - 1] + Counted(n, k) /\ g[k] = g[k - 1] + Counted(m, k)
          BY <1>3
        <5>3. Counted(n, k) \in Nat
          <6>1. Counted(n, k) \in 0..9
            BY <1>2
          <6>2. \A c \in 0..9 : c \in Nat
            OBVIOUS
          <6> QED BY <6>1, <6>2
        <5> QED BY <5>1, <5>2, <5>3
      <4>4. f[k - 1] \in Nat /\ g[k - 1] \in Nat /\ f[j] \in Nat /\ g[j] \in Nat
        BY <1>4, <4>1
      <4>5. g[k] - f[k] = g[j] - f[j]
        BY <4>2, <4>3, <4>4
      <4> QED BY <4>1, <4>5
    <3> QED BY <1>4, <3>1, <3>2, <3>3
  <2> HIDE DEF H
  <2> QED BY <1>0, <2>1, <2>2, RecursionKeeps
<1>7. g[i - 1] = f[i - 1]
  <2>1. i - 1 \in 0..L /\ i - 1 < i
    BY <1>0, <1>4
  <2> QED BY <1>5, <2>1
<1>8. g[L] - f[L] = g[j] - f[j]
  <2>1. L \in 0..L /\ L >= j
    BY <1>0, <1>4
  <2> QED BY <1>6, <2>1
<1> QED BY <1>7, <1>8 DEF L

\* Two sums less than ten apart cannot both be multiples of ten.
LEMMA NotBothRound ==
    ASSUME NEW a \in Nat, NEW b \in Nat, b - a \in -9..9, a # b, a % 10 = 0
    PROVE  b % 10 # 0
OBVIOUS

\* What changed digits change in the sum.
LEMMA OneMore ==
    ASSUME NEW a \in Nat, NEW F \in Nat, NEW G \in Nat, NEW c \in 0..9, NEW d \in 0..9, c # d,
           G - F = (a + d) - (a + c)
    PROVE  G - F \in -9..9 /\ F # G
OBVIOUS

\* A number with one digit changed.
LEMMA OneChanged ==
    ASSUME NEW n \in Seq(DigitChars), CheckDigitOk(n), NEW i \in DOMAIN n, NEW d \in DigitChars, d # n[i]
    PROVE  ~CheckDigitOk([n EXCEPT ![i] = d])
<1> DEFINE m == [n EXCEPT ![i] = d]
<1>0. i \in 1..Len(n) /\ n # <<>> /\ Len(n) \in Nat
  OBVIOUS
<1>1. m \in Seq(DigitChars) /\ Len(m) = Len(n) /\ m # <<>> /\ m[i] = d /\ \A k \in 1..Len(n) : k # i => m[k] = n[k]
  BY <1>0
<1> HIDE DEF m
<1>2. PICK f \in [0..Len(n) -> Nat] : IsSums(n, f) /\ (CheckDigitOk(n) <=> f[Len(n)] % 10 = 0)
  BY <1>0, SumsAre
<1>3. PICK g \in [0..Len(m) -> Nat] : IsSums(m, g) /\ (CheckDigitOk(m) <=> g[Len(m)] % 10 = 0)
  BY <1>1, SumsAre
<1>4. g[i - 1] = f[i - 1] /\ g[Len(n)] - f[Len(n)] = g[i] - f[i]
  <2>1. i \in i..Len(n) /\ \A k \in 1..Len(n) : k \notin i..i => m[k] = n[k]
    BY <1>0, <1>1
  <2>2. g \in [0..Len(n) -> Nat] /\ IsSums(m, g) /\ IsSums(n, f) /\ f \in [0..Len(n) -> Nat] /\ Len(m) = Len(n)
    BY <1>1, <1>2, <1>3
  <2> QED BY <1>0, <1>1, <2>1, <2>2, SumsApart
<1>5. Counted(n, i) \in 0..9 /\ Counted(m, i) \in 0..9 /\ Counted(m, i) # Counted(n, i)
  <2>1. n[i] \in DigitChars
    BY <1>0
  <2>2. DigitValue(n[i]) # DigitValue(d) /\ DigitValue(n[i]) \in 0..9 /\ DigitValue(d) \in 0..9
    BY <2>1, DigitValues
  <2>3. PlaceOf(m, i) = PlaceOf(n, i) /\ PlaceOf(n, i) \in {0, 1}
    BY <1>0, <1>1, CountedIs DEF PlaceOf
  <2>4. Weight(PlaceOf(n, i), DigitValue(n[i])) # Weight(PlaceOf(n, i), DigitValue(d))
    BY <2>2, <2>3, WeightsApart
  <2>5. Counted(m, i) # Counted(n, i)
    BY <1>1, <2>3, <2>4 DEF Counted
  <2> QED BY <1>0, <1>1, <2>5, CountedIs
<1>6. f[i] = f[i - 1] + Counted(n, i) /\ g[i] = g[i - 1] + Counted(m, i)
  BY <1>0, <1>1, <1>2, <1>3 DEF IsSums
<1>7. f[i - 1] \in Nat /\ f[Len(n)] \in Nat /\ g[Len(n)] \in Nat
  <2>1. i - 1 \in 0..Len(n) /\ Len(n) \in 0..Len(n)
    BY <1>0
  <2> QED BY <1>1, <1>2, <1>3, <2>1
<1>8. g[Len(n)] - f[Len(n)] = (f[i - 1] + Counted(m, i)) - (f[i - 1] + Counted(n, i))
  BY <1>4, <1>6
<1>9. g[Len(n)] - f[Len(n)] \in -9..9 /\ f[Len(n)] # g[Len(n)]
  BY <1>5, <1>7, <1>8, OneMore
<1>10. f[Len(n)] % 10 = 0
  BY <1>2
<1>11. g[Len(n)] % 10 # 0
  BY <1>7, <1>9, <1>10, NotBothRound
<1>12. ~CheckDigitOk(m)
  BY <1>1, <1>3, <1>11
<1> QED BY <1>12 DEF m

\* A number with two neighbours swapped.
LEMMA TwoSwapped ==
    ASSUME NEW n \in Seq(DigitChars), CheckDigitOk(n), NEW i \in 1..(Len(n) - 1),
           n[i] # n[i + 1], {n[i], n[i + 1]} # {"0", "9"}
    PROVE  ~CheckDigitOk([n EXCEPT ![i] = n[i + 1], ![i + 1] = n[i]])
<1> DEFINE m == [n EXCEPT ![i] = n[i + 1], ![i + 1] = n[i]]
           j == i + 1
           x == DigitValue(n[i])
           y == DigitValue(n[j])
           p == PlaceOf(n, i)
<1>0. i \in 1..Len(n) /\ j \in 1..Len(n) /\ i # j /\ n # <<>> /\ Len(n) \in Nat /\ n[i] \in DigitChars /\ n[j] \in DigitChars
  OBVIOUS
<1>1. m \in Seq(DigitChars) /\ Len(m) = Len(n) /\ m # <<>> /\ m[i] = n[j] /\ m[j] = n[i]
      /\ \A k \in 1..Len(n) : k # i /\ k # j => m[k] = n[k]
  BY <1>0
<1> HIDE DEF m
<1>2. PICK f \in [0..Len(n) -> Nat] : IsSums(n, f) /\ (CheckDigitOk(n) <=> f[Len(n)] % 10 = 0)
  BY <1>0, SumsAre
<1>3. PICK g \in [0..Len(m) -> Nat] : IsSums(m, g) /\ (CheckDigitOk(m) <=> g[Len(m)] % 10 = 0)
  BY <1>1, SumsAre
<1>4. g[i - 1] = f[i - 1] /\ g[Len(n)] - f[Len(n)] = g[j] - f[j]
  <2>1. j \in i..Len(n) /\ \A k \in 1..Len(n) : k \notin i..j => m[k] = n[k]
    BY <1>0, <1>1
  <2>2. g \in [0..Len(n) -> Nat] /\ IsSums(m, g) /\ IsSums(n, f) /\ f \in [0..Len(n) -> Nat] /\ Len(m) = Len(n)
    BY <1>1, <1>2, <1>3
  <2>3. j = j /\ i \in 1..Len(n) /\ m \in Seq(DigitChars)
    BY <1>0, <1>1
  <2> HIDE DEF j
  <2> QED BY <2>1, <2>2, <2>3, SumsApart, ZenonT(40)
<1>5. x \in 0..9 /\ y \in 0..9 /\ x # y /\ ~(x = 0 /\ y = 9) /\ ~(x = 9 /\ y = 0)
  <2>1. x \in 0..9 /\ y \in 0..9 /\ Decimal[x + 1] = n[i] /\ Decimal[y + 1] = n[j]
    BY <1>0, DigitValues
  <2>2. Decimal[0 + 1] = "0" /\ Decimal[9 + 1] = "9"
    BY DEF Decimal
  <2> HIDE DEF x, y
  <2>3. x # y
    BY <2>1
  <2>4. ~(x = 0 /\ y = 9)
    BY <2>1, <2>2
  <2>5. ~(x = 9 /\ y = 0)
    BY <2>1, <2>2
  <2> QED BY <2>1, <2>3, <2>4, <2>5
<1>6. p \in {0, 1} /\ PlaceOf(m, i) = p /\ PlaceOf(n, j) = 1 - p /\ PlaceOf(m, j) = 1 - p
  <2>1. \A l, k \in Nat : k < l => (l - k) % 2 \in {0, 1} /\ (l - (k + 1)) % 2 = 1 - ((l - k) % 2)
    OBVIOUS
  <2>2. i \in Nat /\ i < Len(n) /\ Len(n) \in Nat
    BY <1>0
  <2> QED BY <1>1, <2>1, <2>2 DEF PlaceOf
<1> HIDE DEF x, y, p
<1>7. /\ Counted(n, i) = Weight(p, x) /\ Counted(n, j) = Weight(1 - p, y)
      /\ Counted(m, i) = Weight(p, y) /\ Counted(m, j) = Weight(1 - p, x)
  BY <1>1, <1>6 DEF Counted, x, y, p
<1>8. /\ Weight(p, x) \in 0..9 /\ Weight(1 - p, y) \in 0..9 /\ Weight(p, y) \in 0..9 /\ Weight(1 - p, x) \in 0..9
      /\ Weight(p, y) + Weight(1 - p, x) # Weight(p, x) + Weight(1 - p, y)
      /\ Weight(p, y) + Weight(1 - p, x) - (Weight(p, x) + Weight(1 - p, y)) \in -9..9
  BY <1>5, <1>6, WeightsApart
<1>9. /\ f[i] = f[i - 1] + Weight(p, x) /\ f[j] = f[i] + Weight(1 - p, y)
      /\ g[i] = g[i - 1] + Weight(p, y) /\ g[j] = g[i] + Weight(1 - p, x)
  <2>1. j - 1 = i
    BY <1>0
  <2> QED BY <1>0, <1>1, <1>2, <1>3, <1>7, <2>1 DEF IsSums
<1>10. f[i - 1] \in Nat /\ f[Len(n)] \in Nat /\ g[Len(n)] \in Nat
  <2>1. i - 1 \in 0..Len(n) /\ Len(n) \in 0..Len(n)
    BY <1>0
  <2> QED BY <1>1, <1>2, <1>3, <2>1
<1> HIDE DEF j
<1>11. g[Len(n)] - f[Len(n)] = ((f[i - 1] + Weight(p, y)) + Weight(1 - p, x)) - ((f[i - 1] + Weight(p, x)) + Weight(1 - p, y))
  BY <1>4, <1>9
<1>12. g[Len(n)] - f[Len(n)] \in -9..9 /\ f[Len(n)] # g[Len(n)]
  <2> DEFINE a == f[i - 1]
             F == f[Len(n)]
             G == g[Len(n)]
             c == Weight(p, x)
             d == Weight(1 - p, y)
             u == Weight(p, y)
             v == Weight(1 - p, x)
  <2>1. /\ a \in Nat /\ F \in Nat /\ G \in Nat /\ c \in 0..9 /\ d \in 0..9 /\ u \in 0..9 /\ v \in 0..9
        /\ u + v # c + d /\ u + v - (c + d) \in -9..9 /\ G - F = ((a + u) + v) - ((a + c) + d)
    BY <1>8, <1>10, <1>11
  <2> HIDE DEF a, F, G, c, d, u, v
  <2>2. G - F \in -9..9 /\ F # G
    BY <2>1
  <2> QED BY <2>2 DEF F, G
<1>13. f[Len(n)] % 10 = 0
  BY <1>2
<1>14. g[Len(n)] % 10 # 0
  BY <1>10, <1>12, <1>13, NotBothRound
<1>15. ~CheckDigitOk(m)
  BY <1>1, <1>3, <1>14
<1> QED BY <1>15 DEF m, j

\* The check digit of a card number, card.rs check_digit_ok: of a number of any
\* length that passes, no number with one digit mistyped passes, and none with two
\* neighbouring digits swapped, other than a 0 and a 9, which the sum cannot tell
\* apart.
THEOREM CheckDigitsCatch ==
    \A n \in Seq(DigitChars) : CheckDigitOk(n) =>
        /\ \A i \in DOMAIN n : \A d \in DigitChars \ {n[i]} : ~CheckDigitOk([n EXCEPT ![i] = d])
        /\ \A i \in 1..(Len(n) - 1) :
             n[i] # n[i + 1] /\ {n[i], n[i + 1]} # {"0", "9"} =>
                 ~CheckDigitOk([n EXCEPT ![i] = n[i + 1], ![i + 1] = n[i]])
<1> SUFFICES ASSUME NEW n \in Seq(DigitChars), CheckDigitOk(n)
             PROVE  /\ \A i \in DOMAIN n : \A d \in DigitChars \ {n[i]} : ~CheckDigitOk([n EXCEPT ![i] = d])
                    /\ \A i \in 1..(Len(n) - 1) :
                         n[i] # n[i + 1] /\ {n[i], n[i + 1]} # {"0", "9"} =>
                             ~CheckDigitOk([n EXCEPT ![i] = n[i + 1], ![i + 1] = n[i]])
  OBVIOUS
<1>1. ASSUME NEW i \in DOMAIN n, NEW d \in DigitChars \ {n[i]} PROVE ~CheckDigitOk([n EXCEPT ![i] = d])
  BY OneChanged
<1>2. ASSUME NEW i \in 1..(Len(n) - 1), n[i] # n[i + 1], {n[i], n[i + 1]} # {"0", "9"}
      PROVE  ~CheckDigitOk([n EXCEPT ![i] = n[i + 1], ![i + 1] = n[i]])
  BY <1>2, TwoSwapped
<1> QED
  BY <1>1, <1>2
=============================================================================
