---------------------------- MODULE ServerProofs ----------------------------
(***************************************************************************)
(* Proofs about the server's devices, pairings and sign-ups, for any       *)
(* number of devices, overlapping sign-ins and activations, tokens, links  *)
(* and codes, and any interleaving of their statements; and about the      *)
(* limit on guesses: a row that was not dropped counts the last guesses in *)
(* a row, so the waits between them add up to more than the window.        *)
(***************************************************************************)
EXTENDS Devices, Pairing, Signup, RateLimit, FiniteSetTheorems, TLAPS

-----------------------------------------------------------------------------
(* Guesses at an account: how long a row makes them wait.                   *)

\* The code's own numbers: five failures, then blocks of 1, 5 and 30 minutes
\* (block_seconds), a window of 15 minutes.  An account takes twelve guesses
\* in 15 minutes, and no more.
THEOREM TwelveGuesses == BudgetCovers(5, <<1, 5, 30>>, 15, 12)
<1> DEFINE W(n) == IF n <= 5 THEN 0 ELSE 1 + 5 * (n - 6)
<1>1. \A n \in Nat : Wait(n, 5, <<1, 5, 30>>) = W(n)
  BY DEF Wait
<1>2. \A i, n \in 1..21 : n = i + 12 /\ W(n) <= 15 => W(n) >= W(i) + 15
  OBVIOUS
<1>3. \A i, p, n \in 1..21 : 2 <= i /\ i <= p /\ p + n = i + 12 /\ W(p) <= 15 /\ W(n) <= 15
        => W(p + 1) + W(n) >= W(i) + 15
  OBVIOUS
<1>4. \A n \in 1..21 : n \in Nat /\ n + 1 \in Nat
  OBVIOUS
<1>5. 5 + 15 + 1 = 21
  OBVIOUS
<1> HIDE DEF W
<1> QED
  BY <1>1, <1>2, <1>3, <1>4, <1>5 DEF BudgetCovers

DueAt(n) == Wait(n, MaxFailures, Blocks)

LEMMA Numbers ==
    /\ MaxFailures \in Nat /\ MaxFailures >= 1 /\ ManyFailures \in Nat /\ MaxFailures <= ManyFailures
    /\ Blocks[1] \in Nat /\ Blocks[2] \in Nat /\ Blocks[3] \in Nat /\ 0 < Blocks[2] /\ Blocks[2] <= Blocks[3]
    /\ GuessWindow \in Nat /\ GuessBudget \in Nat /\ GuessBudget >= 1 /\ MaxMinute \in Nat
BY RateAssumption

LEMMA DueAtIs ==
    /\ \A n \in Nat : DueAt(n) \in Nat
    /\ \A n \in Nat : n <= MaxFailures => DueAt(n) = 0
    /\ \A n \in Nat : n >= MaxFailures => DueAt(n + 1) <= DueAt(n) + BlockMinutes(n)
    /\ \A n \in Nat : DueAt(n) <= GuessWindow => n <= MaxFailures + GuessWindow + 1
<1> DEFINE b1 == Blocks[1]
           b2 == Blocks[2]
           b3 == Blocks[3]
           m == MaxFailures
<1>0. m \in Nat /\ b1 \in Nat /\ b2 \in Nat /\ b2 >= 1 /\ b3 \in Nat /\ b2 <= b3 /\ GuessWindow \in Nat
  BY Numbers
<1>1. \A n : DueAt(n) = IF n <= m THEN 0 ELSE b1 + b2 * (n - m - 1)
  BY DEF DueAt, Wait
<1>2. \A n \in Nat : n <= m => BlockMinutes(n) = b1
  BY DEF BlockMinutes
<1>3. \A n \in Nat : n > m => BlockMinutes(n) \in {b2, b3}
  BY <1>0 DEF BlockMinutes
<1> HIDE DEF b1, b2, b3, m
<1>4. \A x \in Nat : b2 * x \in Nat /\ b2 * x >= x /\ b2 * (x + 1) = b2 * x + b2
  BY <1>0
<1>5. b2 * 0 = 0
  BY <1>0
<1>6. ASSUME NEW n \in Nat, n > m
      PROVE  /\ DueAt(n) \in Nat /\ DueAt(n) = b1 + b2 * (n - m - 1) /\ DueAt(n + 1) = DueAt(n) + b2
             /\ DueAt(n) <= GuessWindow => n <= m + GuessWindow + 1
  <2> DEFINE x == n - m - 1
  <2>1. x \in Nat /\ n = x + m + 1 /\ (n + 1) - m - 1 = x + 1
    BY <1>0, <1>6
  <2>2. DueAt(n) = b1 + b2 * x
    BY <1>0, <1>1, <1>6
  <2>3. DueAt(n + 1) = b1 + b2 * (x + 1)
    BY <1>0, <1>1, <1>6, <2>1
  <2> HIDE DEF x
  <2> DEFINE y == b2 * x
  <2>4. y \in Nat /\ y >= x /\ b2 * (x + 1) = y + b2
    BY <1>4, <2>1
  <2>5. DueAt(n) = b1 + y /\ DueAt(n + 1) = b1 + (y + b2)
    BY <2>2, <2>3, <2>4
  <2> HIDE DEF y
  <2>6. DueAt(n) \in Nat /\ DueAt(n + 1) = DueAt(n) + b2
    BY <1>0, <2>4, <2>5
  <2>7. DueAt(n) <= GuessWindow => n <= m + GuessWindow + 1
    BY <1>0, <2>1, <2>4, <2>5
  <2> QED BY <2>2, <2>6, <2>7 DEF x
<1>7. \A n \in Nat : n <= m => DueAt(n) = 0
  BY <1>1
<1>8. DueAt(m + 1) = b1
  <2>1. m + 1 \in Nat /\ m + 1 > m /\ (m + 1) - m - 1 = 0
    BY <1>0
  <2>2. DueAt(m + 1) = b1 + b2 * ((m + 1) - m - 1)
    BY <1>6, <2>1
  <2>3. DueAt(m + 1) = b1 + b2 * 0
    BY <2>1, <2>2
  <2> QED BY <1>0, <1>5, <2>3
<1>9. ASSUME NEW n \in Nat PROVE DueAt(n) \in Nat /\ (DueAt(n) <= GuessWindow => n <= m + GuessWindow + 1)
  <2>1. CASE n <= m
    BY <2>1, <1>0, <1>7
  <2>2. CASE n > m
    BY <2>2, <1>6
  <2> QED BY <2>1, <2>2, <1>0
<1>10. ASSUME NEW n \in Nat, n >= m PROVE DueAt(n + 1) <= DueAt(n) + BlockMinutes(n)
  <2>1. CASE n = m
    <3>1. DueAt(n) = 0 /\ BlockMinutes(n) = b1 /\ DueAt(n + 1) = b1
      BY <2>1, <1>0, <1>2, <1>7, <1>8
    <3> QED BY <3>1, <1>0
  <2>2. CASE n > m
    <3>1. DueAt(n + 1) = DueAt(n) + b2 /\ DueAt(n) \in Nat /\ BlockMinutes(n) \in {b2, b3}
      BY <2>2, <1>3, <1>6
    <3> QED BY <3>1, <1>0
  <2> QED BY <2>1, <2>2, <1>0, <1>10
<1> QED
  BY <1>7, <1>9, <1>10 DEF m

LEMMA BudgetIs ==
    /\ \A i, n \in Nat \ {0} : n = i + GuessBudget /\ DueAt(n) <= GuessWindow => DueAt(n) >= DueAt(i) + GuessWindow
    /\ \A i, p, n \in Nat \ {0} :
         2 <= i /\ i <= p /\ p + n = i + GuessBudget /\ DueAt(p) <= GuessWindow /\ DueAt(n) <= GuessWindow
         => DueAt(p + 1) + DueAt(n) >= DueAt(i) + GuessWindow
<1> DEFINE N == 1..(MaxFailures + GuessWindow + 1)
<1>1. \A n \in Nat \ {0} : DueAt(n) <= GuessWindow => n \in N
  BY DueAtIs, Numbers
<1>2. /\ \A i, n \in N : n = i + GuessBudget /\ DueAt(n) <= GuessWindow => DueAt(n) >= DueAt(i) + GuessWindow
      /\ \A i, p, n \in N :
         2 <= i /\ i <= p /\ p + n = i + GuessBudget /\ DueAt(p) <= GuessWindow /\ DueAt(n) <= GuessWindow
         => DueAt(p + 1) + DueAt(n) >= DueAt(i) + GuessWindow
  BY BudgetAssumption DEF BudgetCovers, DueAt
<1>3. \A i, n \in Nat \ {0} : n \in N /\ i <= n => i \in N
  BY Numbers
<1>4. \A i, n \in Nat \ {0} : n = i + GuessBudget => i <= n
  BY Numbers
<1> HIDE DEF N
<1> QED
  BY <1>1, <1>2, <1>3, <1>4

-----------------------------------------------------------------------------
(* Guesses at an account: what its row says of them.                        *)

\* g are the minutes of the guesses, the last n of them counted by the row
\* whose window began at start.
Sorted(g) == \A j, k \in 1..Len(g) : j <= k => g[j] <= g[k]

PresentFits(g, n, start) ==
    /\ n \in 1..Len(g) /\ start = g[Len(g) - n + 1] /\ g[Len(g)] <= start + GuessWindow
    /\ \A i \in 1..n : g[Len(g)] + DueAt(i) >= g[Len(g) - n + i] + DueAt(n)

\* The window before counted p of them.
BeforeFits(g, n, start, p) ==
    /\ p \in 1..(Len(g) - n) /\ DueAt(p) <= GuessWindow
    /\ g[Len(g) - n - p + 1] + GuessWindow < start
    /\ \A i \in 1..p : start + DueAt(i) >= g[Len(g) - n - p + i] + DueAt(p + 1)

\* The newest guess comes a window after the one GuessBudget before it.
LEMMA NewestFits ==
    ASSUME NEW g \in Seq(Nat), Sorted(g), NEW n, NEW start, PresentFits(g, n, start),
           Len(g) > n => \E p : BeforeFits(g, n, start, p),
           NEW k \in 1..Len(g), k + GuessBudget = Len(g)
    PROVE  g[Len(g)] >= g[k] + GuessWindow
<1> DEFINE L == Len(g)
           B == GuessBudget
           W == GuessWindow
<1>0. L \in Nat /\ n \in 1..L /\ B \in Nat /\ W \in Nat /\ B >= 1 /\ k \in 1..L /\ L = k + B
  BY Numbers DEF PresentFits
<1>g. \A j \in 1..L : g[j] \in Nat
  OBVIOUS
<1>s. start \in Nat /\ start = g[L - n + 1] /\ g[L] <= start + W
  <2>1. L - n + 1 \in 1..L
    BY <1>0
  <2> QED BY <1>g, <2>1 DEF PresentFits
<1>p. \A i \in 1..n : g[L] + DueAt(i) >= g[L - n + i] + DueAt(n)
  BY DEF PresentFits
<1>sorted. \A i, j \in 1..L : i <= j => g[i] <= g[j]
  BY DEF Sorted
<1>b. ASSUME L > n PROVE \E p : /\ p \in 1..(L - n) /\ DueAt(p) <= W
                           /\ g[L - n - p + 1] + W < start
                           /\ \A i \in 1..p : start + DueAt(i) >= g[L - n - p + i] + DueAt(p + 1)
  BY <1>b DEF BeforeFits
<1> HIDE DEF L, B, W
<1>d. \A j \in Nat : DueAt(j) \in Nat
  BY DueAtIs
<1>1. DueAt(1) = 0
  BY DueAtIs, Numbers
<1>2. g[L] >= start + DueAt(n)
  <2>1. 1 \in 1..n /\ L \in 1..L
    BY <1>0
  <2>2. g[L] + DueAt(1) >= g[L - n + 1] + DueAt(n)
    BY <1>p, <2>1
  <2>3. g[L] \in Nat /\ DueAt(n) \in Nat
    BY <1>0, <1>d, <1>g, <2>1
  <2> QED BY <1>1, <1>s, <2>2, <2>3
<1>v. g[L] \in Nat /\ g[k] \in Nat
  <2>1. L \in 1..L /\ k \in 1..L
    BY <1>0
  <2> QED BY <1>g, <2>1
<1>n. W \in Nat /\ start \in Nat /\ DueAt(n) \in Nat
  BY <1>0, <1>d, <1>s
<1>u. g[L] <= start + W
  BY <1>s
<1>3. DueAt(n) <= W
  BY <1>2, <1>u, <1>v, <1>n
<1>4. CASE k > L - n
  <2> DEFINE i == k - (L - n)
  <2>1. i \in 1..n /\ L - n + i = k /\ n = i + B /\ i \in Nat \ {0} /\ n \in Nat \ {0} /\ L \in 1..L
    BY <1>0, <1>4
  <2> HIDE DEF i
  <2>2. DueAt(n) >= DueAt(i) + W
    BY <1>3, <2>1, BudgetIs DEF B, W
  <2>3. g[L] + DueAt(i) >= g[k] + DueAt(n)
    BY <1>p, <2>1
  <2>4. g[L] \in Nat /\ g[k] \in Nat /\ DueAt(n) \in Nat /\ DueAt(i) \in Nat
    BY <1>0, <1>d, <1>g, <2>1
  <2>5. g[L] >= g[k] + W
    BY <1>0, <2>2, <2>3, <2>4, SMTT(30)
  <2> QED BY <2>5 DEF L, W
<1>5. CASE k <= L - n
  <2>1. PICK p : /\ p \in 1..(L - n) /\ DueAt(p) <= W
                 /\ g[L - n - p + 1] + W < start
                 /\ \A i \in 1..p : start + DueAt(i) >= g[L - n - p + i] + DueAt(p + 1)
    <3>1. L > n
      BY <1>0, <1>5
    <3> QED BY <3>1, <1>b
  <2>2. L \in 1..L /\ L - n - p + 1 \in 1..L /\ p \in Nat /\ n \in Nat
    BY <1>0, <2>1
  <2>3. g[L - n - p + 1] \in Nat /\ g[L] >= start
    <3>1. g[L - n - p + 1] \in Nat
      BY <1>g, <2>2
    <3>2. g[L] >= start
      BY <1>2, <1>v, <1>n
    <3> QED BY <3>1, <3>2
  <2>4. CASE k <= L - n - p + 1
    <3>1. g[k] <= g[L - n - p + 1]
      BY <1>0, <1>sorted, <2>2, <2>4
    <3> DEFINE z == g[L - n - p + 1]
    <3>3. z \in Nat /\ g[k] <= z /\ z + W < start /\ g[L] >= start
      BY <2>1, <2>3, <3>1
    <3> HIDE DEF z
    <3>2. g[L] >= g[k] + W
      BY <1>v, <1>n, <3>3
    <3> QED BY <3>2 DEF L, W
  <2>5. CASE k > L - n - p + 1
    <3> DEFINE i == k - (L - n - p)
    <3>1. i \in 1..p /\ 2 <= i /\ L - n - p + i = k /\ p + n = i + B /\ i \in Nat \ {0} /\ n \in Nat \ {0} /\ p \in Nat \ {0}
      BY <1>0, <1>5, <2>1, <2>5
    <3> HIDE DEF i
    <3>2. i <= p /\ p + 1 \in Nat
      BY <3>1
    <3>3. DueAt(p + 1) + DueAt(n) >= DueAt(i) + W
      BY <1>3, <2>1, <3>1, <3>2, BudgetIs DEF B, W
    <3>4. start + DueAt(i) >= g[k] + DueAt(p + 1)
      BY <2>1, <3>1
    <3>5. DueAt(i) \in Nat /\ DueAt(p + 1) \in Nat
      BY <1>d, <3>1, <3>2
    <3>6. g[L] >= g[k] + W
      BY <1>2, <1>v, <1>n, <3>3, <3>4, <3>5, SMTT(30)
    <3> QED BY <3>6 DEF L, W
  <2> QED BY <1>0, <2>1, <2>4, <2>5
<1> QED
  BY <1>0, <1>4, <1>5

\* The account's row and the guesses it counted.
IsRow(row) == row.failures \in Nat /\ row.start \in Nat /\ row.until \in Nat

RowFits(row, g, now) ==
    /\ IsRow(row) /\ g \in Seq(Nat) /\ now \in Nat
    /\ \A j \in 1..Len(g) : g[j] <= now
    /\ Sorted(g)
    /\ row.failures = 0 <=> Len(g) = 0
    /\ row.failures # 0 =>
         /\ PresentFits(g, row.failures, row.start)
         /\ row.failures >= MaxFailures => row.until + DueAt(row.failures) >= g[Len(g)] + DueAt(row.failures + 1)
         /\ Len(g) > row.failures => \E p : BeforeFits(g, row.failures, row.start, p)

GuessesApart(g) == \A k \in 1..Len(g) : k + GuessBudget <= Len(g) => g[k + GuessBudget] >= g[k] + GuessWindow

\* Under the numbers n and start, one more guess at minute t.
LEMMA OneMore ==
    ASSUME NEW g \in Seq(Nat), NEW t \in Nat, \A j \in 1..Len(g) : g[j] <= t, Sorted(g),
           NEW n, NEW start, PresentFits(Append(g, t), n, start),
           Len(g) + 1 > n => \E p : BeforeFits(Append(g, t), n, start, p),
           GuessesApart(g)
    PROVE  Sorted(Append(g, t)) /\ GuessesApart(Append(g, t))
<1> DEFINE h == Append(g, t)
           L == Len(g)
<1>1. h \in Seq(Nat) /\ L \in Nat /\ Len(h) = L + 1 /\ h[L + 1] = t
  OBVIOUS
<1>2. \A j \in 1..L : h[j] = g[j] /\ g[j] \in Nat /\ g[j] <= t
  OBVIOUS
<1>3. \A j \in 1..(L + 1) : j \in 1..L \/ j = L + 1
  BY <1>1
<1>s. \A j, k \in 1..L : j <= k => g[j] <= g[k]
  BY DEF Sorted
<1>a. \A k \in 1..L : k + GuessBudget <= L => g[k + GuessBudget] >= g[k] + GuessWindow
  BY DEF GuessesApart
<1>x. PresentFits(h, n, start) /\ (Len(h) > n => \E p : BeforeFits(h, n, start, p))
  BY <1>1
<1> HIDE DEF h, L
<1>4. Sorted(h)
  <2> SUFFICES ASSUME NEW j \in 1..(L + 1), NEW k \in 1..(L + 1), j <= k PROVE h[j] <= h[k]
    BY <1>1 DEF Sorted
  <2>1. CASE k = L + 1
    BY <2>1, <1>1, <1>2, <1>3
  <2>2. CASE k \in 1..L
    <3>1. j \in 1..L
      BY <2>2, <1>1
    <3> QED BY <3>1, <2>2, <1>2, <1>s
  <2> QED BY <2>1, <2>2, <1>3
<1>5. GuessesApart(h)
  <2> SUFFICES ASSUME NEW k \in 1..(L + 1), k + GuessBudget <= L + 1 PROVE h[k + GuessBudget] >= h[k] + GuessWindow
    BY <1>1 DEF GuessesApart
  <2>0. GuessBudget \in Nat /\ GuessBudget >= 1
    BY Numbers
  <2>1. CASE k + GuessBudget = L + 1
    BY <2>1, <1>1, <1>4, <1>x, NewestFits
  <2>2. CASE k + GuessBudget <= L
    <3>1. k \in 1..L /\ k + GuessBudget \in 1..L
      BY <2>0, <2>2, <1>1
    <3> QED BY <2>2, <3>1, <1>2, <1>a
  <2> QED BY <2>0, <2>1, <2>2, <1>1
<1> QED
  BY <1>4, <1>5 DEF h

RateInv ==
    /\ counter \in [Keys -> {counter[k] : k \in Keys}]
    /\ claiming \in [Claims -> Addresses \cup {"none"}]
    /\ RowFits(counter["account"], guesses, minute)
    /\ GuessesApart(guesses)

\* A charge that is let through: the row counts the guess in its window, or in
\* a new one if that was over.
LEMMA ChargedFits ==
    ASSUME NEW row, NEW g, minute \in Nat, RowFits(row, g, minute), GuessesApart(g), ~(row.until > minute)
    PROVE  RowFits(Charged(row), Append(g, minute), minute) /\ GuessesApart(Append(g, minute))
<1> DEFINE n == row.failures
           L == Len(g)
           t == minute
           W == GuessWindow
           h == Append(g, t)
           r == Charged(row)
<1>0. IsRow(row) /\ g \in Seq(Nat) /\ t \in Nat /\ (\A j \in 1..L : g[j] <= t) /\ Sorted(g) /\ (n = 0 <=> L = 0)
  BY DEF RowFits
<1>1. n \in Nat /\ row.start \in Nat /\ row.until \in Nat /\ row.until <= t /\ L \in Nat /\ W \in Nat
  BY <1>0, Numbers DEF IsRow
<1>2. h \in Seq(Nat) /\ Len(h) = L + 1 /\ h[L + 1] = t
  BY <1>0
<1>3. \A j \in 1..L : h[j] = g[j] /\ g[j] \in Nat /\ g[j] <= t
  BY <1>0
<1>d. \A j \in Nat : DueAt(j) \in Nat
  BY DueAtIs
<1>d1. DueAt(1) = 0
  BY DueAtIs, Numbers
<1>b. \A j \in Nat : BlockMinutes(j) \in Nat
  BY Numbers DEF BlockMinutes
<1>r. /\ r.failures = IF Stale(row) THEN 1 ELSE n + 1
      /\ r.start = IF Stale(row) \/ n = 0 THEN t ELSE row.start
      /\ r.until = IF r.failures >= MaxFailures THEN t + BlockMinutes(r.failures) ELSE row.until
  BY DEF Charged
<1> HIDE DEF r
<1>4. r.failures \in Nat /\ r.failures # 0 /\ IsRow(r)
  <2>1. r.failures \in Nat /\ r.failures # 0
    BY <1>1, <1>r
  <2>2. r.start \in Nat
    BY <1>0, <1>1, <1>r
  <2>3. t + BlockMinutes(r.failures) \in Nat
    <3>1. BlockMinutes(r.failures) \in Nat
      BY <1>b, <2>1
    <3>2. t \in Nat
      BY <1>0
    <3> QED BY <3>1, <3>2
  <2>4. r.until \in Nat
    BY <1>1, <1>r, <2>3
  <2> QED BY <2>1, <2>2, <2>4 DEF IsRow
<1>5. r.failures >= MaxFailures => r.until + DueAt(r.failures) >= h[Len(h)] + DueAt(r.failures + 1)
  <2> DEFINE q == r.failures
  <2>1. q \in Nat
    BY <1>4
  <2> SUFFICES ASSUME q >= MaxFailures PROVE r.until + DueAt(q) >= t + DueAt(q + 1)
    BY <1>2
  <2>2. r.until = t + BlockMinutes(q)
    BY <1>r
  <2> HIDE DEF q
  <2>3. DueAt(q + 1) <= DueAt(q) + BlockMinutes(q)
    BY <2>1, DueAtIs
  <2>4. DueAt(q + 1) \in Nat /\ DueAt(q) \in Nat /\ BlockMinutes(q) \in Nat
    BY <2>1, <1>b, <1>d
  <2> QED BY <1>0, <2>2, <2>3, <2>4
\* What the row says when there is one.
<1>6. ASSUME n # 0
      PROVE  /\ n \in 1..L /\ row.start = g[L - n + 1]
             /\ \A i \in 1..n : t + DueAt(i) >= g[L - n + i] + DueAt(n + 1)
             /\ DueAt(n) <= W
  <2>1. /\ n \in 1..L /\ row.start = g[L - n + 1] /\ g[L] <= row.start + W
        /\ \A i \in 1..n : g[L] + DueAt(i) >= g[L - n + i] + DueAt(n)
    BY <1>6 DEF RowFits, PresentFits
  <2>2. n >= MaxFailures => row.until + DueAt(n) >= g[L] + DueAt(n + 1)
    BY <1>6 DEF RowFits
  <2>3. g[L] \in Nat /\ g[L] <= t
    <3>1. L \in 1..L
      BY <1>1, <2>1
    <3> QED BY <3>1, <1>3
  <2>4. DueAt(n) \in Nat /\ DueAt(n + 1) \in Nat
    <3>1. n \in Nat /\ n + 1 \in Nat
      BY <1>1
    <3> HIDE DEF n
    <3> QED BY <3>1, <1>d
  <2>5. t + DueAt(n) >= g[L] + DueAt(n + 1)
    <3>1. CASE n >= MaxFailures
      BY <3>1, <1>0, <1>1, <2>2, <2>3, <2>4
    <3>2. CASE n < MaxFailures
      <4>1. n + 1 <= MaxFailures /\ n <= MaxFailures /\ n + 1 \in Nat
        BY <3>2, <1>1, Numbers, SMTT(30)
      <4>2. DueAt(n) = 0 /\ DueAt(n + 1) = 0
        BY <4>1, <1>1, DueAtIs
      <4> QED BY <4>2, <2>3, <1>0
    <3> QED BY <3>1, <3>2, <1>1, Numbers
  <2>6. ASSUME NEW i \in 1..n PROVE t + DueAt(i) >= g[L - n + i] + DueAt(n + 1)
    <3>1. L - n + i \in 1..L /\ i \in Nat
      BY <2>1, <1>1, SMTT(30)
    <3> DEFINE z == g[L - n + i]
               di == DueAt(i)
    <3>2. z \in Nat /\ di \in Nat
      BY <3>1, <1>3, <1>d
    <3>3. g[L] + di >= z + DueAt(n)
      BY <2>1
    <3> HIDE DEF z, di
    <3>4. t + di >= z + DueAt(n + 1)
      BY <1>0, <2>3, <2>4, <2>5, <3>2, <3>3, SMTT(30)
    <3> QED BY <3>4 DEF z, di
  <2>7. DueAt(n) <= W
    <3> DEFINE z == g[L - n + 1]
    <3>1. L - n + 1 \in 1..L /\ 1 \in 1..n
      BY <2>1, <1>1
    <3>2. z \in Nat
      BY <3>1, <1>3
    <3>3. g[L] + 0 >= z + DueAt(n) /\ g[L] <= z + W
      BY <2>1, <3>1, <1>d1
    <3> HIDE DEF z
    <3> QED BY <3>2, <3>3, <2>3, <2>4, <1>1
  <2> QED BY <2>1, <2>6, <2>7
<1>7. ASSUME n = 0 \/ Stale(row)
      PROVE  /\ PresentFits(h, r.failures, r.start)
             /\ Len(h) > r.failures => \E p : BeforeFits(h, r.failures, r.start, p)
  <2>1. r.failures = 1 /\ r.start = t
    BY <1>7, <1>r
  <2>2. PresentFits(h, 1, t)
    <3>1. Len(h) - 1 + 1 = L + 1 /\ 1 \in 1..Len(h)
      BY <1>1, <1>2
    <3>2. \A i \in 1..1 : i = 1
      OBVIOUS
    <3>3. h[Len(h)] = t /\ h[Len(h) - 1 + 1] = t
      BY <1>2, <3>1
    <3>4. t <= t + W /\ t + DueAt(1) >= t + DueAt(1)
      BY <1>0, <1>1, <1>d1
    <3> QED BY <3>1, <3>2, <3>3, <3>4 DEF PresentFits
  <2>3. ASSUME Len(h) > 1 PROVE BeforeFits(h, 1, t, n)
    <3>1. n # 0 /\ Stale(row)
      BY <2>3, <1>0, <1>1, <1>2, <1>7
    <3>2. /\ n \in 1..L /\ row.start = g[L - n + 1]
          /\ \A i \in 1..n : t + DueAt(i) >= g[L - n + i] + DueAt(n + 1)
          /\ DueAt(n) <= W
      BY <1>6, <3>1
    <3>3. Len(h) - 1 = L
      BY <1>1, <1>2
    <3>4. \A i \in 1..n : h[L - n + i] = g[L - n + i]
      <4>1. \A i \in 1..n : L - n + i \in 1..L
        BY <3>2, <1>1
      <4> QED BY <4>1, <1>3
    <3>5. h[L - n + 1] + W < t
      <4>1. h[L - n + 1] = row.start
        BY <3>2, <3>4, <1>1
      <4> QED BY <4>1, <3>1 DEF Stale
    <3>6. \A i \in 1..n : t + DueAt(i) >= h[L - n + i] + DueAt(n + 1)
      BY <3>2, <3>4
    <3> HIDE DEF h, n, L, t
    <3> QED BY <3>2, <3>3, <3>5, <3>6 DEF BeforeFits
  <2> QED BY <2>1, <2>2, <2>3
<1>8. ASSUME n # 0, ~Stale(row)
      PROVE  /\ PresentFits(h, r.failures, r.start)
             /\ Len(h) > r.failures => \E p : BeforeFits(h, r.failures, r.start, p)
  <2>1. r.failures = n + 1 /\ r.start = row.start
    BY <1>8, <1>r
  <2>2. /\ n \in 1..L /\ row.start = g[L - n + 1]
        /\ \A i \in 1..n : t + DueAt(i) >= g[L - n + i] + DueAt(n + 1)
    BY <1>6, <1>8
  <2>3. t <= row.start + W
    BY <1>0, <1>1, <1>8 DEF Stale
  <2>4. Len(h) - (n + 1) = L - n /\ n + 1 \in 1..Len(h) /\ h[Len(h)] = t
    <3>1. n \in 1..L /\ n \in Nat /\ L \in Nat /\ Len(h) = L + 1
      BY <1>1, <1>2, <2>2
    <3>2. h[Len(h)] = t
      BY <1>2
    <3> HIDE DEF h, n, L, t
    <3>3. Len(h) - (n + 1) = L - n /\ n + 1 \in 1..Len(h)
      BY <3>1
    <3> QED BY <3>2, <3>3
  <2>5. h[L - n + 1] = row.start
    <3>1. L - n + 1 \in 1..L
      BY <1>1, <2>2
    <3> QED BY <3>1, <1>3, <2>2
  <2>6. ASSUME NEW i \in 1..(n + 1) PROVE t + DueAt(i) >= h[L - n + i] + DueAt(n + 1)
    <3>1. i \in 1..n \/ i = n + 1
      BY <1>1
    <3>2. CASE i \in 1..n
      <4>1. L - n + i \in 1..L
        BY <3>2, <1>1, <2>2
      <4>2. h[L - n + i] = g[L - n + i]
        BY <4>1, <1>3
      <4> QED BY <4>2, <3>2, <2>2
    <3>3. CASE i = n + 1
      <4>1. L - n + i = L + 1
        BY <3>3, <1>1
      <4>2. h[L - n + i] = t
        BY <4>1, <1>2
      <4>3. n + 1 \in Nat
        BY <1>1
      <4>4. DueAt(n + 1) \in Nat /\ t \in Nat
        BY <4>3, <1>0, <1>d
      <4> HIDE DEF h, n, L, t
      <4> QED BY <4>2, <4>4, <3>3
    <3> QED BY <3>1, <3>2, <3>3
  <2>7. PresentFits(h, n + 1, row.start)
    <3> HIDE DEF h, n, L, t
    <3> QED BY <2>3, <2>4, <2>5, <2>6 DEF PresentFits, W
  <2>8. ASSUME Len(h) > n + 1 PROVE \E p : BeforeFits(h, n + 1, row.start, p)
    <3>1. L > n
      BY <2>8, <1>1, <1>2
    <3>2. PICK p : BeforeFits(g, n, row.start, p)
      BY <3>1, <1>8 DEF RowFits
    <3>3. /\ p \in 1..(L - n) /\ DueAt(p) <= W /\ g[L - n - p + 1] + W < row.start
          /\ \A i \in 1..p : row.start + DueAt(i) >= g[L - n - p + i] + DueAt(p + 1)
      BY <3>2 DEF BeforeFits
    <3>4. \A i \in 1..p : h[L - n - p + i] = g[L - n - p + i]
      <4>0. p \in 1..(L - n) /\ n \in Nat /\ L \in Nat
        BY <3>3, <1>1
      <4>1. \A i \in 1..p : L - n - p + i \in 1..L
        <5> HIDE DEF n, L
        <5> QED BY <4>0
      <4> QED BY <4>1, <1>3
    <3>5. h[L - n - p + 1] + W < row.start /\ \A i \in 1..p : row.start + DueAt(i) >= h[L - n - p + i] + DueAt(p + 1)
      <4>1. 1 \in 1..p
        BY <3>3, <1>1
      <4> QED BY <3>3, <3>4, <4>1
    <3>6. BeforeFits(h, n + 1, row.start, p)
      <4> HIDE DEF h, n, L, t
      <4> QED BY <2>4, <3>3, <3>5 DEF BeforeFits, W
    <3> QED BY <3>6
  <2> QED BY <2>1, <2>7, <2>8
<1>9. /\ PresentFits(h, r.failures, r.start)
      /\ Len(h) > r.failures => \E p : BeforeFits(h, r.failures, r.start, p)
  BY <1>7, <1>8
<1>10. Sorted(h) /\ GuessesApart(h)
  <2>1. L + 1 > r.failures => \E p : BeforeFits(h, r.failures, r.start, p)
    BY <1>2, <1>9
  <2> QED BY <1>0, <1>9, <2>1, OneMore
<1>11. \A j \in 1..Len(h) : h[j] <= t
  <2> TAKE j \in 1..Len(h)
  <2>1. j \in 1..L \/ j = L + 1
    BY <1>1, <1>2
  <2> QED BY <2>1, <1>0, <1>2, <1>3
<1>12. (r.failures = 0) <=> (Len(h) = 0)
  BY <1>1, <1>2, <1>4
<1>13. RowFits(r, h, t)
  <2> HIDE DEF h, t
  <2> QED BY <1>0, <1>2, <1>4, <1>5, <1>9, <1>10, <1>11, <1>12 DEF RowFits
<1> QED
  BY <1>10, <1>13 DEF r

LEMMA RateInvInit == RateInit => RateInv
<1> SUFFICES ASSUME RateInit PROVE RateInv
  OBVIOUS
<1>1. minute = 0 /\ counter = [k \in Keys |-> NoFailures] /\ guesses = <<>> /\ claiming = [c \in Claims |-> "none"]
  BY DEF RateInit
<1>2. counter["account"] = NoFailures
  BY <1>1 DEF Keys
<1>3. counter \in [Keys -> {counter[k] : k \in Keys}] /\ claiming \in [Claims -> Addresses \cup {"none"}]
  BY <1>1
<1>4. RowFits(NoFailures, guesses, minute) /\ GuessesApart(guesses)
  BY <1>1 DEF RowFits, NoFailures, IsRow, Sorted, GuessesApart
<1> QED
  BY <1>2, <1>3, <1>4 DEF RateInv

\* A step that leaves the account's row, the guesses and the clock alone.
LEMMA AccountUntouched ==
    ASSUME RateInv, counter' \in [Keys -> {counter'[k] : k \in Keys}], claiming' \in [Claims -> Addresses \cup {"none"}],
           counter'["account"] = counter["account"], minute' = minute, guesses' = guesses
    PROVE  RateInv'
BY DEF RateInv

LEMMA RateInvNext == RateInv /\ [RateNext]_rateVars => RateInv'
<1> SUFFICES ASSUME RateInv, [RateNext]_rateVars PROVE RateInv'
  OBVIOUS
<1>0. /\ DOMAIN counter = Keys /\ counter = [k \in Keys |-> counter[k]]
      /\ claiming \in [Claims -> Addresses \cup {"none"}]
      /\ RowFits(counter["account"], guesses, minute) /\ GuessesApart(guesses)
      /\ counter \in [Keys -> {counter[k] : k \in Keys}]
  BY DEF RateInv
<1>k. "account" \in Keys /\ \A a \in Addresses : a \in Keys /\ a # "account"
  BY RateAssumption DEF Keys
<1>m. minute \in Nat
  BY <1>0 DEF RowFits
<1>1. ASSUME NEW a \in Addresses, Guess(a) PROVE RateInv'
  <2>1. /\ ~(counter["account"].until > minute) /\ guesses' = Append(guesses, minute) /\ minute' = minute /\ claiming' = claiming
        /\ counter' = [counter EXCEPT !["account"] = Charged(@), ![a] = Charged(@)]
    BY <1>1 DEF Guess, Blocked
  <2>2. counter'["account"] = Charged(counter["account"]) /\ DOMAIN counter' = Keys /\ counter' = [k \in Keys |-> counter'[k]]
    BY <2>1, <1>0, <1>k
  <2>3. RowFits(Charged(counter["account"]), Append(guesses, minute), minute) /\ GuessesApart(Append(guesses, minute))
    BY <2>1, <1>0, <1>m, ChargedFits
  <2>4. counter' \in [Keys -> {counter'[k] : k \in Keys}]
    BY <2>2
  <2> QED BY <2>1, <2>2, <2>3, <2>4, <1>0 DEF RateInv
<1>2. ASSUME NEW a \in Addresses, SignedIn(a) PROVE RateInv'
  <2>1. /\ guesses' = <<>> /\ minute' = minute /\ claiming' = claiming
        /\ counter' = [counter EXCEPT !["account"] = NoFailures, ![a] = NoFailures]
    BY <1>2 DEF SignedIn
  <2>2. counter'["account"] = NoFailures /\ DOMAIN counter' = Keys /\ counter' = [k \in Keys |-> counter'[k]]
    BY <2>1, <1>0, <1>k
  <2>3. RowFits(NoFailures, <<>>, minute) /\ GuessesApart(<<>>)
    BY <1>m DEF RowFits, NoFailures, IsRow, Sorted, GuessesApart
  <2>4. counter' \in [Keys -> {counter'[k] : k \in Keys}]
    BY <2>2
  <2> QED BY <2>1, <2>2, <2>3, <2>4, <1>0 DEF RateInv
<1>3. ASSUME NEW c \in Claims, NEW a \in Addresses, ClaimChecked(c, a) PROVE RateInv'
  <2>1. claiming' = [claiming EXCEPT ![c] = a] /\ minute' = minute /\ counter' = counter /\ guesses' = guesses
    BY <1>3 DEF ClaimChecked
  <2>2. claiming' \in [Claims -> Addresses \cup {"none"}]
    BY <2>1, <1>0
  <2> QED BY <2>1, <2>2, <1>0 DEF RateInv
<1>4. ASSUME NEW c \in Claims, ClaimRefused(c) \/ ClaimAccepted(c) PROVE RateInv'
  <2>1. /\ claiming[c] \in Addresses /\ claiming' = [claiming EXCEPT ![c] = "none"] /\ minute' = minute /\ guesses' = guesses
        /\ \/ counter' = [counter EXCEPT ![claiming[c]] = Failed(@)]
           \/ counter' = [counter EXCEPT ![claiming[c]] = NoFailures]
           \/ counter' = counter
    BY <1>0, <1>4 DEF ClaimRefused, ClaimAccepted
  <2>2. claiming' \in [Claims -> Addresses \cup {"none"}]
    BY <2>1, <1>0
  <2>3. counter'["account"] = counter["account"] /\ DOMAIN counter' = Keys /\ counter' = [k \in Keys |-> counter'[k]]
    BY <2>1, <1>0, <1>k
  <2>4. counter' \in [Keys -> {counter'[k] : k \in Keys}]
    BY <2>3
  <2> QED BY <2>1, <2>2, <2>3, <2>4, AccountUntouched
<1>5. ASSUME Minute PROVE RateInv'
  <2>1. minute' = minute + 1 /\ guesses' = guesses /\ counter' = counter /\ claiming' = claiming
    BY <1>5 DEF Minute
  <2>2. guesses \in Seq(Nat) /\ \A j \in 1..Len(guesses) : guesses[j] <= minute
    BY <1>0 DEF RowFits
  <2>3. minute + 1 \in Nat /\ \A j \in 1..Len(guesses) : guesses[j] <= minute + 1
    BY <2>2, <1>m
  <2>4. RowFits(counter["account"], guesses, minute + 1)
    BY <2>3, <1>0 DEF RowFits
  <2> QED BY <2>1, <2>4, <1>0 DEF RateInv
<1>6. CASE UNCHANGED rateVars
  BY <1>6 DEF rateVars, RateInv
<1> QED
  BY <1>1, <1>2, <1>3, <1>4, <1>5, <1>6 DEF RateNext

\* However many addresses take part and however windows and blocks line up, an
\* account takes no more than GuessBudget wrong guesses in any stretch of
\* GuessWindow minutes (rate_limit.rs charge, block_seconds).
THEOREM GuessesBoundedHolds == RateSpec => []GuessesBounded
<1>1. RateInv => GuessesBounded
  <2> SUFFICES ASSUME RateInv PROVE GuessesBounded
    OBVIOUS
  <2>1. guesses \in Seq(Nat) /\ DOMAIN guesses = 1..Len(guesses) /\ Len(guesses) \in Nat
    BY DEF RateInv, RowFits
  <2>2. \A k \in 1..Len(guesses) : k + GuessBudget <= Len(guesses) => guesses[k + GuessBudget] >= guesses[k] + GuessWindow
    BY DEF RateInv, GuessesApart
  <2>3. \A k \in 1..Len(guesses) : k + GuessBudget \in 1..Len(guesses) => k + GuessBudget <= Len(guesses)
    BY <2>1, Numbers
  <2> QED BY <2>1, <2>2, <2>3 DEF GuessesBounded
<1> QED
  BY <1>1, RateInvInit, RateInvNext, PTL DEF RateSpec

-----------------------------------------------------------------------------
(* Devices: sign-ins, revocations, sign-outs and erasures.                  *)

USE DevicesAssumption

-----------------------------------------------------------------------------
(* The inductive invariant                                                  *)

\* The erasure's state and its tombstones have their types too.
EraseTypeOK ==
  /\ erasing \in [at : {"idle", "sessions", "devices", "commit"},
                  tokens : SUBSET (1..MaxTokens), devices : SUBSET DeviceIds]
  /\ goneTokens \subseteq 1..MaxTokens /\ goneDevices \subseteq DeviceIds

\* Sign-ins that were counted and are about to insert a device.
Writers == {q \in Attempts : attempt[q] = "write" /\ ~knownAt[q]}

\* Whoever was counted was counted while there was room, so the devices there
\* are and those still to be inserted stay below the limit and all sign-ins.
CountedFit == Cardinality(Active) + Cardinality(Writers) < MaxDevices + Cardinality(Attempts)

\* A sign-in that stands left a row in the devices table.
StandingHaveRows == status = "active" => \A d \in DeviceIds : newest[d] # 0 => devices[d] # "none"

Reissuing(d) == \E q \in Attempts : signing[q] = d /\ attempt[q] = "issue"

\* What the erasure has read so far covers every sign-in that stands: the
\* account row is locked, so none is added after the reads.
ReadsCover ==
  /\ erasing.at # "idle" => status = "active"
  /\ erasing.at \in {"devices", "commit"} =>
       \A d \in DeviceIds : newest[d] # 0 => newest[d] \in erasing.tokens \/ Reissuing(d)
  /\ erasing.at = "commit" =>
       \A d \in DeviceIds : newest[d] # 0 => d \in erasing.devices

DeviceInv == /\ DeviceTypeOK /\ EraseTypeOK /\ CountedFit /\ StandingHaveRows
             /\ ReadsCover /\ NewestTokenStands /\ DeletedIsTold

-----------------------------------------------------------------------------
(* Type correctness                                                        *)

LEMMA DeviceInitType == DeviceInit => DeviceTypeOK /\ EraseTypeOK
BY DEF DeviceInit, DeviceTypeOK, EraseTypeOK, NotErasing

LEMMA SignInType ==
    ASSUME DeviceTypeOK, EraseTypeOK, NEW q \in Attempts,
           \/ LoginAccepted(q) \/ RegisterRead(q) \/ RegisterCount(q) \/ RegisterWrite(q)
           \/ DropSessions(q) \/ IssueToken(q) \/ Again(q)
    PROVE  (DeviceTypeOK /\ EraseTypeOK)'
<1> USE DEF DeviceTypeOK, EraseTypeOK, Goto
<1>1. CASE LoginAccepted(q) \/ RegisterCount(q) \/ Again(q)
  BY <1>1, ZenonT(40) DEF LoginAccepted, RegisterCount, Again
<1>2. CASE RegisterRead(q)
  BY <1>2 DEF RegisterRead
<1>3. CASE RegisterWrite(q)
  BY <1>3 DEF RegisterWrite, AccountFree
<1>4. CASE DropSessions(q)
  BY <1>4 DEF DropSessions
<1>5. CASE IssueToken(q)
  BY <1>5 DEF IssueToken, StoreToken, AccountFree
<1> QED
  BY <1>1, <1>2, <1>3, <1>4, <1>5

LEMMA SessionType ==
    ASSUME DeviceTypeOK, EraseTypeOK, NEW d \in DeviceIds,
           Revoke(d) \/ \E t \in 1..MaxTokens : Logout(d, t) \/ DropOtherSessions(d, t)
    PROVE  (DeviceTypeOK /\ EraseTypeOK)'
<1> USE DEF DeviceTypeOK, EraseTypeOK, Withdraw, Authenticates
<1>1. CASE Revoke(d)
  BY <1>1 DEF Revoke
<1>2. ASSUME NEW t \in 1..MaxTokens, Logout(d, t)
      PROVE  (DeviceTypeOK /\ EraseTypeOK)'
  BY <1>2 DEF Logout
<1>3. ASSUME NEW t \in 1..MaxTokens, DropOtherSessions(d, t)
      PROVE  (DeviceTypeOK /\ EraseTypeOK)'
  BY <1>3 DEF DropOtherSessions
<1> QED
  BY <1>1, <1>2, <1>3

EraseStep == EraseLock \/ EraseSessions \/ EraseDevices \/ EraseCommit \/ EraseFails

LEMMA EraseType ==
    ASSUME DeviceTypeOK, EraseTypeOK, EraseStep
    PROVE  (DeviceTypeOK /\ EraseTypeOK)'
<1> USE DEF DeviceTypeOK, EraseTypeOK, NotErasing
<1>1. CASE EraseLock \/ EraseFails
  BY <1>1 DEF EraseLock, EraseFails
<1>2. CASE EraseSessions
  <2>1. UNION {sessions[d] : d \in DeviceIds} \in SUBSET (1..MaxTokens)
    OBVIOUS
  <2> QED
    BY <1>2, <2>1 DEF EraseSessions
<1>3. CASE EraseDevices
  BY <1>3 DEF EraseDevices
<1>4. CASE EraseCommit
  BY <1>4 DEF EraseCommit
<1> QED
  BY <1>1, <1>2, <1>3, <1>4 DEF EraseStep

LEMMA DeviceNextType == DeviceTypeOK /\ EraseTypeOK /\ [DeviceNext]_deviceVars => (DeviceTypeOK /\ EraseTypeOK)'
<1> SUFFICES ASSUME DeviceTypeOK, EraseTypeOK, [DeviceNext]_deviceVars
             PROVE  (DeviceTypeOK /\ EraseTypeOK)'
  OBVIOUS
<1>1. CASE UNCHANGED deviceVars
  BY <1>1 DEF deviceVars, DeviceTypeOK, EraseTypeOK
<1>2. CASE DeviceNext
  BY <1>2, SignInType, SessionType, EraseType DEF DeviceNext, EraseStep
<1> QED
  BY <1>1, <1>2

-----------------------------------------------------------------------------
(* The limit of devices                                                    *)

\* The numbers that the limit is about are natural numbers.
LEMMA CountsAreNat ==
    /\ IsFiniteSet(Active) /\ IsFiniteSet(Writers)
    /\ Cardinality(Active) \in Nat /\ Cardinality(Writers) \in Nat /\ Cardinality(Attempts) \in Nat
    /\ Cardinality(Writers) <= Cardinality(Attempts)
<1>1. Active \subseteq DeviceIds /\ Writers \subseteq Attempts
  BY DEF Active, Writers
<1> QED
  BY <1>1, FS_Subset, FS_CardinalityType

\* A step after which no device and no writer is new keeps the count.
LEMMA CountedShrink ==
    ASSUME CountedFit, Active' \subseteq Active, Writers' \subseteq Writers
    PROVE  CountedFit'
<1>1. Cardinality(Active') <= Cardinality(Active) /\ Cardinality(Writers') <= Cardinality(Writers)
  BY CountsAreNat, FS_Subset
<1>2. Cardinality(Active') \in Nat /\ Cardinality(Writers') \in Nat
  BY CountsAreNat, FS_Subset, FS_CardinalityType
<1> QED
  BY <1>1, <1>2, CountsAreNat DEF CountedFit

LEMMA CountedNext ==
    ASSUME DeviceTypeOK, CountedFit, [DeviceNext]_deviceVars
    PROVE  CountedFit'
<1> USE DEF DeviceTypeOK
<1>1. ASSUME NEW q \in Attempts, RegisterCount(q)
      PROVE  CountedFit'
  <2>1. CASE HasRoom
    <3>1. Active' = Active /\ Cardinality(Active) < MaxDevices
      BY <1>1, <2>1 DEF RegisterCount, Active, HasRoom
    <3>2. Writers' \subseteq Attempts
      BY DEF Writers
    <3>3. Cardinality(Writers') \in Nat /\ Cardinality(Writers') <= Cardinality(Attempts)
      BY <3>2, FS_Subset, FS_CardinalityType
    <3> QED
      BY <3>1, <3>3, CountsAreNat DEF CountedFit
  <2>2. CASE ~HasRoom
    <3>1. Active' \subseteq Active /\ Writers' \subseteq Writers
      BY <1>1, <2>2 DEF RegisterCount, Active, Writers, Goto
    <3> QED
      BY <3>1, CountedShrink
  <2> QED
    BY <2>1, <2>2
<1>2. ASSUME NEW q \in Attempts, RegisterWrite(q)
      PROVE  CountedFit'
  <2>1. CASE devices' = devices
    <3>1. Active' \subseteq Active /\ Writers' \subseteq Writers
      BY <1>2, <2>1 DEF RegisterWrite, Active, Writers, Goto
    <3> QED
      BY <3>1, CountedShrink
  <2>2. CASE devices' # devices
    <3>1. q \in Writers /\ devices' = [devices EXCEPT ![signing[q]] = "known"] /\ devices[signing[q]] = "none"
      BY <1>2, <2>2 DEF RegisterWrite, Writers
    <3>2. Active' = Active \cup {signing[q]} /\ signing[q] \notin Active
      BY <3>1 DEF Active
    <3>3. Writers' = Writers \ {q}
      BY <1>2 DEF RegisterWrite, Writers, Goto
    <3>4. Cardinality(Active') = Cardinality(Active) + 1
      BY <3>2, CountsAreNat, FS_AddElement
    <3>5. Cardinality(Writers') = Cardinality(Writers) - 1
      BY <3>1, <3>3, CountsAreNat, FS_RemoveElement
    <3> QED
      BY <3>4, <3>5, CountsAreNat DEF CountedFit
  <2> QED
    BY <2>1, <2>2
<1>3. ASSUME NEW q \in Attempts, RegisterRead(q)
      PROVE  CountedFit'
  <2>1. Active' \subseteq Active
    BY <1>3 DEF RegisterRead, Active
  <2>2. Writers' \subseteq Writers
    BY <1>3 DEF RegisterRead, Writers, Goto
  <2> QED
    BY <2>1, <2>2, CountedShrink
<1>4. ASSUME NEW q \in Attempts, LoginAccepted(q) \/ DropSessions(q) \/ IssueToken(q) \/ Again(q)
      PROVE  CountedFit'
  <2>1. Active' \subseteq Active /\ Writers' \subseteq Writers
    BY <1>4 DEF LoginAccepted, DropSessions, IssueToken, Again, Active, Writers, Goto
  <2> QED
    BY <2>1, CountedShrink
<1>5. ASSUME NEW d \in DeviceIds, Revoke(d) \/ \E t \in 1..MaxTokens : Logout(d, t) \/ DropOtherSessions(d, t)
      PROVE  CountedFit'
  <2>1. Active' \subseteq Active /\ Writers' \subseteq Writers
    BY <1>5 DEF Revoke, Logout, DropOtherSessions, Active, Writers
  <2> QED
    BY <2>1, CountedShrink
<1>6. CASE EraseStep \/ UNCHANGED deviceVars
  <2>1. Active' \subseteq Active /\ Writers' \subseteq Writers
    BY <1>6 DEF EraseStep, EraseLock, EraseSessions, EraseDevices, EraseCommit, EraseFails, deviceVars, Active, Writers
  <2> QED
    BY <2>1, CountedShrink
<1> QED
  BY <1>1, <1>2, <1>3, <1>4, <1>5, <1>6 DEF DeviceNext, EraseStep

-----------------------------------------------------------------------------
(* Tokens and tombstones                                                   *)

\* A sign-in that stands keeps its token, or one of the same device has
\* dropped it and is about to store its own.
Stands(d) == newest[d] \in sessions[d] \/ Reissuing(d)

Tokens == StandingHaveRows /\ ReadsCover /\ NewestTokenStands /\ DeletedIsTold

\* A step that drops no token, moves no attempt away from its last statements
\* and touches neither the account nor the erasure.
LEMMA QuietTokens ==
    ASSUME DeviceTypeOK, EraseTypeOK, Tokens,
           UNCHANGED <<status, sessions, newest, erasing, goneTokens, goneDevices>>,
           \A d \in DeviceIds : devices[d] # "none" => devices'[d] # "none",
           \A d \in DeviceIds : Reissuing(d) => Reissuing(d)',
           status = "erased" => \A d \in DeviceIds :
              (\E q \in Attempts : signing[q] = d /\ attempt[q] \in {"issue", "refused"}) =>
                 \E q \in Attempts : signing'[q] = d /\ attempt'[q] \in {"issue", "refused"}
    PROVE  Tokens'
<1> USE DEF Tokens, DeviceTypeOK
<1>1. StandingHaveRows'
  BY DEF StandingHaveRows
<1>2. ReadsCover'
  BY DEF ReadsCover
<1>3. NewestTokenStands'
  BY DEF NewestTokenStands, Reissuing
<1>4. DeletedIsTold'
  BY DEF DeletedIsTold
<1> QED
  BY <1>1, <1>2, <1>3, <1>4

LEMMA RegisterTokens ==
    ASSUME DeviceTypeOK, EraseTypeOK, Tokens, NEW q \in Attempts,
           LoginAccepted(q) \/ RegisterRead(q) \/ RegisterCount(q) \/ RegisterWrite(q) \/ Again(q)
    PROVE  Tokens'
<1> USE DEF DeviceTypeOK, Goto
<1>1. UNCHANGED <<status, sessions, newest, erasing, goneTokens, goneDevices>>
  BY DEF LoginAccepted, RegisterRead, RegisterCount, RegisterWrite, Again
<1>2. \A d \in DeviceIds : devices[d] # "none" => devices'[d] # "none"
  BY DEF LoginAccepted, RegisterRead, RegisterCount, RegisterWrite, Again
<1>3. /\ attempt[q] # "issue"
      /\ \A r \in Attempts \ {q} : attempt'[r] = attempt[r] /\ signing'[r] = signing[r]
  BY DEF LoginAccepted, RegisterRead, RegisterCount, RegisterWrite, Again
<1>4. \A d \in DeviceIds : Reissuing(d) => Reissuing(d)'
  BY <1>3 DEF Reissuing
<1>5. status = "erased" => attempt[q] # "refused"
  BY DEF LoginAccepted, RegisterRead, RegisterCount, RegisterWrite, Again
<1>6. status = "erased" => \A d \in DeviceIds :
         (\E r \in Attempts : signing[r] = d /\ attempt[r] \in {"issue", "refused"}) =>
            \E r \in Attempts : signing'[r] = d /\ attempt'[r] \in {"issue", "refused"}
  BY <1>3, <1>5
<1> QED
  BY <1>1, <1>2, <1>4, <1>6, QuietTokens

LEMMA DropTokens ==
    ASSUME DeviceTypeOK, EraseTypeOK, Tokens, NEW q \in Attempts, DropSessions(q)
    PROVE  Tokens'
<1> USE DEF DeviceTypeOK, Goto, DropSessions, Tokens
<1>1. /\ attempt'[q] = "issue" /\ attempt[q] # "issue"
      /\ \A r \in Attempts \ {q} : attempt'[r] = attempt[r]
      /\ UNCHANGED <<status, devices, newest, erasing, goneTokens, goneDevices, signing>>
      /\ \A d \in DeviceIds : d # signing[q] => sessions'[d] = sessions[d]
  OBVIOUS
<1>2. \A d \in DeviceIds : Reissuing(d) => Reissuing(d)'
  BY <1>1 DEF Reissuing
<1>3. Reissuing(signing[q])'
  BY <1>1 DEF Reissuing
<1>4. StandingHaveRows'
  BY <1>1 DEF StandingHaveRows
<1>5. ReadsCover'
  BY <1>1, <1>2 DEF ReadsCover
<1>6. NewestTokenStands'
  <2> SUFFICES ASSUME NEW d \in DeviceIds, status = "active", newest[d] # 0
               PROVE  newest[d] \in sessions'[d] \/ Reissuing(d)'
    BY <1>1 DEF NewestTokenStands, Reissuing
  <2> QED
    BY <1>1, <1>2, <1>3 DEF NewestTokenStands, Reissuing
<1>7. DeletedIsTold'
  BY <1>1 DEF DeletedIsTold
<1> QED
  BY <1>4, <1>5, <1>6, <1>7

\* A token is stored only while nothing holds the account row.
LEMMA IssueTokens ==
    ASSUME DeviceTypeOK, EraseTypeOK, Tokens, NEW q \in Attempts, IssueToken(q)
    PROVE  Tokens'
<1> USE DEF DeviceTypeOK, Goto, Tokens
<1> DEFINE d == signing[q]
<1>0. /\ attempt[q] = "issue" /\ UNCHANGED <<status, devices, erasing, goneTokens, goneDevices, signing>>
      /\ \A r \in Attempts \ {q} : attempt'[r] = attempt[r]
  BY DEF IssueToken
<1>1. CASE status = "erased"
  <2>1. attempt'[q] = "refused" /\ UNCHANGED newest
    BY <1>1 DEF IssueToken, AccountFree
  <2>2. StandingHaveRows' /\ NewestTokenStands'
    BY <1>0, <1>1 DEF StandingHaveRows, NewestTokenStands
  <2>3. ReadsCover'
    BY <1>0, <1>1, <2>1 DEF ReadsCover
  <2>4. DeletedIsTold'
    BY <1>0, <2>1 DEF DeletedIsTold
  <2> QED
    BY <2>2, <2>3, <2>4
<1>2. CASE status # "erased"
  <2>1. /\ AccountFree /\ devices[d] # "none"
        /\ newest'[d] \in sessions'[d]
        /\ \A e \in DeviceIds \ {d} : newest'[e] = newest[e] /\ sessions'[e] = sessions[e]
    BY <1>2 DEF IssueToken, StoreToken
  <2>2. \A e \in DeviceIds \ {d} : Reissuing(e) => Reissuing(e)'
    BY <1>0 DEF Reissuing
  <2>3. StandingHaveRows'
    BY <1>0, <2>1 DEF StandingHaveRows
  <2>4. ReadsCover'
    BY <1>0, <2>1 DEF ReadsCover, AccountFree
  <2>5. NewestTokenStands'
    <3> SUFFICES ASSUME NEW e \in DeviceIds, newest'[e] # 0
                 PROVE  newest'[e] \in sessions'[e] \/ Reissuing(e)'
      BY DEF NewestTokenStands, Reissuing
    <3> QED
      BY <2>1, <2>2 DEF NewestTokenStands, Reissuing, AccountFree
  <2>6. DeletedIsTold'
    BY <1>0, <1>2 DEF DeletedIsTold
  <2> QED
    BY <2>3, <2>4, <2>5, <2>6
<1> QED
  BY <1>1, <1>2

\* Revocations, sign-outs and password changes withdraw the tokens they drop.
LEMMA SessionTokens ==
    ASSUME DeviceTypeOK, EraseTypeOK, Tokens, NEW d \in DeviceIds,
           Revoke(d) \/ \E t \in 1..MaxTokens : Logout(d, t) \/ DropOtherSessions(d, t)
    PROVE  Tokens'
<1> USE DEF DeviceTypeOK, Tokens, Withdraw, Authenticates
<1>0. /\ status = "active" /\ UNCHANGED <<status, attempt, signing, erasing, goneTokens, goneDevices>>
      /\ \A e \in DeviceIds : devices[e] # "none" => devices'[e] # "none"
      /\ \A e \in DeviceIds : newest'[e] # 0 => newest'[e] = newest[e]
  BY DEF Revoke, Logout, DropOtherSessions
<1>1. \A e \in DeviceIds : newest'[e] # 0 /\ newest[e] \in sessions[e] => newest'[e] \in sessions'[e]
  <2>1. CASE Revoke(d)
    BY <2>1 DEF Revoke
  <2>2. ASSUME NEW t \in 1..MaxTokens, Logout(d, t)
        PROVE  \A e \in DeviceIds : newest'[e] # 0 /\ newest[e] \in sessions[e] => newest'[e] \in sessions'[e]
    BY <1>0, <2>2 DEF Logout
  <2>3. ASSUME NEW t \in 1..MaxTokens, DropOtherSessions(d, t)
        PROVE  \A e \in DeviceIds : newest'[e] # 0 /\ newest[e] \in sessions[e] => newest'[e] \in sessions'[e]
    BY <2>3 DEF DropOtherSessions
  <2> QED
    BY <2>1, <2>2, <2>3
<1>2. \A e \in DeviceIds : Reissuing(e)' <=> Reissuing(e)
  BY <1>0 DEF Reissuing
<1>3. StandingHaveRows'
  BY <1>0 DEF StandingHaveRows
<1>4. ReadsCover'
  BY <1>0, <1>2 DEF ReadsCover
<1>5. NewestTokenStands'
  <2> SUFFICES ASSUME NEW e \in DeviceIds, newest'[e] # 0
               PROVE  newest'[e] \in sessions'[e] \/ Reissuing(e)'
    BY DEF NewestTokenStands, Reissuing
  <2> QED
    BY <1>0, <1>1, <1>2 DEF NewestTokenStands, Reissuing
<1>6. DeletedIsTold'
  BY <1>0 DEF DeletedIsTold
<1> QED
  BY <1>3, <1>4, <1>5, <1>6

\* The statements of the erasure: its reads cover what stands, and its commit
\* turns them into the tombstones.
LEMMA EraseTokens ==
    ASSUME DeviceTypeOK, EraseTypeOK, Tokens, EraseStep
    PROVE  Tokens'
<1> USE DEF DeviceTypeOK, EraseTypeOK, Tokens, NotErasing
<1>0. UNCHANGED <<newest, attempt, signing>>
  BY DEF EraseStep, EraseLock, EraseSessions, EraseDevices, EraseCommit, EraseFails
<1>r. \A d \in DeviceIds : Reissuing(d)' <=> Reissuing(d)
  BY <1>0 DEF Reissuing
<1>1. CASE EraseCommit
  <2>1. /\ status' = "erased" /\ erasing'.at = "idle" /\ erasing.at = "commit"
        /\ goneTokens' = erasing.tokens /\ goneDevices' = erasing.devices
    BY <1>1 DEF EraseCommit
  <2>2. StandingHaveRows' /\ ReadsCover' /\ NewestTokenStands'
    BY <2>1 DEF StandingHaveRows, ReadsCover, NewestTokenStands
  <2>3. DeletedIsTold'
    BY <1>0, <2>1 DEF DeletedIsTold, ReadsCover, Reissuing
  <2> QED
    BY <2>2, <2>3
<1>2. CASE ~EraseCommit
  <2>0. UNCHANGED <<status, devices, sessions, goneTokens, goneDevices>>
    BY <1>2 DEF EraseStep, EraseLock, EraseSessions, EraseDevices, EraseFails
  <2>1. StandingHaveRows' /\ NewestTokenStands' /\ DeletedIsTold'
    BY <1>0, <2>0 DEF StandingHaveRows, NewestTokenStands, DeletedIsTold
  <2>2. CASE EraseLock \/ EraseFails
    BY <1>0, <2>0, <2>1, <2>2 DEF EraseLock, EraseFails, AccountFree, ReadsCover
  <2>3. CASE EraseSessions
    <3>1. erasing'.at = "devices" /\ erasing'.tokens = UNION {sessions[d] : d \in DeviceIds} /\ status = "active"
      BY <2>3 DEF EraseSessions, ReadsCover
    <3>2. \A d \in DeviceIds : newest[d] # 0 => newest[d] \in erasing'.tokens \/ Reissuing(d)
      BY <3>1 DEF NewestTokenStands, Reissuing
    <3>3. ReadsCover'
      BY <1>0, <1>r, <2>0, <3>1, <3>2 DEF ReadsCover
    <3> QED
      BY <2>1, <3>3
  <2>4. CASE EraseDevices
    <3>1. /\ erasing'.at = "commit" /\ erasing.at = "devices" /\ erasing'.tokens = erasing.tokens
          /\ erasing'.devices = {d \in DeviceIds : devices[d] # "none"} /\ status = "active"
      BY <2>4 DEF EraseDevices, ReadsCover
    <3>2. ReadsCover'
      BY <1>0, <1>r, <2>0, <3>1 DEF ReadsCover, StandingHaveRows
    <3> QED
      BY <2>1, <3>2
  <2> QED
    BY <1>2, <2>2, <2>3, <2>4 DEF EraseStep
<1> QED
  BY <1>1, <1>2

LEMMA TokensNext ==
    ASSUME DeviceTypeOK, EraseTypeOK, Tokens, [DeviceNext]_deviceVars
    PROVE  Tokens'
<1>1. CASE UNCHANGED deviceVars
  BY <1>1 DEF deviceVars, Tokens, StandingHaveRows, ReadsCover, Reissuing, NewestTokenStands, DeletedIsTold
<1>2. CASE DeviceNext
  BY <1>2, RegisterTokens, DropTokens, IssueTokens, SessionTokens, EraseTokens DEF DeviceNext, EraseStep
<1> QED
  BY <1>1, <1>2

-----------------------------------------------------------------------------
LEMMA DeviceInitInv == DeviceInit => DeviceInv
<1> SUFFICES ASSUME DeviceInit PROVE DeviceInv
  OBVIOUS
<1>1. Active = {} /\ Writers = {}
  BY DEF DeviceInit, Active, Writers
<1>2. CountedFit
  BY <1>1, FS_EmptySet, CountsAreNat DEF CountedFit
<1>3. StandingHaveRows /\ ReadsCover /\ NewestTokenStands /\ DeletedIsTold
  BY DEF DeviceInit, NotErasing, StandingHaveRows, ReadsCover, NewestTokenStands, DeletedIsTold
<1> QED
  BY <1>2, <1>3, DeviceInitType DEF DeviceInv

LEMMA DeviceInvHolds == DeviceSpec => []DeviceInv
<1>1. DeviceInv /\ [DeviceNext]_deviceVars => DeviceInv'
  BY DeviceNextType, CountedNext, TokensNext DEF DeviceInv, Tokens
<1> QED
  BY DeviceInitInv, <1>1, PTL DEF DeviceSpec

\* The tables of devices and sessions keep their types (routes/auth.rs).
THEOREM DeviceTypeCorrect == DeviceSpec => []DeviceTypeOK
<1>1. DeviceInv => DeviceTypeOK
  BY DEF DeviceInv
<1> QED
  BY DeviceInvHolds, <1>1, PTL

\* Sign-ins that overlap pass the limit of devices by fewer than there are of
\* them; a device that signed in keeps its token until it is withdrawn; and an
\* erased account tells every device whose sign-in stood, wherever the erasure
\* cut into it (register_device, complete_login, erase_account).
THEOREM DevicesInStepHolds == DeviceSpec => []DevicesInStep
<1>1. DeviceInv => DevicesBounded
  BY CountsAreNat DEF DeviceInv, CountedFit, DevicesBounded
<1>2. DeviceInv => DevicesInStep
  BY <1>1 DEF DeviceInv, DevicesInStep
<1> QED
  BY DeviceInvHolds, <1>2, PTL

-----------------------------------------------------------------------------
(* Pairing: every order of requests, every loss and every expiry.           *)

USE PairingAssumption

-----------------------------------------------------------------------------
(* The inductive invariant                                                  *)

\* A row that was ever stored has its device for good, a row that gave a
\* session was stored, and nobody has looked at one that is yet to be.
RowsHaveDevices ==
  /\ \A p \in Pairings : IF link[p].state = "none" THEN link[p].account = Nobody ELSE link[p].device \in Joiners
  /\ \A p \in Pairings, a \in Owners : <<p, a>> \in granted => link[p].state # "none"

\* What is in a device's slot, or asked about by its poll, is a row that this
\* device had created.
IsMine(d, p) == p \in Pairings /\ link[p].state # "none" /\ link[p].device = d

SlotsAreMine ==
  \A d \in Joiners : /\ held[d] # Nobody => IsMine(d, held[d])
                     /\ poll[d].answer # "none" => IsMine(d, poll[d].id)

\* An approved row's device is registered to the account that approved it.
ApprovedAreRegistered ==
  \A p \in Pairings : link[p].state = "approved" =>
    link[p].account \in Owners /\ owner[link[p].device] = link[p].account

\* An approval on its way to the device comes from a session that was given,
\* and the device is registered to that account.
AnswersAreGranted ==
  \A d \in Joiners : poll[d].answer = "approved" =>
    /\ poll[d].account \in Owners /\ owner[d] = poll[d].account
    /\ <<poll[d].id, poll[d].account>> \in granted

PairInv == /\ PairTypeOK /\ RowsHaveDevices /\ SlotsAreMine /\ ApprovedAreRegistered
           /\ AnswersAreGranted /\ ShownIsHeld /\ JoinedAsApproved

LEMMA PairInitInv == PairInit => PairInv
<1> SUFFICES ASSUME PairInit PROVE PairInv
  OBVIOUS
<1>1. PairTypeOK
  BY DEF PairInit, PairTypeOK, Rows, Polls, NoPoll
<1>2. RowsHaveDevices /\ ApprovedAreRegistered
  BY DEF PairInit, RowsHaveDevices, ApprovedAreRegistered
<1>3. SlotsAreMine /\ AnswersAreGranted /\ ShownIsHeld /\ JoinedAsApproved
  BY DEF PairInit, SlotsAreMine, AnswersAreGranted, ShownIsHeld, JoinedAsApproved, NoPoll
<1> QED
  BY <1>1, <1>2, <1>3 DEF PairInv

\* pairings::create stores one new row and changes no other but by its state,
\* which it does not make a decision.
RowCreated(d, p) ==
  /\ link' \in [Pairings -> Rows]
  /\ link[p].state = "none"
  /\ link'[p] = [state |-> "pending", age |-> "live", account |-> Nobody, device |-> d]
  /\ \A q \in Pairings \ {p} :
       /\ link'[q].device = link[q].device /\ link'[q].account = link[q].account
       /\ link'[q].age = link[q].age
       /\ \/ link'[q].state = link[q].state
          \/ link'[q].state = "swept" /\ link[q].age = "old" /\ link[q].state # "none"

LEMMA CreateRowEffect ==
    ASSUME PairTypeOK, NEW d \in Joiners, NEW p \in Pairings, CreateRow(d, p)
    PROVE  RowCreated(d, p)
<1>1. SweptOld \in [Pairings -> Rows]
  BY DEF PairTypeOK, SweptOld, Rows
<1>2. link[p].state = "none"
  BY DEF CreateRow, Unused
<1>3. link' = [SweptOld EXCEPT ![p] = [state |-> "pending", age |-> "live", account |-> Nobody, device |-> d]]
  BY DEF CreateRow
<1>4. \A q \in Pairings : /\ SweptOld[q].device = link[q].device /\ SweptOld[q].account = link[q].account
                          /\ SweptOld[q].age = link[q].age
                          /\ \/ SweptOld[q].state = link[q].state
                             \/ SweptOld[q].state = "swept" /\ link[q].age = "old" /\ link[q].state # "none"
  BY DEF PairTypeOK, SweptOld, Stored, Rows
<1>5. link' \in [Pairings -> Rows]
  BY <1>1, <1>3 DEF Rows
<1> QED
  BY <1>1, <1>2, <1>3, <1>4, <1>5 DEF RowCreated

\* Rows that were stored stay so and keep their device; then what was a row of
\* the device's own stays one.
RowsKept == \A q \in Pairings : link[q].state # "none" => link'[q].state # "none" /\ link'[q].device = link[q].device

LEMMA SlotsKept ==
    ASSUME SlotsAreMine, RowsKept, UNCHANGED <<held, poll>>
    PROVE  SlotsAreMine'
<1> SUFFICES ASSUME NEW d \in Joiners
             PROVE  /\ held[d] # Nobody => IsMine(d, held[d])'
                    /\ poll[d].answer # "none" => IsMine(d, poll[d].id)'
  BY DEF SlotsAreMine
<1>1. ASSUME held[d] # Nobody PROVE IsMine(d, held[d])'
  <2>1. IsMine(d, held[d])
    BY <1>1 DEF SlotsAreMine
  <2> QED
    BY <2>1 DEF IsMine, RowsKept
<1>2. ASSUME poll[d].answer # "none" PROVE IsMine(d, poll[d].id)'
  <2>1. IsMine(d, poll[d].id)
    BY <1>2 DEF SlotsAreMine
  <2> QED
    BY <2>1 DEF IsMine, RowsKept
<1> QED
  BY <1>1, <1>2

LEMMA DecideInv ==
    ASSUME PairInv, NEW a \in Owners, NEW p \in Pairings, Details(a, p) \/ Approve(a, p) \/ Deny(a, p)
    PROVE  PairInv'
<1> USE DEF PairInv
<1> link[p].state = "pending" /\ link[p].device \in Joiners
  BY DEF Details, Approve, Deny, Decidable, RowsHaveDevices
<1> /\ link'[p].device = link[p].device /\ link'[p].state # "none" /\ link'[p].account = a
    /\ \A q \in Pairings \ {p} : link'[q] = link[q]
    /\ link'[p].state = "approved" => owner'[link[p].device] = a
    /\ \A d \in Joiners : owner'[d] = owner[d] \/ owner[d] = Nobody
    /\ UNCHANGED <<granted, held, poll, shown, joined>>
  BY DEF Details, Approve, Deny, Registrable, PairTypeOK, Rows
<1>1. PairTypeOK'
  BY DEF PairTypeOK, Details, Approve, Deny, Rows
<1>2. RowsHaveDevices'
  BY DEF RowsHaveDevices, PairTypeOK
<1>2a. SlotsAreMine'
  BY SlotsKept DEF RowsKept
<1>3. ApprovedAreRegistered' /\ AnswersAreGranted'
  BY DEF ApprovedAreRegistered, AnswersAreGranted, RowsHaveDevices
<1>4. ShownIsHeld'
  BY DEF ShownIsHeld, PairTypeOK
<1>5. JoinedAsApproved'
  <2>1. UNCHANGED <<joined, granted>> /\ \A q \in Pairings : link'[q].device = link[q].device
    OBVIOUS
  <2>2. \A d \in Joiners : owner[d] # Nobody => owner'[d] = owner[d]
    OBVIOUS
  <2> QED
    BY <2>1, <2>2, SMTT(30) DEF JoinedAsApproved
<1> QED
  BY <1>1, <1>2, <1>2a, <1>3, <1>4, <1>5

LEMMA AgeInv ==
    ASSUME PairInv, NEW p \in Pairings, Age(p)
    PROVE  PairInv'
<1> USE DEF PairInv
<1> /\ \A q \in Pairings : /\ link'[q].state = link[q].state /\ link'[q].device = link[q].device
                           /\ link'[q].account = link[q].account
    /\ UNCHANGED <<owner, granted, held, poll, shown, joined>>
  BY DEF Age, PairTypeOK, Rows
<1>1. PairTypeOK'
  BY DEF PairTypeOK, Age, Rows
<1>2. RowsHaveDevices'
  BY DEF RowsHaveDevices, PairTypeOK
<1>2a. SlotsAreMine'
  BY SlotsKept DEF RowsKept
<1>3. ApprovedAreRegistered' /\ AnswersAreGranted'
  BY DEF ApprovedAreRegistered, AnswersAreGranted
<1>4. ShownIsHeld' /\ JoinedAsApproved'
  BY DEF ShownIsHeld, JoinedAsApproved
<1> QED
  BY <1>1, <1>2, <1>2a, <1>3, <1>4

LEMMA StartInv ==
    ASSUME PairInv, NEW d \in Joiners, NEW p \in Pairings, StartPairing(d, p) \/ StartLost(d, p)
    PROVE  PairInv'
<1> USE DEF PairInv
<1>a. RowCreated(d, p)
  <2>1. CreateRow(d, p)
    BY DEF StartPairing, StartLost
  <2> QED
    BY <2>1, CreateRowEffect
<1>0. /\ link' \in [Pairings -> Rows]
      /\ link[p].state = "none"
      /\ link'[p].state = "pending" /\ link'[p].device = d
      /\ \A q \in Pairings : link[q].state # "none" =>
           /\ q # p /\ link'[q].state # "none"
           /\ link'[q].device = link[q].device /\ link'[q].account = link[q].account
      /\ \A q \in Pairings : IF link'[q].state = "none" THEN link'[q].account = link[q].account
                             ELSE q = p \/ link[q].state # "none"
      /\ \A q \in Pairings : link'[q].state = "approved" => link[q].state = "approved"
  BY <1>a DEF RowCreated
<1>1. PairTypeOK'
  BY <1>0 DEF PairTypeOK, StartPairing, StartLost
<1>2. RowsHaveDevices'
  BY <1>0 DEF RowsHaveDevices, StartPairing, StartLost, PairTypeOK
<1>3. SlotsAreMine'
  <2> SUFFICES ASSUME NEW e \in Joiners
               PROVE  (held[e] # Nobody => IsMine(e, held[e]))' /\ (poll[e].answer # "none" => IsMine(e, poll[e].id))'
    BY DEF SlotsAreMine
  <2>1. \A q : IsMine(e, q) => IsMine(e, q)'
    BY <1>0 DEF IsMine
  <2>2. held'[e] = held[e] \/ (e = d /\ held'[e] = p)
    BY DEF StartPairing, StartLost, PairTypeOK
  <2>3. IsMine(d, p)'
    BY <1>0 DEF IsMine
  <2> QED
    BY <2>1, <2>2, <2>3 DEF SlotsAreMine, StartPairing, StartLost
<1>4. ApprovedAreRegistered' /\ AnswersAreGranted'
  BY <1>0 DEF ApprovedAreRegistered, AnswersAreGranted, StartPairing, StartLost, RowsHaveDevices
<1>5. ShownIsHeld' /\ JoinedAsApproved'
  BY <1>0 DEF ShownIsHeld, JoinedAsApproved, StartPairing, StartLost, RowsHaveDevices, PairTypeOK
<1> QED
  BY <1>1, <1>2, <1>3, <1>4, <1>5

LEMMA PollInv ==
    ASSUME PairInv, NEW d \in Joiners, CancelPairing(d) \/ PollSent(d) \/ PollLost(d)
    PROVE  PairInv'
<1> USE DEF PairInv
<1>1. PairTypeOK'
  <2>1. poll' \in [Joiners -> Polls]
    BY DEF PairTypeOK, CancelPairing, PollSent, PollLost, Polls, NoPoll
  <2> QED
    BY <2>1 DEF PairTypeOK, CancelPairing, PollSent, PollLost
<1>2. RowsHaveDevices' /\ ApprovedAreRegistered'
  BY DEF RowsHaveDevices, ApprovedAreRegistered, CancelPairing, PollSent, PollLost
<1>3. SlotsAreMine'
  <2> SUFFICES ASSUME NEW e \in Joiners
               PROVE  (held[e] # Nobody => IsMine(e, held[e]))' /\ (poll[e].answer # "none" => IsMine(e, poll[e].id))'
    BY DEF SlotsAreMine
  <2>1. \A q : IsMine(e, q) => IsMine(e, q)'
    BY DEF IsMine, CancelPairing, PollSent, PollLost
  <2>2. held'[e] \in {held[e], Nobody}
    BY DEF CancelPairing, PollSent, PollLost, PairTypeOK
  <2>3. \/ poll'[e] = poll[e] \/ poll'[e].answer = "none"
        \/ held[e] # Nobody /\ poll'[e].id = held[e]
    BY DEF CancelPairing, PollSent, PollLost, PairTypeOK, NoPoll
  <2> QED
    BY <2>1, <2>2, <2>3 DEF SlotsAreMine
<1>4. AnswersAreGranted'
  BY DEF AnswersAreGranted, CancelPairing, PollSent, PollLost, PairTypeOK, NoPoll
<1>5. ShownIsHeld' /\ JoinedAsApproved'
  BY DEF ShownIsHeld, JoinedAsApproved, CancelPairing, PollSent, PollLost, PairTypeOK
<1> QED
  BY <1>1, <1>2, <1>3, <1>4, <1>5

\* A claim answers the device's poll, uses up at most the row it is about, and
\* gives a session only for the account that approved.
Claimed(d, p, x, a) ==
  /\ poll' = [poll EXCEPT ![d] = [id |-> p, answer |-> x, account |-> a]]
  /\ IF x \in {"approved", "denied"}
       THEN link[p].state = x /\ link[p].age # "old" /\ Consumed(p) ELSE link' = link
  /\ IF x = "approved" THEN a = link[p].account /\ granted' = granted \cup {<<p, a>>}
                       ELSE a = Nobody /\ granted' = granted
  /\ UNCHANGED <<owner, held, shown, joined>>

LEMMA ClaimEffect ==
    ASSUME PairInv, NEW d \in Joiners, Claim(d)
    PROVE  /\ poll[d].id \in Pairings
           /\ link[poll[d].id].state # "none" /\ link[poll[d].id].device = d
           /\ \E x \in {"waiting", "denied", "approved", "gone"}, a \in Owners \cup {Nobody} :
                Claimed(d, poll[d].id, x, a)
<1> DEFINE p == poll[d].id
<1>1. p \in Pairings /\ link[p].state # "none" /\ link[p].device = d
  BY DEF PairInv, SlotsAreMine, IsMine, Claim
<1>2. link[p].account \in Owners \cup {Nobody}
  BY <1>1 DEF PairInv, PairTypeOK, Rows
<1>3. Claimed(d, p, "waiting", Nobody) \/ Claimed(d, p, "gone", Nobody)
      \/ Claimed(d, p, "denied", Nobody) \/ Claimed(d, p, "approved", link[p].account)
  BY DEF Claim, Claimed
<1> QED
  BY <1>1, <1>2, <1>3

LEMMA ClaimInv ==
    ASSUME PairInv, NEW d \in Joiners, Claim(d)
    PROVE  PairInv'
<1> DEFINE p == poll[d].id
<1>0. p \in Pairings /\ link[p].state # "none" /\ link[p].device = d
  BY ClaimEffect
<1>a. PICK x \in {"waiting", "denied", "approved", "gone"}, a \in Owners \cup {Nobody} : Claimed(d, p, x, a)
  BY ClaimEffect
<1> USE DEF PairInv
<1>1. /\ link' \in [Pairings -> Rows]
      /\ \A q \in Pairings : /\ link'[q].device = link[q].device /\ link'[q].account = link[q].account
                             /\ link'[q].state = link[q].state \/ (link'[q].state = "claimed" /\ link[q].state # "none")
  <2>1. link' = link \/ link' = [link EXCEPT ![p].state = "claimed"]
    BY <1>a DEF Claimed, Consumed
  <2> QED
    BY <1>0, <2>1, SMTT(30) DEF PairTypeOK, Rows
<1>2. /\ poll' = [poll EXCEPT ![d] = [id |-> p, answer |-> x, account |-> a]]
      /\ x # "approved" => granted' = granted
      /\ x = "approved" => /\ a = link[p].account /\ link[p].state = "approved"
                           /\ granted' = granted \cup {<<p, a>>}
      /\ UNCHANGED <<owner, held, shown, joined>>
  BY <1>a DEF Claimed
<1>3. x = "approved" => a \in Owners /\ owner[d] = a
  BY <1>0, <1>2 DEF ApprovedAreRegistered
<1>4. PairTypeOK'
  BY <1>0, <1>1, <1>2, <1>3 DEF PairTypeOK, Polls
<1>5. RowsHaveDevices'
  BY <1>0, <1>1, <1>2 DEF RowsHaveDevices, PairTypeOK
<1>6. SlotsAreMine'
  <2> SUFFICES ASSUME NEW e \in Joiners
               PROVE  (held[e] # Nobody => IsMine(e, held[e]))' /\ (poll[e].answer # "none" => IsMine(e, poll[e].id))'
    BY DEF SlotsAreMine
  <2>1. \A q : IsMine(e, q) => IsMine(e, q)'
    BY <1>1 DEF IsMine
  <2>2. poll'[e] = poll[e] \/ (e = d /\ poll'[e].id = p)
    BY <1>2 DEF PairTypeOK
  <2>3. IsMine(d, p)
    BY <1>0 DEF IsMine
  <2> QED
    BY <1>2, <2>1, <2>2, <2>3 DEF SlotsAreMine
<1>7. ApprovedAreRegistered'
  BY <1>0, <1>1, <1>2 DEF ApprovedAreRegistered
<1>8. AnswersAreGranted'
  BY <1>0, <1>2, <1>3 DEF AnswersAreGranted, PairTypeOK, Polls
<1>9. ShownIsHeld'
  BY <1>2 DEF ShownIsHeld
<1>10. JoinedAsApproved'
  BY <1>0, <1>1, <1>2 DEF JoinedAsApproved
<1> QED
  BY <1>4, <1>5, <1>6, <1>7, <1>8, <1>9, <1>10

LEMMA AnsweredInv ==
    ASSUME PairInv, NEW d \in Joiners, PollAnswered(d)
    PROVE  PairInv'
<1> USE DEF PairInv
<1>1. PairTypeOK'
  BY DEF PairTypeOK, PollAnswered, ClearedSlot, Ended, Polls, NoPoll
<1>2. RowsHaveDevices' /\ ApprovedAreRegistered'
  BY DEF RowsHaveDevices, ApprovedAreRegistered, PollAnswered
<1>3. SlotsAreMine'
  <2> SUFFICES ASSUME NEW e \in Joiners
               PROVE  (held[e] # Nobody => IsMine(e, held[e]))' /\ (poll[e].answer # "none" => IsMine(e, poll[e].id))'
    BY DEF SlotsAreMine
  <2>1. \A q : IsMine(e, q) => IsMine(e, q)'
    BY DEF IsMine, PollAnswered, ClearedSlot
  <2>2. held'[e] \in {held[e], Nobody}
    BY DEF PollAnswered, ClearedSlot, PairTypeOK
  <2>3. \/ poll'[e] = poll[e] \/ poll'[e].answer = "none"
        \/ held[e] # Nobody /\ poll'[e].id = held[e]
    BY DEF PollAnswered, ClearedSlot, PairTypeOK, NoPoll
  <2> QED
    BY <2>1, <2>2, <2>3 DEF SlotsAreMine
<1>4. AnswersAreGranted'
  BY DEF AnswersAreGranted, PollAnswered, PairTypeOK, NoPoll
<1>5. ShownIsHeld'
  BY DEF ShownIsHeld, PollAnswered, ClearedSlot, Ended, PairTypeOK
<1>6. JoinedAsApproved'
  <2> SUFFICES ASSUME NEW e \in Joiners, joined'[e] # Nobody
               PROVE  /\ owner[e] = joined'[e]
                      /\ \E p \in Pairings : link[p].device = e /\ <<p, joined'[e]>> \in granted
    BY DEF JoinedAsApproved, PollAnswered
  <2>1. CASE joined'[e] = joined[e]
    BY <2>1 DEF JoinedAsApproved
  <2>2. CASE joined'[e] # joined[e]
    <3>1. e = d /\ poll[d].answer = "approved" /\ joined'[d] = poll[d].account
      BY <2>2 DEF PollAnswered, PairTypeOK
    <3>2. IsMine(d, poll[d].id)
      BY <3>1 DEF SlotsAreMine
    <3> QED
      BY <3>1, <3>2 DEF AnswersAreGranted, IsMine
  <2> QED
    BY <2>1, <2>2
<1> QED
  BY <1>1, <1>2, <1>3, <1>4, <1>5, <1>6

LEMMA PairNextInv == PairInv /\ [PairNext]_pairVars => PairInv'
<1> SUFFICES ASSUME PairInv, [PairNext]_pairVars
             PROVE  PairInv'
  OBVIOUS
<1>1. CASE PairNext
  BY <1>1, DecideInv, AgeInv, StartInv, PollInv, ClaimInv, AnsweredInv DEF PairNext
<1>2. CASE UNCHANGED pairVars
  BY <1>2 DEF pairVars, PairInv, PairTypeOK, RowsHaveDevices, SlotsAreMine, IsMine, ApprovedAreRegistered,
              AnswersAreGranted, ShownIsHeld, JoinedAsApproved
<1> QED
  BY <1>1, <1>2

LEMMA PairInvHolds == PairSpec => []PairInv
BY PairInitInv, PairNextInv, PTL DEF PairSpec

\* Rows, polls and slots keep their types (client pairing.rs, routes/pairings.rs).
THEOREM PairTypeCorrect == PairSpec => []PairTypeOK
<1>1. PairInv => PairTypeOK
  BY DEF PairInv
<1> QED
  BY PairInvHolds, <1>1, PTL

\* However polls are lost, late, or overtaken by a cancel or a new link, the
\* link on the screen is the one that is polled, and a device that made a vault
\* did so with a session for the account that approved this device's link and
\* registered the device (claim and approve in routes/pairings.rs, poll_pairing
\* in client pairing.rs).
THEOREM PairedAsApprovedHolds == PairSpec => []PairedAsApproved
<1>1. PairInv => PairedAsApproved
  BY DEF PairInv, PairedAsApproved
<1> QED
  BY PairInvHolds, <1>1, PTL

-----------------------------------------------------------------------------
(* The handlers implement PairingOnce                                      *)

Fate == [p \in Pairings |-> FateOf(p)]
Decider == [p \in Pairings |-> link[p].account]

\* A step that changes one row changes one fate.
LEMMA OneFate ==
    ASSUME NEW p \in Pairings, \A q \in Pairings \ {p} : FateOf(q)' = FateOf(q)
    PROVE  Fate' = [Fate EXCEPT ![p] = FateOf(p)']
BY DEF Fate

LEMMA InitOnce == PairInit => Once!OnceInit
BY DEF PairInit, Once!OnceInit, FateOf

\* Looking and deciding.
LEMMA DecideOnce ==
    ASSUME PairInv, NEW a \in Owners, NEW p \in Pairings, Details(a, p) \/ Approve(a, p) \/ Deny(a, p)
    PROVE  Once!OnceNext
<1> USE DEF PairInv, PairTypeOK
<1>1. FateOf(p) = "open" /\ link[p].account \in {Nobody, a}
  BY DEF Details, Approve, Deny, Decidable, FateOf
<1>2. Once!MayDecide(a, p)
  BY <1>1 DEF Once!MayDecide
<1>3. UNCHANGED granted
  BY DEF Details, Approve, Deny
<1>4. Decider' = [Decider EXCEPT ![p] = a]
  <2>1. \A q \in Pairings : link'[q].account = IF q = p THEN a ELSE link[q].account
    BY DEF Details, Approve, Deny, Rows
  <2> QED
    BY <2>1 DEF Decider
<1>5. CASE Details(a, p)
  <2>1. Fate' = Fate
    BY <1>5 DEF Details, Fate, FateOf, Rows
  <2>2. Once!LookAt(a, p)
    BY <1>2, <1>3, <1>4, <2>1 DEF Once!LookAt, Fate, Decider
  <2> QED
    BY <2>2 DEF Once!OnceNext
<1>6. CASE Approve(a, p)
  <2>1. Fate' = [Fate EXCEPT ![p] = "approved"]
    BY <1>6 DEF Approve, Decidable, Fate, FateOf, Rows
  <2>2. Once!Decide(a, p, "approved")
    BY <1>2, <1>3, <1>4, <2>1 DEF Once!Decide, Once!Becomes, Fate, Decider
  <2> QED
    BY <2>2 DEF Once!OnceNext
<1>7. CASE Deny(a, p)
  <2>1. Fate' = [Fate EXCEPT ![p] = "denied"]
    BY <1>7 DEF Deny, Decidable, Fate, FateOf, Rows
  <2>2. Once!Decide(a, p, "denied")
    BY <1>2, <1>3, <1>4, <2>1 DEF Once!Decide, Once!Becomes, Fate, Decider
  <2> QED
    BY <2>2 DEF Once!OnceNext
<1> QED
  BY <1>5, <1>6, <1>7

\* One row that was stored runs out, or nothing changes that the promise sees.
LEMMA LapseOnce ==
    ASSUME NEW p \in Pairings, FateOf(p) # "unused",
           Fate' = Fate \/ Fate' = [Fate EXCEPT ![p] = "over"], Decider' = Decider, UNCHANGED granted
    PROVE  Once!OnceNext
<1>1. PICK ps \in SUBSET Pairings : /\ \A q \in ps : FateOf(q) # "unused"
                                    /\ Fate' = [q \in Pairings |-> IF q \in ps THEN "over" ELSE Fate[q]]
  <2>1. CASE Fate' = Fate
    <3> WITNESS {} \in SUBSET Pairings
    <3> QED
      BY <2>1 DEF Fate
  <2>2. CASE Fate' = [Fate EXCEPT ![p] = "over"]
    <3> WITNESS {p} \in SUBSET Pairings
    <3> QED
      BY <2>2 DEF Fate
  <2> QED
    BY <2>1, <2>2
<1>2. Once!Lapse
  BY <1>1 DEF Once!Lapse, Fate, Decider
<1> QED
  BY <1>2 DEF Once!OnceNext

LEMMA AgeOnce ==
    ASSUME PairInv, NEW p \in Pairings, Age(p)
    PROVE  Once!OnceNext
<1> USE DEF PairInv, PairTypeOK
<1>1. FateOf(p) # "unused"
  BY DEF Age, Stored, FateOf, Rows
<1>2. Fate' = Fate \/ Fate' = [Fate EXCEPT ![p] = "over"]
  <2>1. \A q \in Pairings \ {p} : FateOf(q)' = FateOf(q)
    BY DEF Age, FateOf
  <2>2. FateOf(p)' = FateOf(p) \/ FateOf(p)' = "over"
    BY DEF Age, Stored, FateOf, Rows
  <2>3. [Fate EXCEPT ![p] = FateOf(p)] = Fate
    BY DEF Fate
  <2> QED
    BY <2>1, <2>2, <2>3, OneFate
<1>3. Decider' = Decider /\ UNCHANGED granted
  BY DEF Age, Decider, Rows
<1> QED
  BY <1>1, <1>2, <1>3, LapseOnce

LEMMA StartOnce ==
    ASSUME PairInv, NEW d \in Joiners, NEW p \in Pairings, StartPairing(d, p) \/ StartLost(d, p)
    PROVE  Once!OnceNext
<1> USE DEF PairInv, PairTypeOK
<1>1. RowCreated(d, p)
  <2>1. CreateRow(d, p)
    BY DEF StartPairing, StartLost
  <2> QED
    BY <2>1, CreateRowEffect
<1>2. FateOf(p) = "unused"
  BY <1>1 DEF RowCreated, FateOf
<1>3. Fate' = [Fate EXCEPT ![p] = "open"]
  <2>1. \A q \in Pairings \ {p} : FateOf(q)' = FateOf(q)
    BY <1>1 DEF RowCreated, FateOf
  <2>2. FateOf(p)' = "open"
    BY <1>1 DEF RowCreated, FateOf
  <2> QED
    BY <2>1, <2>2, OneFate
<1>4. Decider' = Decider
  BY <1>1 DEF RowCreated, Decider, RowsHaveDevices
<1>5. UNCHANGED granted
  BY DEF StartPairing, StartLost
<1>6. Once!OpenLink(p)
  BY <1>2, <1>3, <1>4, <1>5 DEF Once!OpenLink, Once!Becomes, Fate, Decider
<1> QED
  BY <1>6 DEF Once!OnceNext

\* A claim gives the one session of an approval, or ends a denied link, or
\* changes nothing.
LEMMA ClaimOnce ==
    ASSUME PairInv, NEW d \in Joiners, Claim(d)
    PROVE  [Once!OnceNext]_(Once!onceVars)
<1>p. PICK p \in Pairings : p = poll[d].id
  BY ClaimEffect
<1>0. p \in Pairings /\ link[p].state # "none"
  BY <1>p, ClaimEffect
<1>a. PICK x \in {"waiting", "denied", "approved", "gone"}, a \in Owners \cup {Nobody} : Claimed(d, p, x, a)
  BY <1>p, ClaimEffect
<1> USE DEF PairInv, PairTypeOK
<1>1. CASE x \notin {"approved", "denied"}
  BY <1>1, <1>a DEF Claimed, Once!onceVars, FateOf
<1>2. ASSUME x \in {"approved", "denied"}
      PROVE  FateOf(p) = x /\ Fate' = [Fate EXCEPT ![p] = "over"] /\ Decider' = Decider
  <2>1. \A q \in Pairings \ {p} : FateOf(q)' = FateOf(q)
    BY <1>0, <1>2, <1>a DEF Claimed, Consumed, FateOf
  <2>2. FateOf(p) = x /\ FateOf(p)' = "over"
    BY <1>0, <1>2, <1>a DEF Claimed, Consumed, FateOf, Rows
  <2>3. \A q \in Pairings : link'[q].account = link[q].account
    BY <1>0, <1>2, <1>a DEF Claimed, Consumed, Rows
  <2>4. Fate' = [Fate EXCEPT ![p] = FateOf(p)']
    BY <1>0, <2>1, OneFate
  <2>5. Decider' = Decider
    BY <2>3 DEF Decider
  <2> QED
    BY <2>2, <2>4, <2>5
<1>3. CASE x = "denied"
  <2>1. UNCHANGED granted
    BY <1>3, <1>a DEF Claimed
  <2> QED
    BY <1>0, <1>2, <1>3, <2>1, LapseOnce
<1>4. CASE x = "approved"
  <2>1. granted' = granted \cup {<<p, link[p].account>>}
    BY <1>4, <1>a DEF Claimed
  <2>2. Once!Give(p)
    BY <1>0, <1>2, <1>4, <2>1 DEF Once!Give, Once!Becomes, Fate, Decider
  <2> QED
    BY <1>0, <2>2 DEF Once!OnceNext
<1> QED
  BY <1>1, <1>3, <1>4

LEMMA NextOnce == PairInv /\ [PairNext]_pairVars => [Once!OnceNext]_(Once!onceVars)
<1> SUFFICES ASSUME PairInv, [PairNext]_pairVars
             PROVE  [Once!OnceNext]_(Once!onceVars)
  OBVIOUS
<1>1. ASSUME UNCHANGED <<link, granted>>
      PROVE  UNCHANGED Once!onceVars
  BY <1>1 DEF Once!onceVars, FateOf
<1>2. ASSUME NEW d \in Joiners, CancelPairing(d) \/ PollSent(d) \/ PollLost(d) \/ PollAnswered(d)
      PROVE  UNCHANGED <<link, granted>>
  BY <1>2 DEF CancelPairing, PollSent, PollLost, PollAnswered
<1>3. CASE UNCHANGED pairVars
  BY <1>1, <1>3 DEF pairVars
<1>4. CASE PairNext
  BY <1>1, <1>2, <1>4, DecideOnce, AgeOnce, StartOnce, ClaimOnce DEF PairNext
<1> QED
  BY <1>3, <1>4

\* Adding a device keeps its promise: a link is decided once, by the account
\* that looked at it first, and an approval gives one session, however requests
\* cross, repeat or are lost and however rows age (routes/pairings.rs).
THEOREM PairingImplementsOnce == PairSpec => ImplementsOnce
<1>1. PairInit => Once!OnceInit
  BY InitOnce
<1>2. PairInv /\ [PairNext]_pairVars => [Once!OnceNext]_(Once!onceVars)
  BY NextOnce
<1> QED
  BY <1>1, <1>2, PairInvHolds, PTL DEF PairSpec, ImplementsOnce, Once!OnceSpec

-----------------------------------------------------------------------------
(* Signup: the limits of codes, activations and trials.                     *)

USE SignupAssumption

Ends == {"never", "ahead", "soon", "past"}
PlanStates == {"none", "trialing", "active", "past_due", "frozen", "complimentary"}

\* Rows of signup_codes and of accounts.
IsCode(c) == /\ c = [number |-> c.number, attempts |-> c.attempts, fresh |-> c.fresh]
             /\ c.number \in Nat /\ c.attempts \in Nat
IsAccount(r) == /\ r = [status |-> r.status, invite |-> r.invite, fresh |-> r.fresh, by |-> r.by, old |-> r.old]
                /\ r.status \in {"none", "invited", "active"}

-----------------------------------------------------------------------------
(* The inductive invariant                                                  *)

\* The rows that the limits are about have their types.
RowTypes ==
  /\ IsCode(code)
  /\ codes \in Nat /\ wrong \in [1..MaxCodes -> Nat] /\ activations \in Nat
  /\ IsAccount(account)
  /\ plan \in [status : PlanStates, ends : Ends]

\* The row of signup_codes counts every wrong guess that was taken against its
\* code, and has at least one left; codes yet to be mailed have taken none.
CodesCount ==
  /\ codes <= MaxCodes /\ code.number <= codes
  /\ code.number # 0 => wrong[code.number] = code.attempts /\ code.attempts < CodeAttempts
  /\ \A n \in 1..MaxCodes : n > codes => wrong[n] = 0

\* An account was activated exactly when it is active.
ActiveIsActivated == activations = IF account.status = "active" THEN 1 ELSE 0

SignupInv == RowTypes /\ CodesCount /\ CodeGuessesBounded /\ ActiveIsActivated /\ TrialsEnd

LEMMA SignupInitInv == SignupInit => SignupInv
<1> SUFFICES ASSUME SignupInit PROVE SignupInv
  OBVIOUS
<1> USE DEF SignupInit, NoCode, NoAccount, NoPlan
<1>1. RowTypes
  BY DEF RowTypes, Ends, PlanStates, IsCode, IsAccount
<1>2. CodesCount /\ CodeGuessesBounded
  BY DEF CodesCount, CodeGuessesBounded
<1>3. ActiveIsActivated /\ TrialsEnd
  BY DEF ActiveIsActivated, TrialsEnd
<1> QED
  BY <1>1, <1>2, <1>3 DEF SignupInv

\* set_status stores a plan.
LEMMA PlanOfType ==
    ASSUME NEW s \in PlanStates, NEW u \in Ends
    PROVE  PlanOf(s, u) \in [status : PlanStates, ends : Ends]
BY DEF PlanOf, Ends

\* A step that leaves codes and guesses alone, or forgets the code, keeps the
\* count.
LEMMA CodesKept ==
    ASSUME SignupInv, UNCHANGED <<wrong, codes>>,
           code' = NoCode \/ (code'.number = code.number /\ code'.attempts = code.attempts)
    PROVE  (CodesCount /\ CodeGuessesBounded)'
BY DEF SignupInv, RowTypes, IsCode, CodesCount, CodeGuessesBounded, NoCode

LEMMA StartKeeps ==
    ASSUME SignupInv, SignupStart
    PROVE  SignupInv'
<1> USE DEF SignupInv, RowTypes, IsCode, IsAccount
<1>1. RowTypes'
  BY DEF SignupStart, NoCode
<1>2. (CodesCount /\ CodeGuessesBounded)'
  <2>1. CASE code' = NoCode /\ UNCHANGED codes
    BY <2>1, CodesKept DEF SignupStart
  <2>2. CASE codes' = codes + 1 /\ code' = [number |-> codes', attempts |-> 0, fresh |-> TRUE]
    BY <2>2 DEF SignupStart, CodesCount, CodeGuessesBounded
  <2> QED
    BY <2>1, <2>2 DEF SignupStart
<1>3. (ActiveIsActivated /\ TrialsEnd)'
  BY DEF SignupStart, ActiveIsActivated, TrialsEnd
<1> QED
  BY <1>1, <1>2, <1>3

LEMMA WrongKeeps ==
    ASSUME SignupInv, VerifyWrong
    PROVE  SignupInv'
<1> USE DEF SignupInv, RowTypes, IsCode, IsAccount
<1> DEFINE n == code.number
<1>1. n \in 1..MaxCodes /\ code.attempts < CodeAttempts /\ wrong[n] = code.attempts
  BY DEF VerifyWrong, CodesCount
<1>2. wrong' = [wrong EXCEPT ![n] = wrong[n] + 1] /\ wrong'[n] = code.attempts + 1
  BY <1>1 DEF VerifyWrong
<1>3. \/ code' = NoCode
      \/ /\ code' = [code EXCEPT !.attempts = code.attempts + 1]
         /\ code.attempts + 1 < CodeAttempts
  BY DEF VerifyWrong, CodeSpent
<1>4. RowTypes'
  <2>1. IsCode(code)'
    BY <1>1, <1>3 DEF NoCode
  <2>2. wrong' \in [1..MaxCodes -> Nat]
    BY <1>1, <1>2
  <2> QED
    BY <2>1, <2>2 DEF VerifyWrong
<1>5. CodeGuessesBounded'
  BY <1>1, <1>2 DEF CodeGuessesBounded
<1>6. CodesCount'
  BY <1>1, <1>2, <1>3 DEF VerifyWrong, CodesCount, NoCode
<1>7. (ActiveIsActivated /\ TrialsEnd)'
  BY DEF VerifyWrong, ActiveIsActivated, TrialsEnd
<1> QED
  BY <1>4, <1>5, <1>6, <1>7

LEMMA RightKeeps ==
    ASSUME SignupInv, VerifyRight
    PROVE  SignupInv'
<1> USE DEF SignupInv, RowTypes, IsCode, IsAccount
<1>1. (CodesCount /\ CodeGuessesBounded)'
  BY CodesKept DEF VerifyRight
<1>2. plan' \in [status : PlanStates, ends : Ends]
  BY PlanOfType DEF VerifyRight, PlanStates, Ends
<1>3. IsAccount(account)' /\ (account'.status = "active" <=> account.status = "active")
  <2>1. CASE account.status = "active" /\ UNCHANGED <<account, invites>>
    BY <2>1
  <2>2. CASE account.status = "none" /\ invites' = invites + 1
             /\ account' = [status |-> "invited", invite |-> invites', fresh |-> TRUE, by |-> "signup", old |-> FALSE]
    BY <2>2
  <2>3. CASE account.status # "active" /\ invites' = invites + 1
             /\ account' = [account EXCEPT !.invite = invites', !.fresh = TRUE]
    BY <2>3
  <2> QED
    BY <2>1, <2>2, <2>3 DEF VerifyRight
<1>4. RowTypes'
  BY <1>2, <1>3 DEF VerifyRight, NoCode
<1>5. ActiveIsActivated'
  BY <1>3 DEF VerifyRight, ActiveIsActivated
<1>6. TrialsEnd'
  BY <1>3 DEF VerifyRight, TrialsEnd
<1> QED
  BY <1>1, <1>4, <1>5, <1>6

\* The invite is read again under the lock, so an account that is active, by
\* whichever activation, is not activated again.
LEMMA ActivateKeeps ==
    ASSUME SignupInv, NEW q \in Activators,
           ActivateCommits(q) \/ ActivateRefused(q) \/ \E n \in 1..MaxInvites : ActivateChecked(q, n)
    PROVE  SignupInv'
<1> USE DEF SignupInv, RowTypes, IsCode, IsAccount
<1>1. (CodesCount /\ CodeGuessesBounded)'
  BY CodesKept DEF ActivateCommits, ActivateRefused, ActivateChecked
<1>2. CASE ActivateCommits(q)
  <2>1. account.status = "invited" /\ account'.status = "active"
    BY <1>2 DEF ActivateCommits, StillAccepted, InviteAccepted
  <2>2. plan' \in [status : PlanStates, ends : Ends]
    BY <1>2, PlanOfType DEF ActivateCommits, PlanStates, Ends
  <2>3. RowTypes'
    <3>1. IsAccount(account)'
      BY <1>2 DEF ActivateCommits
    <3> QED
      BY <1>2, <2>2, <3>1 DEF ActivateCommits
  <2>4. ActiveIsActivated'
    BY <1>2, <2>1 DEF ActivateCommits, ActiveIsActivated
  <2>5. TrialsEnd'
    BY <1>2 DEF ActivateCommits, TrialsEnd, PlanOf
  <2> QED
    BY <1>1, <2>3, <2>4, <2>5
<1>3. CASE ActivateRefused(q) \/ \E n \in 1..MaxInvites : ActivateChecked(q, n)
  BY <1>1, <1>3 DEF ActivateRefused, ActivateChecked, ActiveIsActivated, TrialsEnd
<1> QED
  BY <1>2, <1>3

LEMMA AdminKeeps ==
    ASSUME SignupInv,
           \/ \E trial \in BOOLEAN : NewAccount(trial)
           \/ \E s \in {"trialing", "active", "past_due", "frozen", "complimentary"},
                 u \in {"never", "ahead", "past"} : SetPlan(s, u)
           \/ Erase
    PROVE  SignupInv'
<1> USE DEF SignupInv, RowTypes, IsCode, IsAccount
<1>1. (CodesCount /\ CodeGuessesBounded)'
  BY CodesKept DEF NewAccount, SetPlan, Erase
<1>2. ASSUME NEW trial \in BOOLEAN, NewAccount(trial)
      PROVE  SignupInv'
  <2>1. plan' \in [status : PlanStates, ends : Ends]
    BY <1>2, PlanOfType DEF NewAccount, PlanStates, Ends
  <2>2. account.status = "none" /\ account'.status = "invited"
    BY <1>2 DEF NewAccount
  <2> QED
    BY <1>1, <1>2, <2>1, <2>2 DEF NewAccount, ActiveIsActivated, TrialsEnd
<1>3. ASSUME NEW s \in {"trialing", "active", "past_due", "frozen", "complimentary"},
             NEW u \in {"never", "ahead", "past"}, SetPlan(s, u)
      PROVE  SignupInv'
  <2>1. plan' \in [status : PlanStates, ends : Ends]
    <3>1. s \in PlanStates /\ (IF s = "trialing" THEN TrialEnd(u) ELSE u) \in Ends
      BY DEF TrialEnd, Ends, PlanStates
    <3> QED
      BY <1>3, <3>1, PlanOfType DEF SetPlan
  <2>2. TrialsEnd'
    BY <1>3 DEF SetPlan, TrialsEnd, PlanOf, TrialEnd
  <2> QED
    BY <1>1, <1>3, <2>1, <2>2 DEF SetPlan, ActiveIsActivated
<1>4. CASE Erase
  BY <1>1, <1>4 DEF Erase, ActiveIsActivated, TrialsEnd, NoAccount, NoPlan, NoCode, PlanStates, Ends
<1> QED
  BY <1>2, <1>3, <1>4

LEMMA DailyKeeps ==
    ASSUME SignupInv, Day \/ Sweeps \/ \E n \in Notices : Notify(n)
    PROVE  SignupInv'
<1> USE DEF SignupInv, RowTypes, IsCode, IsAccount
<1>1. (CodesCount /\ CodeGuessesBounded)'
  <2>1. code' = NoCode \/ (code'.number = code.number /\ code'.attempts = code.attempts)
    BY DEF Day, Sweeps, Notify
  <2> QED
    BY <2>1, CodesKept DEF Day, Sweeps, Notify
<1>2. CASE Day
  <2>1. plan' = [status |-> plan.status, ends |-> Later(plan.ends)]
    BY <1>2 DEF Day
  <2>2. Later(plan.ends) \in Ends /\ (Later(plan.ends) = "never" => plan.ends = "never")
    BY DEF Later, Ends
  <2>3. RowTypes'
    BY <1>2, <2>1, <2>2 DEF Day
  <2> QED
    BY <1>1, <1>2, <2>1, <2>2, <2>3 DEF Day, ActiveIsActivated, TrialsEnd
<1>3. CASE Sweeps
  BY <1>1, <1>3 DEF Sweeps, ActiveIsActivated, TrialsEnd, NoAccount, NoPlan, NoCode, PlanStates, Ends
<1>4. CASE \E n \in Notices : Notify(n)
  BY <1>1, <1>4 DEF Notify, ActiveIsActivated, TrialsEnd
<1> QED
  BY <1>2, <1>3, <1>4

LEMMA SignupNextInv == SignupInv /\ [SignupNext]_signupVars => SignupInv'
<1> SUFFICES ASSUME SignupInv, [SignupNext]_signupVars
             PROVE  SignupInv'
  OBVIOUS
<1>1. CASE SignupNext
  BY <1>1, StartKeeps, WrongKeeps, RightKeeps, ActivateKeeps, AdminKeeps, DailyKeeps DEF SignupNext
<1>2. CASE UNCHANGED signupVars
  BY <1>2 DEF signupVars, SignupInv, RowTypes, IsCode, IsAccount, CodesCount, CodeGuessesBounded, ActiveIsActivated, TrialsEnd
<1> QED
  BY <1>1, <1>2

\* No code takes more wrong guesses than it may, an account is activated once
\* however its activations overlap replaced and erased invites, and no trial of
\* an account in use is without an end (routes/signup.rs, routes/accounts.rs,
\* billing/ and admin.rs).
THEOREM SignupKeepsLimitsHolds == SignupSpec => []SignupKeepsLimits
<1>1. SignupInv => SignupKeepsLimits
  BY DEF SignupInv, SignupKeepsLimits, ActivatedOnce, ActiveIsActivated
<1> QED
  BY SignupInitInv, SignupNextInv, <1>1, PTL DEF SignupSpec
=============================================================================
