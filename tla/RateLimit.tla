----------------------------- MODULE RateLimit -----------------------------
(***************************************************************************)
(* The server's guess counters (login_attempts).  A sign-in, a re-proof or *)
(* a password change is charged to its account's row and to its address's  *)
(* row in one transaction before the key is looked at, so that parallel    *)
(* guesses cannot share one check; an activation or a claim of a pairing   *)
(* checks its address's row and records a failure afterwards, in two       *)
(* statements.  Time is in minutes.                                        *)
(***************************************************************************)
EXTENDS Naturals, Sequences, FiniteSets

CONSTANTS Addresses,     \* client addresses, as ip_key groups them
          Claims,        \* overlapping requests that check first, record later
          MaxFailures,   \* MAX_FAILURES: 5
          ManyFailures,  \* the failures after which a block is the longest: 9
          Blocks,        \* the three lengths of a block: 1, 5 and 30 minutes
          GuessWindow,   \* WINDOW_MINUTES: 15
          GuessBudget,   \* what one account can be guessed at in a window
          MaxMinute      \* bound: the clock

ASSUME RateAssumption ==
  /\ MaxFailures \in Nat \ {0} /\ ManyFailures \in Nat /\ MaxFailures <= ManyFailures
  /\ Blocks \in [1..3 -> Nat] /\ 0 < Blocks[2] /\ Blocks[2] <= Blocks[3]
  /\ GuessWindow \in Nat /\ GuessBudget \in Nat \ {0} /\ MaxMinute \in Nat
  /\ "account" \notin Addresses

\* The minutes that have passed, at the least, when a row that blocks from its
\* m-th failure on counts its n-th.
Wait(n, m, blocks) == IF n <= m THEN 0 ELSE blocks[1] + blocks[2] * (n - m - 1)

\* What an account may take in a window: of budget + 1 guesses in a row that
\* one row counted, or that it counted in two windows (the i-th to the p-th
\* of one and n of the next), the last comes a window after the first.
BudgetCovers(m, blocks, window, budget) ==
  LET N == 1..(m + window + 1) IN
  /\ \A i, n \in N : n = i + budget /\ Wait(n, m, blocks) <= window =>
        Wait(n, m, blocks) >= Wait(i, m, blocks) + window
  /\ \A i, p, n \in N :
        2 <= i /\ i <= p /\ p + n = i + budget
        /\ Wait(p, m, blocks) <= window /\ Wait(n, m, blocks) <= window =>
          Wait(p + 1, m, blocks) + Wait(n, m, blocks) >= Wait(i, m, blocks) + window

ASSUME BudgetAssumption == BudgetCovers(MaxFailures, Blocks, GuessWindow, GuessBudget)

VARIABLES minute,     \* the database clock
          counter,    \* key -> its row of login_attempts
          guesses,    \* history: the minutes of the account's wrong guesses since a right one
          claiming    \* claim -> "none" or the address it was admitted under

rateVars == <<minute, counter, guesses, claiming>>

NoFailures == [failures |-> 0, start |-> 0, until |-> 0]

Keys == {"account"} \cup Addresses

RateInit ==
  /\ minute = 0 /\ counter = [k \in Keys |-> NoFailures] /\ guesses = <<>>
  /\ claiming = [c \in Claims |-> "none"]

\* block_seconds, in minutes.
BlockMinutes(failures) ==
  IF failures <= MaxFailures THEN Blocks[1] ELSE IF failures <= ManyFailures THEN Blocks[2] ELSE Blocks[3]

Blocked(k) == counter[k].until > minute

Stale(row) == row.start + GuessWindow < minute

\* Mutant of Charged: a row whose block has passed starts over.
ChargedAfresh(row) ==
  LET over == Stale(row) \/ row.until \in 1..minute
      n    == IF over THEN 1 ELSE row.failures + 1
  IN [failures |-> n,
      start    |-> IF over THEN minute ELSE row.start,
      until    |-> IF n >= MaxFailures THEN minute + BlockMinutes(n) ELSE row.until]

\* The row after AttemptKeys::charge: a window that is over starts again; the
\* attempt that reaches the limit blocks the key.
Charged(row) ==
  LET n == IF Stale(row) THEN 1 ELSE row.failures + 1
  IN [failures |-> n,
      start    |-> IF Stale(row) \/ row.failures = 0 THEN minute ELSE row.start,
      until    |-> IF n >= MaxFailures THEN minute + BlockMinutes(n) ELSE row.until]

\* The row after record_failure, which also lifts a block with a window.
Failed(row) ==
  LET n == IF Stale(row) THEN 1 ELSE row.failures + 1
  IN [failures |-> n,
      start    |-> IF Stale(row) \/ row.failures = 0 THEN minute ELSE row.start,
      until    |-> IF n >= MaxFailures THEN minute + BlockMinutes(n)
                   ELSE IF Stale(row) THEN 0 ELSE row.until]

\* A guess at the account from address a: both rows are charged, or neither; it
\* fails, or it was right and both rows are cleared.
Guess(a) ==
  /\ ~Blocked("account") /\ ~Blocked(a)
  /\ counter' = [counter EXCEPT !["account"] = Charged(@), ![a] = Charged(@)]
  /\ guesses' = Append(guesses, minute)
  /\ UNCHANGED <<minute, claiming>>

SignedIn(a) ==
  /\ ~Blocked("account") /\ ~Blocked(a)
  /\ counter' = [counter EXCEPT !["account"] = NoFailures, ![a] = NoFailures]
  /\ guesses' = <<>>
  /\ UNCHANGED <<minute, claiming>>

\* An activation or a claim passes the check,
ClaimChecked(c, a) ==
  /\ claiming[c] = "none" /\ ~Blocked(a)
  /\ claiming' = [claiming EXCEPT ![c] = a]
  /\ UNCHANGED <<minute, counter, guesses>>

\* and is wrong, or right (only an activation then clears the address).
ClaimRefused(c) ==
  /\ claiming[c] # "none"
  /\ counter' = [counter EXCEPT ![claiming[c]] = Failed(@)]
  /\ claiming' = [claiming EXCEPT ![c] = "none"]
  /\ UNCHANGED <<minute, guesses>>

ClaimAccepted(c) ==
  /\ claiming[c] # "none"
  /\ \/ counter' = [counter EXCEPT ![claiming[c]] = NoFailures]
     \/ UNCHANGED counter
  /\ claiming' = [claiming EXCEPT ![c] = "none"]
  /\ UNCHANGED <<minute, guesses>>

\* Time passes; no request spans it.
Minute ==
  /\ minute < MaxMinute /\ \A c \in Claims : claiming[c] = "none"
  /\ minute' = minute + 1
  /\ UNCHANGED <<counter, guesses, claiming>>

RateNext ==
  \/ \E a \in Addresses : Guess(a) \/ SignedIn(a)
  \/ \E c \in Claims, a \in Addresses : ClaimChecked(c, a)
  \/ \E c \in Claims : ClaimRefused(c) \/ ClaimAccepted(c)
  \/ Minute

RateSpec == RateInit /\ [][RateNext]_rateVars

\* Rows stay in range.
RateTypeOK ==
  /\ minute \in 0..MaxMinute /\ DOMAIN counter = Keys
  /\ \A k \in Keys : counter[k].start \in 0..minute /\ counter[k].failures \in Nat
  /\ claiming \in [Claims -> Addresses \cup {"none"}]

\* However many addresses take part, and however the windows of the counter and
\* the blocks line up, an account takes at most GuessBudget wrong guesses in any
\* stretch as long as a window: blocks that grow survive their own end.
GuessesBounded ==
  \A k \in DOMAIN guesses : k + GuessBudget \in DOMAIN guesses =>
      guesses[k + GuessBudget] >= guesses[k] + GuessWindow
=============================================================================
