------------------------------ MODULE Activity ------------------------------
(***************************************************************************)
(* What a device remembers of how its owner uses the vault: a score per    *)
(* item that halves with time and grows by one with each use, and the      *)
(* recent searches.  Both live in one sealed blob that every change reads, *)
(* prunes and writes back under the vault's guard.  Time is counted in     *)
(* half-lives and may be set back; scores are in units of 1 / Unit, so     *)
(* that every halving in the bounds is exact.  A locked vault refuses all  *)
(* of it and changes nothing.                                              *)
(***************************************************************************)
EXTENDS Integers, Sequences, FiniteSetsExt

CONSTANTS UsedItems,      \* naturals: ids are compared by the ranking
          IdentityItem,   \* the item that holds the owner's identity
          Queries,        \* what is typed: [text, lower, long]
          ForgetAfter, MaxRecentSearches, MaxUsage, MaxUseTime

ASSUME ActivityAssumption ==
    /\ UsedItems \subseteq Nat /\ IdentityItem \in Nat
    /\ ForgetAfter \in Nat /\ MaxRecentSearches \in Nat /\ MaxUsage \in Nat /\ MaxUseTime \in Nat

VARIABLES placed,     \* where the session has each item
          uses,       \* Activity::uses
          searches,   \* Activity::searches, the latest first
          useTime,
          usage       \* history: when each item was used, since it is remembered

activityVars == <<placed, uses, searches, useTime, usage>>

Unit == 2 ^ MaxUseTime

ActivityInit ==
    /\ placed = [i \in UsedItems |-> "live"]
    /\ uses = [i \in {} |-> {}]
    /\ searches = <<>>
    /\ useTime = 0
    /\ usage = [i \in UsedItems |-> <<>>]

-----------------------------------------------------------------------------
Later(a, b) == IF a > b THEN a ELSE b

\* decayed
Decayed(score, from, to) == score \div 2 ^ Later(to - from, 0)

NotForgotten(u) == useTime - u.last <= ForgetAfter

\* save_activity keeps what the vault or the trash still has and was used lately.
SaveActivity(kept, found) ==
    LET stays == {i \in DOMAIN kept : placed[i] # "gone" /\ NotForgotten(kept[i])} IN
    /\ uses' = [i \in stays |-> kept[i]]
    /\ searches' = found
    /\ UNCHANGED <<placed, useTime>>

Remembered(log) == [i \in UsedItems |-> IF i \in DOMAIN uses' THEN log[i] ELSE <<>>]

UsedAgain(u) == [score |-> Decayed(u.score, u.last, useTime) + Unit, last |-> Later(useTime, u.last)]

\* record_use: from the app, after a fill on the phone, and after a fill in
\* the browser that gave a password.
RecordUse(i) ==
    /\ placed[i] = "live"
    /\ Len(usage[i]) < MaxUsage
    /\ LET new == IF i \in DOMAIN uses THEN UsedAgain(uses[i])
                  ELSE [score |-> Unit, last |-> useTime]
       IN SaveActivity([j \in DOMAIN uses \cup {i} |-> IF j = i THEN new ELSE uses[j]], searches)
    /\ usage' = Remembered([usage EXCEPT ![i] = Append(@, useTime)])

Without(q) == SelectSeq(searches, LAMBDA r : r.lower # q.lower)

\* record_search: a blank query is nothing, a long one is refused.
RecordSearch(q) ==
    /\ q.lower # "" /\ ~q.long
    /\ LET found == <<q>> \o Without(q) IN
       SaveActivity(uses, SubSeq(found, 1, IF Len(found) > MaxRecentSearches
                                           THEN MaxRecentSearches ELSE Len(found)))
    /\ usage' = Remembered(usage)

ClearRecentSearches ==
    /\ SaveActivity(uses, <<>>)
    /\ usage' = Remembered(usage)

\* Items come and go by writes and pulls; nothing is pruned then.
Place(i, where) ==
    /\ placed[i] # "gone" /\ placed[i] # where
    /\ placed' = [placed EXCEPT ![i] = where]
    /\ UNCHANGED <<uses, searches, useTime, usage>>

\* A blob of another version, or one that does not open, reads as empty.
LoseActivity ==
    /\ uses' = [i \in {} |-> {}] /\ searches' = <<>>
    /\ usage' = [i \in UsedItems |-> <<>>]
    /\ UNCHANGED <<placed, useTime>>

SetClock(t) ==
    /\ useTime' = t
    /\ UNCHANGED <<placed, uses, searches, usage>>

ActivityNext ==
    \/ \E i \in UsedItems : RecordUse(i) \/ \E where \in {"live", "trash", "gone"} : Place(i, where)
    \/ \E q \in Queries : RecordSearch(q)
    \/ ClearRecentSearches \/ LoseActivity
    \/ \E t \in 0 .. MaxUseTime : SetClock(t)

ActivitySpec == ActivityInit /\ [][ActivityNext]_activityVars

-----------------------------------------------------------------------------
(* Reads.                                                                  *)

\* use_score
UseScore(i) == IF i \in DOMAIN uses /\ NotForgotten(uses[i])
               THEN Decayed(uses[i].score, uses[i].last, useTime) ELSE 0

\* frequently_used: the best score first, then the latest use, then the id.
Ranked(i, j) ==
    \/ UseScore(i) > UseScore(j)
    \/ UseScore(i) = UseScore(j) /\ uses[i].last > uses[j].last
    \/ UseScore(i) = UseScore(j) /\ uses[i].last = uses[j].last /\ i < j
FrequentlyUsed ==
    LET shown == {i \in DOMAIN uses : i # IdentityItem /\ NotForgotten(uses[i]) /\ placed[i] = "live"} IN
    CHOOSE s \in [1 .. Cardinality(shown) -> shown] :
        \A m, n \in DOMAIN s : m < n => Ranked(s[m], s[n])

\* Types.
ActivityTypeOK ==
    /\ placed \in [UsedItems -> {"live", "trash", "gone"}]
    /\ DOMAIN uses \subseteq UsedItems
    /\ useTime \in 0 .. MaxUseTime

-----------------------------------------------------------------------------
Top(s, k) == Max({s[j] : j \in 1 .. k})

(* The score kept by halving at each use is the one the whole history of   *)
(* uses gives, each use halved once per half-life since, whatever order    *)
(* uses, searches, a clock set back, the trash and pruning come in; the    *)
(* items shown as used often are ordered by it, and never one that is gone *)
(* from the vault; a query is among the recent ones once, in one spelling. *)
ScoresAreHistory ==
    /\ \A i \in DOMAIN uses :
        LET s == usage[i] IN
        /\ s # <<>>
        /\ uses[i].last = Top(s, Len(s))
        /\ uses[i].score = MapThenSumSet(LAMBDA k : Unit \div 2 ^ (Top(s, Len(s)) - Top(s, k)), DOMAIN s)
    /\ \A m, n \in DOMAIN FrequentlyUsed :
        m < n => UseScore(FrequentlyUsed[m]) >= UseScore(FrequentlyUsed[n])
    /\ \A n \in DOMAIN FrequentlyUsed : placed[FrequentlyUsed[n]] = "live"
    /\ Len(searches) <= MaxRecentSearches
    /\ \A m, n \in DOMAIN searches : searches[m].lower = searches[n].lower => m = n
=============================================================================
