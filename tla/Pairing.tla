------------------------------ MODULE Pairing ------------------------------
(***************************************************************************)
(* Adding a device: the new device asks the server for a pairing and shows *)
(* its link, an account's device looks at it and approves or denies, and   *)
(* the new device polls until it claims the answer.  Every server handler  *)
(* is one transaction that locks the pairing's row; polls and answers may  *)
(* be lost or come back after the person has cancelled or started again.   *)
(***************************************************************************)
EXTENDS Naturals, FiniteSets

CONSTANTS Pairings,        \* pairing ids, used in order
          Joiners,         \* devices without a vault, all behind one address
          Owners,          \* accounts with a signed-in device
          PairingsPerIp,   \* PAIRINGS_PER_IP
          PendingPerIp,    \* PENDING_PAIRINGS_PER_IP
          Nobody           \* no pairing, no account

ASSUME PairingAssumption ==
  Pairings \subseteq Nat /\ IsFiniteSet(Pairings) /\ Nobody \notin Pairings /\ Nobody \notin Owners

VARIABLES
  link,      \* pairing -> its row: state, age, account, device
  owner,     \* joiner -> the account its device row belongs to
  granted,   \* the sessions claims have issued: pairing and account
  held,      \* joiner -> the pairing in its slot (PendingPairing)
  poll,      \* joiner -> the poll under the gate and its answer
  shown,     \* joiner -> the link on its screen
  joined     \* joiner -> the account whose vault it made

pairVars == <<link, owner, granted, held, poll, shown, joined>>

NoPoll == [id |-> Nobody, answer |-> "none", account |-> Nobody]

PairInit ==
  /\ link = [p \in Pairings |-> [state |-> "none", age |-> "live", account |-> Nobody, device |-> Nobody]]
  /\ owner = [d \in Joiners |-> Nobody] /\ granted = {}
  /\ held = [d \in Joiners |-> Nobody] /\ shown = held
  /\ poll = [d \in Joiners |-> NoPoll] /\ joined = held

(******************************** the server ********************************)

Stored == {p \in Pairings : link[p].state \notin {"none", "swept"}}

\* pairings::create: rows past PAIRING_MAX_AGE go, the address's rows are
\* counted under an advisory lock, and a new row is stored.
Unused == {p \in Pairings : link[p].state = "none"}

SweptOld == [p \in Pairings |->
               IF p \in Stored /\ link[p].age = "old" THEN [link[p] EXCEPT !.state = "swept"] ELSE link[p]]

Young == {p \in Stored : link[p].age # "old"}

CreateRow(d, p) ==
  /\ p \in Unused /\ \A q \in Unused : p <= q
  /\ Cardinality(Young) < PairingsPerIp
  /\ Cardinality({q \in Young : link[q].state = "pending" /\ link[q].age = "live"}) < PendingPerIp
  /\ link' = [SweptOld EXCEPT ![p] = [state |-> "pending", age |-> "live",
                                      account |-> Nobody, device |-> d]]

\* The row is pending, has not expired, and belongs to no other account.
Decidable(a, p) ==
  link[p].state = "pending" /\ link[p].age = "live" /\ link[p].account \in {Nobody, a}

\* pairings::details binds the row to the account that looks.
Details(a, p) ==
  /\ Decidable(a, p)
  /\ link' = [link EXCEPT ![p].account = a]
  /\ UNCHANGED <<owner, granted, held, poll, shown, joined>>

\* register_device: the device is new or already this account's.
Registrable(a, d) == owner[d] \in {Nobody, a}

\* pairings::approve: the device is registered to the account (a device of
\* another account cannot be), the envelope stored and the row decided.
Approve(a, p) ==
  /\ Decidable(a, p) /\ Registrable(a, link[p].device)
  /\ owner' = [owner EXCEPT ![link[p].device] = a]
  /\ link' = [link EXCEPT ![p].account = a, ![p].state = "approved"]
  /\ UNCHANGED <<granted, held, poll, shown, joined>>

Deny(a, p) ==
  /\ Decidable(a, p)
  /\ link' = [link EXCEPT ![p].account = a, ![p].state = "denied"]
  /\ UNCHANGED <<owner, granted, held, poll, shown, joined>>

\* Mutant of Consumed: the row keeps its state, so a second claim finds it.
NotConsumed(p) == link' = link

\* The claim that reads a decision uses the row up and drops the envelope.
Consumed(p) == link' = [link EXCEPT ![p].state = "claimed"]

Age(p) ==
  /\ p \in Stored /\ link[p].age # "old"
  /\ link' = [link EXCEPT ![p].age = IF @ = "live" THEN "late" ELSE "old"]
  /\ UNCHANGED <<owner, granted, held, poll, shown, joined>>

(****************************** the new device ******************************)

\* start_pairing: keys and a claim secret are made, the row created, and the
\* pairing takes the slot (it replaces an earlier one).
StartPairing(d, p) ==
  /\ joined[d] = Nobody /\ CreateRow(d, p)
  /\ held' = [held EXCEPT ![d] = p] /\ shown' = [shown EXCEPT ![d] = p]
  /\ UNCHANGED <<owner, granted, poll, joined>>

\* ... or its answer is lost, and a row nobody polls stays behind.
StartLost(d, p) ==
  /\ joined[d] = Nobody /\ CreateRow(d, p)
  /\ UNCHANGED <<owner, granted, held, poll, shown, joined>>

CancelPairing(d) ==
  /\ shown[d] # Nobody
  /\ held' = [held EXCEPT ![d] = Nobody] /\ shown' = [shown EXCEPT ![d] = Nobody]
  /\ UNCHANGED <<link, owner, granted, poll, joined>>

\* poll_pairing takes the gate and reads the slot.
PollSent(d) ==
  /\ poll[d] = NoPoll /\ held[d] # Nobody
  /\ poll' = [poll EXCEPT ![d] = [id |-> held[d], answer |-> "sent", account |-> Nobody]]
  /\ UNCHANGED <<link, owner, granted, held, shown, joined>>

\* pairings::claim, with the secret of the pairing: what the row says.
Claim(d) ==
  LET p == poll[d].id
      Answer(x, a) == poll' = [poll EXCEPT ![d] = [id |-> p, answer |-> x, account |-> a]]
  IN
  /\ poll[d].answer = "sent"
  /\ \/ /\ link[p].state = "pending" /\ link[p].age = "live"
        /\ Answer("waiting", Nobody) /\ UNCHANGED <<link, granted>>
     \/ /\ link[p].state = "denied" /\ link[p].age # "old"
        /\ Answer("denied", Nobody) /\ Consumed(p) /\ UNCHANGED granted
     \/ /\ link[p].state = "approved" /\ link[p].age # "old"
        /\ Answer("approved", link[p].account) /\ Consumed(p)
        /\ granted' = granted \cup {<<p, link[p].account>>}
     \/ /\ \/ link[p].state \in {"claimed", "swept"} \/ link[p].age = "old"
           \/ link[p].state = "pending" /\ link[p].age = "late"
        /\ Answer("gone", Nobody) /\ UNCHANGED <<link, granted>>
  /\ UNCHANGED <<owner, held, shown, joined>>

\* The request or its answer is lost: the poll ends with an error.
PollLost(d) ==
  /\ poll[d] # NoPoll /\ poll' = [poll EXCEPT ![d] = NoPoll]
  /\ UNCHANGED <<link, owner, granted, held, shown, joined>>

\* Mutant of ClearedSlot: the answer empties the slot whatever it holds.
EmptiedSlot(d, p) == Nobody

\* cancel_pairing_if, and the take of an approved poll: only the polled pairing
\* leaves the slot.
ClearedSlot(d, p) == IF held[d] = p THEN Nobody ELSE held[d]

\* The screen of the polled pairing ends with its answer.
Ended(d, p) == shown' = [shown EXCEPT ![d] = IF @ = p THEN Nobody ELSE @]

\* The answer comes back.  An approval is used only while its pairing is in the
\* slot; then the envelope opens with that pairing's key and a vault is made, or
\* something fails and the pairing is over.
PollAnswered(d) ==
  LET p == poll[d].id IN
  /\ poll[d].answer \notin {"none", "sent"}
  /\ poll' = [poll EXCEPT ![d] = NoPoll]
  /\ \/ /\ poll[d].answer = "waiting" /\ UNCHANGED <<held, shown, joined>>
     \/ /\ poll[d].answer \in {"denied", "gone"}
        /\ held' = [held EXCEPT ![d] = ClearedSlot(d, p)] /\ Ended(d, p) /\ UNCHANGED joined
     \/ /\ poll[d].answer = "approved" /\ held[d] # p
        /\ UNCHANGED <<held, shown, joined>>
     \/ /\ poll[d].answer = "approved" /\ held[d] = p
        /\ held' = [held EXCEPT ![d] = ClearedSlot(d, p)] /\ Ended(d, p)
        /\ \/ joined' = [joined EXCEPT ![d] = poll[d].account]
           \/ UNCHANGED joined
  /\ UNCHANGED <<link, owner, granted>>

PairNext ==
  \/ \E a \in Owners, p \in Pairings : Details(a, p) \/ Approve(a, p) \/ Deny(a, p)
  \/ \E p \in Pairings : Age(p)
  \/ \E d \in Joiners, p \in Pairings : StartPairing(d, p) \/ StartLost(d, p)
  \/ \E d \in Joiners :
       CancelPairing(d) \/ PollSent(d) \/ Claim(d) \/ PollLost(d) \/ PollAnswered(d)

PairSpec == PairInit /\ [][PairNext]_pairVars

-----------------------------------------------------------------------------

\* Rows, slots and polls have their types.
Rows == [state : {"none", "pending", "approved", "denied", "claimed", "swept"},
         age : {"live", "late", "old"}, account : Owners \cup {Nobody}, device : Joiners \cup {Nobody}]
Polls == [id : Pairings \cup {Nobody}, account : Owners \cup {Nobody},
          answer : {"none", "sent", "waiting", "denied", "approved", "gone"}]

PairTypeOK ==
  /\ link \in [Pairings -> Rows] /\ poll \in [Joiners -> Polls]
  /\ held \in [Joiners -> Pairings \cup {Nobody}] /\ shown \in [Joiners -> Pairings \cup {Nobody}]
  /\ joined \in [Joiners -> Owners \cup {Nobody}] /\ owner \in [Joiners -> Owners \cup {Nobody}]
  /\ granted \subseteq Pairings \X Owners

\* The pairing whose link is on the screen is the one the device polls: a late
\* answer to an earlier pairing, cancelled or replaced, never ends this one.
ShownIsHeld == \A d \in Joiners : shown[d] # Nobody => held[d] = shown[d]

\* A device makes the vault of an account only with a session the server gave
\* to a pairing that this device asked for and that account approved, and the
\* device is registered to it.
JoinedAsApproved ==
  \A d \in Joiners : joined[d] # Nobody =>
    /\ owner[d] = joined[d]
    /\ \E p \in Pairings : link[p].device = d /\ <<p, joined[d]>> \in granted

\* A row's fate in the abstract specification: a decision that no claim can
\* reach any more is over.
FateOf(p) ==
  IF link[p].state = "none" THEN "unused"
  ELSE IF \/ link[p].state \in {"claimed", "swept"} \/ link[p].age = "old"
          \/ link[p].state = "pending" /\ link[p].age = "late" THEN "over"
  ELSE IF link[p].state = "pending" THEN "open" ELSE link[p].state

Once == INSTANCE PairingOnce WITH
          Links <- Pairings, fate <- [p \in Pairings |-> FateOf(p)],
          decider <- [p \in Pairings |-> link[p].account]

\* The handlers implement the promise: one decision per link, by the account
\* that looked first, and one session per approval.
ImplementsOnce == Once!OnceSpec

\* What the joining device shows and joins is what the server holds for it
\* (client pairing.rs against routes/pairings.rs).
PairedAsApproved == ShownIsHeld /\ JoinedAsApproved
=============================================================================
