---------------------------- MODULE PairingOnce ----------------------------
(***************************************************************************)
(* What adding a device by scanning a link promises, without requests or   *)
(* clocks: a link is decided once, by the account that looked at it first, *)
(* and an approval gives one session to the device that showed the link.   *)
(***************************************************************************)
CONSTANTS Links, Owners, Nobody

VARIABLES fate,      \* link -> "unused", "open", "approved", "denied" or "over"
          decider,   \* link -> the account it belongs to since it was looked at
          granted    \* the sessions given: link and account

onceVars == <<fate, decider, granted>>

OnceInit ==
  /\ fate = [p \in Links |-> "unused"]
  /\ decider = [p \in Links |-> Nobody]
  /\ granted = {}

Becomes(p, f) == fate' = [fate EXCEPT ![p] = f]

MayDecide(a, p) == fate[p] = "open" /\ decider[p] \in {Nobody, a}

OpenLink(p) == fate[p] = "unused" /\ Becomes(p, "open") /\ UNCHANGED <<decider, granted>>

LookAt(a, p) ==
  MayDecide(a, p) /\ decider' = [decider EXCEPT ![p] = a] /\ UNCHANGED <<fate, granted>>

Decide(a, p, f) ==
  /\ MayDecide(a, p) /\ Becomes(p, f)
  /\ decider' = [decider EXCEPT ![p] = a] /\ UNCHANGED granted

Give(p) ==
  /\ fate[p] = "approved" /\ Becomes(p, "over")
  /\ granted' = granted \cup {<<p, decider[p]>>} /\ UNCHANGED decider

\* Links run out, several at a time, whatever became of them.
Lapse ==
  /\ \E ps \in SUBSET Links :
       /\ \A p \in ps : fate[p] # "unused"
       /\ fate' = [p \in Links |-> IF p \in ps THEN "over" ELSE fate[p]]
  /\ UNCHANGED <<decider, granted>>

\* A new link may be made while old ones run out.
OnceNext ==
  \/ Lapse
  \/ \E p \in Links : OpenLink(p) \/ Give(p)
  \/ \E p \in Links, a \in Owners : LookAt(a, p) \/ Decide(a, p, "approved") \/ Decide(a, p, "denied")

OnceSpec == OnceInit /\ [][OnceNext]_onceVars
=============================================================================
