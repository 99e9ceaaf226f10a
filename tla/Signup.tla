------------------------------- MODULE Signup -------------------------------
(***************************************************************************)
(* One email address on the server, from the sign-up code to the end of    *)
(* the trial: the emailed code, the invite it turns into, the activation   *)
(* (a check without a lock, slow hashing, then a transaction), the plan,   *)
(* the administrator's commands and the daily job with its notices.        *)
(* Instants are abstracted to the stages of a life; Day moves them on.     *)
(***************************************************************************)
EXTENDS Naturals

CONSTANTS Activators,     \* overlapping activations
          CodeAttempts,   \* CODE_MAX_ATTEMPTS
          MaxCodes,       \* bound: codes mailed
          MaxInvites      \* bound: invites issued

ASSUME SignupAssumption ==
  CodeAttempts \in Nat \ {0} /\ MaxCodes \in Nat /\ MaxInvites \in Nat

VARIABLES
  code,         \* the row of signup_codes: number (0: none), attempts, fresh
  wrong,        \* wrong guesses taken against the code, by number
  codes,        \* codes mailed so far
  account,      \* the accounts row: status, invite (0: none), fresh, by, old
  invites,      \* invites issued so far
  plan,         \* the subscriptions row: status and end
  activator,    \* activation -> the invite it holds and how far it is
  activations,  \* how often this account was activated
  notes,        \* the trial notices noted in billing_events
  mails         \* the trial notices sent

signupVars == <<code, wrong, codes, account, invites, plan, activator,
                activations, notes, mails>>

NoCode == [number |-> 0, attempts |-> 0, fresh |-> FALSE]
NoAccount == [status |-> "none", invite |-> 0, fresh |-> FALSE, by |-> "nobody", old |-> FALSE]
NoPlan == [status |-> "none", ends |-> "never"]
NotActivating == [invite |-> 0, at |-> "none"]
Notices == {"ending", "ended"}

\* Bound: how often one notice is mailed.
MaxMails == 2

SignupInit ==
  /\ code = NoCode /\ wrong = [n \in 1..MaxCodes |-> 0] /\ codes = 0
  /\ account = NoAccount /\ invites = 0 /\ plan = NoPlan
  /\ activator = [q \in Activators |-> NotActivating] /\ activations = 0
  /\ notes = {} /\ mails = [n \in Notices |-> 0]

(********************************** plans **********************************)

\* What a plan entitles to.  No plan is complimentary.
Entitlement(p) ==
  CASE p.status \in {"none", "complimentary"} -> "full"
    [] p.status \in {"trialing", "active"}    -> IF p.ends = "past" THEN "frozen" ELSE "full"
    [] p.status = "past_due"                  -> IF p.ends \in {"never", "past"} THEN "frozen" ELSE "full"
    [] p.status = "frozen"                    -> "frozen"

\* set_status: the date goes to the column of the status; the others are cleared.
PlanOf(status, until) ==
  [status |-> status, ends |-> IF status \in {"frozen", "complimentary"} THEN "never" ELSE until]

(****************************** sign-up routes *****************************)

\* signup::start: a new or invited address gets a code, which replaces the one
\* before; an active one gets a mail saying so.  The mail may fail afterwards.
SignupStart ==
  /\ codes < MaxCodes
  /\ \/ /\ account.status \in {"none", "invited"}
        /\ codes' = codes + 1
        /\ code' = [number |-> codes', attempts |-> 0, fresh |-> TRUE]
     \/ account.status = "active" /\ code' = NoCode /\ UNCHANGED codes
  /\ UNCHANGED <<wrong, account, invites, plan, activator, activations, notes, mails>>

\* Mutant of CodeSpent: the attempt that reaches the limit is one too late.
CodeSpentLater == ~code.fresh \/ code.attempts > CodeAttempts

\* The code cannot take another wrong guess: it expired, or this is its last.
CodeSpent == ~code.fresh \/ code.attempts + 1 >= CodeAttempts

\* signup::verify with a wrong code, or one that expired: the attempt is
\* counted under the row's lock, and the last one drops the code.
VerifyWrong ==
  /\ code.number # 0
  /\ wrong' = [wrong EXCEPT ![code.number] = @ + 1]
  /\ code' = IF CodeSpent THEN NoCode ELSE [code EXCEPT !.attempts = @ + 1]
  /\ UNCHANGED <<codes, account, invites, plan, activator, activations, notes, mails>>

\* ... with the right one: the code is used up and the account invited, or
\* its invite replaced; the trial is set down without an end.
VerifyRight ==
  /\ code.number # 0 /\ code.fresh /\ code.attempts < CodeAttempts
  /\ code' = NoCode
  /\ \/ /\ account.status = "active" /\ UNCHANGED <<account, invites, plan>>
     \/ /\ account.status # "active" /\ invites < MaxInvites /\ invites' = invites + 1
        /\ account' = IF account.status = "none"
                      THEN [status |-> "invited", invite |-> invites', fresh |-> TRUE,
                            by |-> "signup", old |-> FALSE]
                      ELSE [account EXCEPT !.invite = invites', !.fresh = TRUE]
        /\ plan' = IF plan = NoPlan THEN PlanOf("trialing", "never") ELSE plan
  /\ UNCHANGED <<wrong, codes, activator, activations, notes, mails>>

(******************************* activation ********************************)

InviteAccepted(n) == account.status = "invited" /\ account.invite = n /\ account.fresh

\* activate passes its first check with an invite somebody holds,
ActivateChecked(q, n) ==
  /\ activator[q] = NotActivating /\ InviteAccepted(n)
  /\ activator' = [activator EXCEPT ![q] = [invite |-> n, at |-> "hashing"]]
  /\ UNCHANGED <<code, wrong, codes, account, invites, plan, activations, notes, mails>>

\* Mutant of StillAccepted: what the first check saw is trusted after the hash.
CheckedBefore(n) == account.status # "none"

\* The invite is read again under the account's lock.
StillAccepted(n) == InviteAccepted(n)

\* then, after the hash, the transaction reads the invite again, activates the
\* account, starts the clock of a trial that has none and makes the vault.
ActivateCommits(q) ==
  /\ activator[q].at = "hashing" /\ StillAccepted(activator[q].invite)
  /\ account' = [account EXCEPT !.status = "active", !.invite = 0, !.fresh = FALSE]
  /\ plan' = IF plan.status = "trialing" /\ plan.ends = "never"
             THEN PlanOf("trialing", "ahead") ELSE plan
  /\ activations' = activations + 1
  /\ activator' = [activator EXCEPT ![q] = NotActivating]
  /\ UNCHANGED <<code, wrong, codes, invites, notes, mails>>

ActivateRefused(q) ==
  /\ activator[q].at = "hashing"
  /\ activator' = [activator EXCEPT ![q] = NotActivating]
  /\ UNCHANGED <<code, wrong, codes, account, invites, plan, activations, notes, mails>>

(****************************** administrator ******************************)

NewAccount(trial) ==
  /\ account.status = "none" /\ invites < MaxInvites
  /\ invites' = invites + 1
  /\ account' = [status |-> "invited", invite |-> invites', fresh |-> TRUE,
                 by |-> "admin", old |-> FALSE]
  /\ plan' = PlanOf(IF trial THEN "trialing" ELSE "complimentary", "never")
  /\ UNCHANGED <<code, wrong, codes, activator, activations, notes, mails>>

\* A trial given without a date to an account that is active ends by itself.
TrialEnd(until) == IF until = "never" /\ account.status = "active" THEN "ahead" ELSE until

SetPlan(status, until) ==
  /\ account.status # "none"
  /\ plan' = PlanOf(status, IF status = "trialing" THEN TrialEnd(until) ELSE until)
  /\ UNCHANGED <<code, wrong, codes, account, invites, activator, activations, notes, mails>>

\* erase_account: the account goes with everything that refers to it.
Erase ==
  /\ account.status # "none"
  /\ account' = NoAccount /\ plan' = NoPlan /\ code' = NoCode
  /\ activations' = 0 /\ notes' = {} /\ mails' = [n \in Notices |-> 0]
  /\ UNCHANGED <<wrong, codes, invites, activator>>

(***************************** time and the job ****************************)

Later(ends) == CASE ends = "ahead" -> "soon" [] ends = "soon" -> "past" [] OTHER -> ends

\* A day passes: codes and invites expire, ends come nearer, rows grow old.
Day ==
  /\ code' = [code EXCEPT !.fresh = FALSE]
  /\ account' = [account EXCEPT !.fresh = FALSE, !.old = account.status # "none"]
  /\ plan' = [plan EXCEPT !.ends = Later(@)]
  /\ UNCHANGED <<wrong, codes, invites, activator, activations, notes, mails>>

\* run_daily's sweeps: codes that expired, and sign-ups nobody activated.
Sweeps ==
  /\ code' = IF code.fresh THEN code ELSE NoCode
  /\ LET abandoned == account.status = "invited" /\ account.by = "signup"
                      /\ account.old /\ ~account.fresh IN
     /\ account' = IF abandoned THEN NoAccount ELSE account
     /\ plan' = IF abandoned THEN NoPlan ELSE plan
     /\ notes' = IF abandoned THEN {} ELSE notes
     /\ mails' = IF abandoned THEN [n \in Notices |-> 0] ELSE mails
  /\ UNCHANGED <<wrong, codes, invites, activator, activations>>

Due(n) ==
  /\ plan.status = "trialing" /\ account.status = "active" /\ n \notin notes
  /\ plan.ends = IF n = "ending" THEN "soon" ELSE "past"

\* A notice that is due is mailed and then noted; the mail may fail, and the
\* process may end between the two.
Notify(n) ==
  /\ Due(n) /\ mails[n] < MaxMails
  /\ \/ mails' = [mails EXCEPT ![n] = @ + 1] /\ notes' = notes \cup {n}
     \/ UNCHANGED <<mails, notes>>
     \/ mails' = [mails EXCEPT ![n] = @ + 1] /\ UNCHANGED notes
  /\ UNCHANGED <<code, wrong, codes, account, invites, plan, activator, activations>>

SignupNext ==
  \/ SignupStart \/ VerifyWrong \/ VerifyRight \/ Erase \/ Day \/ Sweeps
  \/ \E q \in Activators :
       ActivateCommits(q) \/ ActivateRefused(q) \/ \E n \in 1..MaxInvites : ActivateChecked(q, n)
  \/ \E trial \in BOOLEAN : NewAccount(trial)
  \/ \E s \in {"trialing", "active", "past_due", "frozen", "complimentary"},
        u \in {"never", "ahead", "past"} : SetPlan(s, u)
  \/ \E n \in Notices : Notify(n)

SignupSpec == SignupInit /\ [][SignupNext]_signupVars

-----------------------------------------------------------------------------

\* Rows have their types, and there is no plan without an account.
SignupTypeOK ==
  /\ code.number \in 0..MaxCodes /\ code.attempts \in 0..CodeAttempts
  /\ account.status \in {"none", "invited", "active"} /\ account.invite \in 0..MaxInvites
  /\ plan.ends \in {"never", "ahead", "soon", "past"} /\ notes \subseteq Notices
  /\ Entitlement(plan) \in {"full", "frozen"}
  /\ account.status = "none" => plan = NoPlan /\ notes = {}

\* No code takes more than CODE_MAX_ATTEMPTS wrong guesses, whatever starts and
\* expiries come between them.
CodeGuessesBounded == \A n \in 1..MaxCodes : wrong[n] <= CodeAttempts

\* An account is activated once: of overlapping activations with one invite, or
\* with an invite that was replaced or erased meanwhile, one at most sets its
\* password and vault.
ActivatedOnce == activations <= 1

\* A trial of an account in use always has an end, whichever of sign-up,
\* administrator and activation set it down, and in which order.
TrialsEnd ==
  account.status = "active" /\ plan.status = "trialing" => plan.ends # "never"

\* Sign-up, invitation and activation keep their limits, in whatever order they
\* cross (routes/signup.rs, accounts.rs, billing).
SignupKeepsLimits == CodeGuessesBounded /\ ActivatedOnce /\ TrialsEnd
=============================================================================
