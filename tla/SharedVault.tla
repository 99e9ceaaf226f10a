---------------------------- MODULE SharedVault ----------------------------
(***************************************************************************)
(* What item sync promises the writers of a vault, without replicas,       *)
(* revisions, requests or pages: one shared copy of every item.  A writer  *)
(* drafts changes of some items, each from the content it looks at to the  *)
(* one it wants.  A draft is published as a whole, and only while every    *)
(* item still is as its writer saw it; otherwise it comes to nothing.      *)
(***************************************************************************)
CONSTANTS Items, Contents, Empty, Writers

VARIABLES shared,    \* item -> its content; Empty before it is made and once deleted
          draft      \* writer -> its changes under way, by item

sharedVars == <<shared, draft>>

\* A change of an item; a draft of none is no draft.
Edit == [from : Contents, to : Contents]
NoDraft == [i \in {} |-> Empty]

SharedInit ==
  /\ shared = [i \in Items |-> Empty]
  /\ draft = [w \in Writers |-> NoDraft]

\* A writer changes some items, as it sees them.
Drafts(w) ==
  /\ draft[w] = NoDraft
  /\ \E I \in SUBSET Items : \E edits \in [I -> Edit] :
       I # {} /\ draft' = [draft EXCEPT ![w] = edits]
  /\ UNCHANGED shared

\* Nobody changed these items since: all of the draft is there at once.
Publish(w) ==
  /\ draft[w] # NoDraft
  /\ \A i \in DOMAIN draft[w] : draft[w][i].from = shared[i]
  /\ shared' = [i \in Items |-> IF i \in DOMAIN draft[w] THEN draft[w][i].to ELSE shared[i]]
  /\ draft' = [draft EXCEPT ![w] = NoDraft]

\* A draft is refused, lost or given up: nothing of it was done.
Abandon(w) ==
  /\ draft[w] # NoDraft
  /\ draft' = [draft EXCEPT ![w] = NoDraft]
  /\ UNCHANGED shared

SharedNext == \E w \in Writers : Drafts(w) \/ Publish(w) \/ Abandon(w)

SharedSpec == SharedInit /\ [][SharedNext]_sharedVars
=============================================================================
