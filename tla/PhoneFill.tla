------------------------------ MODULE PhoneFill ------------------------------
(***************************************************************************)
(* The Android bindings as an autofill and credential provider: who is     *)
(* asking (a browser showing a page, or an app), which websites vouch for  *)
(* an app in their Digital Asset Links, what is then offered, filled or    *)
(* saved.  The vault is read under its mutex; the websites are asked with  *)
(* the mutex released, so two calls can read, ask and write back the cache *)
(* of answers in any order, and the vault may lock while they wait.        *)
(***************************************************************************)
EXTENDS Integers, FiniteSets

CONSTANTS PhoneCalls,       \* calls that may run at the same time
          AsksOf,           \* [PhoneCalls -> what each may be: an operation and
                            \* what Android reports of who asks, [pkg, cert, page]]
          LinkHosts,        \* websites
          LabelHosts,       \* those whose name is a part of the app's package
          FreshFor, RetryAfter, MaxCachedHosts, MaxDay, MaxBound

ASSUME PhoneFillAssumption ==
    /\ FreshFor \in Nat /\ RetryAfter \in 0 .. FreshFor
    /\ {MaxCachedHosts, MaxBound} \subseteq Nat \ {0} /\ MaxDay \in Nat
    /\ LabelHosts \subseteq LinkHosts

VARIABLES phoneOpen,        \* the vault on the phone is open
          links,            \* AssetLinksCache, in its local slot
          sites,            \* what each website publishes now
          published,        \* history: when it last published each statement
          bound,            \* the app bindings of the phone's logins
          day,
          calls             \* [PhoneCalls -> where the call is]

phoneVars == <<phoneOpen, links, sites, published, bound, day, calls>>

\* A website names the genuine app for links only, or for its credentials too.
Statements == {"none", "urls", "creds"}
Naming == {"urls", "creds"}
Genuine == [pkg |-> "app", cert |-> "good"]
OwnPackage == "own"

\* A login per website (a bank account is found the same way) and a card (the
\* identity is read the same way).
PhoneItems == LinkHosts \X {"login"} \cup {<<"any", "card">>}
SiteBound(i) == i[2] = "login"

\* What the vault is asked in the end: a login that matches, a passkey, one of
\* the owner's own items, or a write.
PasskeyEnds == {"passkey", "create"}
AskingEnds == {"match", "save", "passkey", "create"}
WritingEnds == {"bind", "save", "saveCard", "create"}

NoPhoneCall == [step |-> "none"]

PhoneInit ==
    /\ phoneOpen = TRUE
    /\ links = {} /\ bound = [i \in PhoneItems |-> {}]
    /\ \E w \in [LinkHosts -> Statements] :
          /\ sites = w
          /\ published = [h \in LinkHosts |-> [s \in Naming |-> IF s = w[h] THEN 0 ELSE -1]]
    /\ day = 0
    /\ calls = [c \in PhoneCalls |-> NoPhoneCall]

CallGoes(c, r) == calls' = [calls EXCEPT ![c] = r]
CallEnds(c) == CallGoes(c, NoPhoneCall)

-----------------------------------------------------------------------------
\* is_privileged_browser: on the list, with the certificate of the list.
Browser(k) == k.pkg = "browser" /\ k.cert = "good"

AppOf(k) == [kind |-> "app", app |-> [pkg |-> k.pkg, cert |-> k.cert]]
PageOf(k) == [kind |-> "page", page |-> k.page]
Nowhere == [kind |-> "denied"]

\* classify: an app that is no browser is an app, whatever page it reports.
Classify(k) == IF k.pkg = OwnPackage \/ k.cert = "bad" THEN Nowhere
               ELSE IF ~Browser(k) THEN AppOf(k)
               ELSE IF k.page = "none" THEN Nowhere ELSE PageOf(k)

\* credential_caller: only a browser may speak for an origin.
CredentialCaller(k) == IF k.pkg = OwnPackage \/ k.cert = "bad" THEN Nowhere
                       ELSE IF k.page = "none" THEN AppOf(k)
                       ELSE IF Browser(k) THEN PageOf(k) ELSE Nowhere

-----------------------------------------------------------------------------
\* CachedHost::fresh: an answer keeps for long, a failure for a while.
FreshLink(e, now) ==
    now - e.at \in 0 .. (IF e.said = "failed" THEN RetryAfter ELSE FreshFor)

\* Mutant of VouchesFor: the package without the signing certificate.
VouchesForName(said, app) == said \in Naming /\ app.pkg = Genuine.pkg

\* vouches_for: one statement names both the package and a certificate.
VouchesFor(said, app) == said \in Naming /\ app = Genuine

\* AssetLinksCache::verified_hosts.
VerifiedHosts(cache, app, now) ==
    {e.host : e \in {x \in cache : FreshLink(x, now) /\ VouchesFor(x.said, app)}}

\* authorize_rp_for_app: from the stored cache, at the time of the answer.
AuthorizeAppRp(rp, app, now) ==
    \E e \in links : e.host = rp /\ FreshLink(e, now) /\ e.said = "creds" /\ app = Genuine

\* The answers kept: each host once, the latest answers when there are too many.
KeptLinks(all, kept) ==
    /\ kept \subseteq all
    /\ Cardinality(kept) = IF Cardinality(all) < MaxCachedHosts THEN Cardinality(all) ELSE MaxCachedHosts
    /\ \A e \in kept, x \in all \ kept : e.at >= x.at

\* candidate_hosts among login_hosts, and the host the caller adds.
ToAsk(r) == (IF r.target.app.pkg = Genuine.pkg THEN LabelHosts ELSE {})
               \cup (IF r.end \in PasskeyEnds THEN {r.rp} ELSE {})

\* app_match: bound to the app, or on a host that vouches for it.
MatchesApp(i, app, hosts) == SiteBound(i) /\ (app \in bound[i] \/ i[1] \in hosts)
MatchesCall(i, r) == IF r.target.kind = "page" THEN SiteBound(i) /\ i[1] = r.target.page
                     ELSE MatchesApp(i, r.target.app, r.hosts)

-----------------------------------------------------------------------------
\* lock, by the owner, the idle clock or the screen turned off; unlock.
PhoneLock ==
    /\ phoneOpen /\ phoneOpen' = FALSE
    /\ UNCHANGED <<links, sites, published, bound, day, calls>>

PhoneUnlock ==
    /\ ~phoneOpen /\ phoneOpen' = TRUE
    /\ UNCHANGED <<links, sites, published, bound, day, calls>>

-----------------------------------------------------------------------------
\* Where a call goes next: a browser's page is known, an app's hosts are asked.
FirstStep(end, t) == IF t.kind = "app" /\ end \in AskingEnds THEN "ask" ELSE "answer"

\* Every call asks for an open vault, and learns who is calling.
Serve(c, op, k, t, end) ==
    /\ calls[c] = NoPhoneCall /\ <<op, k>> \in AsksOf[c]
    /\ phoneOpen /\ t # Nowhere
    /\ \E i \in (IF end \in {"own", "saveCard"} THEN {<<"any", "card">>} ELSE LinkHosts \X {"login"}),
          rp \in (IF end \in PasskeyEnds THEN LinkHosts ELSE {"none"}) :
          CallGoes(c, [step |-> FirstStep(end, t), end |-> end, target |-> t, item |-> i, rp |-> rp,
                       round |-> 1, asked |-> 0, copy |-> {}, hosts |-> {}])
    /\ UNCHANGED <<phoneOpen, links, sites, published, bound, day>>

\* The operations, with what each asks first: `frozen` and `online` are the plan
\* and the connection at the call, which pulls and the network change at any
\* time.  A frozen account gets an empty list or a refusal.
AutofillMatches(c, k, frozen) == ~frozen /\ Serve(c, "matches", k, Classify(k), "match")
AutofillFill(c, k, frozen) == ~frozen /\ Serve(c, "fill", k, Classify(k), "match")
AutofillTotp(c, k) == Serve(c, "totp", k, Classify(k), "match")
AutofillSearch(c, k, frozen) == ~frozen /\ Serve(c, "search", k, Classify(k), "own")
AutofillBindAndFill(c, k, frozen) ==
    ~frozen /\ Classify(k).kind = "app" /\ Serve(c, "bind", k, Classify(k), "bind")
AutofillSave(c, k, online) == online /\ Serve(c, "save", k, Classify(k), "save")
AutofillCards(c, k, frozen) == ~frozen /\ Serve(c, "cards", k, Classify(k), "own")
AutofillCardValues(c, k, frozen) == ~frozen /\ Serve(c, "cardValues", k, Classify(k), "own")
AutofillSaveCard(c, k) == Serve(c, "saveCard", k, Classify(k), "saveCard")
AutofillIdentity(c, k, frozen) == ~frozen /\ Serve(c, "identity", k, Classify(k), "own")
AutofillIdentityValues(c, k, frozen) == ~frozen /\ Serve(c, "identityValues", k, Classify(k), "own")
PasskeyOffers(c, k) == Serve(c, "passkeyOffers", k, CredentialCaller(k), "passkey")
PasskeySignIn(c, k) == Serve(c, "signIn", k, CredentialCaller(k), "passkey")
PasskeyCreatePlan(c, k, frozen) == ~frozen /\ Serve(c, "createPlan", k, CredentialCaller(k), "passkey")
PasskeyCreate(c, k, online, frozen) ==
    online /\ ~frozen /\ Serve(c, "create", k, CredentialCaller(k), "create")
CredentialPasswordOffers(c, k, frozen) ==
    ~frozen /\ Serve(c, "passwordOffers", k, CredentialCaller(k), "match")
CredentialPassword(c, k, frozen) == ~frozen /\ Serve(c, "password", k, CredentialCaller(k), "match")

\* The hosts that vouch, from the call's own copy and at the time it asked; a
\* passkey goes by the stored cache and the time of its answer instead.
Verified(r) == [r EXCEPT !.step = "answer", !.copy = {}, !.asked = IF r.end \in PasskeyEnds THEN 0 ELSE @,
                         !.hosts = IF r.end \in PasskeyEnds THEN {}
                                   ELSE VerifiedHosts(r.copy, r.target.app, r.asked)]

\* verified_hosts_asking: the cache and the hosts whose answer is not fresh.
ReadLinks(c) ==
    /\ calls[c].step = "ask"
    /\ IF ~phoneOpen THEN CallEnds(c)
       ELSE \E setting \in BOOLEAN :
              LET stale == IF setting THEN {h \in ToAsk(calls[c]) :
                                              ~\E e \in links : e.host = h /\ FreshLink(e, day)}
                           ELSE {}
                  r == [calls[c] EXCEPT !.asked = day, !.copy = links, !.hosts = stale, !.step = "fetching"]
              IN CallGoes(c, IF stale = {} THEN Verified(r) ELSE r)
    /\ UNCHANGED <<phoneOpen, links, sites, published, bound, day>>

\* The websites answer or fail, one by one, without the guard; the copy of the
\* cache is brought up to date with the time at which the call began to ask.
FetchLinks(c) ==
    /\ calls[c].step = "fetching"
    /\ \E down \in SUBSET calls[c].hosts :
         LET r == calls[c]
             new == {[host |-> h, at |-> r.asked, said |-> IF h \in down THEN "failed" ELSE sites[h]]
                       : h \in r.hosts}
             all == {e \in r.copy : e.host \notin r.hosts} \cup new
         IN \E kept \in SUBSET all :
              /\ KeptLinks(all, kept)
              /\ CallGoes(c, [r EXCEPT !.copy = kept, !.step = "store"])
    /\ UNCHANGED <<phoneOpen, links, sites, published, bound, day>>

\* The whole copy is written back; a vault that locked meanwhile takes nothing.
StoreLinks(c) ==
    /\ calls[c].step = "store"
    /\ links' = IF phoneOpen THEN calls[c].copy ELSE links
    /\ CallGoes(c, Verified(calls[c]))
    /\ UNCHANGED <<phoneOpen, sites, published, bound, day>>

-----------------------------------------------------------------------------
RpAllowed(r) == IF r.target.kind = "page" THEN r.rp = r.target.page
                ELSE AuthorizeAppRp(r.rp, r.target.app, day)

\* What the vault agrees to, under its guard, when the call reaches it: the
\* passkey of a website that allows the app, a login or account that matches,
\* any card, the one identity; a search or a binding needs no match.
Gives(r) == CASE r.end \in PasskeyEnds -> r.item[1] = r.rp /\ RpAllowed(r)
              [] r.end = "match" -> MatchesCall(r.item, r)
              [] OTHER -> TRUE

\* A listing, a value, a code or a signature leaves the vault.
AnswerPhone(c) ==
    /\ calls[c].step = "answer" /\ calls[c].end \notin WritingEnds
    /\ IF phoneOpen /\ Gives(calls[c]) THEN CallGoes(c, [calls[c] EXCEPT !.step = "given"]) ELSE CallEnds(c)
    /\ UNCHANGED <<phoneOpen, links, sites, published, bound, day>>

ReturnPhone(c) ==
    /\ calls[c].step = "given" /\ CallEnds(c)
    /\ UNCHANGED <<phoneOpen, links, sites, published, bound, day>>

\* passkey_create: a passkey the site already knows is refused; then the hosts
\* are asked again, and the passkey is staged for the login that was chosen.
CheckCreate(c) ==
    /\ calls[c].step = "answer" /\ calls[c].end = "create" /\ calls[c].round = 1
    /\ \/ CallEnds(c)
       \/ /\ phoneOpen /\ Gives(calls[c])
          /\ CallGoes(c, [calls[c] EXCEPT !.round = 2, !.hosts = {},
                        !.step = FirstStep("create", calls[c].target)])
    /\ UNCHANGED <<phoneOpen, links, sites, published, bound, day>>

\* What is staged under the guard: the binding of the app, a login saved where
\* it matches or anew, a card that is not there yet, a passkey.
Stageable(r) == CASE r.end = "bind" -> SiteBound(r.item) /\ Cardinality(bound[r.item] \cup {r.target.app}) <= MaxBound
                  [] r.end = "create" -> r.round = 2 /\ Gives(r)
                  [] r.end = "save" -> r.item[2] = "login"
                  [] OTHER -> TRUE

StageOnPhone(c) ==
    /\ calls[c].step = "answer" /\ calls[c].end \in WritingEnds
    /\ calls[c].end = "create" => calls[c].round = 2
    /\ IF phoneOpen /\ Stageable(calls[c]) THEN CallGoes(c, [calls[c] EXCEPT !.step = "push"]) ELSE CallEnds(c)
    /\ UNCHANGED <<phoneOpen, links, sites, published, bound, day>>

\* bindings_for: the package with the certificates it was seen with.
BindingOf(r) == {r.target.app}

\* The push: the server takes the write, or it does not.  Only a login saved
\* for an app and a confirmed login leave a binding, on the item they wrote.
PushFromPhone(c) ==
    /\ calls[c].step = "push"
    /\ LET r == calls[c] IN
          \/ /\ phoneOpen
             /\ bound' = IF r.target.kind = "app" /\ r.end \in {"bind", "save"}
                         THEN [bound EXCEPT ![r.item] = @ \cup BindingOf(r)] ELSE bound
             /\ IF r.end = "bind" THEN CallGoes(c, [r EXCEPT !.step = "saved"]) ELSE CallEnds(c)
          \/ /\ UNCHANGED bound
             /\ IF r.end = "bind" THEN CallGoes(c, [r EXCEPT !.step = "unsaved"]) ELSE CallEnds(c)
    /\ UNCHANGED <<phoneOpen, links, sites, published, day>>

\* autofill_bind_and_fill: as a bound login, or once when it was not stored.
FillBound(c) ==
    /\ calls[c].step \in {"saved", "unsaved"}
    /\ IF phoneOpen /\ (calls[c].step = "saved" => MatchesApp(calls[c].item, calls[c].target.app, {}))
       THEN CallGoes(c, [calls[c] EXCEPT !.step = "given"]) ELSE CallEnds(c)
    /\ UNCHANGED <<phoneOpen, links, sites, published, bound, day>>

-----------------------------------------------------------------------------
\* The owner removes a binding on another device.
Unbind(i) ==
    /\ bound[i] # {} /\ phoneOpen /\ bound' = [bound EXCEPT ![i] = {}]
    /\ UNCHANGED <<phoneOpen, links, sites, published, day, calls>>

\* A website publishes another statement.
Publish(h, s) ==
    /\ sites[h] # s
    /\ sites' = [sites EXCEPT ![h] = s]
    /\ published' = [published EXCEPT ![h] = [t \in Naming |-> IF t = s THEN day ELSE @[t]]]
    /\ UNCHANGED <<phoneOpen, links, bound, day, calls>>

\* Days pass, for the answers in the cache.
PhoneDay ==
    /\ day < MaxDay /\ day' = day + 1
    /\ published' = [h \in LinkHosts |-> [s \in Naming |-> IF sites[h] = s THEN day + 1 ELSE published[h][s]]]
    /\ UNCHANGED <<phoneOpen, links, sites, bound, calls>>

PhoneCallStep(c) ==
    \/ \E k \in {a[2] : a \in AsksOf[c]}, frozen, online \in BOOLEAN :
          \/ AutofillMatches(c, k, frozen) \/ AutofillFill(c, k, frozen) \/ AutofillTotp(c, k)
          \/ AutofillSearch(c, k, frozen) \/ AutofillBindAndFill(c, k, frozen) \/ AutofillSave(c, k, online)
          \/ AutofillCards(c, k, frozen) \/ AutofillCardValues(c, k, frozen) \/ AutofillSaveCard(c, k)
          \/ AutofillIdentity(c, k, frozen) \/ AutofillIdentityValues(c, k, frozen)
          \/ PasskeyOffers(c, k) \/ PasskeySignIn(c, k)
          \/ PasskeyCreatePlan(c, k, frozen) \/ PasskeyCreate(c, k, online, frozen)
          \/ CredentialPasswordOffers(c, k, frozen) \/ CredentialPassword(c, k, frozen)
    \/ ReadLinks(c) \/ FetchLinks(c) \/ StoreLinks(c)
    \/ AnswerPhone(c) \/ ReturnPhone(c) \/ CheckCreate(c) \/ StageOnPhone(c)
    \/ PushFromPhone(c) \/ FillBound(c)

PhoneNext ==
    \/ \E c \in PhoneCalls : PhoneCallStep(c)
    \/ PhoneLock \/ PhoneUnlock
    \/ \E i \in PhoneItems : Unbind(i)
    \/ (\E h \in LinkHosts, s \in Statements : Publish(h, s))
    \/ PhoneDay

PhoneSpec == PhoneInit /\ [][PhoneNext]_phoneVars

-----------------------------------------------------------------------------
\* Every variable keeps its type, and the cache is as small as it may be.
PhoneTypeOK ==
    /\ phoneOpen \in BOOLEAN
    /\ links \subseteq [host : LinkHosts, at : 0 .. MaxDay, said : Statements \cup {"failed"}]
    /\ Cardinality(links) <= MaxCachedHosts
    /\ sites \in [LinkHosts -> Statements]
    /\ published \in [LinkHosts -> [Naming -> -1 .. MaxDay]]
    /\ day \in 0 .. MaxDay
    /\ \A c \in PhoneCalls : calls[c] # NoPhoneCall =>
          calls[c].end \in AskingEnds \cup WritingEnds \cup {"own"}

\* The website named the app, for one of these uses, within the last FreshFor.
NamedLately(h, uses, app, now) ==
    app = Genuine /\ \E s \in uses : published[h][s] >= 0 /\ published[h][s] >= now - FreshFor

MayHave(r) ==
    IF r.target.kind = "page" THEN r.target.page = r.item[1]
    ELSE \/ r.end \in PasskeyEnds /\ NamedLately(r.item[1], {"creds"}, r.target.app, day)
         \/ r.end \notin PasskeyEnds /\ NamedLately(r.item[1], Naming, r.target.app, r.asked)
         \/ r.end \notin PasskeyEnds /\ r.target.app \in bound[r.item]

\* A login, an account or a passkey leaves the vault only for the website's own
\* page or for an app that the owner bound to it or that the website named in
\* the last seven days -- for credentials, if it is a passkey -- whatever other
\* calls did to the shared cache meanwhile (autofill_matches, autofill_fill,
\* autofill_totp, credential_password, passkey_offers, passkey_sign_in).
OnlyForItsOwn ==
    [][\A c \in PhoneCalls :
         /\ calls[c].step = "answer" /\ calls'[c].step = "given"
         /\ SiteBound(calls[c].item)
         => MayHave(calls[c])]_phoneVars
=============================================================================
