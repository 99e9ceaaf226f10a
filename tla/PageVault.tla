----------------------------- MODULE PageVault -----------------------------
(***************************************************************************)
(* The vault as a web page (through the browser extension) or an Android   *)
(* app (through autofill) sees it: which page may have what, which items   *)
(* match, what is filled, what a submitted form means (add, update,        *)
(* unchanged) and what is staged for it.  Items are numbered in the order  *)
(* of their titles.  A write is taken as saved at once; Bridge models what *)
(* may happen in between.                                                  *)
(*                                                                         *)
(* A host is a value, not a string: Site gives its registrable domain (the *)
(* public suffix list is external), Parents the domains it is below.       *)
(***************************************************************************)
EXTENDS Naturals, Sequences, FiniteSets, FiniteSetsExt

CONSTANTS Hosts,           \* the host keys that occur
          Site,            \* [Hosts -> registrable domain or NoSite]
          NoSite,          \* an IP address, localhost or a public suffix
          Parents,         \* [Hosts -> SUBSET Hosts]: proper parent domains
          Groups,          \* the table of equivalent domains: disjoint sets
          Skeleton,        \* [registrable domain -> what it looks like]
          PaymentHosts,    \* the hosts of the payment frames
          Localhost,       \* the one host http is a secure context for
          NoTop            \* the request came from the top page itself

ASSUME PagesAssumption ==
    /\ DOMAIN Site = Hosts /\ DOMAIN Parents = Hosts
    /\ \A h \in Hosts : Parents[h] \subseteq Hosts \ {h}
    /\ \A g1, g2 \in Groups : g1 = g2 \/ g1 \cap g2 = {}
    \* a parent at or below a registrable domain has that registrable domain
    /\ \A h \in Hosts : \A p \in Parents[h] :
          Site[h] # NoSite /\ (p = Site[h] \/ Site[h] \in Parents[p]) => Site[p] = Site[h]

-----------------------------------------------------------------------------
(* Pages: the URL rules of an item, the page a request comes from (the      *)
(* frame, and the top page when the frame is not the top), the relying      *)
(* party of a passkey, and the frames that may get a card.                  *)

\* MatchStrength, best first, and no match at all.
ExactUrl == 1
SameHost == 2
SameSiteHost == 3
Equivalent == 4
NoMatch == 5

\* A URL: [scheme, host, port, path]; port 0 is "none given".
IsPage(u) == u.scheme \in {"http", "https"}

IsHttps(u) == u.scheme = "https"

Port(u) == IF u.port # 0 THEN u.port ELSE IF u.scheme = "https" THEN 443 ELSE 80

\* A host without a registrable domain is its own site.
SiteOf(u) == IF Site[u.host] = NoSite THEN u.host ELSE Site[u.host]

SameSite(u, w) == SiteOf(u) = SiteOf(w)

SchemeAllowed(rule, page) ==
    \/ rule.scheme = page.scheme
    \/ rule.scheme = "http" /\ page.scheme = "https"

\* A bare http rule also stands for the https port it may be upgraded to.
PortMatches(rule, page) ==
    Port(page) = IF rule.port = 0 /\ rule.scheme = "http" /\ page.scheme = "https"
                   THEN 443
                   ELSE Port(rule)

SameGroup(s1, s2) == s1 # s2 /\ \E g \in Groups : {s1, s2} \subseteq g

\* policy is settings.equivalent_domains; FALSE is MatchPolicy::DIRECT.
MatchRule(rule, page, policy) ==
    LET sameHost == rule.host = page.host
        sites == <<Site[rule.host], Site[page.host]>>
    IN  IF ~SchemeAllowed(rule, page) \/ ~PortMatches(rule, page) THEN NoMatch
        ELSE IF rule.match = "exact" THEN IF sameHost /\ rule.path = page.path THEN ExactUrl ELSE NoMatch
        ELSE IF sameHost THEN SameHost
        ELSE IF rule.match = "origin" \/ NoSite \in {sites[1], sites[2]} THEN NoMatch
        ELSE IF sites[1] = sites[2] THEN SameSiteHost
        ELSE IF policy /\ SameGroup(sites[1], sites[2]) THEN Equivalent
        ELSE NoMatch

MatchItem(urls, page, policy) ==
    Min({MatchRule(r, page, policy) : r \in urls} \cup {NoMatch})

\* A context is a frame and its top page (or NoTop).
ParsesAsContext(frame, top) == IsPage(frame) /\ (top = NoTop \/ IsPage(top))

\* Mutant of ContextMatch: the page around the frame is not looked at.
FrameOnlyMatch(urls, frame, top, policy) == MatchItem(urls, frame, policy)

\* The frame's strength; the top page must match too, under the same policy.
ContextMatch(urls, frame, top, policy) ==
    IF top # NoTop /\ MatchItem(urls, top, policy) = NoMatch
      THEN NoMatch
      ELSE MatchItem(urls, frame, policy)

\* The first saved site that the page's own site only looks like.
Imitated(site, saved) == {s \in saved : s # site /\ Skeleton[s] = Skeleton[site]}

SecureContext(u) == IsHttps(u) \/ (u.scheme = "http" /\ u.host = Localhost)

SameSiteHosts(h1, h2) ==
    IF NoSite \in {Site[h1], Site[h2]} THEN h1 = h2 ELSE Site[h1] = Site[h2]

TopFrameAllowed(frame, top) ==
    \/ top = NoTop
    \/ (IsPage(top) /\ SecureContext(top) /\ SameSiteHosts(frame.host, top.host))

\* The relying party a page may use: its host, or a parent within its site.
AuthorizeRp(rp, frame, top) ==
    /\ IsPage(frame) /\ SecureContext(frame)
    /\ \/ rp = frame.host
       \/ /\ Site[frame.host] # NoSite
          /\ rp \in Parents[frame.host]
          /\ rp = Site[frame.host] \/ Site[frame.host] \in Parents[rp]
    /\ TopFrameAllowed(frame, top)

IsPaymentFrame(u) == u.scheme = "https" /\ u.port = 0 /\ u.host \in PaymentHosts

FrameAllowed(frame, top) ==
    IsHttps(frame) /\ (SameSite(frame, top) \/ IsPaymentFrame(frame))

\* Every frame of one card fill, below one https top page.
FrameMayGetCards(frame, top) ==
    IsPage(frame) /\ IsPage(top) /\ IsHttps(top) /\ FrameAllowed(frame, top)

\* Offering the cards, filling one into every frame of a form, and saving a
\* card that was typed into a page.
CardsForPage(frame, top) ==
    LET around == IF top = NoTop THEN frame ELSE top
    IN  IF ~IsPage(frame) \/ ~IsPage(around) THEN "denied"
        ELSE IF ~IsHttps(around) THEN "insecure"
        ELSE IF top # NoTop /\ ~FrameAllowed(frame, top) THEN "denied"
        ELSE "offered"

CardValuesForPage(frames, top) ==
    /\ IsPage(top) /\ IsHttps(top)
    /\ \A frame \in frames : IsPage(frame) /\ FrameAllowed(frame, top)

StageSaveCard(frame, top) ==
    /\ IsPage(frame) /\ IsHttps(frame)
    /\ top = NoTop \/ (IsPage(top) /\ IsHttps(top) /\ SameSite(frame, top))

\* A page that may be told of the identity: its top page is of the same site.
CheckedPage(frame, top) ==
    IsPage(frame) /\ (top = NoTop \/ (IsPage(top) /\ SameSite(frame, top)))

-----------------------------------------------------------------------------
(* The vault and what it answers.                                           *)

CONSTANTS Ids,             \* item ids, a set of numbers
          PageUsers,       \* usernames after trimming and lower-casing
          Passwords,       \* non-empty passwords
          Providers,       \* sign-in providers
          ProviderPages,   \* [Providers -> set of their sign-in pages]
          Apps,            \* apps: [pkg, certs]
          VerifiedHosts,   \* [Apps -> hosts whose asset links vouch for it]
          Frames, Tops,    \* the pages requests come from
          InitialVaults,   \* the vaults a run starts from
          None             \* no value

VARIABLES entries,         \* [subset of Ids -> item]: the live items
          equivalent,      \* settings.equivalent_domains
          frozen           \* the subscription lapsed: Entitlement::Frozen

pageVars == <<entries, equivalent, frozen>>

\* An item: its type, URL rules, username, password, single sign-on
\* ([prov, acct] or None) and the apps bound to it.
Entry(type, urls, user, pass, sso, binds) ==
    [type |-> type, urls |-> urls, user |-> user, pass |-> pass, sso |-> sso,
     binds |-> binds]

ASSUME VaultsAssumption ==
    /\ Ids \subseteq Nat /\ \A f \in Frames : f.host \in Hosts
    /\ \A v \in InitialVaults : \A i \in DOMAIN v :
          /\ i \in Ids /\ v[i] = Entry(v[i].type, v[i].urls, v[i].user, v[i].pass, v[i].sso, v[i].binds)
          /\ \A r \in v[i].urls : r.match \in {"exact", "origin", "domain"}

SiteBound(i) == entries[i].type \in {"login", "bank"}

PageMatches(frame, top, policy) ==
    {i \in DOMAIN entries : /\ ParsesAsContext(frame, top)
                            /\ SiteBound(i)
                            /\ ContextMatch(entries[i].urls, frame, top, policy) # NoMatch}

DirectMatches(frame, top) == PageMatches(frame, top, FALSE)

AuthorizeForPage(i, frame, top) == i \in PageMatches(frame, top, equivalent)

\* Only a direct match may be changed from a page.
AuthorizeForChange(i, frame, top) == i \in DirectMatches(frame, top)

\* Warn when nothing matches and the page only looks like a saved site.
LookalikeForPage(frame, top) ==
    LET saved == {Site[r.host] : r \in UNION {entries[i].urls :
                                   i \in {j \in DOMAIN entries : SiteBound(j)}}} \ {NoSite}
        near(u) == IF Site[u.host] = NoSite THEN {} ELSE Imitated(Site[u.host], saved)
    IN  IF PageMatches(frame, top, equivalent) # {} \/ ~ParsesAsContext(frame, top)
          THEN {}
          ELSE IF near(frame) # {} \/ top = NoTop THEN near(frame) ELSE near(top)

\* FillItem: the origin is checked before anything else is told.
FillItem(i, frame, top) ==
    IF ~(i \in DOMAIN entries) \/ ~AuthorizeForPage(i, frame, top) THEN "denied"
    ELSE IF frozen THEN "frozen" ELSE "filled"

\* GetTotp: as a fill, for logins, and also when the subscription lapsed.
GetTotp(i, frame, top) ==
    IF i \in DOMAIN entries /\ AuthorizeForPage(i, frame, top) /\ entries[i].type = "login"
      THEN "filled"
      ELSE "denied"

-----------------------------------------------------------------------------
(* What a submitted login form means for the candidates of its place.       *)

Strength(i, frame, top) == ContextMatch(entries[i].urls, frame, top, FALSE)

\* candidates are taken best match first; rank[i] is the match of i.
SaveAction(candidates, rank, user, pass, current) ==
    LET banks == {i \in candidates : entries[i].type = "bank"}
        same  == {i \in candidates \ banks : entries[i].user = user}
        logins == IF user = None THEN candidates \ banks ELSE same
        known  == {i \in banks \cup logins : entries[i].pass = pass}
        held   == {i \in logins : current # None /\ entries[i].pass = current}
        first  == CHOOSE i \in same : \A j \in same :
                    rank[i] < rank[j] \/ (rank[i] = rank[j] /\ i <= j)
    IN  IF known # {} THEN <<"unchanged">>
        ELSE IF same # {} THEN <<"update", first>>
        ELSE IF Cardinality(held) = 1 THEN <<"update", CHOOSE i \in held : TRUE>>
        ELSE <<"add">>

\* A related login may make an addition unnecessary, never an update.
UnchangedOrAdd(related, user, pass) ==
    LET action == SaveAction(related, [i \in related |-> i], user, pass, None)
    IN  IF action = <<"unchanged">> THEN action ELSE <<"add">>

CheckLogin(frame, top, user, pass, current) ==
    LET direct == DirectMatches(frame, top)
        action == SaveAction(direct, [i \in direct |-> Strength(i, frame, top)], user, pass, current)
    IN  IF action = <<"add">> /\ equivalent
          THEN UnchangedOrAdd(PageMatches(frame, top, TRUE), user, pass)
          ELSE action

\* The rule a login saved from a frame gets: the frame's whole site.
FrameRule(frame) ==
    [scheme |-> frame.scheme, host |-> frame.host, port |-> frame.port, path |-> "/",
     match |-> "domain"]

\* Saves of a lapsed subscription are refused before they are staged.
NewLoginForFrame(frame, top, user, pass, sso) ==
    IF ParsesAsContext(frame, top) /\ ~frozen
      THEN Entry("login", {FrameRule(frame)}, user, pass, sso, {})
      ELSE None

StageSaveUpdate(i, frame, top, pass) ==
    IF /\ i \in DOMAIN entries /\ ~frozen
       /\ AuthorizeForChange(i, frame, top)
       /\ entries[i].type = "login"
      THEN [entries[i] EXCEPT !.pass = pass]
      ELSE None

-----------------------------------------------------------------------------
(* Single sign-on.                                                          *)

CheckSso(frame, top, prov, acct) ==
    LET ofProvider(S) == {i \in S : entries[i].sso # None /\ entries[i].sso.prov = prov}
        same(S) == {i \in ofProvider(S) : acct = None \/ entries[i].sso.acct = acct}
        direct == DirectMatches(frame, top)
        blank == {i \in ofProvider(direct) : entries[i].sso.acct = None}
    IN  IF same(direct) # {} THEN <<"unchanged">>
        ELSE IF Cardinality(blank) = 1 THEN <<"update", CHOOSE i \in blank : TRUE>>
        ELSE IF equivalent /\ same(PageMatches(frame, top, TRUE)) # {} THEN <<"unchanged">>
        ELSE <<"add">>

StageSaveSso(i, frame, top, prov, acct) ==
    IF /\ acct # None /\ i \in DOMAIN entries /\ ~frozen
       /\ AuthorizeForChange(i, frame, top)
       /\ entries[i].sso # None /\ entries[i].sso.prov = prov
      THEN [entries[i] EXCEPT !.sso.acct = acct]
      ELSE None

\* StartSso names the provider the item signs in with, or is denied.
StartSso(i, frame, top) ==
    IF /\ i \in DOMAIN entries /\ ~frozen /\ AuthorizeForPage(i, frame, top)
       /\ entries[i].sso # None
      THEN entries[i].sso
      ELSE None

\* The logins saved for a provider's own pages: the accounts to choose from.
ProviderLogins(prov) ==
    {i \in UNION {DirectMatches(p, NoTop) : p \in ProviderPages[prov]} : entries[i].user # None}

\* The login an item's single sign-on goes through, if exactly one fits.
ProviderLogin(i) ==
    LET sso == entries[i].sso
        hits == {j \in ProviderLogins(sso.prov) \ {i} : entries[j].user = sso.acct}
    IN  IF sso = None \/ sso.acct = None \/ Cardinality(hits) # 1 THEN None
        ELSE CHOOSE j \in hits : TRUE

-----------------------------------------------------------------------------
(* Android apps: an item is bound to the app, or saved for a host whose     *)
(* asset links vouch for it.                                                *)

BoundTo(i, app) == \E c \in app.certs : <<app.pkg, c>> \in entries[i].binds

HostPage(h) == [scheme |-> "https", host |-> h, port |-> 0, path |-> "/"]

AppMatch(i, app, policy) ==
    IF BoundTo(i, app) THEN ExactUrl
    ELSE Min({MatchItem(entries[i].urls, HostPage(h), policy) : h \in VerifiedHosts[app]}
               \cup {NoMatch})

AppMatches(app, policy) ==
    {i \in DOMAIN entries : SiteBound(i) /\ AppMatch(i, app, policy) # NoMatch}

AuthorizeForApp(i, app, policy) == i \in AppMatches(app, policy)

FillForApp(i, app) ==
    IF AuthorizeForApp(i, app, equivalent) THEN "filled" ELSE "denied"

CheckLoginForApp(app, user, pass, current) ==
    LET direct == AppMatches(app, FALSE)
        action == SaveAction(direct, [i \in direct |-> AppMatch(i, app, FALSE)], user, pass, current)
    IN  IF action = <<"add">> /\ equivalent
          THEN UnchangedOrAdd(AppMatches(app, TRUE), user, pass)
          ELSE action

BindingsFor(app) == {<<app.pkg, c>> : c \in app.certs}

StageSaveLoginForApp(target, app, user, pass) ==
    IF target = None THEN Entry("login", {}, user, pass, None, BindingsFor(app))
    ELSE IF AuthorizeForApp(target, app, FALSE) /\ entries[target].type = "login"
      THEN [entries[target] EXCEPT !.pass = pass]
      ELSE None

StageBindApp(i, app) ==
    IF SiteBound(i) THEN [entries[i] EXCEPT !.binds = @ \cup BindingsFor(app)] ELSE None
-----------------------------------------------------------------------------
(* The state machine: every save a page or an app may ask for.              *)

PageInit ==
    /\ entries \in InitialVaults
    /\ equivalent \in BOOLEAN
    /\ frozen = FALSE

Put(i, e) == /\ e # None
             /\ entries' = [j \in DOMAIN entries \cup {i} |-> IF j = i THEN e ELSE entries[j]]
             /\ UNCHANGED <<equivalent, frozen>>

FreshId(i) == i \in Ids \ DOMAIN entries

SaveLoginNew(i, frame, top, user, pass) ==
    FreshId(i) /\ Put(i, NewLoginForFrame(frame, top, user, pass, None))

SaveLoginUpdate(i, frame, top, pass) == Put(i, StageSaveUpdate(i, frame, top, pass))

SaveSsoNew(i, frame, top, prov, acct) ==
    FreshId(i) /\ Put(i, NewLoginForFrame(frame, top, None, None, [prov |-> prov, acct |-> acct]))

SaveSsoUpdate(i, frame, top, prov, acct) == Put(i, StageSaveSso(i, frame, top, prov, acct))

SaveForApp(i, target, app, user, pass) ==
    /\ IF target = None THEN FreshId(i) ELSE i = target /\ i \in DOMAIN entries
    /\ ~frozen
    /\ Put(i, StageSaveLoginForApp(target, app, user, pass))

BindApp(i, app) == i \in DOMAIN entries /\ Put(i, StageBindApp(i, app))

\* The plan the server reports lapses or is paid again.
PlanChanges == frozen' = ~frozen /\ UNCHANGED <<entries, equivalent>>

SaveFromPage ==
    \E i \in Ids, frame \in Frames, top \in Tops :
      \/ \E pass \in Passwords :
           \/ \E user \in PageUsers \cup {None} : SaveLoginNew(i, frame, top, user, pass)
           \/ SaveLoginUpdate(i, frame, top, pass)
      \/ \E prov \in Providers, acct \in PageUsers \cup {None} :
           \/ SaveSsoNew(i, frame, top, prov, acct)
           \/ SaveSsoUpdate(i, frame, top, prov, acct)

SaveFromApp ==
    \E i \in Ids, app \in Apps :
      \/ BindApp(i, app)
      \/ \E target \in {i, None}, user \in PageUsers, pass \in Passwords :
           SaveForApp(i, target, app, user, pass)

PageNext == SaveFromPage \/ SaveFromApp \/ PlanChanges

PageSpec == PageInit /\ [][PageNext]_pageVars

-----------------------------------------------------------------------------
(* What the lines above promise, stated without the strengths.              *)

Secrets == Passwords \cup {None}

\* Items have their types: a bank account has no username and no provider.
PageTypeOK ==
    /\ DOMAIN entries \subseteq Ids
    /\ \A i \in DOMAIN entries :
         /\ entries[i].user \in PageUsers \cup {None}
         /\ entries[i].pass \in Secrets
         /\ entries[i].type = "bank" => entries[i].user = None /\ entries[i].sso = None
    /\ equivalent \in BOOLEAN /\ frozen \in BOOLEAN

\* The owner saved e for u's host or site (or, with the setting, for a site
\* of the same group), and not for https only when u is http.
Vouched(e, u) ==
    \E r \in e.urls :
      /\ r.scheme = "https" => u.scheme = "https"
      /\ \/ r.host = u.host
         \/ /\ r.match = "domain" /\ Site[r.host] # NoSite /\ Site[u.host] # NoSite
            /\ \/ Site[r.host] = Site[u.host]
               \/ equivalent /\ SameGroup(Site[r.host], Site[u.host])

\* A fill, a code or a sign-in start is answered only for an item that its
\* owner saved for the frame AND for the page around it: fill_for_page,
\* totp_for_page and start_sso_for_page of vault.rs.
OnlyItsOwnSites ==
    \A i \in DOMAIN entries, frame \in Frames, top \in Tops :
      \/ FillItem(i, frame, top) = "filled"
      \/ GetTotp(i, frame, top) = "filled"
      \/ StartSso(i, frame, top) # None
      => Vouched(entries[i], frame) /\ (top # NoTop => Vouched(entries[i], top))

\* What check_login, check_sso and check_login_for_app offer to update can be
\* updated from the same place, by the save that follows the offer: the offer
\* never names a bank account, a related site's login or another's account.
OfferCanBeSaved ==
    ~frozen =>
    /\ \A frame \in Frames, top \in Tops, user \in PageUsers \cup {None}, acct \in PageUsers \cup {None} :
         /\ \A pass \in Passwords, current \in Secrets :
              LET a == CheckLogin(frame, top, user, pass, current)
              IN  a[1] = "update" => StageSaveUpdate(a[2], frame, top, pass) # None
         /\ \A prov \in Providers :
              LET a == CheckSso(frame, top, prov, acct)
              IN  a[1] = "update" => StageSaveSso(a[2], frame, top, prov, acct) # None
    /\ \A app \in Apps, user \in PageUsers \cup {None}, pass \in Passwords, current \in Secrets :
         LET a == CheckLoginForApp(app, user, pass, current)
         IN  a[1] = "update" => StageSaveLoginForApp(a[2], app, user, pass) # None

\* An app is filled in only where its owner or the site vouches for it, a
\* sign-in through a provider goes to a login of the provider's own pages, and
\* a page that is warned of gets nothing (fill_for_app, provider_login,
\* lookalike_for_page).
OnlyItsOwnApps ==
    /\ \A i \in DOMAIN entries, app \in Apps :
         FillForApp(i, app) = "filled" =>
             BoundTo(i, app) \/ \E h \in VerifiedHosts[app] : Vouched(entries[i], HostPage(h))
    /\ \A i \in DOMAIN entries : ProviderLogin(i) # None =>
         \E p \in ProviderPages[entries[i].sso.prov] : Vouched(entries[ProviderLogin(i)], p)
    /\ \A i \in DOMAIN entries, frame \in Frames, top \in Tops :
         LookalikeForPage(frame, top) # {} => FillItem(i, frame, top) = "denied"

\* Cards, passkeys and the identity are each guarded by a test of its own of
\* the page around a frame: where one lets a frame have its secret, the
\* others find frame and page of one site too, payment frames apart, and a
\* relying party is of the frame's site.  A card that is offered to a frame,
\* or saved from it, can be filled there (passkey/rp.rs, card_page.rs,
\* identity_page.rs).
FramesOfOneSite ==
    \A frame \in Frames, top \in Tops :
      LET around == IF top = NoTop THEN frame ELSE top IN
      /\ \A rp \in Hosts : AuthorizeRp(rp, frame, top) =>
           CheckedPage(frame, top) /\ SameSiteHosts(rp, frame.host)
      /\ top # NoTop /\ FrameMayGetCards(frame, top) /\ ~IsPaymentFrame(frame) =>
           CheckedPage(frame, top)
      /\ StageSaveCard(frame, top) => CardsForPage(frame, top) = "offered"
      /\ CardsForPage(frame, top) = "offered" =>
           CardValuesForPage({frame}, around) /\ FrameMayGetCards(frame, around)
      /\ CardsForPage(frame, top) = "insecure" => ~CardValuesForPage({frame}, around)

\* What a page is answered, and what it is offered to save, belongs to it.
PagesGetTheirOwn ==
    OnlyItsOwnSites /\ OnlyItsOwnApps /\ OfferCanBeSaved /\ FramesOfOneSite
=============================================================================
