-------------------------- MODULE MCServerBrowser --------------------------
(* The server's parts, this device's files, the browser's bridge and the   *)
(* window that pages open, on small instances.  A behaviour is one part at *)
(* work: scene says which, and the others rest in an initial state.        *)
EXTENDS Devices, RateLimit, Pairing, Signup, LocalVault, StoreFile, PageVault,
        Bridge, Passkeys, QuickAccess, TLC

VARIABLE scene

Scenes == {"devices", "rate", "pairing", "signup", "local", "store", "page",
           "bridge", "passkeys", "quick"}

allVars == <<scene, deviceVars, rateVars, pairVars, signupVars, localVars, storeVars,
             pageVars, bridgeVars, pkVars, quickVars>>

-----------------------------------------------------------------------------
(* Values of the constants.                                                 *)

MCBlocks == <<1, 2, 6>>
MCBytes == "f" :> 1 @@ "g" :> 1 @@ "h" :> 2

MCSite == [h \in Hosts |-> CASE h \in {"shop", "login.shop"} -> "shop"
                             [] h = "kin" -> "kin"
                             [] h = "sh0p" -> "sh0p"
                             [] h = "idp" -> "idp"
                             [] OTHER -> NoSite]
MCParents == [h \in Hosts |-> IF h = "login.shop" THEN {"shop", "com"}
                              ELSE IF h = "com" THEN {} ELSE {"com"}]
MCGroups == {{"shop", "kin"}}
MCSkeleton == [s \in {"shop", "kin", "sh0p", "idp"} |-> IF s = "sh0p" THEN "shop" ELSE s]

Web(scheme, host) == [scheme |-> scheme, host |-> host, port |-> 0, path |-> "/"]
Rule(scheme, host, match) ==
    [scheme |-> scheme, host |-> host, port |-> 0, path |-> "/", match |-> match]

MCProviderPages == [p \in Providers |-> {Web("https", "idp")}]
MCAppsKnown == {[pkg |-> "app", certs |-> {"c1"}]}
MCVerifiedHosts == [a \in MCAppsKnown |-> {"shop"}]
MCFrames == {Web("https", "shop"), Web("https", "login.shop"), Web("http", "shop"),
             Web("https", "kin")}
MCTops == {NoTop, Web("https", "shop"), Web("https", "sh0p")}

Shop == Entry("login", {Rule("https", "shop", "domain")}, "ana", "p", None, {})
Anon == Entry("login", {Rule("https", "shop", "origin")}, None, "p", None, {})
Sso == Entry("login", {Rule("http", "kin", "domain")}, None, None,
             [prov |-> "idp", acct |-> None], {})
Bank == Entry("bank", {Rule("https", "shop", "domain")}, None, "q", None, {})
Note == Entry("note", {}, None, None, None, {})
MCVaults == {1 :> Shop, 1 :> Bank, 1 :> Sso, 1 :> Shop @@ 2 :> Anon, 1 :> Note @@ 2 :> Sso}

MCTyped == {Text({"Alt"}, "K", "canonical"), Text({"Control", "Alt"}, "K", "canonical"),
            Text({"Alt"}, "F4", "canonical"), Text({"Shift"}, "K", "canonical"),
            Text({"Alt"}, "K", "other")}

-----------------------------------------------------------------------------
(* One part at work, the others at rest.                                    *)

\* Bounds on what happens together, besides those of the parts: the vault is
\* locked in the first tick or not at all, and then no time passes; the last
\* credential is made in the first tick,
\* no keychain call times out after the crash nor once every account had its
\* vault here, not every account is erased, and the last code and the last
\* invite are not both sent.
BridgeBound == session'.epoch > 0 => clock' = 0
PkBound == creds' = MaxCreds => now' = 0
LocalBound == (crashes' = 1 \/ sheets' = Owned => late' = NoCall) /\ gone' # Owned
SignupBound == codes' + invites' < MaxCodes + MaxInvites

AtRest(part, choice) == IF scene = part THEN TRUE ELSE choice

MCInit ==
  /\ scene \in Scenes
  /\ DeviceInit
  /\ AtRest("devices", ~accountFrozen /\ \A q, r \in Attempts : signing[q] = signing[r]
                        /\ signing[q] = CHOOSE d \in DeviceIds : TRUE)
  /\ RateInit /\ PairInit /\ SignupInit /\ LocalInit
  /\ StoreInit /\ AtRest("store", disk.version = 0)
  /\ PageInit /\ AtRest("page", entries = 1 :> Shop /\ ~equivalent)
  /\ BridgeInit
  /\ PkInit /\ AtRest("passkeys", auto /\ \A i \in HomeLogins : logins[i].keys = {})
  /\ QuickInit /\ AtRest("quick", setting = NoFile /\ vaultIs = "none")

MCNext ==
  \/ /\ scene = "devices" /\ DeviceNext
     /\ UNCHANGED <<scene, rateVars, pairVars, signupVars, localVars, storeVars,
                    pageVars, bridgeVars, pkVars, quickVars>>
  \/ /\ scene = "rate" /\ RateNext
     /\ UNCHANGED <<scene, deviceVars, pairVars, signupVars, localVars, storeVars,
                    pageVars, bridgeVars, pkVars, quickVars>>
  \/ /\ scene = "pairing" /\ PairNext
     /\ UNCHANGED <<scene, deviceVars, rateVars, signupVars, localVars, storeVars,
                    pageVars, bridgeVars, pkVars, quickVars>>
  \/ /\ scene = "signup" /\ SignupNext /\ SignupBound
     /\ UNCHANGED <<scene, deviceVars, rateVars, pairVars, localVars, storeVars,
                    pageVars, bridgeVars, pkVars, quickVars>>
  \/ /\ scene = "local" /\ LocalNext /\ LocalBound
     /\ UNCHANGED <<scene, deviceVars, rateVars, pairVars, signupVars, storeVars,
                    pageVars, bridgeVars, pkVars, quickVars>>
  \/ /\ scene = "store" /\ StoreNext
     /\ UNCHANGED <<scene, deviceVars, rateVars, pairVars, signupVars, localVars,
                    pageVars, bridgeVars, pkVars, quickVars>>
  \/ /\ scene = "page" /\ PageNext
     /\ UNCHANGED <<scene, deviceVars, rateVars, pairVars, signupVars, localVars,
                    storeVars, bridgeVars, pkVars, quickVars>>
  \/ /\ scene = "bridge" /\ BridgeNext /\ BridgeBound
     /\ UNCHANGED <<scene, deviceVars, rateVars, pairVars, signupVars, localVars,
                    storeVars, pageVars, pkVars, quickVars>>
  \/ /\ scene = "passkeys" /\ PkNext /\ PkBound
     /\ UNCHANGED <<scene, deviceVars, rateVars, pairVars, signupVars, localVars,
                    storeVars, pageVars, bridgeVars, quickVars>>
  \/ /\ scene = "quick" /\ QuickNext
     /\ UNCHANGED <<scene, deviceVars, rateVars, pairVars, signupVars, localVars,
                    storeVars, pageVars, bridgeVars, pkVars>>

MCSpec == MCInit /\ [][MCNext]_allVars

-----------------------------------------------------------------------------
\* The variables of the part at work have their types.
TypesOK == CASE scene = "devices" -> DeviceTypeOK [] scene = "rate" -> RateTypeOK
             [] scene = "pairing" -> PairTypeOK [] scene = "signup" -> SignupTypeOK
             [] scene = "local" -> LocalTypeOK [] scene = "store" -> StoreTypeOK
             [] scene = "page" -> PageTypeOK [] scene = "bridge" -> BridgeTypeOK
             [] scene = "passkeys" -> PkTypeOK [] scene = "quick" -> QuickTypeOK

\* What this device holds agrees with what it told its owner: a keychain entry
\* reported gone stays gone, and the vault's file is whole wherever an earlier
\* run was cut off (device.rs forget; store.rs open, vault.rs create).
LocalCopyAgrees == ClearedIsGone /\ StoreIsWhole

\* No crash, retry or marker makes this device erase a vault the server still
\* has, the late answer OnlyDeletedIsWiped excepts aside, forget a wipe it
\* began, or go back to an earlier header (deletion.rs, sync.rs, store.rs).
LocalCopyKeepsPace == WipeIsRemembered /\ OnlyDeletedIsWiped /\ HeaderNeverFallsBack

\* What a page is answered and offered belongs to it, in every vault the page's
\* part reaches (evaluated only there: it quantifies over all requests).
AnswersBelongToPages == scene = "page" => PagesGetTheirOwn
=============================================================================
