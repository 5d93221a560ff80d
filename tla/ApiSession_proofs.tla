------------------------- MODULE ApiSession_proofs --------------------------
(***************************************************************************)
(* For whom proxy acts, for how long after the login, and when a user is   *)
(* asked to log in again: for any tabs, browsers, accounts, crashes of     *)
(* Redis and lifetimes of sessions.                                        *)
(*                                                                         *)
(* The invariant relates three things that the handlers keep apart: the    *)
(* cookies, the ids that tabs carry through redirects, and what Redis      *)
(* holds, all of them to the logins that made them (granted).              *)
(***************************************************************************)
EXTENDS ApiSession, TLAPS

Grants == Seq([browser : Browsers, user : Users, born : Nat])

\* The id is that of a login of this browser.
OwnId(s, b) == s \in 1..Len(granted) /\ granted[s].browser = b

\* A load is at /logout because proxy sent it there, or because of the user.
LeavesWithReason(r) == r.at \in {"logout", "leaving"} => r.away \/ r.asked = Root

TabFine(r) ==
    /\ r \in Tab
    /\ r.sid # Null => OwnId(r.sid, r.browser)
    /\ r.at \in Trusted => r.sid # Null /\ granted[r.sid].user = r.user
    /\ r.at = "storing" => r.user # Null
    /\ r.at = "landing" => r.sid # Null
    /\ r.at \notin Ended => KeepsPage(r)
    /\ LeavesWithReason(r)

TabsFine ==
    /\ tab \in [Tabs -> Tab]
    /\ \A t \in Tabs : TabFine(tab[t])

JarFine ==
    /\ jar \in [Browsers -> OrNull(Cookie)]
    /\ \A b \in Browsers : jar[b] # Null => OwnId(jar[b].sid, b)

SessionsFine(f) ==
    /\ DOMAIN f \subseteq 1..Len(granted)
    /\ \A s \in DOMAIN f :
          /\ f[s] \in Session
          /\ f[s].user = granted[s].user
          /\ f[s].until = granted[s].born + TTL

StoreFine ==
    /\ granted \in Grants
    /\ now \in 0..Horizon
    /\ SessionsFine(sessions) /\ SessionsFine(saved)
    /\ \A s \in DOMAIN sessions : now < sessions[s].until
    /\ loggedOut \subseteq 1..Len(granted)
    /\ shaken \subseteq 1..Len(granted)
    /\ \A s \in DOMAIN sessions : s \in loggedOut => s \in shaken
    /\ \A s \in 1..Len(granted) :
          Fresh(s) => s \in DOMAIN sessions \cup loggedOut \cup shaken

RestFine ==
    /\ cached \subseteq Users
    /\ lock \in [Users -> OrNull(Tabs)]
    /\ moves \in 0..MaxMoves
    /\ faults \in 0..MaxFaults

SessionInv == TabsFine /\ JarFine /\ StoreFine /\ RestFine

-----------------------------------------------------------------------------
(***************************************************************************)
(* The steps that leave the logins alone and change one tab.               *)
(***************************************************************************)
LEMMA OneTab ==
    ASSUME TabsFine, NEW t \in Tabs, NEW r,
           tab' = [tab EXCEPT ![t] = r],
           granted' = granted,
           TabFine(r)
    PROVE  TabsFine'
<1>1. TabFine(r)'
  BY SMT DEF TabFine, OwnId
<1>2. \A u \in Tabs : TabFine(tab'[u])
  BY SMT DEF TabsFine
<1>3. tab' \in [Tabs -> Tab]
  BY SMT DEF TabsFine, TabFine
<1> QED
  BY <1>2, <1>3 DEF TabsFine, TabFine, OwnId

\* What the browser sends is an id of its own, or none.
LEMMA SentIsOwn ==
    ASSUME JarFine, NEW b \in Browsers
    PROVE  /\ Sent(b) \in OrNull(Ids)
           /\ Sent(b) # Null => OwnId(Sent(b), b)
  BY SMT DEF JarFine, Sent, OwnId, Cookie, OrNull, Ids

\* A tab stays one, whichever of its fields a step sets.
LEMMA SetAt == ASSUME NEW r \in Tab, NEW x \in Steps PROVE [r EXCEPT !.at = x] \in Tab
  BY SMT DEF Tab
LEMMA SetPage == ASSUME NEW r \in Tab, NEW x \in Pages PROVE [r EXCEPT !.page = x] \in Tab
  BY SMT DEF Tab
LEMMA SetAsked == ASSUME NEW r \in Tab, NEW x \in Pages PROVE [r EXCEPT !.asked = x] \in Tab
  BY SMT DEF Tab
LEMMA SetAway == ASSUME NEW r \in Tab, NEW x \in BOOLEAN PROVE [r EXCEPT !.away = x] \in Tab
  BY SMT DEF Tab
LEMMA SetSid == ASSUME NEW r \in Tab, NEW x \in OrNull(Ids) PROVE [r EXCEPT !.sid = x] \in Tab
  BY SMT DEF Tab
LEMMA SetUser == ASSUME NEW r \in Tab, NEW x \in OrNull(Users) PROVE [r EXCEPT !.user = x] \in Tab
  BY SMT DEF Tab

LEMMA TabOfInv == ASSUME SessionInv, NEW t \in Tabs PROVE tab[t] \in Tab /\ TabFine(tab[t])
  BY DEF SessionInv, TabsFine

\* A step to "at" that changes nothing else of the tab.
LEMMA MoveFine ==
    ASSUME SessionInv, NEW t \in Tabs, NEW step, granted' = granted,
           Move(t, step),
           \/ step \in Trusted /\ tab[t].at \in Trusted
           \/ step \in {"proxy", "discord"} /\ tab[t].at \notin Ended
           \/ step = "leaving" /\ tab[t].at = "logout"
           \/ step = "storing" /\ tab[t].at = "callback" /\ tab[t].user # Null
    PROVE  TabsFine'
<1> DEFINE r == [tab[t] EXCEPT !.at = step]
<1>1. TabFine(tab[t]) /\ tab[t] \in Tab
  BY TabOfInv
<1>2. step \in Steps /\ tab[t].at \notin Ended
  BY SMT DEF Steps, Trusted, Ended
<1>3. r \in Tab
  BY <1>1, <1>2, SetAt
<1>4. TabFine(r)
  BY <1>1, <1>2, <1>3, SMT DEF TabFine, KeepsPage, LeavesWithReason, Trusted, Ended, Tab
<1> QED
  BY <1>4, OneTab DEF SessionInv, Move

\* The end of a page load.
LEMMA EndFine ==
    ASSUME SessionInv, NEW t \in Tabs, NEW step \in Ended, granted' = granted, End(t, step)
    PROVE  TabsFine'
<1> DEFINE r == [tab[t] EXCEPT !.at = step, !.page = Root, !.asked = Root, !.away = FALSE,
                               !.sid = Null, !.user = Null]
<1>1. tab[t] \in Tab
  BY TabOfInv
<1>2. Root \in Pages /\ Null \in OrNull(Ids) /\ Null \in OrNull(Users) /\ step \in Steps
  BY SessionAssumption, SMT DEF OrNull, Steps
<1>3. r \in Tab
  BY <1>1, <1>2, SetAt, SetPage, SetAsked, SetAway, SetSid, SetUser
<1>4. r.at = step /\ r.sid = Null /\ r.user = Null
  BY <1>1, SMT DEF Tab
<1>5. TabFine(r)
  BY <1>3, <1>4, SMT DEF TabFine, LeavesWithReason, Trusted, Ended
<1> QED
  BY <1>5, OneTab DEF SessionInv, End

\* A step that takes the cookie along, or an id of its browser, or none.
LEMMA CarryFine ==
    ASSUME SessionInv, NEW t \in Tabs, NEW r \in Tab, granted' = granted,
           tab' = [tab EXCEPT ![t] = r],
           r.browser = tab[t].browser,
           r.sid = Null \/ OwnId(r.sid, r.browser),
           r.at \notin Trusted \cup {"storing", "landing"},
           KeepsPage(r), LeavesWithReason(r)
    PROVE  TabsFine'
<1>1. TabFine(r)
  BY SMT DEF TabFine
<1> QED
  BY <1>1, OneTab DEF SessionInv

-----------------------------------------------------------------------------
(***************************************************************************)
(* A login adds to granted, and what was granted before stays.             *)
(***************************************************************************)
LEMMA GrantAdded ==
    ASSUME SessionInv, NEW t \in Tabs, StoreSession(t)
    PROVE  /\ granted' \in Grants
           /\ NewId = Len(granted) + 1 /\ NewId \in Ids /\ Len(granted') = NewId
           /\ \A s \in 1..Len(granted) : s \in 1..Len(granted') /\ granted'[s] = granted[s]
           /\ granted'[NewId] = [browser |-> tab[t].browser, user |-> tab[t].user, born |-> now]
           /\ tab[t].user \in Users
<1>1. tab[t].browser \in Browsers /\ tab[t].user \in Users
  BY TabOfInv, SMT DEF StoreSession, TabFine, Tab, OrNull
<1>2. now \in Nat /\ granted \in Grants
  BY SessionAssumption, SMT DEF SessionInv, StoreFine
<1> DEFINE new == [browser |-> tab[t].browser, user |-> tab[t].user, born |-> now]
<1>3. new \in [browser : Browsers, user : Users, born : Nat]
  BY <1>1, <1>2, SMT
<1>4. granted' = Append(granted, new)
  BY DEF StoreSession
<1> HIDE DEF new
<1>5. /\ granted' \in Grants /\ Len(granted') = Len(granted) + 1 /\ Len(granted) \in Nat
      /\ \A s \in 1..Len(granted) : s \in 1..Len(granted') /\ granted'[s] = granted[s]
      /\ granted'[Len(granted) + 1] = new
  BY <1>2, <1>3, <1>4, SMT DEF Grants
<1> QED
  BY <1>1, <1>5, SMT DEF NewId, Ids, new

LEMMA OwnIdStays ==
    ASSUME SessionInv, NEW t \in Tabs, StoreSession(t), NEW s, NEW b, OwnId(s, b)
    PROVE  OwnId(s, b)' /\ granted'[s] = granted[s]
<1>1. \A x \in 1..Len(granted) : x \in 1..Len(granted') /\ granted'[x] = granted[x]
  BY GrantAdded
<1> QED
  BY <1>1, SMT DEF OwnId

LEMMA StoreSessionTabs ==
    ASSUME SessionInv, NEW t \in Tabs, StoreSession(t)
    PROVE  TabsFine'
<1>1. tab[t] \in Tab /\ TabFine(tab[t]) /\ tab[t].at = "storing"
  BY TabOfInv DEF StoreSession
<1>2. /\ NewId = Len(granted) + 1 /\ NewId \in Ids /\ Len(granted') = NewId
      /\ granted'[NewId] = [browser |-> tab[t].browser, user |-> tab[t].user, born |-> now]
  BY GrantAdded
<1>3. NewId \in OrNull(Ids) /\ Null \in OrNull(Users) /\ "landing" \in Steps /\ NewId # Null
  BY <1>2, SessionAssumption, SMT DEF OrNull, Steps, Ids
<1>4. [tab[t] EXCEPT !.at = "landing", !.sid = NewId, !.user = Null] \in Tab
  BY <1>1, <1>3, SetAt, SetSid, SetUser
<1>5. PICK r \in Tab : r = [tab[t] EXCEPT !.at = "landing", !.sid = NewId, !.user = Null]
  BY <1>4
<1>6. /\ r.at = "landing" /\ r.sid = NewId /\ r.browser = tab[t].browser
      /\ r.page = tab[t].page /\ r.asked = tab[t].asked /\ r.away = tab[t].away
  BY <1>1, <1>5, SMT DEF Tab
<1>7. TabFine(r)'
  <2>1. KeepsPage(r)
    BY <1>1, <1>6, SMT DEF TabFine, KeepsPage, Ended
  <2>2. r.sid \in 1..Len(granted') /\ granted'[r.sid].browser = r.browser
    BY <1>2, <1>6, SMT DEF Ids
  <2> QED
    BY <1>3, <1>6, <2>1, <2>2, SMT DEF TabFine, LeavesWithReason, OwnId, Trusted, Ended
<1>8. tab' = [tab EXCEPT ![t] = r]
  BY <1>5 DEF StoreSession
<1>9. \A u \in Tabs \ {t} : TabFine(tab[u])'
  <2> SUFFICES ASSUME NEW u \in Tabs \ {t} PROVE TabFine(tab[u])'
    OBVIOUS
  <2>1. tab'[u] = tab[u] /\ TabFine(tab[u]) /\ tab[u] \in Tab
    BY <1>8, TabOfInv DEF SessionInv, TabsFine
  <2>2. PICK q \in Tab : q = tab[u]
    BY <2>1
  <2>3. q.sid # Null => OwnId(q.sid, q.browser)' /\ granted'[q.sid] = granted[q.sid]
    BY <2>1, <2>2, OwnIdStays DEF TabFine
  <2>4. TabFine(q)'
    BY <2>1, <2>2, <2>3 DEF TabFine
  <2> QED
    BY <2>1, <2>2, <2>4 DEF TabFine, OwnId
<1>10. TabFine(tab[t])'
  <2>1. tab'[t] = r
    BY <1>8 DEF SessionInv, TabsFine
  <2> QED
    BY <1>7, <2>1 DEF TabFine, OwnId
<1>11. tab' \in [Tabs -> Tab]
  BY <1>8 DEF SessionInv, TabsFine
<1> QED
  BY <1>9, <1>10, <1>11, Zenon DEF TabsFine

-----------------------------------------------------------------------------
LEMMA ProxyTabs ==
    ASSUME SessionInv, NEW t \in Tabs, Proxy(t)
    PROVE  TabsFine'
<1>1. tab[t] \in Tab /\ TabFine(tab[t]) /\ tab[t].browser \in Browsers
  BY TabOfInv, SMT DEF Tab
<1>2. Sent(tab[t].browser) \in OrNull(Ids)
  BY <1>1, SentIsOwn DEF SessionInv
<1>3. CASE SendToLogin(t)
  <2> DEFINE r == [tab[t] EXCEPT !.at = "login", !.page = tab[t].page, !.sid = Null]
  <2>1. tab[t].page \in Pages /\ Null \in OrNull(Ids) /\ "login" \in Steps
    BY <1>1, SMT DEF Tab, OrNull, Steps
  <2>2. r \in Tab
    BY <1>1, <2>1, SetAt, SetPage, SetSid
  <2>3. r.browser = tab[t].browser /\ r.sid = Null /\ r.at = "login" /\ KeepsPage(r)
    BY <1>1, <1>3, SMT DEF Tab, TabFine, KeepsPage, Ended, SendToLogin
  <2>4. tab' = [tab EXCEPT ![t] = r] /\ granted' = granted
    BY <1>3 DEF SendToLogin, ToLogin, history
  <2>5. r.at \notin Trusted \cup {"storing", "landing"} /\ LeavesWithReason(r)
    BY <2>3, SMT DEF Trusted, LeavesWithReason
  <2> HIDE DEF r
  <2> QED
    BY <2>2, <2>3, <2>4, <2>5, CarryFine
<1>4. CASE StoreUnreachable(t)
  BY <1>4, EndFine DEF StoreUnreachable, history, Ended
<1>5. CASE SendNamelessAway(t)
  <2> DEFINE r == [tab[t] EXCEPT !.at = "logout", !.away = TRUE, !.sid = Sent(tab[t].browser),
                                 !.user = Null]
  <2>1. Null \in OrNull(Users) /\ "logout" \in Steps
    BY SMT DEF OrNull, Steps
  <2>2. r \in Tab
    BY <1>1, <1>2, <2>1, SetAt, SetAway, SetSid, SetUser
  <2>3. /\ r.browser = tab[t].browser /\ r.sid = Sent(tab[t].browser) /\ r.at = "logout"
        /\ r.away /\ KeepsPage(r)
    BY <1>1, <1>5, SMT DEF Tab, TabFine, KeepsPage, Ended, SendNamelessAway
  <2>4. r.sid = Null \/ OwnId(r.sid, r.browser)
    BY <1>1, <2>3, SentIsOwn DEF SessionInv
  <2>5. tab' = [tab EXCEPT ![t] = r] /\ granted' = granted
    BY <1>5 DEF SendNamelessAway, Dismiss, history
  <2>6. r.at \notin Trusted \cup {"storing", "landing"} /\ LeavesWithReason(r)
    BY <2>3, SMT DEF Trusted, LeavesWithReason
  <2> HIDE DEF r
  <2> QED
    BY <2>2, <2>3, <2>4, <2>5, <2>6, CarryFine
<1>6. CASE Authenticate(t)
  <2> DEFINE u == sessions[tab[t].sid].user
             r == [tab[t] EXCEPT !.at = "cache", !.user = u]
  <2>1. u \in Users /\ u = granted[tab[t].sid].user
    BY <1>6, SMT DEF Authenticate, Valid, SessionInv, StoreFine, SessionsFine, Session
  <2>2. u \in OrNull(Users) /\ "cache" \in Steps /\ "cache" \in Trusted
    BY <2>1, SMT DEF OrNull, Steps, Trusted
  <2> HIDE DEF u
  <2>3. r \in Tab
    BY <1>1, <2>2, SetAt, SetUser
  <2>4. /\ r.browser = tab[t].browser /\ r.sid = tab[t].sid /\ r.at = "cache"
        /\ r.user = u /\ KeepsPage(r)
    BY <1>1, <1>6, SMT DEF Tab, TabFine, KeepsPage, Ended, Authenticate
  <2>5. r.sid # Null
    BY <1>6, <2>4, SessionAssumption, SMT
      DEF Authenticate, Valid, SessionInv, StoreFine, SessionsFine
  <2>6. TabFine(r)
    BY <1>1, <2>1, <2>3, <2>4, <2>5, SMT DEF TabFine, LeavesWithReason, Ended
  <2> QED
    BY <1>6, <2>6, OneTab DEF Authenticate, SessionInv, history, u
<1>7. CASE InsertCacheRow(t)
  BY <1>7, MoveFine DEF InsertCacheRow, history, Trusted
<1>8. CASE DatabaseUnreachable(t)
  BY <1>8, EndFine DEF DatabaseUnreachable, history, Ended
<1>9. CASE CloseDatabaseSession(t)
  BY <1>9, MoveFine DEF CloseDatabaseSession, history, Trusted
<1>10. CASE GrafanaHit(t)
  BY <1>10, EndFine DEF GrafanaHit, history, Ended
<1>11. CASE GrafanaMiss(t)
  BY <1>11, MoveFine DEF GrafanaMiss, history, Trusted
<1>12. CASE GrafanaInsert(t)
  <2>1. \/ End(t, "failed") /\ "failed" \in Ended
        \/ End(t, "shown") /\ "shown" \in Ended
    BY <1>12 DEF GrafanaInsert, Ended
  <2> QED
    BY <1>12, <2>1, EndFine DEF GrafanaInsert, history
<1>13. CASE GrafanaUnreachable(t)
  BY <1>13, EndFine DEF GrafanaUnreachable, history, Ended
<1> QED
  BY <1>3, <1>4, <1>5, <1>6, <1>7, <1>8, <1>9, <1>10, <1>11, <1>12, <1>13 DEF Proxy

LEMMA CallbackTabs ==
    ASSUME SessionInv, NEW t \in Tabs, Callback(t)
    PROVE  TabsFine'
<1>1. tab[t] \in Tab /\ TabFine(tab[t])
  BY TabOfInv
<1>2. CASE RefuseMissingCode(t)
  BY <1>2, EndFine DEF RefuseMissingCode, history, Ended
<1>3. CASE ExchangeCode(t)
  BY <1>3, MoveFine DEF ExchangeCode, history
<1>4. CASE CallbackFails(t)
  BY <1>4, EndFine DEF CallbackFails, history, Ended
<1>5. CASE StoreSession(t)
  BY <1>5, StoreSessionTabs
<1>6. CASE Land(t)
  BY <1>6, MoveFine DEF Land, history, Ended
<1> QED
  BY <1>2, <1>3, <1>4, <1>5, <1>6 DEF Callback

LEMMA OpenTabs ==
    ASSUME SessionInv, NEW t \in Tabs, NEW p \in Pages, NEW step \in {"proxy", "logout"},
           Open(t, step, p), step = "logout" => p = Root
    PROVE  TabsFine'
<1> DEFINE r == [tab[t] EXCEPT !.at = step, !.page = p, !.asked = p, !.away = FALSE,
                               !.sid = Sent(tab[t].browser)]
<1>1. tab[t] \in Tab /\ tab[t].browser \in Browsers
  BY TabOfInv, SMT DEF Tab
<1>2. Sent(tab[t].browser) \in OrNull(Ids) /\ step \in Steps
  BY <1>1, SentIsOwn, SMT DEF SessionInv, Steps
<1>3. r \in Tab
  BY <1>1, <1>2, SetAt, SetPage, SetAsked, SetAway, SetSid
<1>4. /\ r.browser = tab[t].browser /\ r.sid = Sent(tab[t].browser) /\ r.at = step
      /\ r.asked = p /\ KeepsPage(r)
  BY <1>1, SMT DEF Tab, KeepsPage
<1>5. r.sid = Null \/ OwnId(r.sid, r.browser)
  BY <1>1, <1>4, SentIsOwn DEF SessionInv
<1>6. tab' = [tab EXCEPT ![t] = r] /\ granted' = granted
  BY DEF Open, history
<1>7. r.at \notin Trusted \cup {"storing", "landing"} /\ LeavesWithReason(r)
  BY <1>4, SMT DEF Trusted, LeavesWithReason
<1> HIDE DEF r
<1> QED
  BY <1>3, <1>4, <1>5, <1>6, <1>7, CarryFine

\* /login, the user at Discord, /logout, and tabs that are closed.
LEMMA LoginTabs ==
    ASSUME SessionInv, NEW t \in Tabs,
           Login(t) \/ Consent(t) \/ Logout(t) \/ LandLogout(t) \/ Leave(t)
    PROVE  TabsFine'
<1>1. tab[t] \in Tab /\ TabFine(tab[t])
  BY TabOfInv
<1>2. CASE Login(t)
  <2> DEFINE r == [tab[t] EXCEPT !.at = "discord", !.page = tab[t].page]
  <2>1. tab[t].page \in Pages /\ "discord" \in Steps
    BY <1>1, SMT DEF Tab, Steps
  <2>2. r \in Tab
    BY <1>1, <2>1, SetAt, SetPage
  <2>3. /\ r.browser = tab[t].browser /\ r.sid = tab[t].sid /\ r.at = "discord"
        /\ KeepsPage(r)
    BY <1>1, <1>2, SMT DEF Tab, TabFine, KeepsPage, Ended, Login
  <2>4. r.sid = Null \/ OwnId(r.sid, r.browser)
    BY <1>1, <2>3 DEF TabFine
  <2>5. tab' = [tab EXCEPT ![t] = r] /\ granted' = granted
    BY <1>2 DEF Login, State, history
  <2>6. r.at \notin Trusted \cup {"storing", "landing"} /\ LeavesWithReason(r)
    BY <2>3, SMT DEF Trusted, LeavesWithReason
  <2> HIDE DEF r
  <2> QED
    BY <2>2, <2>3, <2>4, <2>5, <2>6, CarryFine
<1>3. CASE Consent(t)
  <2>1. PICK u \in OrNull(Users) :
           tab' = [tab EXCEPT ![t] = [@ EXCEPT !.at = "callback", !.user = u]]
    BY <1>3 DEF Consent
  <2> DEFINE r == [tab[t] EXCEPT !.at = "callback", !.user = u]
  <2>2. r \in Tab
    BY <1>1, SetAt, SetUser DEF Steps
  <2>3. /\ r.browser = tab[t].browser /\ r.sid = tab[t].sid /\ r.at = "callback"
        /\ KeepsPage(r)
    <3>1. tab[t].at = "discord"
      BY <1>3 DEF Consent
    <3> QED
      BY <1>1, <3>1, SMT DEF Tab, TabFine, KeepsPage, Ended
  <2>4. r.sid = Null \/ OwnId(r.sid, r.browser)
    BY <1>1, <2>3 DEF TabFine
  <2>5. tab' = [tab EXCEPT ![t] = r] /\ granted' = granted
    BY <1>3, <2>1 DEF Consent, history
  <2>6. r.at \notin Trusted \cup {"storing", "landing"} /\ LeavesWithReason(r)
    BY <2>3, SMT DEF Trusted, LeavesWithReason
  <2> HIDE DEF r
  <2> QED
    BY <2>2, <2>3, <2>4, <2>5, <2>6, CarryFine
<1>4. CASE Logout(t)
  BY <1>4, MoveFine DEF Logout, Ended
<1>5. CASE LandLogout(t)
  <2> DEFINE r == [tab[t] EXCEPT !.at = "login", !.page = Root, !.sid = Null]
  <2>1. Root \in Pages /\ Null \in OrNull(Ids) /\ "login" \in Steps
    BY SessionAssumption, SMT DEF OrNull, Steps
  <2>2. r \in Tab
    BY <1>1, <2>1, SetAt, SetPage, SetSid
  <2>3. r.browser = tab[t].browser /\ r.sid = Null /\ r.at = "login" /\ KeepsPage(r)
    BY <1>1, <1>5, SMT DEF Tab, TabFine, KeepsPage, LeavesWithReason, LandLogout
  <2>4. tab' = [tab EXCEPT ![t] = r] /\ granted' = granted
    BY <1>5 DEF LandLogout, history
  <2>5. r.at \notin Trusted \cup {"storing", "landing"} /\ LeavesWithReason(r)
    BY <2>3, SMT DEF Trusted, LeavesWithReason
  <2> HIDE DEF r
  <2> QED
    BY <2>2, <2>3, <2>4, <2>5, CarryFine
<1>6. CASE Leave(t)
  BY <1>6, EndFine DEF Leave, history, Ended
<1> QED
  BY <1>2, <1>3, <1>4, <1>5, <1>6

LEMMA TabsStep == SessionInv /\ [SessionNext]_vars => TabsFine'
<1> SUFFICES ASSUME SessionInv, [SessionNext]_vars PROVE TabsFine'
  OBVIOUS
<1>1. ASSUME NEW t \in Tabs, Serve(t) PROVE TabsFine'
  BY <1>1, ProxyTabs, CallbackTabs, LoginTabs DEF Serve
<1>2. ASSUME NEW t \in Tabs, Ask(t) \/ AskLogout(t) PROVE TabsFine'
  BY <1>2, OpenTabs, SessionAssumption DEF Ask, AskLogout
<1>3. ASSUME NEW t \in Tabs, Consent(t) \/ Leave(t) PROVE TabsFine'
  BY <1>3, LoginTabs
<1>4. CASE tab' = tab /\ granted' = granted
  BY <1>4 DEF SessionInv, TabsFine, TabFine, OwnId
<1> QED
  BY <1>1, <1>2, <1>3, <1>4 DEF SessionNext, Tick, SaveSnapshot, RestartRedis, history, vars

-----------------------------------------------------------------------------
(***************************************************************************)
(* Cookies, and what Redis holds.                                          *)
(***************************************************************************)
LEMMA Quiet ==
    ASSUME [SessionNext]_vars
    PROVE  \/ UNCHANGED <<jar, store, history, now>>
           \/ \E t \in Tabs : StoreSession(t) \/ Land(t) \/ Logout(t) \/ LandLogout(t)
           \/ Tick \/ SaveSnapshot \/ RestartRedis
<1> DEFINE quiet == UNCHANGED <<jar, store, history, now>>
<1>1. ASSUME NEW t \in Tabs, Proxy(t) PROVE quiet
  BY <1>1 DEF Proxy, SendToLogin, StoreUnreachable, SendNamelessAway, Authenticate,
              InsertCacheRow, DatabaseUnreachable, CloseDatabaseSession, GrafanaHit,
              GrafanaMiss, GrafanaInsert, GrafanaUnreachable, bounds, store, history
<1>2. ASSUME NEW t \in Tabs, Callback(t) PROVE quiet \/ StoreSession(t) \/ Land(t)
  BY <1>2 DEF Callback, RefuseMissingCode, ExchangeCode, CallbackFails, bounds, store, history
<1>3. ASSUME NEW t \in Tabs, Login(t) \/ Consent(t) \/ Leave(t) \/ Ask(t) \/ AskLogout(t)
      PROVE  quiet
  BY <1>3 DEF Login, Consent, Leave, Ask, AskLogout, Open, bounds, store, history
<1>4. ASSUME UNCHANGED vars PROVE quiet
  BY <1>4 DEF vars, bounds, store, history
<1> HIDE DEF quiet
<1>5. quiet \/ (\E t \in Tabs : StoreSession(t) \/ Land(t) \/ Logout(t) \/ LandLogout(t))
      \/ Tick \/ SaveSnapshot \/ RestartRedis
  BY <1>1, <1>2, <1>3, <1>4 DEF SessionNext, Serve
<1> QED
  BY <1>5 DEF quiet

LEMMA JarStep == SessionInv /\ [SessionNext]_vars => JarFine'
<1> SUFFICES ASSUME SessionInv, [SessionNext]_vars PROVE JarFine'
  OBVIOUS
<1>1. ASSUME jar' = jar, granted' = granted PROVE JarFine'
  BY <1>1 DEF SessionInv, JarFine, OwnId
<1>2. ASSUME NEW t \in Tabs, StoreSession(t) PROVE JarFine'
  <2>1. jar' = jar
    BY <1>2 DEF StoreSession
  <2>2. \A b \in Browsers : jar[b] # Null => jar[b].sid \in 1..Len(granted') /\ granted'[jar[b].sid].browser = b
    BY <1>2, OwnIdStays DEF SessionInv, JarFine, OwnId
  <2> QED
    BY <2>1, <2>2 DEF SessionInv, JarFine, OwnId
<1>3. ASSUME NEW t \in Tabs, Land(t) PROVE JarFine'
  <2>1. /\ tab[t].sid \in Ids /\ OwnId(tab[t].sid, tab[t].browser)
        /\ tab[t].browser \in Browsers
    BY <1>3, TabOfInv, SMT DEF Land, TabFine, Tab, OrNull
  <2>2. now + TTL \in Nat
    BY SessionAssumption, SMT DEF SessionInv, StoreFine
  <2> DEFINE c == [sid |-> tab[t].sid, until |-> now + TTL]
  <2>3. c \in OrNull(Cookie) /\ c.sid = tab[t].sid
    BY <2>1, <2>2, SMT DEF Cookie, OrNull
  <2>4. jar' = [jar EXCEPT ![tab[t].browser] = c] /\ granted' = granted
    BY <1>3 DEF Land, history
  <2> HIDE DEF c
  <2> QED
    BY <2>1, <2>3, <2>4, SMT DEF SessionInv, JarFine, OwnId
<1>4. ASSUME NEW t \in Tabs, LandLogout(t) PROVE JarFine'
  <2>1. /\ jar' = [jar EXCEPT ![tab[t].browser] = Null] /\ granted' = granted
        /\ Null \in OrNull(Cookie)
    BY <1>4 DEF LandLogout, history, OrNull
  <2> QED
    BY <2>1 DEF SessionInv, JarFine, OwnId
<1>5. CASE Tick
  BY <1>5, SMT DEF Tick, history, SessionInv, JarFine, OwnId, OrNull
<1>6. ASSUME UNCHANGED <<jar, store, history, now>> PROVE JarFine'
  BY <1>1, <1>6 DEF history
<1>7. ASSUME NEW t \in Tabs, Logout(t) PROVE JarFine'
  BY <1>1, <1>7 DEF Logout
<1>8. ASSUME SaveSnapshot \/ RestartRedis PROVE JarFine'
  BY <1>1, <1>8 DEF SaveSnapshot, RestartRedis, history
<1> QED
  BY <1>2, <1>3, <1>4, <1>5, <1>6, <1>7, <1>8, Quiet

\* A new session is that of the new login, and nobody has had its id.
LEMMA StoreSessionStore ==
    ASSUME SessionInv, NEW t \in Tabs, StoreSession(t)
    PROVE  StoreFine'
<1>1. /\ granted' \in Grants
      /\ NewId = Len(granted) + 1 /\ NewId \in Ids /\ Len(granted') = NewId
      /\ \A s \in 1..Len(granted) : s \in 1..Len(granted') /\ granted'[s] = granted[s]
      /\ granted'[NewId] = [browser |-> tab[t].browser, user |-> tab[t].user, born |-> now]
      /\ tab[t].user \in Users
  BY GrantAdded
<1>2. now \in Nat /\ Expiry \in Nat /\ now < Expiry /\ Expiry = now + TTL
  BY SessionAssumption, SMT DEF SessionInv, StoreFine, Expiry
<1>3. /\ UNCHANGED <<saved, loggedOut, shaken, now>>
      /\ DOMAIN sessions' = DOMAIN sessions \cup {NewId}
      /\ sessions'[NewId] = [user |-> tab[t].user, until |-> Expiry]
      /\ \A s \in DOMAIN sessions : s # NewId => sessions'[s] = sessions[s]
  BY DEF StoreSession, bounds
<1>4. 1..Len(granted) = (1..Len(granted')) \ {NewId} /\ NewId \in 1..Len(granted')
  BY <1>1, SMT DEF SessionInv, StoreFine, Grants
<1>5. SessionsFine(saved)'
  BY <1>1, <1>3, <1>4 DEF SessionInv, StoreFine, SessionsFine
<1>6. SessionsFine(sessions)'
  <2> SUFFICES ASSUME NEW s \in DOMAIN sessions'
               PROVE  /\ s \in 1..Len(granted')
                      /\ sessions'[s] \in Session
                      /\ sessions'[s].user = granted'[s].user
                      /\ sessions'[s].until = granted'[s].born + TTL
    BY DEF SessionsFine
  <2>1. CASE s = NewId
    BY <2>1, <1>1, <1>2, <1>3, <1>4, SMT DEF Session
  <2>2. CASE s # NewId
    BY <2>2, <1>1, <1>3, <1>4 DEF SessionInv, StoreFine, SessionsFine
  <2> QED
    BY <2>1, <2>2
<1>7. \A s \in DOMAIN sessions' : now' < sessions'[s].until /\ (s \in loggedOut' => s \in shaken')
  <2> SUFFICES ASSUME NEW s \in DOMAIN sessions'
               PROVE  now' < sessions'[s].until /\ (s \in loggedOut' => s \in shaken')
    OBVIOUS
  <2>1. CASE s = NewId
    <3>1. s \notin loggedOut
      BY <2>1, <1>4 DEF SessionInv, StoreFine
    <3> QED
      BY <2>1, <3>1, <1>2, <1>3, SMT
  <2>2. CASE s # NewId
    BY <2>2, <1>3 DEF SessionInv, StoreFine
  <2> QED
    BY <2>1, <2>2
<1>8. \A s \in 1..Len(granted') : Fresh(s)' => s \in DOMAIN sessions' \cup loggedOut' \cup shaken'
  <2> SUFFICES ASSUME NEW s \in 1..Len(granted'), s # NewId, now' < granted'[s].born + TTL
               PROVE  s \in DOMAIN sessions' \cup loggedOut' \cup shaken'
    BY <1>3 DEF Fresh
  <2>1. s \in 1..Len(granted) /\ Fresh(s)
    BY <1>1, <1>3, <1>4 DEF Fresh
  <2> QED
    BY <2>1, <1>3 DEF SessionInv, StoreFine
<1> QED
  BY <1>1, <1>3, <1>4, <1>5, <1>6, <1>7, <1>8 DEF SessionInv, StoreFine, Fresh

LEMMA GrantIs ==
    ASSUME granted \in Grants, NEW s \in 1..Len(granted)
    PROVE  granted[s].user \in Users /\ granted[s].born \in Nat
<1> DEFINE G == [browser : Browsers, user : Users, born : Nat]
<1>1. granted \in Seq(G)
  BY DEF Grants
<1> HIDE DEF G
<1>2. granted[s] \in G
  BY <1>1, SMT
<1> QED
  BY <1>2, SMT DEF G

LEMMA LiveIs ==
    ASSUME NEW f, NEW time, \A s \in DOMAIN f : f[s] \in Session, time \in Nat
    PROVE  /\ DOMAIN Live(f, time) = {s \in DOMAIN f : time < f[s].until}
           /\ \A s \in DOMAIN Live(f, time) : Live(f, time)[s] = f[s]
<1>1. \A s \in DOMAIN f : f[s].until \in Nat
  BY SMT DEF Session
<1>2. DOMAIN f \ {s \in DOMAIN f : f[s].until <= time} = {s \in DOMAIN f : time < f[s].until}
  BY <1>1, SMT
<1> QED
  BY <1>2, Zenon DEF Live, Without

LEMMA LogoutStore ==
    ASSUME SessionInv, NEW t \in Tabs, Logout(t)
    PROVE  StoreFine'
<1> DEFINE id == tab[t].sid
<1>1. id # Null => id \in 1..Len(granted)
  BY TabOfInv DEF TabFine, OwnId
<1>2. Null \notin 1..Len(granted)
  BY SessionAssumption, SMT DEF SessionInv, StoreFine, Grants
<1>3. /\ UNCHANGED <<saved, granted, shaken, now>>
      /\ loggedOut' = loggedOut \cup ({id} \ {Null})
  BY DEF Logout, bounds
<1>4. /\ DOMAIN sessions' = DOMAIN sessions \ {id}
      /\ \A s \in DOMAIN sessions' : sessions'[s] = sessions[s]
  BY DEF Logout, AfterDelete, Without
<1> HIDE DEF id
<1>5. SessionsFine(saved)' /\ SessionsFine(sessions)'
  BY <1>3, <1>4 DEF SessionInv, StoreFine, SessionsFine
<1>6. loggedOut' \subseteq 1..Len(granted)
  BY <1>1, <1>3 DEF SessionInv, StoreFine
<1>7. \A s \in DOMAIN sessions' :
         now < sessions'[s].until /\ (s \in loggedOut' => s \in shaken)
  BY <1>3, <1>4 DEF SessionInv, StoreFine
<1>8. \A s \in 1..Len(granted) : Fresh(s) => s \in DOMAIN sessions' \cup loggedOut' \cup shaken
  <2> SUFFICES ASSUME NEW s \in 1..Len(granted), Fresh(s)
               PROVE  s \in DOMAIN sessions' \cup loggedOut' \cup shaken
    OBVIOUS
  <2>1. s \in DOMAIN sessions \cup loggedOut \cup shaken
    BY DEF SessionInv, StoreFine
  <2> QED
    BY <2>1, <1>2, <1>3, <1>4
<1> QED
  BY <1>3, <1>5, <1>6, <1>7, <1>8 DEF SessionInv, StoreFine, Fresh

LEMMA TickStore ==
    ASSUME SessionInv, Tick
    PROVE  StoreFine'
<1>1. /\ UNCHANGED <<saved, granted, loggedOut, shaken>>
      /\ now' = now + 1 /\ now \in Nat /\ now' \in 0..Horizon
  BY SessionAssumption, SMT DEF Tick, history, SessionInv, StoreFine
<1>2. /\ DOMAIN sessions' = {s \in DOMAIN sessions : now' < sessions[s].until}
      /\ \A s \in DOMAIN sessions' : sessions'[s] = sessions[s]
  <2>1. (\A s \in DOMAIN sessions : sessions[s] \in Session) /\ now' \in Nat
    BY <1>1, SMT DEF SessionInv, StoreFine, SessionsFine
  <2>2. PICK time \in Nat : time = now'
    BY <2>1
  <2>3. sessions' = Live(sessions, time)
    BY <2>2 DEF Tick
  <2> QED
    BY <2>1, <2>2, <2>3, LiveIs
<1>3. SessionsFine(saved)' /\ SessionsFine(sessions)'
  BY <1>1, <1>2 DEF SessionInv, StoreFine, SessionsFine
<1>4. \A s \in DOMAIN sessions' :
         now' < sessions'[s].until /\ (s \in loggedOut => s \in shaken)
  BY <1>2 DEF SessionInv, StoreFine
<1>5. \A s \in 1..Len(granted) : Fresh(s)' => s \in DOMAIN sessions' \cup loggedOut \cup shaken
  <2> SUFFICES ASSUME NEW s \in 1..Len(granted), now' < granted[s].born + TTL
               PROVE  s \in DOMAIN sessions' \cup loggedOut \cup shaken
    BY <1>1 DEF Fresh
  <2>1. granted[s].born \in Nat /\ TTL \in Nat
    BY GrantIs, SessionAssumption DEF SessionInv, StoreFine
  <2>2. Fresh(s)
    BY <1>1, <2>1, SMT DEF Fresh
  <2>3. CASE s \in DOMAIN sessions
    BY <1>2, <2>3 DEF SessionInv, StoreFine, SessionsFine
  <2> QED
    BY <2>2, <2>3 DEF SessionInv, StoreFine
<1> QED
  BY <1>1, <1>3, <1>4, <1>5 DEF SessionInv, StoreFine, Fresh

LEMMA RestartStore ==
    ASSUME SessionInv, RestartRedis
    PROVE  StoreFine'
<1>1. /\ UNCHANGED <<saved, granted, loggedOut, now>> /\ now \in Nat
      /\ shaken' = shaken \cup (DOMAIN sessions \ DOMAIN sessions')
                          \cup (DOMAIN sessions' \ DOMAIN sessions)
  BY SessionAssumption, SMT DEF RestartRedis, SessionInv, StoreFine
<1>2. /\ DOMAIN sessions' = {s \in DOMAIN saved : now < saved[s].until}
      /\ \A s \in DOMAIN sessions' : sessions'[s] = saved[s]
  <2>1. \A s \in DOMAIN saved : saved[s] \in Session
    BY DEF SessionInv, StoreFine, SessionsFine
  <2> QED
    BY <1>1, <2>1, LiveIs, Zenon DEF RestartRedis
<1>3. SessionsFine(saved)' /\ SessionsFine(sessions)'
  BY <1>1, <1>2 DEF SessionInv, StoreFine, SessionsFine
<1>4. shaken' \subseteq 1..Len(granted)
  BY <1>1, <1>2 DEF SessionInv, StoreFine, SessionsFine
<1>5. \A s \in DOMAIN sessions' :
         now < sessions'[s].until /\ (s \in loggedOut => s \in shaken')
  BY <1>1, <1>2 DEF SessionInv, StoreFine
<1>6. \A s \in 1..Len(granted) : Fresh(s) => s \in DOMAIN sessions' \cup loggedOut \cup shaken'
  BY <1>1 DEF SessionInv, StoreFine
<1> QED
  BY <1>1, <1>3, <1>4, <1>5, <1>6 DEF SessionInv, StoreFine, Fresh

LEMMA StoreStep == SessionInv /\ [SessionNext]_vars => StoreFine'
<1> SUFFICES ASSUME SessionInv, [SessionNext]_vars PROVE StoreFine'
  OBVIOUS
<1>1. ASSUME UNCHANGED <<sessions, saved, granted, loggedOut, shaken, now>> PROVE StoreFine'
  BY <1>1 DEF SessionInv, StoreFine, SessionsFine, Fresh
<1>2. ASSUME UNCHANGED <<jar, store, history, now>> PROVE StoreFine'
  BY <1>1, <1>2 DEF store, history
<1>3. ASSUME NEW t \in Tabs, Land(t) \/ LandLogout(t) PROVE StoreFine'
  BY <1>1, <1>3 DEF Land, LandLogout, store, history, bounds
<1>4. ASSUME SaveSnapshot PROVE StoreFine'
  BY <1>4 DEF SaveSnapshot, history, bounds, SessionInv, StoreFine, SessionsFine, Fresh
<1> QED
  BY <1>2, <1>3, <1>4, Quiet, StoreSessionStore, LogoutStore, TickStore, RestartStore

-----------------------------------------------------------------------------
(***************************************************************************)
(* Grafana's cache, its row locks, and the counters.                       *)
(***************************************************************************)
LEMMA GrafanaStep ==
    ASSUME SessionInv, [SessionNext]_vars
    PROVE  cached' \subseteq Users /\ lock' \in [Users -> OrNull(Tabs)]
<1>1. cached \subseteq Users /\ lock \in [Users -> OrNull(Tabs)]
  BY DEF SessionInv, RestFine
<1>2. ASSUME UNCHANGED grafana PROVE cached' = cached /\ lock' = lock
  BY <1>2 DEF grafana
<1>3. ASSUME NEW t \in Tabs, InsertCacheRow(t) PROVE cached' = cached /\ lock' \in [Users -> OrNull(Tabs)]
  BY <1>1, <1>3, Zenon DEF InsertCacheRow, OrNull
<1>4. ASSUME NEW t \in Tabs, CloseDatabaseSession(t)
      PROVE  cached' = cached /\ lock' \in [Users -> OrNull(Tabs)]
  BY <1>1, <1>4 DEF CloseDatabaseSession, Release, OrNull
<1>5. ASSUME NEW t \in Tabs, GrafanaInsert(t) PROVE cached' \subseteq Users /\ lock' = lock
  <2>1. tab[t].sid \in 1..Len(granted) /\ granted[tab[t].sid].user = tab[t].user
    BY <1>5, TabOfInv, SMT DEF GrafanaInsert, TabFine, OwnId, Trusted
  <2>2. tab[t].user \in Users
    BY <2>1, GrantIs DEF SessionInv, StoreFine
  <2> QED
    BY <1>1, <1>5, <2>2 DEF GrafanaInsert
<1>6. ASSUME Tick PROVE cached' \subseteq Users /\ lock' = lock
  BY <1>1, <1>6 DEF Tick
<1>7. ASSUME NEW t \in Tabs, Proxy(t)
      PROVE  UNCHANGED grafana \/ InsertCacheRow(t) \/ CloseDatabaseSession(t) \/ GrafanaInsert(t)
  BY <1>7 DEF Proxy, SendToLogin, StoreUnreachable, SendNamelessAway, Authenticate,
              DatabaseUnreachable, GrafanaHit, GrafanaMiss, GrafanaUnreachable
<1>8. ASSUME NEW t \in Tabs, \/ Callback(t) \/ Login(t) \/ Logout(t) \/ LandLogout(t)
                             \/ Ask(t) \/ AskLogout(t) \/ Consent(t) \/ Leave(t)
      PROVE  UNCHANGED grafana
  BY <1>8 DEF Callback, RefuseMissingCode, ExchangeCode, CallbackFails, StoreSession, Land,
              Login, Logout, LandLogout, Ask, AskLogout, Open, Consent, Leave
<1>9. SaveSnapshot \/ RestartRedis \/ UNCHANGED vars => UNCHANGED grafana
  BY DEF SaveSnapshot, RestartRedis, vars
<1>10. \/ UNCHANGED grafana
       \/ \E t \in Tabs : InsertCacheRow(t) \/ CloseDatabaseSession(t) \/ GrafanaInsert(t)
       \/ Tick
  <2> HIDE DEF grafana
  <2> QED
    BY <1>7, <1>8, <1>9 DEF SessionNext, Serve
<1> QED
  BY <1>1, <1>2, <1>3, <1>4, <1>5, <1>6, <1>10

LEMMA CountersStep ==
    ASSUME SessionInv, [SessionNext]_vars
    PROVE  moves' \in 0..MaxMoves /\ faults' \in 0..MaxFaults
<1> DEFINE counted == /\ moves' = moves \/ (moves < MaxMoves /\ moves' = moves + 1)
                      /\ faults' = faults \/ (faults < MaxFaults /\ faults' = faults + 1)
<1>1. ASSUME NEW t \in Tabs, Proxy(t) PROVE counted
  BY <1>1 DEF Proxy, SendToLogin, StoreUnreachable, SendNamelessAway, Authenticate,
              InsertCacheRow, DatabaseUnreachable, CloseDatabaseSession, GrafanaHit,
              GrafanaMiss, GrafanaInsert, GrafanaUnreachable, bounds, Fault
<1>2. ASSUME NEW t \in Tabs, Callback(t) PROVE counted
  BY <1>2 DEF Callback, RefuseMissingCode, ExchangeCode, CallbackFails, StoreSession, Land,
              bounds, Fault
<1>3. ASSUME NEW t \in Tabs, \/ Login(t) \/ Logout(t) \/ LandLogout(t)
                             \/ Ask(t) \/ AskLogout(t) \/ Consent(t) \/ Leave(t)
      PROVE  counted
  BY <1>3 DEF Login, Logout, LandLogout, Ask, AskLogout, Open, Consent, Leave, bounds
<1>4. Tick \/ SaveSnapshot \/ RestartRedis \/ UNCHANGED vars => counted
  BY DEF Tick, SaveSnapshot, RestartRedis, Fault, vars, bounds
<1> HIDE DEF counted
<1>5. counted
  BY <1>1, <1>2, <1>3, <1>4 DEF SessionNext, Serve
<1> QED
  BY <1>5, SessionAssumption, SMT DEF counted, SessionInv, RestFine

-----------------------------------------------------------------------------
THEOREM SessionInvStart == SessionInit => SessionInv
<1> SUFFICES ASSUME SessionInit PROVE SessionInv
  OBVIOUS
<1>1. TabsFine
  <2>1. \A r \in [at : {"idle"}, browser : Browsers, page : {Root},
                  asked : {Root}, away : {FALSE}, sid : {Null}, user : {Null}] : TabFine(r)
    <3> SUFFICES ASSUME NEW r \in [at : {"idle"}, browser : Browsers, page : {Root},
                                   asked : {Root}, away : {FALSE}, sid : {Null}, user : {Null}]
                 PROVE  TabFine(r)
      OBVIOUS
    <3>1. /\ Root \in Pages /\ Null \in OrNull(Ids) /\ Null \in OrNull(Users)
          /\ "idle" \in Steps /\ FALSE \in BOOLEAN
      BY SessionAssumption, SMT DEF OrNull, Steps, Ended
    <3>2. PICK no \in BOOLEAN : no = FALSE
      OBVIOUS
    <3>3. r \in Tab
      <4>1. r \in [at : {"idle"}, browser : Browsers, page : {Root},
                   asked : {Root}, away : {no}, sid : {Null}, user : {Null}]
        BY <3>2
      <4> QED
        BY <3>1, <4>1, SMT DEF Tab
    <3>4. r.at = "idle" /\ r.sid = Null
      OBVIOUS
    <3> QED
      BY <3>3, <3>4, SMT DEF TabFine, LeavesWithReason, Ended, Trusted
  <2>2. \A t \in Tabs : TabFine(tab[t]) /\ tab[t] \in Tab
    BY <2>1 DEF SessionInit, TabFine
  <2>3. tab = [t \in Tabs |-> tab[t]]
    BY DEF SessionInit
  <2> QED
    BY <2>2, <2>3, Zenon DEF TabsFine
<1>2. JarFine
  BY DEF SessionInit, JarFine, OrNull
<1>3. granted \in Grants /\ Len(granted) = 0 /\ now \in 0..Horizon
  BY SessionAssumption, SMT DEF SessionInit, Grants
<1>4. StoreFine
  <2>1. DOMAIN sessions = {} /\ DOMAIN saved = {} /\ loggedOut = {} /\ shaken = {}
    BY DEF SessionInit, NoSessions
  <2>2. 1..Len(granted) = {}
    BY <1>3, SMT
  <2> QED
    BY <1>3, <2>1, <2>2, Zenon DEF StoreFine, SessionsFine
<1>5. RestFine
  BY SessionAssumption, SMT DEF SessionInit, RestFine, OrNull
<1> QED
  BY <1>1, <1>2, <1>4, <1>5 DEF SessionInv

THEOREM SessionInvStep == SessionInv /\ [SessionNext]_vars => SessionInv'
  BY TabsStep, JarStep, StoreStep, GrafanaStep, CountersStep DEF SessionInv, RestFine

THEOREM SessionInvAlways == SessionSpec => []SessionInv
  BY SessionInvStart, SessionInvStep, PTL DEF SessionSpec

\* The ids, cookies and names in memory are always of the form they should be.
THEOREM SessionTypeCorrect == SessionSpec => []SessionTypeOK
<1>1. SessionInv => SessionTypeOK
  BY DEF SessionInv, TabsFine, JarFine, StoreFine, SessionsFine, RestFine, SessionTypeOK, Grants
<1> QED
  BY <1>1, SessionInvAlways, PTL

\* proxy acts for the account that this very browser has logged in with.
THEOREM ActsForOwnerCorrect == SessionSpec => []ActsForOwner
<1>1. SessionInv => ActsForOwner
  BY DEF SessionInv, TabsFine, TabFine, OwnId, ActsForOwner
<1> QED
  BY <1>1, SessionInvAlways, PTL

\* Through however many logins, a page load is for the path asked for, unless
\* proxy has sent it to /logout for want of a name.
THEOREM PageSurvivesLoginCorrect == SessionSpec => []PageSurvivesLogin
<1>1. SessionInv => PageSurvivesLogin
  BY DEF SessionInv, TabsFine, TabFine, PageSurvivesLogin
<1> QED
  BY <1>1, SessionInvAlways, PTL

\* The steps at which proxy decides what becomes of a request.
LEMMA ProxyDecides ==
    ASSUME SessionInv, [SessionNext]_vars, NEW t \in Tabs, tab[t].at = "proxy",
           tab'[t].at \in Trusted \cup {"login"}
    PROVE  \/ SendToLogin(t) /\ tab'[t].at = "login"
           \/ Authenticate(t) /\ tab'[t].at \in Trusted
<1>1. tab \in [Tabs -> Tab] /\ \A u \in Tabs : tab[u] \in Tab
  BY DEF SessionInv, TabsFine
<1>2. tab' # tab
  BY DEF Trusted
<1>3. ASSUME NEW u \in Tabs, NEW r, tab' = [tab EXCEPT ![u] = r] PROVE u = t /\ tab'[t] = r
  BY <1>1, <1>3 DEF Trusted
<1>4. ASSUME NEW u \in Tabs, NEW step, Move(u, step) PROVE u = t /\ tab'[t].at = step
  <2>1. u = t /\ tab'[t] = [tab[u] EXCEPT !.at = step]
    BY <1>4, <1>3 DEF Move
  <2> QED
    BY <1>1, <2>1, SMT DEF Tab
<1>5. ASSUME NEW u \in Tabs, NEW step, End(u, step) PROVE u = t /\ tab'[t].at = step
  <2>1. u = t /\ tab'[t] = [tab[u] EXCEPT !.at = step, !.page = Root, !.asked = Root,
                                         !.away = FALSE, !.sid = Null, !.user = Null]
    BY <1>5, <1>3 DEF End
  <2> QED
    BY <1>1, <2>1, SMT DEF Tab
<1>6. ASSUME NEW u \in Tabs, NEW step \in Ended, End(u, step) PROVE FALSE
  BY <1>5, <1>6, SMT DEF Ended, Trusted
<1>7. ASSUME NEW u \in Tabs, Proxy(u) PROVE u = t /\ (SendToLogin(t) \/ Authenticate(t))
  <2>1. CASE SendNamelessAway(u)
    <3>1. u = t /\ tab'[t] = [tab[u] EXCEPT !.at = "logout", !.away = TRUE,
                                            !.sid = Sent(tab[u].browser), !.user = Null]
      BY <2>1, <1>3 DEF SendNamelessAway, Dismiss
    <3>2. tab'[t].at = "logout"
      BY <1>1, <3>1, SMT DEF Tab
    <3> QED
      BY <3>2, SMT DEF Trusted
  <2>2. CASE SendToLogin(u) \/ Authenticate(u)
    BY <2>2, <1>3 DEF SendToLogin, ToLogin, Authenticate
  <2>3. CASE InsertCacheRow(u) \/ CloseDatabaseSession(u) \/ GrafanaMiss(u)
    <3>1. u = t
      BY <2>3, <1>4 DEF InsertCacheRow, CloseDatabaseSession, GrafanaMiss
    <3> QED
      BY <2>3, <3>1 DEF InsertCacheRow, CloseDatabaseSession, GrafanaMiss
  <2>4. CASE \/ StoreUnreachable(u) \/ DatabaseUnreachable(u) \/ GrafanaHit(u)
             \/ GrafanaInsert(u) \/ GrafanaUnreachable(u)
    <3>1. \E step \in Ended : End(u, step)
      BY <2>4 DEF StoreUnreachable, DatabaseUnreachable, GrafanaHit, GrafanaInsert,
                  GrafanaUnreachable, Ended
    <3> QED
      BY <3>1, <1>6
  <2> QED
    BY <1>7, <2>1, <2>2, <2>3, <2>4 DEF Proxy
<1>8. ASSUME NEW u \in Tabs, tab[u].at # "proxy", \E r : tab' = [tab EXCEPT ![u] = r]
      PROVE  FALSE
  BY <1>3, <1>8
<1>9. ASSUME NEW u \in Tabs, Callback(u) PROVE FALSE
  <2>1. tab[u].at # "proxy"
    BY <1>9 DEF Callback, RefuseMissingCode, ExchangeCode, CallbackFails, StoreSession, Land
  <2>2. \E r : tab' = [tab EXCEPT ![u] = r]
    BY <1>9, Zenon DEF Callback, RefuseMissingCode, ExchangeCode, CallbackFails, StoreSession,
                Land, Move, End
  <2> QED
    BY <2>1, <2>2, <1>8
<1>10. ASSUME NEW u \in Tabs, \/ Login(u) \/ Logout(u) \/ LandLogout(u)
                              \/ Ask(u) \/ AskLogout(u) \/ Consent(u) \/ Leave(u)
       PROVE  FALSE
  <2>1. tab[u].at # "proxy"
    BY <1>10, Zenon DEF Login, Logout, LandLogout, Ask, AskLogout, Open, Consent, Leave, Ended
  <2>2. \E r : tab' = [tab EXCEPT ![u] = r]
    BY <1>10, Zenon DEF Login, Logout, LandLogout, Ask, AskLogout, Open, Consent, Leave,
                        Move, End
  <2> QED
    BY <2>1, <2>2, <1>8
<1>11. SendToLogin(t) \/ Authenticate(t)
  BY <1>2, <1>7, <1>9, <1>10 DEF SessionNext, Serve, Tick, SaveSnapshot, RestartRedis, vars
<1>12. ASSUME SendToLogin(t) PROVE tab'[t].at = "login"
  <2>1. tab'[t] = [tab[t] EXCEPT !.at = "login", !.page = tab[t].page, !.sid = Null]
    BY <1>12, <1>3 DEF SendToLogin, ToLogin
  <2> QED
    BY <1>1, <2>1, SMT DEF Tab
<1>13. ASSUME Authenticate(t) PROVE tab'[t].at \in Trusted
  <2>1. tab'[t] = [tab[t] EXCEPT !.at = "cache", !.user = sessions[tab[t].sid].user]
    BY <1>13, <1>3 DEF Authenticate
  <2>2. tab'[t].at = "cache"
    BY <1>1, <2>1, SMT DEF Tab
  <2> QED
    BY <2>2 DEF Trusted
<1> QED
  BY <1>11, <1>12, <1>13

\* proxy passes a request on only within TTL of its login, and after a logout
\* only when a crash of Redis has brought the session back.
THEOREM PassesOnlyWhileValidCorrect == SessionSpec => PassesOnlyWhileValid
<1> DEFINE P(t) == tab[t].at = "proxy" /\ tab'[t].at \in Trusted =>
                      LET s == tab[t].sid IN Fresh(s) /\ (s \in loggedOut => s \in shaken)
<1>1. SessionInv /\ [SessionNext]_vars => \A t \in Tabs : P(t)
  <2> SUFFICES ASSUME SessionInv, [SessionNext]_vars, NEW t \in Tabs,
                      tab[t].at = "proxy", tab'[t].at \in Trusted
               PROVE  /\ Fresh(tab[t].sid)
                      /\ tab[t].sid \in loggedOut => tab[t].sid \in shaken
    OBVIOUS
  <2>1. tab'[t].at # "login"
    BY DEF Trusted
  <2>2. tab[t].sid \in DOMAIN sessions
    BY <2>1, ProxyDecides DEF Authenticate, Valid
  <2> QED
    BY <2>2 DEF SessionInv, StoreFine, SessionsFine, Fresh
<1> QED
  BY <1>1, SessionInvAlways, PTL DEF PassesOnlyWhileValid, SessionSpec

\* A browser that shows a cookie is asked to log in again only when its
\* session is too old, or logged out, or Redis crashed.
THEOREM AskedAgainOnlyWhenOverCorrect == SessionSpec => AskedAgainOnlyWhenOver
<1> DEFINE P(t) == tab[t].at = "proxy" /\ tab[t].sid # Null /\ tab'[t].at = "login" =>
                      LET s == tab[t].sid IN ~Fresh(s) \/ s \in loggedOut \/ s \in shaken
<1>1. SessionInv /\ [SessionNext]_vars => \A t \in Tabs : P(t)
  <2> SUFFICES ASSUME SessionInv, [SessionNext]_vars, NEW t \in Tabs,
                      tab[t].at = "proxy", tab[t].sid # Null, tab'[t].at = "login"
               PROVE  \/ ~Fresh(tab[t].sid)
                      \/ tab[t].sid \in loggedOut \/ tab[t].sid \in shaken
    OBVIOUS
  <2>1. tab'[t].at \notin Trusted
    BY DEF Trusted
  <2>2. tab[t].sid \notin DOMAIN sessions
    BY <2>1, ProxyDecides DEF SendToLogin, Valid
  <2>3. tab[t].sid \in 1..Len(granted)
    BY TabOfInv DEF TabFine, OwnId
  <2> QED
    BY <2>2, <2>3 DEF SessionInv, StoreFine
<1> QED
  BY <1>1, SessionInvAlways, PTL DEF AskedAgainOnlyWhenOver, SessionSpec

=============================================================================
