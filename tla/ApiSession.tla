----------------------------- MODULE ApiSession -----------------------------
(***************************************************************************)
(* interfaces/rest/api_handler.py: the proxy in front of Grafana that logs *)
(* its users in with Discord and keeps their sessions in Redis.            *)
(*                                                                         *)
(* A tab is one page load of a browser with the redirects it follows: the  *)
(* tabs of a browser share its cookie.  The handlers of the tabs           *)
(* interleave wherever api_handler.py awaits.  Discord, Redis and Grafana  *)
(* are external: they do what the code relies on, and may fail.            *)
(***************************************************************************)
EXTENDS Integers, Sequences, FiniteSets

CONSTANTS
    Null, Tabs, Browsers, Users, Pages,
    Root,               \* the page "/"
    Nameless,           \* the users without a username
    TTL,                \* SESSION_TTL_SECONDS, in ticks
    MaxMoves,           \* bounds what the users do
    MaxFaults,          \* bounds the failures of Redis, Discord and PostgreSQL
    Horizon             \* bounds the clock

OrNull(S) == S \cup {Null}

ASSUME SessionAssumption ==
    /\ Root \in Pages
    /\ Nameless \subseteq Users
    /\ Null \notin Tabs \cup Users \cup (Nat \ {0})
    /\ TTL \in Nat \ {0}
    /\ {MaxMoves, MaxFaults, Horizon} \subseteq Nat

VARIABLES
    tab,                \* what each tab is at
    jar,                \* the cookie of each browser
    sessions,           \* Redis: the sessions by their id
    saved,              \* Redis: the sessions of its last snapshot
    cached,             \* grafana_meta.cache_data: users with a committed row
    lock,               \* the tab whose transaction has inserted a user's row
    granted,            \* who logged in for each id (history)
    loggedOut,          \* the ids whose logout deleted them (history)
    shaken,             \* the ids a crash of Redis lost or brought back (history)
    now, moves, faults

store == <<sessions, saved>>
grafana == <<cached, lock>>
history == <<granted, loggedOut, shaken>>
bounds == <<now, moves, faults>>
vars == <<tab, jar, store, grafana, history, bounds>>

\* With no page load, with its page shown, or with an error instead of it.
Ended == {"idle", "shown", "failed", "error"}

\* proxy, between its awaits and inside Grafana
Trusted == {"cache", "inserted", "forward", "miss"}

Steps == Ended \cup Trusted
    \cup {"proxy", "login", "discord", "callback", "storing", "landing", "logout", "leaving"}

Ids == Nat \ {0}

Tab == [at : Steps, browser : Browsers, page : Pages,
        asked : Pages,              \* what the user asked for (history)
        away : BOOLEAN,             \* proxy has sent it to /logout (history)
        sid : OrNull(Ids),          \* the id in the cookie, or the new one
        user : OrNull(Users)]

Cookie == [sid : Ids, until : Nat]
Session == [user : Users, until : Nat]
NoSessions == [s \in {} |-> Null]

SessionInit ==
    /\ tab \in [Tabs -> [at : {"idle"}, browser : Browsers, page : {Root},
                         asked : {Root}, away : {FALSE}, sid : {Null}, user : {Null}]]
    /\ jar = [b \in Browsers |-> Null]
    /\ sessions = NoSessions
    /\ saved = NoSessions
    /\ cached = {}
    /\ lock = [u \in Users |-> Null]
    /\ granted = <<>>
    /\ loggedOut = {}
    /\ shaken = {}
    /\ now = 0 /\ moves = 0 /\ faults = 0

-----------------------------------------------------------------------------
Sent(b) == IF jar[b] = Null THEN Null ELSE jar[b].sid

Move(t, step) == tab' = [tab EXCEPT ![t] = [@ EXCEPT !.at = step]]

\* The page load ends; nothing else of it is left.
End(t, step) ==
    tab' = [tab EXCEPT ![t] =
        [@ EXCEPT !.at = step, !.page = Root, !.asked = Root, !.away = FALSE,
                  !.sid = Null, !.user = Null]]

\* A redirect to /logout, which the browser follows with the cookie it has then.
Dismiss(t) ==
    tab' = [tab EXCEPT ![t] =
        [@ EXCEPT !.at = "logout", !.away = TRUE, !.sid = Sent(tab[t].browser),
                  !.user = Null]]

\* /login does not look at the cookie.
ToLogin(t, page) ==
    tab' = [tab EXCEPT ![t] = [@ EXCEPT !.at = "login", !.page = page, !.sid = Null]]

Fault == faults < MaxFaults /\ faults' = faults + 1

Without(f, S) == [x \in DOMAIN f \ S |-> f[x]]

\* The user opens a page, or logs out, in a tab of some browser.
Open(t, step, p) ==
    /\ tab[t].at \in Ended
    /\ moves < MaxMoves
    /\ moves' = moves + 1
    /\ tab' = [tab EXCEPT ![t] =
          [@ EXCEPT !.at = step, !.page = p, !.asked = p, !.away = FALSE,
                    !.sid = Sent(tab[t].browser)]]
    /\ UNCHANGED <<jar, store, grafana, history, now, faults>>

Ask(t) == \E p \in Pages : Open(t, "proxy", p)

AskLogout(t) == Open(t, "logout", Root)

-----------------------------------------------------------------------------
\* get_current_user: what Redis has for the cookie.
Valid(t) == tab[t].sid \in DOMAIN sessions

\* 401, which proxy turns into a redirect to /login with the path.
SendToLogin(t) ==
    /\ tab[t].at = "proxy"
    /\ ~Valid(t)
    /\ ToLogin(t, tab[t].page)
    /\ UNCHANGED <<jar, store, grafana, history, bounds>>

StoreUnreachable(t) ==
    /\ tab[t].at \in {"proxy", "logout"}
    /\ tab[t].sid # Null
    /\ Fault
    /\ End(t, "error")
    /\ UNCHANGED <<jar, store, grafana, history, now, moves>>

SendNamelessAway(t) ==
    /\ tab[t].at = "proxy"
    /\ Valid(t)
    /\ sessions[tab[t].sid].user \in Nameless
    /\ Dismiss(t)
    /\ UNCHANGED <<jar, store, grafana, history, bounds>>

\* The user of the session is the one that proxy itself works for from here on.
\* The headers of the client, which it copies beside its own, are left out.
Authenticate(t) ==
    /\ tab[t].at = "proxy"
    /\ Valid(t)
    /\ sessions[tab[t].sid].user \notin Nameless
    /\ tab' = [tab EXCEPT ![t] =
          [@ EXCEPT !.at = "cache", !.user = sessions[tab[t].sid].user]]
    /\ UNCHANGED <<jar, store, grafana, history, bounds>>

\* maybe_initialize_cache: INSERT ... ON CONFLICT DO NOTHING waits for a
\* transaction that has inserted the same key.
InsertCacheRow(t) ==
    LET u == tab[t].user IN
    /\ tab[t].at = "cache"
    /\ u \in cached \/ lock[u] = Null
    /\ lock' = IF u \in cached THEN lock ELSE [lock EXCEPT ![u] = t]
    /\ Move(t, "inserted")
    /\ UNCHANGED <<jar, store, cached, history, bounds>>

DatabaseUnreachable(t) ==
    /\ tab[t].at = "cache"
    /\ Fault
    /\ End(t, "error")
    /\ UNCHANGED <<jar, store, grafana, history, now, moves>>

\* Mutant: the connection is not given back.
Keep(t) == lock

Release(t) == [u \in Users |-> IF lock[u] = t THEN Null ELSE lock[u]]

\* The end of "async with": the session is closed, and the transaction, which
\* nothing has committed, is rolled back.
CloseDatabaseSession(t) ==
    /\ tab[t].at = "inserted"
    /\ lock' = Release(t)
    /\ Move(t, "forward")
    /\ UNCHANGED <<jar, store, cached, history, bounds>>

-----------------------------------------------------------------------------
(***************************************************************************)
(* Grafana, as maybe_initialize_cache describes it: it looks for the       *)
(* user's row, and without one it inserts it, with no ON CONFLICT.         *)
(***************************************************************************)
GrafanaHit(t) ==
    /\ tab[t].at = "forward"
    /\ tab[t].user \in cached
    /\ End(t, "shown")
    /\ UNCHANGED <<jar, store, grafana, history, bounds>>

GrafanaMiss(t) ==
    /\ tab[t].at = "forward"
    /\ tab[t].user \notin cached
    /\ Move(t, "miss")
    /\ UNCHANGED <<jar, store, grafana, history, bounds>>

GrafanaInsert(t) ==
    LET u == tab[t].user IN
    /\ tab[t].at = "miss"
    /\ u \in cached \/ lock[u] = Null
    /\ End(t, IF u \in cached THEN "failed" ELSE "shown")
    /\ cached' = cached \cup {u}
    /\ UNCHANGED <<jar, store, lock, history, bounds>>

\* The request times out, or Grafana is down.
GrafanaUnreachable(t) ==
    /\ tab[t].at = "forward"
    /\ Fault
    /\ End(t, "error")
    /\ UNCHANGED <<jar, store, grafana, history, now, moves>>

-----------------------------------------------------------------------------
\* Mutant: the path is not passed on.
ForgottenState(page) == Root

\* The "next" that /login puts into "state".
State(page) == page

Login(t) ==
    /\ tab[t].at = "login"
    /\ tab' = [tab EXCEPT ![t] =
          [@ EXCEPT !.at = "discord", !.page = State(tab[t].page)]]
    /\ UNCHANGED <<jar, store, grafana, history, bounds>>

\* The user authorizes as one of the accounts, or declines: no code.
Consent(t) ==
    /\ tab[t].at = "discord"
    /\ moves < MaxMoves
    /\ moves' = moves + 1
    /\ \E u \in OrNull(Users) :
          tab' = [tab EXCEPT ![t] = [@ EXCEPT !.at = "callback", !.user = u]]
    /\ UNCHANGED <<jar, store, grafana, history, now, faults>>

RefuseMissingCode(t) ==
    /\ tab[t].at = "callback"
    /\ tab[t].user = Null
    /\ End(t, "error")
    /\ UNCHANGED <<jar, store, grafana, history, bounds>>

\* The code for a token, and the token for the user.
ExchangeCode(t) ==
    /\ tab[t].at = "callback"
    /\ tab[t].user # Null
    /\ Move(t, "storing")
    /\ UNCHANGED <<jar, store, grafana, history, bounds>>

\* raise_for_status, or redis.set: neither is caught.
CallbackFails(t) ==
    /\ tab[t].at \in {"callback", "storing"}
    /\ tab[t].user # Null
    /\ Fault
    /\ End(t, "error")
    /\ UNCHANGED <<jar, store, grafana, history, now, moves>>

\* Mutant: all logins share one session.
SharedId == 1

\* Mutant: the id of the session before, which the first login does not have.
LastId == Len(granted)

\* uuid4: an id nobody has had.
NewId == Len(granted) + 1

\* The "ex" of redis.set and the max_age of the cookie.
Expiry == now + TTL

StoreSession(t) ==
    /\ tab[t].at = "storing"
    /\ sessions' = [s \in DOMAIN sessions \cup {NewId} |->
          IF s = NewId THEN [user |-> tab[t].user, until |-> Expiry] ELSE sessions[s]]
    /\ granted' = Append(granted, [browser |-> tab[t].browser, user |-> tab[t].user,
                                   born |-> now])
    /\ tab' = [tab EXCEPT ![t] = [@ EXCEPT !.at = "landing", !.sid = NewId, !.user = Null]]
    /\ UNCHANGED <<jar, saved, grafana, loggedOut, shaken, bounds>>

\* The browser stores the cookie and follows the redirect to "state".
Land(t) ==
    /\ tab[t].at = "landing"
    /\ jar' = [jar EXCEPT ![tab[t].browser] = [sid |-> tab[t].sid, until |-> now + TTL]]
    /\ Move(t, "proxy")
    /\ UNCHANGED <<store, grafana, history, bounds>>

-----------------------------------------------------------------------------
\* Mutant: the cookie goes, the session stays.
KeptSession(t) == sessions

\* Mutant: all sessions go.
NoneKept(t) == NoSessions

AfterDelete(t) == Without(sessions, {tab[t].sid})

Logout(t) ==
    /\ tab[t].at = "logout"
    /\ sessions' = AfterDelete(t)
    /\ loggedOut' = loggedOut \cup ({tab[t].sid} \ {Null})
    /\ Move(t, "leaving")
    /\ UNCHANGED <<jar, saved, grafana, granted, shaken, bounds>>

\* The browser drops the cookie it has by now and follows the redirect to /login,
\* which has no "next": the path, if there was one, is gone.
LandLogout(t) ==
    /\ tab[t].at = "leaving"
    /\ jar' = [jar EXCEPT ![tab[t].browser] = Null]
    /\ tab' = [tab EXCEPT ![t] =
          [@ EXCEPT !.at = "login", !.page = Root, !.sid = Null]]
    /\ UNCHANGED <<store, grafana, history, bounds>>

\* The user closes the tab, or a response never arrives.
Leave(t) ==
    /\ tab[t].at \in {"login", "discord", "landing", "leaving"}
    /\ End(t, "idle")
    /\ UNCHANGED <<jar, store, grafana, history, bounds>>

-----------------------------------------------------------------------------
\* Redis drops the sessions and the browsers the cookies that are over, and
\* Grafana may drop rows of its cache.
Live(f, time) == Without(f, {s \in DOMAIN f : f[s].until <= time})

Tick ==
    /\ now < Horizon
    /\ now' = now + 1
    /\ sessions' = Live(sessions, now')
    /\ jar' = [b \in Browsers |->
          IF jar[b] # Null /\ jar[b].until <= now' THEN Null ELSE jar[b]]
    /\ \E gone \in SUBSET cached : cached' = cached \ gone
    /\ UNCHANGED <<tab, saved, lock, history, moves, faults>>

\* redis-server --save 60 1: a snapshot now and then.
SaveSnapshot ==
    /\ faults < MaxFaults
    /\ saved' = sessions
    /\ UNCHANGED <<tab, jar, sessions, grafana, history, bounds>>

RestartRedis ==
    /\ Fault
    /\ sessions' = Live(saved, now)
    /\ shaken' = shaken \cup (DOMAIN sessions \ DOMAIN sessions')
                        \cup (DOMAIN sessions' \ DOMAIN sessions)
    /\ UNCHANGED <<tab, jar, saved, grafana, granted, loggedOut, now, moves>>

-----------------------------------------------------------------------------
Proxy(t) ==
    \/ SendToLogin(t) \/ StoreUnreachable(t) \/ SendNamelessAway(t) \/ Authenticate(t)
    \/ InsertCacheRow(t) \/ DatabaseUnreachable(t) \/ CloseDatabaseSession(t)
    \/ GrafanaHit(t) \/ GrafanaMiss(t) \/ GrafanaInsert(t) \/ GrafanaUnreachable(t)

Callback(t) ==
    \/ RefuseMissingCode(t) \/ ExchangeCode(t) \/ CallbackFails(t)
    \/ StoreSession(t) \/ Land(t)

\* What the proxy, Grafana and the browser do of their own accord.
Serve(t) == Proxy(t) \/ Login(t) \/ Callback(t) \/ Logout(t) \/ LandLogout(t)

SessionNext ==
    \/ \E t \in Tabs : Serve(t) \/ Ask(t) \/ AskLogout(t) \/ Consent(t) \/ Leave(t)
    \/ Tick \/ SaveSnapshot \/ RestartRedis

SessionSpec == SessionInit /\ [][SessionNext]_vars

\* The event loop resumes every handler whose await is over, the browser
\* follows redirects, and PostgreSQL hands over a row that is free again.
FairSessionSpec == SessionSpec /\ \A t \in Tabs : WF_vars(Serve(t))

-----------------------------------------------------------------------------
SessionTypeOK ==
    /\ tab \in [Tabs -> Tab]
    /\ jar \in [Browsers -> OrNull(Cookie)]
    /\ \A f \in {sessions, saved} :
          DOMAIN f \subseteq 1..Len(granted) /\ \A s \in DOMAIN f : f[s] \in Session
    /\ cached \subseteq Users
    /\ lock \in [Users -> OrNull(Tabs)]
    /\ granted \in Seq([browser : Browsers, user : Users, born : Nat])
    /\ loggedOut \subseteq 1..Len(granted)
    /\ shaken \subseteq 1..Len(granted)
    /\ now \in 0..Horizon
    /\ moves \in 0..MaxMoves
    /\ faults \in 0..MaxFaults

(***************************************************************************)
(* The account that proxy works for - whose row it puts into Grafana's     *)
(* cache and whose name it adds to the request - is the one that this very *)
(* browser logged in with, whatever the other tabs and browsers log in,    *)
(* out and over in the meantime (api_handler.py:184-226).  Which header    *)
(* Grafana goes by where the client has sent one of its own is not said.   *)
(***************************************************************************)
ActsForOwner ==
    \A t \in Tabs : tab[t].at \in Trusted =>
        /\ tab[t].sid \in 1..Len(granted)
        /\ granted[tab[t].sid].browser = tab[t].browser
        /\ granted[tab[t].sid].user = tab[t].user

Fresh(s) == now < granted[s].born + TTL

(***************************************************************************)
(* proxy lets a request pass only within TTL of its login, and never after *)
(* the logout that deleted its session - unless a crash of Redis has       *)
(* brought the session back.                                               *)
(***************************************************************************)
PassesOnlyWhileValid ==
    [][\A t \in Tabs : tab[t].at = "proxy" /\ tab'[t].at \in Trusted =>
          LET s == tab[t].sid IN Fresh(s) /\ (s \in loggedOut => s \in shaken)]_vars

(***************************************************************************)
(* A browser that shows a cookie is asked to log in again only when its    *)
(* session is over: it is too old, or logged out in some tab, or Redis     *)
(* crashed.  In particular a login is never asked for twice in a row.      *)
(***************************************************************************)
AskedAgainOnlyWhenOver ==
    [][\A t \in Tabs :
          tab[t].at = "proxy" /\ tab[t].sid # Null /\ tab'[t].at = "login" =>
              LET s == tab[t].sid IN ~Fresh(s) \/ s \in loggedOut \/ s \in shaken]_vars

(***************************************************************************)
(* "Pass original path in state for post-auth redirect": through logins,   *)
(* expiry and the other tabs a page load is for the path that was asked    *)
(* for.  One way loses it: proxy sends a user without a name to /logout,   *)
(* which goes on to /login without a path (api_handler.py:222, 127).       *)
(***************************************************************************)
KeepsPage(load) ==
    \/ load.page = load.asked
    \/ load.away /\ load.page = Root

PageSurvivesLogin == \A t \in Tabs : tab[t].at \notin Ended => KeepsPage(tab[t])

(***************************************************************************)
(* Every page load ends, or waits for the user at Discord: no handler      *)
(* waits for ever for the row of the cache that another one holds.         *)
(***************************************************************************)
EveryLoadEnds ==
    \A t \in Tabs : tab[t].at = "proxy" ~> tab[t].at \in Ended \cup {"discord"}

(***************************************************************************)
(* The claim of maybe_initialize_cache: "We bypass this by initializing    *)
(* the cache before we proxy the request to Grafana."  It does not: the    *)
(* INSERT is rolled back, and two requests on a cold cache still collide.  *)
(***************************************************************************)
NoColdCacheRace == \A t \in Tabs : tab[t].at # "failed"

=============================================================================
