------------------------------ MODULE Sessions ------------------------------
(***************************************************************************)
(* Logins and sessions: auth.rs, the sessions table and the fresh login    *)
(* that delete_retro of handlers.rs asks for.                              *)
(*                                                                         *)
(* A handler is a sequence of statements with awaits between them, and the *)
(* requests of all browsers run at the same time.  The clock counts units  *)
(* in which a request is short: it may see one tick, not two.  Logins wait *)
(* for GitHub, and for their user, as long as they please.                 *)
(*                                                                         *)
(* Whether GitHub calls a user an admin is nondeterministic, which covers  *)
(* the failed check; the teams that are cached with the answer take part   *)
(* in no decision made here and are left out.  Demo mode has no sessions.  *)
(***************************************************************************)
EXTENDS Integers

CONSTANTS
    Browsers,       \* cookie jars
    Logins,         \* tabs in which somebody may log in
    Jar,            \* Jar[f]: the browser of login f
    Account,        \* Account[f]: the user who logs in with f
    IdleAge,        \* SESSION_MAX_AGE_SECONDS
    AbsoluteAge,    \* SESSION_ABSOLUTE_MAX_AGE_SECONDS
    ReauthAge,      \* ADMIN_REAUTH_MAX_AGE_SECONDS
    MaxLogins,      \* bound: logins that are started
    MaxNow          \* bound: the last tick of the clock

ASSUME SessionsAssumption ==
    /\ Jar \in [Logins -> Browsers]
    /\ IdleAge \in Nat \ {0}
    /\ AbsoluteAge \in Nat \ {0}
    /\ ReauthAge \in Nat \ {0}
    /\ MaxLogins \in Nat
    /\ MaxNow \in Nat
    /\ "none" \notin Logins

VARIABLES
    now,            \* NOW() and Utc::now()
    row,            \* row[s]: the session with id s, the last data if it is gone
    table,          \* the ids in the sessions table
    issued,         \* how many ids were given out
    started,        \* how many logins were started
    oauth,          \* oauth[b]: the login whose state token is in the cookie of b
    cookie,         \* cookie[b]: the session cookie of b, with its Max-Age
    login,          \* login[f]: how far login f is
    req,            \* req[b]: the request of b in flight
    used,           \* used[s]: when session s last let a request in (history)
    deletions       \* the retros deleted, with what allowed it (history)

dbVars == <<row, table, issued>>
tabVars == <<oauth, cookie>>
vars == <<now, dbVars, started, tabVars, login, req, used, deletions>>

None == "none"

Ids == 1 .. MaxLogins

NoSession == 0

NoRow == [user |-> None, admin |-> FALSE, created |-> 0, expires |-> 0, after |-> 0]

NoCookie == [id |-> NoSession, until |-> 0]

NoLogin == [pc |-> "idle", after |-> 0, admin |-> FALSE]

NoRequest == [pc |-> "idle", kind |-> None, id |-> NoSession, at |-> 0, expires |-> 0,
              present |-> FALSE, checked |-> 0]

Kinds == {"page", "logout", "delete_retro"}

Lower(a, b) == IF a < b THEN a ELSE b
Higher(a, b) == IF a < b THEN b ELSE a

\* WHERE s.expires_at > NOW()
Valid(s) == s \in table /\ row[s].expires > now

-----------------------------------------------------------------------------
(* Logging in.                                                              *)

\* login: a fresh state token goes to GitHub and into the cookie.
StartLogin(f) ==
    /\ login[f].pc = "idle"
    /\ started < MaxLogins
    /\ started' = started + 1
    /\ login' = [login EXCEPT ![f] = [NoLogin EXCEPT !.pc = "authorizing"]]
    /\ oauth' = [oauth EXCEPT ![Jar[f]] = f]
    /\ UNCHANGED <<now, dbVars, cookie, req, used, deletions>>

\* The cookie with the state token ends after ten minutes.
StateCookieEnds(b) ==
    /\ oauth[b] # None
    /\ oauth' = [oauth EXCEPT ![b] = None]
    /\ UNCHANGED <<now, dbVars, cookie, login, req, used, deletions, started>>

\* GitHub sends the user back.  The state must be the one of the cookie, or it is
\* error 400.
Callback(f) ==
    /\ login[f].pc = "authorizing"
    /\ login' = [login EXCEPT ![f] = IF oauth[Jar[f]] = f
                                     THEN [NoLogin EXCEPT !.pc = "exchanging"] ELSE NoLogin]
    /\ UNCHANGED <<now, dbVars, tabVars, req, used, deletions, started>>

\* The code is exchanged for a token, the user fetched and stored.
Exchange(f) ==
    /\ login[f].pc = "exchanging"
    /\ login' = [login EXCEPT ![f].pc = "revoking"]
    /\ UNCHANGED <<now, dbVars, tabVars, req, used, deletions, started>>

\* Mutation: only what the browser itself presents is revoked.
OwnSession(f) == {cookie[Jar[f]].id}

\* DELETE FROM sessions WHERE user_id = $1
Revoked(f) == {s \in table : row[s].user = Account[f]}

RevokeOldSessions(f) ==
    /\ login[f].pc = "revoking"
    /\ table' = table \ Revoked(f)
    /\ login' = [login EXCEPT ![f].pc = "resolving", ![f].after = issued]
    /\ UNCHANGED <<now, row, issued, tabVars, req, used, deletions, started>>

\* is_team_member, where an error counts as no, and list_org_teams.
ResolveTeams(f) ==
    /\ login[f].pc = "resolving"
    /\ \E admin \in BOOLEAN :
          login' = [login EXCEPT ![f].pc = "creating", ![f].admin = admin]
    /\ UNCHANGED <<now, dbVars, tabVars, req, used, deletions, started>>

\* Mutation: a sign.
ExpiredAtOnce == Lower(now - IdleAge, now + AbsoluteAge)

\* (now + idle).min(now + absolute)
FirstExpiry == Lower(now + IdleAge, now + AbsoluteAge)

\* create_session, and the response with the two cookies, which may get lost.
CreateSession(f) ==
    /\ login[f].pc = "creating"
    /\ issued < MaxLogins
    /\ LET s == issued + 1
       IN  /\ issued' = s
           /\ table' = table \cup {s}
           /\ row' = [row EXCEPT ![s] =
                  [user |-> Account[f], admin |-> login[f].admin, created |-> now,
                   expires |-> FirstExpiry,
                   after |-> login[f].after]]
           /\ used' = [used EXCEPT ![s] = now]
           /\ \/ /\ cookie' = [cookie EXCEPT ![Jar[f]] = [id |-> s, until |-> now + IdleAge]]
                 /\ oauth' = [oauth EXCEPT ![Jar[f]] = None]
              \/ UNCHANGED tabVars
    /\ login' = [login EXCEPT ![f] = NoLogin]
    /\ UNCHANGED <<now, req, deletions, started>>

\* GitHub or the database fails, or the user gives up: nothing is undone.
LoginFails(f) ==
    /\ login[f].pc # "idle"
    /\ login' = [login EXCEPT ![f] = NoLogin]
    /\ UNCHANGED <<now, dbVars, tabVars, req, used, deletions, started>>

-----------------------------------------------------------------------------
(* Requests.  AuthUser loads the session before the handler runs.           *)

\* A browser sends the cookie until its Max-Age is over.
Presents(b) == cookie[b].id # NoSession /\ now < cookie[b].until

\* Mutation: the deadline slides without a limit.
SlidingOnly(s) == now + IdleAge

\* (session.created_at + absolute).min(now + idle)
NewExpiry(s) == Lower(row[s].created + AbsoluteAge, now + IdleAge)

\* Mutation: the deadline slides only when a quarter of the window is left.
DueInQuarter(s) == 4 * (row[s].expires - now) < IdleAge

\* session.expires_at - now < idle / 2
DueToSlide(s) == 2 * (row[s].expires - now) < IdleAge

\* load_session reads a valid row.
Request(b, kind) ==
    /\ req[b].pc = "idle"
    /\ Presents(b)
    /\ LET s == cookie[b].id
           r == [NoRequest EXCEPT !.kind = kind, !.id = s, !.at = now]
       IN  /\ Valid(s)
           /\ IF DueToSlide(s)
              THEN /\ req' = [req EXCEPT ![b] = [r EXCEPT !.pc = "slide",
                                                          !.expires = NewExpiry(s)]]
                   /\ UNCHANGED used
              ELSE /\ req' = [req EXCEPT ![b] = [r EXCEPT !.pc = "handle"]]
                   /\ used' = [used EXCEPT ![s] = now]
    /\ UNCHANGED <<now, dbVars, tabVars, login, deletions, started>>

\* The session is not there or has expired: to the login page, cookie cleared.
\* Only the home page, which needs no user, leaves the cookie.
RequestRefused(b) ==
    /\ req[b].pc = "idle"
    /\ Presents(b)
    /\ ~Valid(cookie[b].id)
    /\ cookie' = [cookie EXCEPT ![b] = NoCookie]
    /\ UNCHANGED <<now, dbVars, oauth, login, req, used, deletions, started>>

\* Mutation: the row is written whether it is there or not.
Upserted(s) == table \cup {s}

\* An UPDATE leaves the table with the rows it has.
Updated(s) == table

\* UPDATE sessions SET expires_at = $2 WHERE id = $1, by what was read before.
Slide(b) ==
    /\ req[b].pc = "slide"
    /\ LET s == req[b].id
       IN  /\ row' = IF s \in table THEN [row EXCEPT ![s].expires = req[b].expires] ELSE row
           /\ table' = Updated(s)
           /\ used' = [used EXCEPT ![s] = Higher(@, req[b].at)]
    /\ req' = [req EXCEPT ![b].pc = "handle"]
    /\ UNCHANGED <<now, issued, tabVars, login, deletions, started>>

\* Any handler that needs a user and no more of the session.
ServePage(b) ==
    /\ req[b].pc = "handle" /\ req[b].kind = "page"
    /\ req' = [req EXCEPT ![b] = NoRequest]
    /\ UNCHANGED <<now, dbVars, tabVars, login, used, deletions, started>>

\* logout.  When the DELETE fails this is logged, and the cookie is cleared anyway.
Logout(b) ==
    /\ req[b].pc = "handle" /\ req[b].kind = "logout"
    /\ \/ table' = table \ {req[b].id}
       \/ UNCHANGED table
    /\ cookie' = [cookie EXCEPT ![b] = NoCookie]
    /\ req' = [req EXCEPT ![b] = NoRequest]
    /\ UNCHANGED <<now, row, issued, oauth, login, used, deletions, started>>

\* Mutation: the login age comes from the session that AuthUser has loaded.
FreshAsLoaded(s) == now - row[s].created < ReauthAge

\* SELECT created_at FROM sessions WHERE id = $1, by the age of the login
FreshLogin(s) == s \in table /\ now - row[s].created < ReauthAge

\* delete_retro: an admin, by the session loaded, whose login is fresh.
CheckLogin(b) ==
    /\ req[b].pc = "handle" /\ req[b].kind = "delete_retro"
    /\ LET s == req[b].id
       IN  req' = [req EXCEPT ![b] =
                     IF row[s].admin /\ FreshLogin(s)
                     THEN [@ EXCEPT !.pc = "delete", !.present = (s \in table), !.checked = now]
                     ELSE NoRequest]
    /\ UNCHANGED <<now, dbVars, tabVars, login, used, deletions, started>>

\* DELETE FROM retrospectives
DeleteRetro(b) ==
    /\ req[b].pc = "delete"
    /\ deletions' = deletions \cup {[id |-> req[b].id, at |-> req[b].checked,
                                     present |-> req[b].present]}
    /\ req' = [req EXCEPT ![b] = NoRequest]
    /\ UNCHANGED <<now, dbVars, tabVars, login, used, started>>

\* A statement fails: error 500, and the cookie stays.
RequestFails(b) ==
    /\ req[b].pc # "idle"
    /\ req' = [req EXCEPT ![b] = NoRequest]
    /\ UNCHANGED <<now, dbVars, tabVars, login, used, deletions, started>>

-----------------------------------------------------------------------------
\* The server goes down with what it was doing; when it is up again it deletes
\* the expired sessions.
Restart ==
    /\ table' = {s \in table : row[s].expires > now}
    /\ req' = [b \in Browsers |-> NoRequest]
    /\ login' = [f \in Logins |-> IF login[f].pc = "authorizing" THEN login[f] ELSE NoLogin]
    /\ UNCHANGED <<now, row, issued, tabVars, used, deletions, started>>

\* No request is older than a tick.
Tick ==
    /\ now < MaxNow
    /\ \A b \in Browsers : req[b].pc = "idle" \/ req[b].at = now
    /\ now' = now + 1
    /\ UNCHANGED <<dbVars, tabVars, login, req, used, deletions, started>>

Init ==
    /\ now = 1
    /\ row = [s \in Ids |-> NoRow]
    /\ table = {}
    /\ issued = 0
    /\ started = 0
    /\ oauth = [b \in Browsers |-> None]
    /\ cookie = [b \in Browsers |-> NoCookie]
    /\ login = [f \in Logins |-> NoLogin]
    /\ req = [b \in Browsers |-> NoRequest]
    /\ used = [s \in Ids |-> 0]
    /\ deletions = {}

LoginStep(f) ==
    \/ StartLogin(f) \/ Callback(f) \/ Exchange(f) \/ RevokeOldSessions(f)
    \/ ResolveTeams(f) \/ CreateSession(f) \/ LoginFails(f)

Handle(b) == Slide(b) \/ ServePage(b) \/ Logout(b) \/ CheckLogin(b) \/ DeleteRetro(b)

Next ==
    \/ \E f \in Logins : LoginStep(f)
    \/ \E b \in Browsers :
          \/ StateCookieEnds(b)
          \/ \E kind \in Kinds : Request(b, kind)
          \/ RequestRefused(b)
          \/ Handle(b)
          \/ RequestFails(b)
    \/ Restart
    \/ Tick

Spec == Init /\ [][Next]_vars

-----------------------------------------------------------------------------
Rows == [user : {None} \cup {Account[f] : f \in Logins}, admin : BOOLEAN, created : Nat,
         expires : Nat, after : Nat]

LoginPcs == {"idle", "authorizing", "exchanging", "revoking", "resolving", "creating"}

RequestPcs == {"idle", "slide", "handle", "delete"}

LoginStates == [pc : LoginPcs, after : Nat, admin : BOOLEAN]

RequestStates == [pc : RequestPcs, kind : Kinds \cup {None}, id : Nat, at : Nat,
                  expires : Nat, present : BOOLEAN, checked : Nat]

TypeOK ==
    /\ now \in Nat
    /\ row \in [Ids -> Rows]
    /\ issued \in 0 .. MaxLogins
    /\ started \in 0 .. MaxLogins
    /\ table \subseteq 1 .. issued
    /\ oauth \in [Browsers -> Logins \cup {None}]
    /\ cookie \in [Browsers -> [id : Nat, until : Nat]]
    /\ login \in [Logins -> LoginStates]
    /\ req \in [Browsers -> RequestStates]
    /\ used \in [Ids -> Nat]
    /\ deletions \subseteq [id : Nat, at : Nat, present : BOOLEAN]

\* However active its browser is and however its requests interleave, no session
\* is kept, and no request let in, beyond the absolute lifetime of the login.
WithinAbsolute ==
    /\ \A s \in table : row[s].expires <= row[s].created + AbsoluteAge
    /\ \A b \in Browsers : req[b].pc # "idle" =>
          req[b].at < row[req[b].id].created + AbsoluteAge

\* A session outlives its last request by half of the idle window at least, unless
\* its absolute lifetime ends, and by the whole window at most, also when requests
\* that loaded it at different times write its deadline in another order.
SlidingWindow ==
    \A s \in table :
        /\ row[s].expires <= used[s] + IdleAge
        /\ \/ 2 * (row[s].expires - used[s]) >= IdleAge
           \/ row[s].expires = row[s].created + AbsoluteAge

\* Of two sessions of a user the newer login had revoked the old ones before the
\* older session was there: only logins that overlap leave two sessions.
SurvivorsOverlap ==
    \A s, t \in table : s < t /\ row[s].user = row[t].user => row[t].after < s

\* A retro was deleted by an admin whose login was fresh and not revoked when it was
\* checked, although the session was loaded in a step before.
DeletionsFresh ==
    \A d \in deletions :
        /\ d.present
        /\ row[d.id].admin
        /\ d.at - row[d.id].created < ReauthAge

\* A session that was logged out, revoked or cleaned up never comes back, also not
\* by the deadline that a request in flight still writes.
GoneStaysGone == [][\A s \in 1 .. issued : s \notin table => s \notin table']_vars

\* A browser with a valid session that it uses keeps presenting it.  Refuted: the
\* deadline slides in the table only, and the cookie ends IdleAge after the login.
ActiveStaysLoggedIn ==
    \A b \in Browsers :
        LET s == cookie[b].id
        IN  s \in table /\ Valid(s) /\ 2 * (now - used[s]) < IdleAge => Presents(b)
=============================================================================
