------------------------------- MODULE Access -------------------------------
(***************************************************************************)
(* Who may see which retro: the callback of auth.rs lists the teams of the *)
(* configured organisations at GitHub, page by page, and caches them in    *)
(* the session; list_retros and require_retro_access of handlers.rs go by  *)
(* what is cached.                                                         *)
(*                                                                         *)
(* GitHub's lists change between two pages: a page is cut out of the list  *)
(* as it is then.  One user logs in again and again; other admins create   *)
(* and delete retros.  How sessions are issued and end is the subject of   *)
(* module Sessions.                                                        *)
(***************************************************************************)
EXTENDS Integers, Sequences, FiniteSets, SequencesExt

CONSTANTS
    Names,          \* slugs of teams within an organisation
    Configs,        \* values of github_user_orgs: sequences that may name one twice
    PageSize,       \* the 100 of per_page
    Slugs,          \* slugs of retros
    MaxTeams        \* bound: teams of an organisation

Orgs == UNION {ToSet(c) : c \in Configs}

\* The organisation of a slug without one.
Bare == "bare"

ASSUME AccessAssumption ==
    /\ Configs \subseteq Seq(Orgs)
    /\ Bare \notin Orgs
    /\ PageSize \in Nat \ {0}
    /\ MaxTeams \in Nat
    /\ IsFiniteSet(Names)

VARIABLES
    user_orgs,      \* config.github_user_orgs, read when the process starts
    github,         \* github[o]: the teams of o that the user can see, as GitHub lists them
    login,          \* the callback while it resolves teams
    session,        \* the session of the user: what the last login has cached
    retros,         \* retros[r]: the team_slug of retro r
    throughout,     \* the teams seen at GitHub since the login began (history)
    shrunk          \* the organisations that lost a team since then (history)

vars == <<user_orgs, github, login, session, retros, throughout, shrunk>>

TeamSlugs == [org : Orgs \cup {Bare}, name : Names]
Qualified == [org : Orgs, name : Names]
NoTeam    == [org |-> "none", name |-> "none"]

Idle      == [pc |-> "idle", nth |-> 0, offset |-> 0, page |-> << >>, teams |-> << >>,
              errors |-> << >>, admin |-> FALSE]
NoSession == [valid |-> FALSE, admin |-> FALSE, teams |-> {}, errors |-> << >>]

\* The teams of the configured organisations.
AtGitHub == {t \in Qualified : t.org \in ToSet(user_orgs) /\ t.name \in ToSet(github[t.org])}

-----------------------------------------------------------------------------
(* GitHub.                                                                  *)

TeamAppears(o, n) ==
    /\ Len(github[o]) < MaxTeams
    /\ n \notin ToSet(github[o])
    /\ \E k \in 1 .. Len(github[o]) + 1 : github' = [github EXCEPT ![o] = InsertAt(@, k, n)]
    /\ UNCHANGED <<user_orgs, login, session, retros, throughout, shrunk>>

TeamDisappears(o, n) ==
    /\ \E k \in DOMAIN github[o] :
          /\ github[o][k] = n
          /\ github' = [github EXCEPT ![o] = RemoveAt(@, k)]
    /\ throughout' = throughout \ {[org |-> o, name |-> n]}
    /\ shrunk' = shrunk \cup {o}
    /\ UNCHANGED <<user_orgs, login, session, retros>>

-----------------------------------------------------------------------------
(* Logging in.                                                              *)

\* The callback has revoked the old session, and asks whether the user is an
\* admin; an error counts as no.
StartListing ==
    /\ login.pc = "idle"
    /\ \E admin \in BOOLEAN :
          login' = [Idle EXCEPT !.pc = "listing", !.nth = 1, !.admin = admin]
    /\ session' = NoSession
    /\ throughout' = AtGitHub
    /\ shrunk' = {}
    /\ UNCHANGED <<user_orgs, github, retros>>

Listing == login.pc = "listing" /\ login.nth <= Len(user_orgs)
Org     == user_orgs[login.nth]

\* The Link header of the response has a rel="next".
HasNext == login.offset + PageSize < Len(github[Org])

PageOf(list, offset) ==
    SubSeq(list, offset + 1, IF offset + PageSize < Len(list) THEN offset + PageSize ELSE Len(list))

\* Mutation: the last page alone.
LastPage == PageOf(github[Org], login.offset)

\* teams.extend
Pages == login.page \o PageOf(github[Org], login.offset)

\* The slug is qualified with the organisation.
CachedTeams(o, names) == [k \in DOMAIN names |-> [org |-> o, name |-> names[k]]]

FetchPage ==
    /\ Listing
    /\ login' = IF HasNext
                THEN [login EXCEPT !.offset = @ + PageSize, !.page = Pages]
                ELSE [login EXCEPT !.nth = @ + 1, !.offset = 0, !.page = << >>,
                                   !.teams = @ \o CachedTeams(Org, Pages)]
    /\ UNCHANGED <<user_orgs, github, session, retros, throughout, shrunk>>

\* Mutation: the pages before the error count.
KeepsPages == login.teams \o CachedTeams(Org, login.page)

\* list_org_teams returns the error, and no teams.
DropsPages == login.teams

\* Mutation: the organisation is tried again.
Retried == [login EXCEPT !.offset = 0, !.page = << >>]

\* The error is remembered, and the next organisation is asked.
AfterError == [login EXCEPT !.nth = @ + 1, !.offset = 0, !.page = << >>, !.teams = DropsPages,
                            !.errors = Append(@, Org)]

\* An error of GitHub or of the network, on any page.
FetchFails ==
    /\ Listing
    /\ login' = AfterError
    /\ UNCHANGED <<user_orgs, github, session, retros, throughout, shrunk>>

\* teams.retain keeps one team of each slug; nobody asks for their order.
Retained(teams) == ToSet(teams)

CreateSession ==
    /\ login.pc = "listing"
    /\ ~ Listing
    /\ session' = [valid |-> TRUE, admin |-> login.admin, teams |-> Retained(login.teams),
                   errors |-> login.errors]
    /\ login' = Idle
    /\ UNCHANGED <<user_orgs, github, retros, throughout, shrunk>>

\* The browser goes away, or the process ends.
LoginEnds ==
    /\ login.pc = "listing"
    /\ login' = Idle
    /\ UNCHANGED <<user_orgs, github, session, retros, throughout, shrunk>>

-----------------------------------------------------------------------------
(* Retros.                                                                  *)

\* create_retro by some admin; the form may send any team, and rows from before
\* there were several organisations have a bare one.
CreateRetro(r, team) ==
    /\ retros[r] = NoTeam
    /\ retros' = [retros EXCEPT ![r] = team]
    /\ UNCHANGED <<user_orgs, github, login, session, throughout, shrunk>>

DeleteRetro(r) ==
    /\ retros[r] # NoTeam
    /\ retros' = [retros EXCEPT ![r] = NoTeam]
    /\ UNCHANGED <<user_orgs, github, login, session, throughout, shrunk>>

\* Mutation: slugs are compared as they are.
SameSlug(s, team) == s = team

\* s == team_slug || s.ends_with("/" + team_slug)
Matches(s, team) == s = team \/ (team.org = Bare /\ s.org # Bare /\ s.name = team.name)

\* is_member_of_team
IsMember(team) == session.admin \/ \E s \in session.teams : Matches(s, team)

\* require_retro_access
Opens(r) == session.valid /\ retros[r] # NoTeam /\ IsMember(retros[r])

\* The slugs of list_retros: the cached ones and their bare forms.
ListedSlugs ==
    session.teams \cup
        {[org |-> Bare, name |-> s.name] : s \in {x \in session.teams : x.org # Bare}}

\* list_retros
Lists(r) ==
    /\ session.valid
    /\ retros[r] # NoTeam
    /\ session.admin \/ retros[r] \in ListedSlugs

-----------------------------------------------------------------------------
Init ==
    /\ user_orgs \in Configs
    /\ github = [o \in Orgs |-> << >>]
    /\ login = Idle
    /\ session = NoSession
    /\ retros = [r \in Slugs |-> NoTeam]
    /\ throughout = {}
    /\ shrunk = {}

Next ==
    \/ \E o \in ToSet(user_orgs), n \in Names : TeamAppears(o, n) \/ TeamDisappears(o, n)
    \/ StartListing
    \/ FetchPage
    \/ FetchFails
    \/ CreateSession
    \/ LoginEnds
    \/ \E r \in Slugs, team \in TeamSlugs : CreateRetro(r, team)
    \/ \E r \in Slugs : DeleteRetro(r)

Spec == Init /\ [][Next]_vars

\* GitHub answers each request, or fails.
FairSpec == Spec /\ WF_vars(FetchPage \/ FetchFails) /\ WF_vars(CreateSession)

-----------------------------------------------------------------------------
Twice(o) == Cardinality({k \in DOMAIN user_orgs : user_orgs[k] = o}) > 1

\* A retro is listed to a user exactly when it opens, for admins, members and
\* retros from before team slugs were qualified.
ListedOpens == \A r \in Slugs : Lists(r) <=> Opens(r)

\* At the end of a login each team that was visible all the time is found, or
\* its organisation is named as one that could not be listed.  It takes a
\* removal, which moves teams to pages that were already fetched, to miss one.
TeamsFound ==
    login.pc = "listing" /\ ~ Listing =>
        \A t \in throughout :
            t.org \in shrunk \/ t.org \in ToSet(login.errors) \/ t \in ToSet(login.teams)

\* An organisation that is named as one that could not be listed has no teams
\* in the session, not even those of the pages before the error, unless it is
\* configured twice and was listed the other time.
ErrorsHaveNoTeams ==
    \A s \in session.teams : s.org \in ToSet(session.errors) => Twice(s.org)

\* Following the pages comes to an end whatever GitHub's list does meanwhile, as
\* long as it is bounded, and an organisation that fails does not hold the login up.
LoginComesToEnd == login.pc = "listing" ~> login.pc = "idle"
=============================================================================
