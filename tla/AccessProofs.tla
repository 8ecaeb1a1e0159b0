---------------------------- MODULE AccessProofs ----------------------------
(***************************************************************************)
(* Theorems about Access, for any organisations, teams, retros and sizes   *)
(* of a page.                                                              *)
(***************************************************************************)
EXTENDS Access, SequenceTheorems, FiniteSetTheorems, TLAPS

Logins == [pc : {"idle", "listing"}, nth : Nat, offset : Nat, page : Seq(Names),
           teams : Seq(Qualified), errors : Seq(Orgs), admin : BOOLEAN]

TypeOK ==
    /\ user_orgs \in Seq(Orgs)
    /\ github \in [Orgs -> Seq(Names)]
    /\ login \in Logins
    /\ retros \in [Slugs -> TeamSlugs \cup {NoTeam}]
    /\ throughout \subseteq Qualified
    /\ shrunk \subseteq Orgs

\* What TeamsFound says of a team.
Accounted(t) ==
    t.org \in shrunk \/ t.org \in ToSet(login.errors) \/ t \in ToSet(login.teams)

\* The organisation of a team is still to be listed.
OrgAhead(t) ==
    \E j \in DOMAIN user_orgs :
        j > login.nth /\ user_orgs[j] = t.org /\ t.name \in ToSet(github[t.org])

\* It is being listed, and the team is on a page before the next one or after.
OnPages(t) ==
    /\ Listing
    /\ Org = t.org
    /\ \/ t.name \in ToSet(login.page)
       \/ \E k \in DOMAIN github[t.org] : k > login.offset /\ github[t.org][k] = t.name

ListInv ==
    login.pc = "listing" =>
        /\ login.nth >= 1
        /\ \A t \in throughout : Accounted(t) \/ OrgAhead(t) \/ OnPages(t)

IInv == TypeOK /\ ListInv

-----------------------------------------------------------------------------
(* Sequences.                                                               *)

LEMMA Concat ==
    ASSUME NEW S, NEW s \in Seq(S), NEW t \in Seq(S)
    PROVE  /\ s \o t \in Seq(S) /\ Len(s \o t) = Len(s) + Len(t)
           /\ \A k \in 1 .. Len(s) : (s \o t)[k] = s[k]
           /\ \A k \in 1 .. Len(t) : (s \o t)[Len(s) + k] = t[k]
  OBVIOUS

\* A team that appears moves others to later places only.
LEMMA Inserted ==
    ASSUME NEW S, NEW s \in Seq(S), NEW e \in S, NEW k \in 1 .. Len(s) + 1
    PROVE  /\ InsertAt(s, k, e) \in Seq(S)
           /\ \A m \in DOMAIN s : \E n \in DOMAIN InsertAt(s, k, e) :
                 n >= m /\ InsertAt(s, k, e)[n] = s[m]
<1> DEFINE a == SubSeq(s, 1, k - 1)
           b == SubSeq(s, k, Len(s))
           t == InsertAt(s, k, e)
<1>1. /\ a \in Seq(S) /\ Len(a) = k - 1
      /\ \A m \in 1 .. k - 1 : a[m] = s[m]
  OBVIOUS
<1>2. /\ b \in Seq(S) /\ Len(b) = Len(s) - k + 1
      /\ \A m \in 1 .. Len(s) - k + 1 : b[m] = s[k + m - 1]
  OBVIOUS
<1>3. t = a \o <<e>> \o b
  BY DEF InsertAt
<1>4. Len(s) \in Nat /\ DOMAIN s = 1 .. Len(s) /\ k \in Nat
  OBVIOUS
<1> HIDE DEF a, b, t
<1>5. /\ a \o <<e>> \in Seq(S) /\ Len(a \o <<e>>) = k
      /\ \A m \in 1 .. k - 1 : (a \o <<e>>)[m] = s[m]
  <2>1. <<e>> \in Seq(S) /\ Len(<<e>>) = 1
    OBVIOUS
  <2>2. a \o <<e>> \in Seq(S) /\ Len(a \o <<e>>) = k
    BY <1>1, <1>4, <2>1
  <2>3. \A m \in 1 .. k - 1 : (a \o <<e>>)[m] = a[m]
    BY <1>1, <1>4, <2>1
  <2> QED BY <1>1, <2>2, <2>3
<1>6. /\ t \in Seq(S) /\ Len(t) = Len(s) + 1
      /\ \A m \in 1 .. k - 1 : t[m] = s[m]
      /\ \A m \in 1 .. Len(s) - k + 1 : t[k + m] = s[k + m - 1]
  <2> DEFINE c == a \o <<e>>
  <2>1. t = c \o b /\ c \in Seq(S) /\ Len(c) = k /\ \A m \in 1 .. k - 1 : c[m] = s[m]
    BY <1>3, <1>5
  <2> HIDE DEF c
  <2>2. /\ t \in Seq(S) /\ Len(t) = k + Len(b)
        /\ \A m \in 1 .. k : t[m] = c[m]
        /\ \A m \in 1 .. Len(b) : t[k + m] = b[m]
    BY <1>2, <2>1, Concat
  <2>3. k + Len(b) = Len(s) + 1
    BY <1>2, <1>4
  <2>4. \A m \in 1 .. k - 1 : m \in 1 .. k
    BY <1>4
  <2> QED BY <1>2, <2>1, <2>2, <2>3, <2>4
<1>7. ASSUME NEW m \in DOMAIN s
      PROVE  \E n \in DOMAIN t : n >= m /\ t[n] = s[m]
  <2>1. CASE m <= k - 1
    <3>1. m \in DOMAIN t /\ t[m] = s[m] /\ m >= m
      BY <1>4, <1>6, <2>1
    <3> QED BY <3>1
  <2>2. CASE m > k - 1
    <3>1. m - k + 1 \in 1 .. Len(s) - k + 1
      BY <1>4, <2>2
    <3>2. t[k + (m - k + 1)] = s[k + (m - k + 1) - 1]
      BY <1>6, <3>1
    <3>3. k + (m - k + 1) = m + 1 /\ k + (m - k + 1) - 1 = m
      BY <1>4
    <3>4. m + 1 \in DOMAIN t /\ t[m + 1] = s[m] /\ m + 1 >= m
      BY <1>4, <1>6, <3>2, <3>3
    <3> QED BY <3>4
  <2> QED BY <1>4, <2>1, <2>2
<1> QED BY <1>6, <1>7 DEF t

LEMMA Removed ==
    ASSUME NEW S, NEW s \in Seq(S), NEW k \in DOMAIN s
    PROVE  RemoveAt(s, k) \in Seq(S)
<1>1. k \in 1 .. Len(s) /\ Len(s) \in Nat
  OBVIOUS
<1>2. SubSeq(s, 1, k - 1) \in Seq(S) /\ SubSeq(s, k + 1, Len(s)) \in Seq(S)
  BY <1>1
<1> QED BY <1>2 DEF RemoveAt

\* A page has what is after the offset, up to its size.
LEMMA PageFinds ==
    ASSUME AccessAssumption, NEW S, NEW list \in Seq(S), NEW offset \in Nat
    PROVE  /\ PageOf(list, offset) \in Seq(S)
           /\ \A k \in DOMAIN list : k > offset /\ k <= offset + PageSize =>
                 list[k] \in ToSet(PageOf(list, offset))
<1> DEFINE last == IF offset + PageSize < Len(list) THEN offset + PageSize ELSE Len(list)
<1>1. /\ PageSize \in Nat /\ Len(list) \in Nat /\ DOMAIN list = 1 .. Len(list)
      /\ last \in Nat /\ last <= Len(list) /\ PageOf(list, offset) = SubSeq(list, offset + 1, last)
  BY DEF AccessAssumption, PageOf
<1>2. ASSUME NEW k \in DOMAIN list, k > offset, k <= offset + PageSize
      PROVE  k <= last
  BY <1>1, <1>2
<1> HIDE DEF last
<1>3. PageOf(list, offset) \in Seq(S)
  BY <1>1
<1>4. ASSUME NEW k \in DOMAIN list, k > offset, k <= offset + PageSize
      PROVE  list[k] \in ToSet(PageOf(list, offset))
  <2>1. k \in Nat /\ k <= last
    BY <1>1, <1>2, <1>4
  <2>2. k - offset \in 1 .. last - offset
    BY <1>1, <1>4, <2>1
  <2>3. /\ Len(SubSeq(list, offset + 1, last)) = last - offset
        /\ SubSeq(list, offset + 1, last)[k - offset] = list[k]
    BY <1>1, <1>4, <2>1, <2>2
  <2>4. k - offset \in DOMAIN PageOf(list, offset) /\ PageOf(list, offset)[k - offset] = list[k]
    BY <1>1, <1>3, <2>2, <2>3
  <2> QED BY <2>4 DEF ToSet
<1> QED BY <1>3, <1>4

\* What is in one of two sequences is in both together.
LEMMA Joined ==
    ASSUME NEW S, NEW s \in Seq(S), NEW t \in Seq(S)
    PROVE  s \o t \in Seq(S) /\ ToSet(s) \subseteq ToSet(s \o t) /\ ToSet(t) \subseteq ToSet(s \o t)
<1>1. /\ s \o t \in Seq(S) /\ DOMAIN s = 1 .. Len(s) /\ DOMAIN t = 1 .. Len(t)
      /\ Len(s) \in Nat /\ Len(t) \in Nat /\ DOMAIN (s \o t) = 1 .. Len(s) + Len(t)
      /\ \A k \in 1 .. Len(s) : (s \o t)[k] = s[k]
      /\ \A k \in 1 .. Len(t) : (s \o t)[Len(s) + k] = t[k]
  OBVIOUS
<1>2. ASSUME NEW x \in ToSet(s) PROVE x \in ToSet(s \o t)
  <2>1. PICK k \in 1 .. Len(s) : x = s[k]
    BY <1>1, <1>2 DEF ToSet
  <2>2. k \in DOMAIN (s \o t) /\ (s \o t)[k] = x
    BY <1>1, <2>1
  <2> QED BY <2>2 DEF ToSet
<1>3. ASSUME NEW x \in ToSet(t) PROVE x \in ToSet(s \o t)
  <2>1. PICK k \in 1 .. Len(t) : x = t[k]
    BY <1>1, <1>3 DEF ToSet
  <2>2. Len(s) + k \in DOMAIN (s \o t) /\ (s \o t)[Len(s) + k] = x
    BY <1>1, <2>1
  <2> QED BY <2>2 DEF ToSet
<1> QED BY <1>1, <1>2, <1>3
-----------------------------------------------------------------------------
(* Types.                                                                   *)

LEMMA LoginType ==
    ASSUME TypeOK
    PROVE  /\ login.pc \in {"idle", "listing"}
           /\ login.nth \in Nat /\ login.offset \in Nat
           /\ login.page \in Seq(Names) /\ login.teams \in Seq(Qualified)
           /\ login.errors \in Seq(Orgs) /\ login.admin \in BOOLEAN
           /\ DOMAIN user_orgs = 1 .. Len(user_orgs) /\ Len(user_orgs) \in Nat
  BY DEF TypeOK, Logins

\* What the callback makes of its login is one.
LEMMA Updates ==
    ASSUME NEW l \in Logins, NEW n \in Nat
    PROVE  /\ \A p \in Seq(Names) : [l EXCEPT !.offset = n, !.page = p] \in Logins
           /\ \A p \in Seq(Names), ts \in Seq(Qualified) :
                 [l EXCEPT !.nth = n, !.offset = 0, !.page = p, !.teams = ts] \in Logins
           /\ \A p \in Seq(Names), ts \in Seq(Qualified), es \in Seq(Orgs) :
                 [l EXCEPT !.nth = n, !.offset = 0, !.page = p, !.teams = ts, !.errors = es] \in Logins
           /\ \A adm \in BOOLEAN : [l EXCEPT !.pc = "listing", !.nth = n, !.admin = adm] \in Logins
  BY DEF Logins

LEMMA NoPages ==
    /\ << >> \in Seq(Names)
    /\ Idle \in Logins
  BY DEF Idle, Logins

LEMMA ListingType ==
    ASSUME TypeOK, ListInv, Listing
    PROVE  /\ login.nth \in DOMAIN user_orgs
           /\ Org \in Orgs
           /\ github[Org] \in Seq(Names)
<1>1. login.nth \in DOMAIN user_orgs
  BY LoginType DEF Listing, ListInv
<1>2. Org \in Orgs
  BY <1>1 DEF Org, TypeOK
<1> QED BY <1>1, <1>2 DEF TypeOK

\* The teams of an organisation, qualified.
LEMMA CachedType ==
    ASSUME NEW o \in Orgs, NEW names \in Seq(Names)
    PROVE  /\ CachedTeams(o, names) \in Seq(Qualified)
           /\ \A x \in ToSet(names) : [org |-> o, name |-> x] \in ToSet(CachedTeams(o, names))
<1> DEFINE c == CachedTeams(o, names)
<1>1. /\ Len(names) \in Nat /\ DOMAIN names = 1 .. Len(names)
      /\ c = [k \in 1 .. Len(names) |-> [org |-> o, name |-> names[k]]]
  BY DEF CachedTeams
<1>2. \A k \in 1 .. Len(names) : [org |-> o, name |-> names[k]] \in Qualified
  BY <1>1 DEF Qualified
<1>3. c \in Seq(Qualified)
  <2> HIDE DEF c
  <2> QED BY <1>1, <1>2
<1>4. ASSUME NEW x \in ToSet(names) PROVE [org |-> o, name |-> x] \in ToSet(c)
  <2>1. PICK k \in 1 .. Len(names) : x = names[k]
    BY <1>1, <1>4 DEF ToSet
  <2>2. k \in DOMAIN c /\ c[k] = [org |-> o, name |-> x]
    BY <1>1, <2>1
  <2> HIDE DEF c
  <2> QED BY <2>2 DEF ToSet
<1> QED BY <1>3, <1>4

\* The answers to the next request, together with the pages before it.
LEMMA PagesType ==
    ASSUME AccessAssumption, TypeOK, ListInv, Listing
    PROVE  /\ Pages \in Seq(Names)
           /\ ToSet(login.page) \subseteq ToSet(Pages)
           /\ \A k \in DOMAIN github[Org] :
                 k > login.offset /\ k <= login.offset + PageSize => github[Org][k] \in ToSet(Pages)
<1>1. /\ PageOf(github[Org], login.offset) \in Seq(Names)
      /\ \A k \in DOMAIN github[Org] : k > login.offset /\ k <= login.offset + PageSize =>
            github[Org][k] \in ToSet(PageOf(github[Org], login.offset))
  BY ListingType, LoginType, PageFinds
<1> QED BY <1>1, LoginType, Joined DEF Pages

LEMMA AccessTypeInit ==
    ASSUME AccessAssumption, Init
    PROVE  TypeOK
<1>1. user_orgs \in Seq(Orgs)
  BY DEF Init, AccessAssumption
<1>2. Idle \in Logins
  BY DEF Idle, Logins
<1> QED BY <1>1, <1>2 DEF Init, TypeOK

LEMMA AccessTypeNext ==
    ASSUME AccessAssumption, TypeOK, ListInv, [Next]_vars
    PROVE  TypeOK'
<1>1. ASSUME NEW o \in ToSet(user_orgs), NEW n \in Names, TeamAppears(o, n)
      PROVE  TypeOK'
  <2>1. o \in Orgs /\ github[o] \in Seq(Names)
    BY DEF TypeOK, ToSet
  <2>2. \A k \in 1 .. Len(github[o]) + 1 : InsertAt(github[o], k, n) \in Seq(Names)
    BY <2>1, Inserted
  <2>3. github' \in [Orgs -> Seq(Names)]
    BY <1>1, <2>1, <2>2 DEF TeamAppears, TypeOK
  <2> QED BY <1>1, <2>3 DEF TeamAppears, TypeOK
<1>2. ASSUME NEW o \in ToSet(user_orgs), NEW n \in Names, TeamDisappears(o, n)
      PROVE  TypeOK'
  <2>1. o \in Orgs /\ github[o] \in Seq(Names)
    BY DEF TypeOK, ToSet
  <2>2. \A k \in DOMAIN github[o] : RemoveAt(github[o], k) \in Seq(Names)
    BY <2>1, Removed
  <2>3. github' \in [Orgs -> Seq(Names)]
    BY <1>2, <2>1, <2>2 DEF TeamDisappears, TypeOK
  <2> QED BY <1>2, <2>1, <2>3 DEF TeamDisappears, TypeOK
<1>3. CASE StartListing
  <2>1. login' \in Logins
    <3>1. PICK adm \in BOOLEAN : login' = [Idle EXCEPT !.pc = "listing", !.nth = 1, !.admin = adm]
      BY <1>3 DEF StartListing
    <3> QED BY <3>1, NoPages, Updates
  <2>2. throughout' \subseteq Qualified
    BY <1>3 DEF StartListing, AtGitHub
  <2> QED BY <1>3, <2>1, <2>2 DEF StartListing, TypeOK
<1>4. CASE FetchPage
  <2>1. Listing
    BY <1>4 DEF FetchPage
  <2>2. Pages \in Seq(Names) /\ CachedTeams(Org, Pages) \in Seq(Qualified)
    BY <2>1, PagesType, ListingType, CachedType
  <2>3. login.teams \o CachedTeams(Org, Pages) \in Seq(Qualified)
    BY <2>2, LoginType
  <2>4. PageSize \in Nat
    BY DEF AccessAssumption
  <2>5. login' \in Logins
    <3>1. login.offset + PageSize \in Nat /\ login.nth + 1 \in Nat /\ login \in Logins
      BY <2>4, LoginType DEF TypeOK
    <3>2. \/ login' = [login EXCEPT !.offset = login.offset + PageSize, !.page = Pages]
          \/ login' = [login EXCEPT !.nth = login.nth + 1, !.offset = 0, !.page = << >>,
                                    !.teams = login.teams \o CachedTeams(Org, Pages)]
      BY <1>4 DEF FetchPage
    <3>3. [login EXCEPT !.offset = login.offset + PageSize, !.page = Pages] \in Logins
      BY <2>2, <3>1, Updates
    <3>4. [login EXCEPT !.nth = login.nth + 1, !.offset = 0, !.page = << >>,
                        !.teams = login.teams \o CachedTeams(Org, Pages)] \in Logins
      BY <2>3, <3>1, NoPages, Updates
    <3> QED BY <3>2, <3>3, <3>4
  <2> QED BY <1>4, <2>5 DEF FetchPage, TypeOK
<1>5. CASE FetchFails
  <2>1. Org \in Orgs
    BY <1>5, ListingType DEF FetchFails
  <2>2. Append(login.errors, Org) \in Seq(Orgs) /\ login.nth + 1 \in Nat /\ login \in Logins
    BY <2>1, LoginType DEF TypeOK
  <2>3. login' = [login EXCEPT !.nth = login.nth + 1, !.offset = 0, !.page = << >>,
                               !.teams = login.teams, !.errors = Append(login.errors, Org)]
    BY <1>5 DEF FetchFails, AfterError, DropsPages
  <2>4. login' \in Logins
    BY <2>2, <2>3, NoPages, LoginType, Updates
  <2> QED BY <1>5, <2>4 DEF FetchFails, TypeOK
<1>6. CASE CreateSession \/ LoginEnds
  <2>1. login' \in Logins
    BY <1>6, NoPages DEF CreateSession, LoginEnds
  <2> QED BY <1>6, <2>1 DEF CreateSession, LoginEnds, TypeOK
<1>7. ASSUME NEW r \in Slugs, NEW team \in TeamSlugs, CreateRetro(r, team)
      PROVE  TypeOK'
  BY <1>7 DEF CreateRetro, TypeOK
<1>8. ASSUME NEW r \in Slugs, DeleteRetro(r)
      PROVE  TypeOK'
  BY <1>8 DEF DeleteRetro, TypeOK
<1>9. CASE UNCHANGED vars
  BY <1>9 DEF vars, TypeOK
<1> QED BY <1>1, <1>2, <1>3, <1>4, <1>5, <1>6, <1>7, <1>8, <1>9 DEF Next

-----------------------------------------------------------------------------
(* What a login finds.                                                      *)

\* A team that appears leaves what is ahead of a login ahead of it.
LEMMA AppearsKeeps ==
    ASSUME TypeOK, ListInv, NEW o \in ToSet(user_orgs), NEW n \in Names, TeamAppears(o, n)
    PROVE  ListInv'
<1> SUFFICES ASSUME login.pc = "listing", NEW t \in throughout
             PROVE  login.nth >= 1 /\ (Accounted(t) \/ OrgAhead(t) \/ OnPages(t))'
  BY DEF ListInv, TeamAppears
<1>1. UNCHANGED <<user_orgs, login, session, retros, throughout, shrunk>>
  BY DEF TeamAppears
<1>2. t.org \in Orgs /\ github[t.org] \in Seq(Names) /\ o \in Orgs /\ github[o] \in Seq(Names)
  BY DEF TypeOK, Qualified, ToSet
<1>3. \A m \in DOMAIN github[t.org] : \E k \in DOMAIN github'[t.org] :
         k >= m /\ github'[t.org][k] = github[t.org][m]
  <2>1. PICK p \in 1 .. Len(github[o]) + 1 :
            github' = [github EXCEPT ![o] = InsertAt(github[o], p, n)]
    BY DEF TeamAppears
  <2>2. CASE t.org = o
    <3>1. github'[o] = InsertAt(github[o], p, n)
      BY <1>2, <2>1 DEF TypeOK
    <3> QED BY <1>2, <2>2, <3>1, Inserted
  <2>3. CASE t.org # o
    <3>1. github'[t.org] = github[t.org]
      BY <1>2, <2>1, <2>3 DEF TypeOK
    <3>2. \A m \in DOMAIN github[t.org] : m >= m
      BY <1>2
    <3> QED BY <3>1, <3>2
  <2> QED BY <2>2, <2>3
<1>4. login.nth >= 1 /\ (Accounted(t) \/ OrgAhead(t) \/ OnPages(t))
  BY DEF ListInv
<1>5. CASE Accounted(t)
  BY <1>1, <1>4, <1>5 DEF Accounted
<1>6. CASE OrgAhead(t)
  <2>1. ToSet(github[t.org]) \subseteq ToSet(github'[t.org])
    BY <1>3 DEF ToSet
  <2> QED BY <1>1, <1>4, <1>6, <2>1 DEF OrgAhead
<1>7. CASE OnPages(t)
  <2>1. ASSUME NEW m \in DOMAIN github[t.org], m > login.offset
        PROVE  \E k \in DOMAIN github'[t.org] :
                  k > login.offset /\ github'[t.org][k] = github[t.org][m]
    <3>1. PICK k \in DOMAIN github'[t.org] : k >= m /\ github'[t.org][k] = github[t.org][m]
      BY <1>3
    <3>2. k > login.offset
      <4>1. m \in Nat /\ login.offset \in Nat
        BY <1>2, LoginType
      <4>2. k \in Nat
        <5>1. github' \in [Orgs -> Seq(Names)]
          <6>1. \A p \in 1 .. Len(github[o]) + 1 : InsertAt(github[o], p, n) \in Seq(Names)
            BY <1>2, Inserted
          <6> QED BY <1>2, <6>1 DEF TeamAppears, TypeOK
        <5>2. github'[t.org] \in Seq(Names)
          BY <1>2, <5>1
        <5> QED BY <5>2
      <4> QED BY <2>1, <3>1, <4>1, <4>2
    <3> QED BY <3>1, <3>2
  <2> QED BY <1>1, <1>4, <1>7, <2>1 DEF OnPages, Listing, Org
<1> QED BY <1>4, <1>5, <1>6, <1>7

\* A team that disappears is no longer meant, and its organisation has shrunk.
LEMMA DisappearsKeeps ==
    ASSUME TypeOK, ListInv, NEW o \in ToSet(user_orgs), NEW n \in Names, TeamDisappears(o, n)
    PROVE  ListInv'
<1> SUFFICES ASSUME login.pc = "listing", NEW t \in throughout
             PROVE  login.nth >= 1 /\ (Accounted(t) \/ OrgAhead(t) \/ OnPages(t))'
  BY DEF ListInv, TeamDisappears
<1>1. UNCHANGED <<user_orgs, login>> /\ shrunk' = shrunk \cup {o}
  BY DEF TeamDisappears
<1>2. login.nth >= 1 /\ (Accounted(t) \/ OrgAhead(t) \/ OnPages(t))
  BY DEF ListInv
<1>3. CASE t.org = o
  BY <1>1, <1>2, <1>3 DEF Accounted
<1>4. CASE t.org # o
  <2>1. github'[t.org] = github[t.org]
    BY <1>4 DEF TeamDisappears, TypeOK, Qualified
  <2> QED BY <1>1, <1>2, <2>1 DEF Accounted, OrgAhead, OnPages, Listing, Org
<1> QED BY <1>3, <1>4

\* A login begins with everything ahead of it.
LEMMA BeginsAhead ==
    ASSUME TypeOK, StartListing
    PROVE  ListInv'
<1>1. /\ login'.nth = 1 /\ login'.offset = 0 /\ login'.pc = "listing"
      /\ throughout' = AtGitHub /\ UNCHANGED <<user_orgs, github>>
  BY DEF StartListing, Idle
<1>2. ASSUME NEW t \in AtGitHub
      PROVE  OrgAhead(t)' \/ OnPages(t)'
  <2>1. PICK j \in DOMAIN user_orgs : user_orgs[j] = t.org
    BY <1>2 DEF AtGitHub, ToSet
  <2>2. PICK k \in DOMAIN github[t.org] : github[t.org][k] = t.name
    BY <1>2 DEF AtGitHub, ToSet
  <2>3. /\ DOMAIN user_orgs = 1 .. Len(user_orgs) /\ Len(user_orgs) \in Nat
        /\ t.org \in Orgs /\ t.name \in ToSet(github[t.org]) /\ k >= 1
    <3>1. t.org \in Orgs /\ t.name \in ToSet(github[t.org])
      BY <1>2 DEF AtGitHub, Qualified
    <3>2. github[t.org] \in Seq(Names)
      BY <3>1 DEF TypeOK
    <3> QED BY <3>1, <3>2, LoginType
  <2>4. CASE j = 1
    <3>1. Listing' /\ Org' = t.org
      BY <1>1, <2>1, <2>3, <2>4 DEF Listing, Org
    <3>2. k > login'.offset
      BY <1>1, <2>3
    <3> QED BY <1>1, <2>2, <3>1, <3>2 DEF OnPages
  <2>5. CASE j # 1
    <3>1. j > login'.nth
      BY <1>1, <2>1, <2>3, <2>5
    <3> QED BY <1>1, <2>1, <2>3, <3>1 DEF OrgAhead
  <2> QED BY <2>4, <2>5
<1> QED BY <1>1, <1>2 DEF ListInv

\* After an organisation comes the next one, or one behind it.
LEMMA NextOrg ==
    ASSUME TypeOK, ListInv, Listing, UNCHANGED <<user_orgs, github>>,
           login'.pc = "listing", login'.nth = login.nth + 1, login'.offset = 0,
           NEW t \in throughout, OrgAhead(t)
    PROVE  OrgAhead(t)' \/ OnPages(t)'
<1>1. PICK j \in DOMAIN user_orgs :
          j > login.nth /\ user_orgs[j] = t.org /\ t.name \in ToSet(github[t.org])
  BY DEF OrgAhead
<1>2. /\ login.nth \in Nat /\ j \in Nat /\ j <= Len(user_orgs) /\ Len(user_orgs) \in Nat
      /\ t.org \in Orgs /\ github[t.org] \in Seq(Names)
  BY <1>1, LoginType DEF TypeOK, Qualified
<1>3. CASE j = login.nth + 1
  <2>1. Listing' /\ Org' = t.org
    BY <1>1, <1>2, <1>3 DEF Listing, Org
  <2>2. PICK k \in DOMAIN github[t.org] : github[t.org][k] = t.name
    BY <1>1 DEF ToSet
  <2>3. k > login'.offset
    BY <1>2
  <2> QED BY <2>1, <2>2, <2>3 DEF OnPages
<1>4. CASE j # login.nth + 1
  <2>1. j > login'.nth
    BY <1>1, <1>2, <1>4
  <2> QED BY <1>1, <2>1 DEF OrgAhead
<1> QED BY <1>3, <1>4

\* A page keeps what it has and moves past what it brings; with the last page all
\* teams of the organisation are there.
LEMMA FetchKeeps ==
    ASSUME AccessAssumption, TypeOK, ListInv, FetchPage
    PROVE  ListInv'
<1>1. /\ Listing /\ login.pc = "listing" /\ login.nth >= 1 /\ login.nth \in Nat
      /\ UNCHANGED <<user_orgs, github, throughout, shrunk>> /\ login \in Logins
      /\ PageSize \in Nat /\ login.offset \in Nat
  BY LoginType DEF FetchPage, Listing, ListInv, TypeOK, AccessAssumption
<1>0. throughout' = throughout /\ github' = github
  BY <1>1
<1>8. login'.nth >= 1
  BY <1>1 DEF FetchPage, Logins
<1> SUFFICES ASSUME NEW t \in throughout
             PROVE  (Accounted(t) \/ OrgAhead(t) \/ OnPages(t))'
  BY <1>0, <1>8 DEF ListInv
<1>2. Accounted(t) \/ OrgAhead(t) \/ OnPages(t)
  BY <1>1 DEF ListInv
<1>3. /\ Pages \in Seq(Names) /\ ToSet(login.page) \subseteq ToSet(Pages)
      /\ \A k \in DOMAIN github[Org] :
            k > login.offset /\ k <= login.offset + PageSize => github[Org][k] \in ToSet(Pages)
  BY <1>1, PagesType
<1>4. DOMAIN github[Org] = 1 .. Len(github[Org]) /\ Len(github[Org]) \in Nat /\ Org \in Orgs
  BY <1>1, ListingType
<1>5. CASE HasNext
  <2>1. login' = [login EXCEPT !.offset = login.offset + PageSize, !.page = Pages]
    BY <1>5 DEF FetchPage
  <2>2. /\ login'.nth = login.nth /\ login'.pc = login.pc /\ login'.teams = login.teams
        /\ login'.errors = login.errors
        /\ login'.offset = login.offset + PageSize /\ login'.page = Pages
    BY <1>1, <2>1 DEF Logins
  <2>3. CASE Accounted(t) \/ OrgAhead(t)
    BY <1>1, <2>2, <2>3 DEF Accounted, OrgAhead
  <2>4. CASE OnPages(t)
    <3>1. Listing' /\ Org' = t.org /\ Org = t.org
      BY <1>1, <2>2, <2>4 DEF Listing, Org, OnPages
    <3>2. CASE t.name \in ToSet(login.page)
      <4>1. t.name \in ToSet(login'.page)
        BY <1>3, <2>2, <3>2
      <4> QED BY <3>1, <4>1 DEF OnPages
    <3>3. ASSUME NEW k \in DOMAIN github[t.org], k > login.offset, github[t.org][k] = t.name
          PROVE  OnPages(t)'
      <4>1. CASE k <= login.offset + PageSize
        <5>1. t.name \in ToSet(login'.page)
          BY <1>3, <2>2, <3>1, <3>3, <4>1
        <5> QED BY <3>1, <5>1 DEF OnPages
      <4>2. CASE ~ (k <= login.offset + PageSize)
        <5>1. k > login'.offset
          BY <1>1, <1>4, <2>2, <3>1, <4>2
        <5> QED BY <1>0, <3>1, <3>3, <5>1 DEF OnPages
      <4> QED BY <4>1, <4>2
    <3> QED BY <2>4, <3>2, <3>3 DEF OnPages
  <2> QED BY <1>1, <1>2, <2>2, <2>3, <2>4
<1>6. CASE ~ HasNext
  <2>1. login' = [login EXCEPT !.nth = login.nth + 1, !.offset = 0, !.page = << >>,
                               !.teams = login.teams \o CachedTeams(Org, Pages)]
    BY <1>6 DEF FetchPage
  <2>2. /\ login'.nth = login.nth + 1 /\ login'.pc = login.pc /\ login'.offset = 0
        /\ login'.teams = login.teams \o CachedTeams(Org, Pages)
        /\ login'.errors = login.errors
    BY <1>1, <2>1 DEF Logins
  <2>3. /\ ToSet(login.teams) \subseteq ToSet(login'.teams)
        /\ ToSet(CachedTeams(Org, Pages)) \subseteq ToSet(login'.teams)
    BY <1>3, <1>4, <2>2, LoginType, CachedType, Joined
  <2>4. CASE Accounted(t)
    BY <1>1, <2>2, <2>3, <2>4 DEF Accounted
  <2>5. CASE OrgAhead(t)
    BY <1>1, <2>2, <2>5, NextOrg
  <2>6. CASE OnPages(t)
    <3>1. t.name \in ToSet(Pages)
      <4>1. CASE t.name \in ToSet(login.page)
        BY <1>3, <4>1
      <4>2. ASSUME NEW k \in DOMAIN github[t.org], k > login.offset, github[t.org][k] = t.name
            PROVE  t.name \in ToSet(Pages)
        <5>1. Org = t.org /\ k <= login.offset + PageSize
          BY <1>1, <1>4, <1>6, <2>6, <4>2 DEF HasNext, OnPages
        <5> QED BY <1>3, <4>2, <5>1
      <4> QED BY <2>6, <4>1, <4>2 DEF OnPages
    <3>2. t = [org |-> Org, name |-> t.name]
      BY <2>6 DEF OnPages, TypeOK, Qualified
    <3>3. t \in ToSet(CachedTeams(Org, Pages))
      <4>1. [org |-> Org, name |-> t.name] \in ToSet(CachedTeams(Org, Pages))
        BY <1>3, <1>4, <3>1, CachedType
      <4> QED BY <3>2, <4>1
    <3> QED BY <2>3, <3>3 DEF Accounted
  <2> QED BY <1>1, <1>2, <2>2, <2>4, <2>5, <2>6
<1> QED BY <1>5, <1>6

\* An organisation that fails is named.
LEMMA FailsKeeps ==
    ASSUME TypeOK, ListInv, FetchFails
    PROVE  ListInv'
<1>1. /\ Listing /\ login.pc = "listing" /\ login.nth >= 1 /\ login.nth \in Nat
      /\ UNCHANGED <<user_orgs, github, throughout, shrunk>> /\ login \in Logins
      /\ Org \in Orgs /\ login.errors \in Seq(Orgs)
  BY LoginType, ListingType DEF FetchFails, Listing, ListInv, TypeOK
<1>2. /\ login'.nth = login.nth + 1 /\ login'.pc = login.pc /\ login'.offset = 0
      /\ login'.teams = login.teams /\ login'.errors = Append(login.errors, Org)
  BY <1>1 DEF FetchFails, AfterError, DropsPages, Logins
<1> SUFFICES ASSUME NEW t \in throughout
             PROVE  /\ login'.nth >= 1
                    /\ (Accounted(t) \/ OrgAhead(t) \/ OnPages(t))'
  BY <1>1, <1>2 DEF ListInv
<1>3. Accounted(t) \/ OrgAhead(t) \/ OnPages(t)
  BY <1>1 DEF ListInv
<1>4. ToSet(login.errors) \subseteq ToSet(login'.errors) /\ Org \in ToSet(login'.errors)
  <2>1. /\ DOMAIN login.errors = 1 .. Len(login.errors) /\ Len(login.errors) \in Nat
        /\ DOMAIN login'.errors = 1 .. Len(login.errors) + 1
        /\ \A k \in 1 .. Len(login.errors) : login'.errors[k] = login.errors[k]
        /\ login'.errors[Len(login.errors) + 1] = Org
    BY <1>1, <1>2
  <2>2. 1 .. Len(login.errors) \subseteq 1 .. Len(login.errors) + 1
        /\ Len(login.errors) + 1 \in 1 .. Len(login.errors) + 1
    BY <2>1
  <2> QED BY <2>1, <2>2 DEF ToSet
<1>5. CASE Accounted(t)
  BY <1>1, <1>2, <1>4, <1>5 DEF Accounted
<1>6. CASE OrgAhead(t)
  BY <1>1, <1>2, <1>6, NextOrg
<1>7. CASE OnPages(t)
  BY <1>1, <1>2, <1>4, <1>7 DEF OnPages, Accounted
<1> QED BY <1>1, <1>2, <1>3, <1>5, <1>6, <1>7

LEMMA AccessNext ==
    ASSUME AccessAssumption, IInv, [Next]_vars
    PROVE  IInv'
<1>1. TypeOK /\ ListInv /\ TypeOK'
  BY AccessTypeNext DEF IInv
<1> SUFFICES ListInv'
  BY <1>1 DEF IInv
<1>2. ASSUME NEW o \in ToSet(user_orgs), NEW n \in Names, TeamAppears(o, n)
      PROVE  ListInv'
  BY <1>1, <1>2, AppearsKeeps
<1>3. ASSUME NEW o \in ToSet(user_orgs), NEW n \in Names, TeamDisappears(o, n)
      PROVE  ListInv'
  BY <1>1, <1>3, DisappearsKeeps
<1>4. CASE StartListing
  BY <1>1, <1>4, BeginsAhead
<1>5. CASE FetchPage
  BY <1>1, <1>5, FetchKeeps
<1>6. CASE FetchFails
  BY <1>1, <1>6, FailsKeeps
<1>7. CASE CreateSession \/ LoginEnds
  BY <1>7 DEF CreateSession, LoginEnds, Idle, ListInv
<1>8. CASE UNCHANGED <<user_orgs, github, login, throughout, shrunk>>
  BY <1>1, <1>8 DEF ListInv, Accounted, OrgAhead, OnPages, Listing, Org
<1>9. ASSUME NEW r \in Slugs, NEW team \in TeamSlugs, CreateRetro(r, team)
      PROVE  ListInv'
  BY <1>8, <1>9 DEF CreateRetro
<1>10. ASSUME NEW r \in Slugs, DeleteRetro(r)
       PROVE  ListInv'
  BY <1>8, <1>10 DEF DeleteRetro
<1>11. CASE UNCHANGED vars
  BY <1>8, <1>11 DEF vars
<1> QED BY <1>2, <1>3, <1>4, <1>5, <1>6, <1>7, <1>9, <1>10, <1>11 DEF Next

LEMMA AccessInit ==
    ASSUME AccessAssumption, Init
    PROVE  IInv
<1>1. ListInv
  BY DEF Init, Idle, ListInv
<1> QED BY <1>1, AccessTypeInit DEF IInv

\* With nothing left to list, a team is accounted for.
LEMMA AllListed ==
    ASSUME IInv
    PROVE  TeamsFound
<1> SUFFICES ASSUME login.pc = "listing", ~ Listing, NEW t \in throughout
             PROVE  Accounted(t)
  BY DEF TeamsFound, Accounted
<1>1. TypeOK /\ (Accounted(t) \/ OrgAhead(t) \/ OnPages(t))
  BY DEF IInv, ListInv
<1>2. ~ OnPages(t)
  BY DEF OnPages
<1>3. ~ OrgAhead(t)
  BY <1>1, LoginType DEF OrgAhead, Listing
<1> QED BY <1>1, <1>2, <1>3

\* A slug is among the listed ones exactly when it matches a cached one.
LEMMA SameSlugs ==
    ASSUME TypeOK, NEW r \in Slugs
    PROVE  Lists(r) <=> Opens(r)
<1> SUFFICES ASSUME retros[r] # NoTeam
             PROVE  retros[r] \in ListedSlugs <=> \E s \in session.teams : Matches(s, retros[r])
  BY DEF Lists, Opens, IsMember
<1>1. retros[r] \in TeamSlugs
  BY DEF TypeOK
<1>2. \A s : retros[r] = [org |-> Bare, name |-> s.name] <=>
             retros[r].org = Bare /\ s.name = retros[r].name
  BY <1>1 DEF TeamSlugs
<1> QED BY <1>2 DEF ListedSlugs, Matches

\* Types of the access model.
THEOREM AccessTypeCorrect == Spec => []TypeOK
<1>1. Init => IInv
  BY AccessAssumption, AccessInit
<1>2. IInv /\ [Next]_vars => IInv'
  BY AccessAssumption, AccessNext
<1>3. IInv => TypeOK
  BY DEF IInv
<1> QED BY <1>1, <1>2, <1>3, PTL DEF Spec

\* The callback lists teams page by page while GitHub's lists change: for any
\* configuration, size of a page and lists, a team that was visible all the time
\* is found, or its organisation has failed or lost a team.
THEOREM AccessTeamsFound == Spec => []TeamsFound
<1>1. Init => IInv
  BY AccessAssumption, AccessInit
<1>2. IInv /\ [Next]_vars => IInv'
  BY AccessAssumption, AccessNext
<1>3. IInv => TeamsFound
  BY AllListed
<1> QED BY <1>1, <1>2, <1>3, PTL DEF Spec

\* The SQL of list_retros and is_member_of_team agree: for any slugs, a retro is
\* listed exactly when it opens.
THEOREM AccessListedOpens == Spec => []ListedOpens
<1>1. TypeOK => ListedOpens
  BY SameSlugs DEF ListedOpens
<1> QED BY <1>1, AccessTypeCorrect, PTL

-----------------------------------------------------------------------------
(* Organisations that could not be listed.                                  *)

\* It has been listed already.
Passed(o) == \E j \in DOMAIN user_orgs : j < login.nth /\ user_orgs[j] = o

\* Teams and errors are those of organisations that were passed, and both only of
\* one that is configured twice.
ErrorsApart ==
    /\ login.pc = "listing" =>
          /\ \A t \in ToSet(login.teams) : Passed(t.org)
          /\ \A o \in ToSet(login.errors) : Passed(o)
          /\ \A t \in ToSet(login.teams) : t.org \in ToSet(login.errors) => Twice(t.org)
    /\ ErrorsHaveNoTeams

\* What is in two sequences together is in one of them.
LEMMA JoinedOnly ==
    ASSUME NEW S, NEW s \in Seq(S), NEW t \in Seq(S), NEW x \in ToSet(s \o t)
    PROVE  x \in ToSet(s) \/ x \in ToSet(t)
<1>1. /\ DOMAIN s = 1 .. Len(s) /\ DOMAIN t = 1 .. Len(t)
      /\ Len(s) \in Nat /\ Len(t) \in Nat
      /\ DOMAIN (s \o t) = 1 .. Len(s) + Len(t)
      /\ \A k \in 1 .. Len(s) + Len(t) : (s \o t)[k] = IF k <= Len(s) THEN s[k] ELSE t[k - Len(s)]
  OBVIOUS
<1>2. PICK k \in 1 .. Len(s) + Len(t) : x = (s \o t)[k]
  BY <1>1 DEF ToSet
<1>3. CASE k <= Len(s)
  <2>1. k \in DOMAIN s /\ x = s[k]
    BY <1>1, <1>2, <1>3
  <2> QED BY <2>1 DEF ToSet
<1>4. CASE ~ (k <= Len(s))
  <2>1. k - Len(s) \in DOMAIN t /\ x = t[k - Len(s)]
    BY <1>1, <1>2, <1>4
  <2> QED BY <2>1 DEF ToSet
<1> QED BY <1>3, <1>4

\* An organisation that is met again is configured twice.
LEMMA MetAgain ==
    ASSUME TypeOK, ListInv, Listing, Passed(Org)
    PROVE  Twice(Org)
<1> DEFINE places == {k \in DOMAIN user_orgs : user_orgs[k] = Org}
<1>1. PICK j \in DOMAIN user_orgs : j < login.nth /\ user_orgs[j] = Org
  BY DEF Passed
<1>2. login.nth \in DOMAIN user_orgs /\ login.nth \in Nat /\ user_orgs[login.nth] = Org
  BY ListingType, LoginType DEF Org
<1>3. {j, login.nth} \subseteq places /\ j # login.nth
  BY <1>1, <1>2, LoginType
<1>4. IsFiniteSet(places)
  <2>1. IsFiniteSet(DOMAIN user_orgs)
    BY LoginType, FS_Interval
  <2> QED BY <2>1, FS_Subset
<1> HIDE DEF places
<1>5. Cardinality({j, login.nth}) = 2
  <2>1. /\ IsFiniteSet({j}) /\ Cardinality({j}) = 1
    BY FS_Singleton
  <2>2. Cardinality({j} \cup {login.nth}) = Cardinality({j}) + 1
    BY <1>3, <2>1, FS_AddElement
  <2>3. {j} \cup {login.nth} = {j, login.nth}
    OBVIOUS
  <2> QED BY <2>1, <2>2, <2>3
<1>6. Cardinality({j, login.nth}) <= Cardinality(places) /\ Cardinality(places) \in Nat
  BY <1>3, <1>4, FS_Subset, FS_CardinalityType
<1>7. Cardinality(places) > 1
  BY <1>5, <1>6
<1> QED BY <1>7 DEF Twice, places

\* Steps that leave the login, the session and the configuration alone.
LEMMA ApartIdle ==
    ASSUME ErrorsApart, UNCHANGED <<user_orgs, login, session>>
    PROVE  ErrorsApart'
BY DEF ErrorsApart, Passed, Twice, ErrorsHaveNoTeams

\* When an organisation is done, it has teams or an error.
LEMMA ApartNext ==
    ASSUME TypeOK, ListInv, ErrorsApart, Listing,
           UNCHANGED <<user_orgs, session>>, login'.nth = login.nth + 1,
           \A t \in ToSet(login'.teams) :
              t \in ToSet(login.teams) \/ (t.org = Org /\ ToSet(login'.errors) = ToSet(login.errors)),
           \A o \in ToSet(login'.errors) :
              o \in ToSet(login.errors) \/ (o = Org /\ ToSet(login'.teams) = ToSet(login.teams))
    PROVE  ErrorsApart'
<1>0. PICK org : org = Org
  OBVIOUS
<1>1. /\ login.nth \in DOMAIN user_orgs /\ login.nth \in Nat /\ user_orgs[login.nth] = org
      /\ DOMAIN user_orgs \subseteq Nat
  BY <1>0, ListingType, LoginType DEF Org
<1>2. /\ \A o : Passed(o) => Passed(o)'
      /\ Passed(org)'
  <2>1. \A j \in DOMAIN user_orgs : j < login.nth \/ j = login.nth => j < login'.nth
    BY <1>1
  <2>2. user_orgs' = user_orgs
    OBVIOUS
  <2> QED BY <1>1, <2>1, <2>2 DEF Passed
<1>3. /\ \A t \in ToSet(login.teams) : Passed(t.org)
      /\ \A o \in ToSet(login.errors) : Passed(o)
      /\ \A t \in ToSet(login.teams) : t.org \in ToSet(login.errors) => Twice(t.org)
  BY DEF ErrorsApart, Listing
<1>4. \A o : Twice(o)' <=> Twice(o)
  BY DEF Twice
<1>5. Passed(Org) => Twice(Org)
  BY MetAgain
<1>6. \A t \in ToSet(login'.teams) : Passed(t.org)'
  BY <1>0, <1>2, <1>3
<1>7. \A o \in ToSet(login'.errors) : Passed(o)'
  BY <1>0, <1>2, <1>3
<1>8. ASSUME NEW t \in ToSet(login'.teams), t.org \in ToSet(login'.errors)
      PROVE  Twice(t.org)
  <2>1. CASE t \in ToSet(login.teams) /\ t.org \in ToSet(login.errors)
    BY <1>3, <2>1
  <2>2. CASE t \notin ToSet(login.teams)
    <3>1. t.org = Org /\ t.org \in ToSet(login.errors)
      BY <1>8, <2>2
    <3> QED BY <1>3, <1>5, <3>1
  <2>3. CASE t.org \notin ToSet(login.errors)
    <3>1. t.org = Org /\ t \in ToSet(login.teams)
      BY <1>8, <2>3
    <3> QED BY <1>3, <1>5, <3>1
  <2> QED BY <2>1, <2>2, <2>3
<1>9. ErrorsHaveNoTeams'
  BY DEF ErrorsApart, ErrorsHaveNoTeams, Twice
<1> QED BY <1>4, <1>6, <1>7, <1>8, <1>9 DEF ErrorsApart

LEMMA ApartStep ==
    ASSUME AccessAssumption, IInv, ErrorsApart, [Next]_vars
    PROVE  ErrorsApart'
<1>0. TypeOK /\ ListInv /\ login \in Logins
  BY DEF IInv, TypeOK
<1>1. CASE StartListing
  <2>1. /\ login'.teams = << >> /\ login'.errors = << >> /\ session' = NoSession
    BY <1>1 DEF StartListing, Idle
  <2>2. ToSet(<< >>) = {} /\ NoSession.teams = {}
    BY DEF ToSet, NoSession
  <2> QED BY <2>1, <2>2 DEF ErrorsApart, ErrorsHaveNoTeams
<1>2. CASE FetchPage
  <2>1. Listing /\ UNCHANGED <<user_orgs, session>>
    BY <1>2 DEF FetchPage
  <2>2. CASE HasNext
    <3>1. login' = [login EXCEPT !.offset = login.offset + PageSize, !.page = Pages]
      BY <1>2, <2>2 DEF FetchPage
    <3>2. /\ login'.nth = login.nth /\ login'.pc = login.pc /\ login'.teams = login.teams
          /\ login'.errors = login.errors
      BY <1>0, <3>1 DEF Logins
    <3> QED BY <2>1, <3>2 DEF ErrorsApart, Passed, Twice, ErrorsHaveNoTeams
  <2>3. CASE ~ HasNext
    <3> DEFINE cached == CachedTeams(Org, Pages)
    <3>1. login' = [login EXCEPT !.nth = login.nth + 1, !.offset = 0, !.page = << >>,
                                 !.teams = login.teams \o cached]
      BY <1>2, <2>3 DEF FetchPage
    <3>2. /\ login'.nth = login.nth + 1 /\ login'.teams = login.teams \o cached
          /\ login'.errors = login.errors
      BY <1>0, <3>1 DEF Logins
    <3>3. cached \in Seq(Qualified) /\ login.teams \in Seq(Qualified)
      BY <1>0, <2>1, PagesType, ListingType, CachedType, LoginType
    <3>4. \A t \in ToSet(cached) : t.org = Org
      BY DEF CachedTeams, ToSet
    <3> HIDE DEF cached
    <3>5. \A t \in ToSet(login'.teams) : t \in ToSet(login.teams) \/ t.org = Org
      BY <3>2, <3>3, <3>4, JoinedOnly
    <3> QED BY <1>0, <2>1, <3>2, <3>5, ApartNext
  <2> QED BY <2>2, <2>3
<1>3. CASE FetchFails
  <2>1. Listing /\ UNCHANGED <<user_orgs, session>>
    BY <1>3 DEF FetchFails
  <2>2. Org \in Orgs /\ login.errors \in Seq(Orgs)
    BY <1>0, <2>1, ListingType, LoginType
  <2>3. /\ login'.nth = login.nth + 1 /\ login'.teams = login.teams
        /\ login'.errors = Append(login.errors, Org)
    BY <1>0, <1>3 DEF FetchFails, AfterError, DropsPages, Logins
  <2>4. \A o \in ToSet(login'.errors) : o \in ToSet(login.errors) \/ o = Org
    <3>1. login'.errors = login.errors \o << Org >> /\ << Org >> \in Seq(Orgs)
      BY <2>2, <2>3, AppendIsConcat
    <3>2. \A o \in ToSet(<< Org >>) : o = Org
      BY DEF ToSet
    <3> QED BY <2>2, <3>1, <3>2, JoinedOnly
  <2> QED BY <1>0, <2>1, <2>3, <2>4, ApartNext
<1>4. CASE CreateSession
  <2>1. /\ login' = Idle /\ user_orgs' = user_orgs /\ login.pc = "listing"
        /\ session'.teams = ToSet(login.teams) /\ session'.errors = login.errors
    BY <1>4 DEF CreateSession, Retained
  <2>2. login'.pc # "listing"
    BY <2>1 DEF Idle
  <2>3. \A o : Twice(o)' <=> Twice(o)
    BY <2>1 DEF Twice
  <2> QED BY <2>1, <2>2, <2>3 DEF ErrorsApart, ErrorsHaveNoTeams
<1>5. CASE LoginEnds
  <2>1. login'.pc # "listing" /\ UNCHANGED <<user_orgs, session>>
    BY <1>5 DEF LoginEnds, Idle
  <2> QED BY <2>1 DEF ErrorsApart, ErrorsHaveNoTeams, Twice
<1>6. CASE UNCHANGED <<user_orgs, login, session>>
  BY <1>6, ApartIdle
<1>7. CASE UNCHANGED vars
  BY <1>6, <1>7 DEF vars
<1> QED BY <1>1, <1>2, <1>3, <1>4, <1>5, <1>6, <1>7
        DEF Next, TeamAppears, TeamDisappears, CreateRetro, DeleteRetro

\* An error on any page of an organisation drops the pages before it: for any
\* configuration, an organisation named in the session as one that failed has no
\* team there, unless it is configured twice.
THEOREM AccessErrorsHaveNoTeams == Spec => []ErrorsHaveNoTeams
<1>1. Init => IInv
  BY AccessAssumption, AccessInit
<1>2. IInv /\ [Next]_vars => IInv'
  BY AccessAssumption, AccessNext
<1>3. Init => ErrorsApart
  BY DEF Init, Idle, NoSession, ErrorsApart, ErrorsHaveNoTeams
<1>4. IInv /\ ErrorsApart /\ [Next]_vars => ErrorsApart'
  BY AccessAssumption, ApartStep
<1>5. ErrorsApart => ErrorsHaveNoTeams
  BY DEF ErrorsApart
<1> QED BY <1>1, <1>2, <1>3, <1>4, <1>5, PTL DEF Spec
=============================================================================
