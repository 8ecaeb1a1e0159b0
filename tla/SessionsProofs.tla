-------------------------- MODULE SessionsProofs --------------------------
EXTENDS Sessions, TLAPS

(* Types.                                                                   *)
LEMMA TypeInit == SessionsAssumption => (Init => TypeOK)
BY DEF Init, TypeOK, LoginStates, RequestStates, SessionsAssumption, Ids, NoRow, Rows, NoCookie, NoLogin, NoRequest,
       LoginPcs, RequestPcs, None, NoSession

\* What the steps write into the state of a login and of a request has its type.
LEMMA StateTypes ==
    /\ NoLogin \in LoginStates
    /\ NoRequest \in RequestStates
    /\ \A l \in LoginStates, p \in LoginPcs :
          /\ [l EXCEPT !.pc = p] \in LoginStates
          /\ \A n \in Nat : [l EXCEPT !.pc = p, !.after = n] \in LoginStates
          /\ \A a \in BOOLEAN : [l EXCEPT !.pc = p, !.admin = a] \in LoginStates
    /\ \A r \in RequestStates, p \in RequestPcs :
          /\ [r EXCEPT !.pc = p] \in RequestStates
          /\ \A e \in Nat : [r EXCEPT !.pc = p, !.expires = e] \in RequestStates
          /\ \A n \in Nat, a \in BOOLEAN :
                [r EXCEPT !.pc = p, !.present = a, !.checked = n] \in RequestStates
    /\ \A r \in RequestStates, k \in Kinds, s \in Nat, n \in Nat :
          [r EXCEPT !.kind = k, !.id = s, !.at = n] \in RequestStates
<1>1. NoLogin \in LoginStates
  BY DEF NoLogin, LoginStates, LoginPcs
<1>2. NoRequest \in RequestStates
  BY DEF NoRequest, RequestStates, RequestPcs, NoSession
<1>3. ASSUME NEW l \in LoginStates, NEW p \in LoginPcs
      PROVE  /\ [l EXCEPT !.pc = p] \in LoginStates
             /\ \A n \in Nat : [l EXCEPT !.pc = p, !.after = n] \in LoginStates
             /\ \A a \in BOOLEAN : [l EXCEPT !.pc = p, !.admin = a] \in LoginStates
  BY DEF LoginStates
<1>4. ASSUME NEW r \in RequestStates, NEW p \in RequestPcs
      PROVE  /\ [r EXCEPT !.pc = p] \in RequestStates
             /\ \A e \in Nat : [r EXCEPT !.pc = p, !.expires = e] \in RequestStates
             /\ \A n \in Nat, a \in BOOLEAN :
                   [r EXCEPT !.pc = p, !.present = a, !.checked = n] \in RequestStates
  <2>1. [r EXCEPT !.pc = p] \in RequestStates
    BY DEF RequestStates
  <2>2. \A e \in Nat : [r EXCEPT !.pc = p, !.expires = e] \in RequestStates
    BY DEF RequestStates
  <2>3. ASSUME NEW n \in Nat, NEW a \in BOOLEAN
        PROVE  [r EXCEPT !.pc = p, !.present = a, !.checked = n] \in RequestStates
    BY DEF RequestStates
  <2> QED  BY <2>1, <2>2, <2>3
<1>5. ASSUME NEW r \in RequestStates, NEW k \in Kinds, NEW s \in Nat, NEW n \in Nat
      PROVE  [r EXCEPT !.kind = k, !.id = s, !.at = n] \in RequestStates
  BY DEF RequestStates
<1> QED  BY <1>1, <1>2, <1>3, <1>4, <1>5

\* The steps of a login keep the types.
LEMMA LoginType ==
    ASSUME SessionsAssumption, TypeOK, NEW f \in Logins, LoginStep(f)
    PROVE  TypeOK'
<1> USE DEF TypeOK, dbVars, tabVars
<1>n. /\ MaxLogins \in Nat /\ IdleAge \in Nat /\ AbsoluteAge \in Nat /\ ReauthAge \in Nat
      /\ Jar[f] \in Browsers
  BY DEF SessionsAssumption
<1> USE <1>n
<1>l. login[f] \in LoginStates /\ login \in [Logins -> LoginStates]
  OBVIOUS
<1>0. /\ [login EXCEPT ![f] = NoLogin] \in [Logins -> LoginStates]
      /\ \A p \in LoginPcs :
            /\ [login EXCEPT ![f] = [NoLogin EXCEPT !.pc = p]] \in [Logins -> LoginStates]
            /\ [login EXCEPT ![f].pc = p] \in [Logins -> LoginStates]
            /\ \A n \in Nat :
                  [login EXCEPT ![f].pc = p, ![f].after = n] \in [Logins -> LoginStates]
            /\ \A a \in BOOLEAN :
                  [login EXCEPT ![f].pc = p, ![f].admin = a] \in [Logins -> LoginStates]
  <2> HIDE DEF TypeOK
  <2>1. [login EXCEPT ![f] = NoLogin] \in [Logins -> LoginStates]
    BY <1>l, StateTypes
  <2>2. ASSUME NEW p \in LoginPcs
        PROVE  /\ [login EXCEPT ![f] = [NoLogin EXCEPT !.pc = p]] \in [Logins -> LoginStates]
               /\ [login EXCEPT ![f].pc = p] \in [Logins -> LoginStates]
    <3>1. [NoLogin EXCEPT !.pc = p] \in LoginStates /\ [login[f] EXCEPT !.pc = p] \in LoginStates
      BY <1>l, StateTypes
    <3>2. [login EXCEPT ![f].pc = p] = [login EXCEPT ![f] = [login[f] EXCEPT !.pc = p]]
      BY <1>l
    <3> QED  BY <1>l, <3>1, <3>2
  <2>3. ASSUME NEW p \in LoginPcs, NEW n \in Nat
        PROVE  [login EXCEPT ![f].pc = p, ![f].after = n] \in [Logins -> LoginStates]
    <3>1. [login[f] EXCEPT !.pc = p, !.after = n] \in LoginStates
      BY <1>l, StateTypes
    <3>2. [login EXCEPT ![f].pc = p, ![f].after = n]
             = [login EXCEPT ![f] = [login[f] EXCEPT !.pc = p, !.after = n]]
      BY <1>l DEF LoginStates
    <3> QED  BY <1>l, <3>1, <3>2
  <2>4. ASSUME NEW p \in LoginPcs, NEW a \in BOOLEAN
        PROVE  [login EXCEPT ![f].pc = p, ![f].admin = a] \in [Logins -> LoginStates]
    <3>1. [login[f] EXCEPT !.pc = p, !.admin = a] \in LoginStates
      BY <1>l, StateTypes
    <3>2. [login EXCEPT ![f].pc = p, ![f].admin = a]
             = [login EXCEPT ![f] = [login[f] EXCEPT !.pc = p, !.admin = a]]
      BY <1>l DEF LoginStates
    <3> QED  BY <1>l, <3>1, <3>2
  <2> QED  BY <2>1, <2>2, <2>3, <2>4
<1>p. /\ {"authorizing", "exchanging", "revoking", "resolving", "creating"} \subseteq LoginPcs
      /\ issued \in Nat
  BY DEF LoginPcs
<1>1. CASE StartLogin(f)
  <2>1. login' \in [Logins -> LoginStates]
    <3> HIDE DEF TypeOK
    <3> QED  BY <1>0, <1>p, <1>1 DEF StartLogin
  <2>2. oauth' \in [Browsers -> Logins \cup {None}]
    BY <1>1 DEF StartLogin
  <2>3. started' \in 0 .. MaxLogins
    BY <1>1 DEF StartLogin
  <2> QED  BY <1>1, <2>1, <2>2, <2>3 DEF StartLogin
<1>2. CASE Callback(f)
  BY <1>0, <1>p, <1>2 DEF Callback
<1>3. CASE Exchange(f)
  BY <1>0, <1>p, <1>3 DEF Exchange
<1>4. CASE RevokeOldSessions(f)
  BY <1>0, <1>p, <1>4 DEF RevokeOldSessions
<1>5. CASE ResolveTeams(f)
  <2>1. login' \in [Logins -> LoginStates]
    <3> HIDE DEF TypeOK
    <3>1. PICK admin \in BOOLEAN :
                login' = [login EXCEPT ![f].pc = "creating", ![f].admin = admin]
      BY <1>5 DEF ResolveTeams
    <3>2. [login EXCEPT ![f].pc = "creating", ![f].admin = admin] \in [Logins -> LoginStates]
      BY <1>0, <1>p
    <3> QED  BY <3>1, <3>2
  <2> QED  BY <1>5, <2>1 DEF ResolveTeams
<1>6. CASE CreateSession(f)
  <2> DEFINE s == issued + 1
             new == [user |-> Account[f], admin |-> login[f].admin, created |-> now,
                     expires |-> FirstExpiry, after |-> login[f].after]
  <2>1. s \in Ids /\ issued' = s /\ table' = table \cup {s}
    BY <1>6 DEF CreateSession, Ids, SessionsAssumption
  <2>2. FirstExpiry \in Nat
    BY DEF FirstExpiry, Lower, SessionsAssumption
  <2>3. new \in Rows
    BY <2>2 DEF Rows, LoginStates
  <2>4. row' \in [Ids -> Rows]
    BY <1>6, <2>3 DEF CreateSession
  <2>5. used' \in [Ids -> Nat]
    BY <1>6 DEF CreateSession
  <2>6. /\ cookie' \in [Browsers -> [id : Nat, until : Nat]]
        /\ oauth' \in [Browsers -> Logins \cup {None}]
    <3>1. /\ cookie \in [Browsers -> [id : Nat, until : Nat]]
          /\ oauth \in [Browsers -> Logins \cup {None}]
          /\ [id |-> s, until |-> now + IdleAge] \in [id : Nat, until : Nat]
      BY <1>p
    <3> HIDE DEF TypeOK
    <3> QED  BY <1>6, <3>1 DEF CreateSession
  <2>7. issued' \in 0 .. MaxLogins /\ table' \subseteq 1 .. issued'
    BY <2>1 DEF Ids, SessionsAssumption
  <2> QED  BY <1>0, <1>6, <2>4, <2>5, <2>6, <2>7 DEF CreateSession
<1>7. CASE LoginFails(f)
  BY <1>0, <1>7 DEF LoginFails
<1> QED  BY <1>1, <1>2, <1>3, <1>4, <1>5, <1>6, <1>7 DEF LoginStep

\* The steps of a request keep the types.
LEMMA RequestType ==
    ASSUME SessionsAssumption, TypeOK, NEW b \in Browsers,
           \/ StateCookieEnds(b)
           \/ \E kind \in Kinds : Request(b, kind)
           \/ RequestRefused(b)
           \/ Handle(b)
           \/ RequestFails(b)
    PROVE  TypeOK'
<1> USE DEF TypeOK, dbVars, tabVars
<1>n. MaxLogins \in Nat /\ IdleAge \in Nat /\ AbsoluteAge \in Nat /\ ReauthAge \in Nat
  BY DEF SessionsAssumption
<1> USE <1>n
<1>0. /\ [req EXCEPT ![b] = NoRequest] \in [Browsers -> RequestStates]
      /\ [req EXCEPT ![b].pc = "handle"] \in [Browsers -> RequestStates]
  <2>1. req[b] \in RequestStates /\ req \in [Browsers -> RequestStates]
    OBVIOUS
  <2>2. "handle" \in RequestPcs
    BY DEF RequestPcs
  <2> HIDE DEF TypeOK
  <2>3. NoRequest \in RequestStates /\ [req[b] EXCEPT !.pc = "handle"] \in RequestStates
    BY <2>1, <2>2, StateTypes
  <2>4. [req EXCEPT ![b].pc = "handle"] = [req EXCEPT ![b] = [req[b] EXCEPT !.pc = "handle"]]
    BY <2>1
  <2> QED  BY <2>1, <2>3, <2>4
<1>t. /\ Ids \subseteq Nat /\ table \subseteq Ids
      /\ \A s \in Ids : row[s] \in Rows
  BY DEF Ids
<1>i. /\ req[b].id \in Nat /\ req[b].at \in Nat /\ req[b].expires \in Nat
      /\ req[b].present \in BOOLEAN /\ req[b].checked \in Nat
  BY DEF RequestStates
<1>1. CASE StateCookieEnds(b)
  BY <1>1 DEF StateCookieEnds
<1>2. ASSUME NEW kind \in Kinds, Request(b, kind)
      PROVE  TypeOK'
  <2> DEFINE s == cookie[b].id
             r == [NoRequest EXCEPT !.kind = kind, !.id = s, !.at = now]
  <2>1. s \in Ids /\ s \in Nat /\ now \in Nat
    BY <1>2, <1>t DEF Request, Valid
  <2>2. NewExpiry(s) \in Nat
    BY <2>1 DEF NewExpiry, Lower, Rows, SessionsAssumption
  <2>3. "slide" \in RequestPcs /\ "handle" \in RequestPcs
    BY DEF RequestPcs
  <2>4. r \in RequestStates
    BY <2>1, <2>3, StateTypes
  <2> HIDE DEF r
  <2>5. /\ [r EXCEPT !.pc = "slide", !.expires = NewExpiry(s)] \in RequestStates
        /\ [r EXCEPT !.pc = "handle"] \in RequestStates
    BY <2>2, <2>3, <2>4, StateTypes
  <2>6. \/ req' = [req EXCEPT ![b] = [r EXCEPT !.pc = "slide", !.expires = NewExpiry(s)]]
        \/ req' = [req EXCEPT ![b] = [r EXCEPT !.pc = "handle"]]
    BY <1>2 DEF Request, r
  <2>7. req' \in [Browsers -> RequestStates]
    BY <2>5, <2>6
  <2>8. used' \in [Ids -> Nat]
    BY <1>2 DEF Request
  <2> QED  BY <1>2, <2>7, <2>8 DEF Request
<1>3. CASE RequestRefused(b)
  BY <1>3 DEF RequestRefused, NoCookie, NoSession
<1>4. CASE Slide(b)
  <2> DEFINE s == req[b].id
  <2>1. row' \in [Ids -> Rows]
    <3>1. CASE s \in table
      <4>1. s \in Ids /\ row[s] \in Rows
        BY <3>1, <1>t
      <4>2. [row[s] EXCEPT !.expires = req[b].expires] \in Rows
        BY <4>1, <1>i DEF Rows
      <4>3. row' = [row EXCEPT ![s] = [row[s] EXCEPT !.expires = req[b].expires]]
        BY <1>4, <3>1, <4>1 DEF Slide
      <4> QED  BY <4>1, <4>2, <4>3
    <3>2. CASE s \notin table
      BY <1>4, <3>2 DEF Slide
    <3> QED  BY <3>1, <3>2
  <2>2. used' \in [Ids -> Nat]
    BY <1>4, <1>i DEF Slide, Higher
  <2>3. req' \in [Browsers -> RequestStates]
    BY <1>0, <1>4 DEF Slide
  <2> QED  BY <1>4, <2>1, <2>2, <2>3 DEF Slide, Updated
<1>5. CASE ServePage(b)
  BY <1>0, <1>5 DEF ServePage
<1>6. CASE Logout(b)
  BY <1>0, <1>6 DEF Logout, NoCookie, NoSession
<1>7. CASE CheckLogin(b)
  <2> DEFINE s == req[b].id
             checked == [req[b] EXCEPT !.pc = "delete", !.present = (s \in table), !.checked = now]
  <2>1. "delete" \in RequestPcs /\ now \in Nat /\ (s \in table) \in BOOLEAN
    BY DEF RequestPcs
  <2>2. checked \in RequestStates
    BY <2>1, StateTypes
  <2> HIDE DEF checked
  <2>3. req' = [req EXCEPT ![b] = checked] \/ req' = [req EXCEPT ![b] = NoRequest]
    BY <1>7 DEF CheckLogin, checked
  <2>4. req' \in [Browsers -> RequestStates]
    BY <1>0, <2>2, <2>3
  <2> QED  BY <1>7, <2>4 DEF CheckLogin
<1>8. CASE DeleteRetro(b)
  BY <1>0, <1>8, <1>i DEF DeleteRetro
<1>9. CASE RequestFails(b)
  BY <1>0, <1>9 DEF RequestFails
<1> QED  BY <1>1, <1>2, <1>3, <1>4, <1>5, <1>6, <1>7, <1>8, <1>9 DEF Handle

\* Every step keeps the types.
LEMMA TypeStep ==
    ASSUME SessionsAssumption, TypeOK, [Next]_vars
    PROVE  TypeOK'
<1>1. CASE Restart
  BY <1>1, StateTypes DEF Restart, TypeOK, tabVars
<1>2. CASE Tick
  BY <1>2 DEF Tick, TypeOK, dbVars, tabVars
<1>3. CASE UNCHANGED vars
  BY <1>3 DEF vars, TypeOK, dbVars, tabVars
<1> QED  BY <1>1, <1>2, <1>3, LoginType, RequestType DEF Next

(* Every variable of logins and sessions keeps its type.                    *)
THEOREM SessionsTypeCorrect == Spec => []TypeOK
<1> USE SessionsAssumption
<1> QED  BY TypeInit, TypeStep, PTL DEF Spec
-----------------------------------------------------------------------------
(* Safety.                                                                  *)

\* A request in flight was let in during the lifetime of an issued session, slides
\* the deadline within it, and has passed the check that its retro's deletion needs.
InFlight ==
    \A b \in Browsers : req[b].pc # "idle" =>
        /\ req[b].id \in 1 .. issued
        /\ req[b].at < row[req[b].id].created + AbsoluteAge
        /\ req[b].pc = "slide" => req[b].expires <= row[req[b].id].created + AbsoluteAge
        /\ req[b].pc = "delete" =>
              /\ req[b].present
              /\ row[req[b].id].admin
              /\ req[b].checked - row[req[b].id].created < ReauthAge

\* The sessions in the table end with the lifetime of their login.
RowsEnd == \A s \in table : row[s].expires <= row[s].created + AbsoluteAge

\* A deletion is by an issued session.
DeletionsIssued == \A d \in deletions : d.id \in 1 .. issued

\* A login that has revoked its user's sessions finds none but those created since.
RevokedBefore ==
    \A f \in Logins : login[f].pc \in {"resolving", "creating"} =>
        /\ login[f].after <= issued
        /\ \A s \in table : row[s].user = Account[f] => login[f].after < s

IInv == TypeOK /\ InFlight /\ RowsEnd /\ DeletionsIssued /\ DeletionsFresh
            /\ RevokedBefore /\ SurvivorsOverlap

\* The table changes only where a session is created, slides or goes.
LEMMA RowCases ==
    ASSUME TypeOK, [Next]_vars
    PROVE  \/ row' = row /\ table' \subseteq table /\ issued' = issued
           \/ \E f \in Logins : CreateSession(f)
           \/ \E b \in Browsers : Slide(b)
<1> SUFFICES ASSUME ~(\E f \in Logins : CreateSession(f)), ~(\E b \in Browsers : Slide(b))
             PROVE  row' = row /\ table' \subseteq table /\ issued' = issued
  OBVIOUS
<1> USE DEF dbVars
<1>1. ASSUME NEW f \in Logins, LoginStep(f)
      PROVE  row' = row /\ table' \subseteq table /\ issued' = issued
  BY <1>1 DEF LoginStep, StartLogin, Callback, Exchange, RevokeOldSessions, ResolveTeams,
              LoginFails
<1>2. ASSUME NEW b \in Browsers,
             \/ StateCookieEnds(b)
             \/ \E kind \in Kinds : Request(b, kind)
             \/ RequestRefused(b)
             \/ Handle(b)
             \/ RequestFails(b)
      PROVE  row' = row /\ table' \subseteq table /\ issued' = issued
  BY <1>2 DEF StateCookieEnds, Request, RequestRefused, Handle, ServePage, Logout,
              CheckLogin, DeleteRetro, RequestFails
<1>3. CASE Restart
  BY <1>3 DEF Restart
<1>4. CASE Tick \/ UNCHANGED vars
  BY <1>4 DEF Tick, vars
<1> QED  BY <1>1, <1>2, <1>3, <1>4 DEF Next

\* Creating a session takes the next id.
LEMMA Created ==
    ASSUME SessionsAssumption, TypeOK, NEW f \in Logins, CreateSession(f)
    PROVE  /\ issued \in Nat /\ issued' = issued + 1 /\ issued' \in Ids
           /\ table' = table \cup {issued'}
           /\ row'[issued'] = [user |-> Account[f], admin |-> login[f].admin, created |-> now,
                               expires |-> FirstExpiry, after |-> login[f].after]
           /\ \A s \in 1 .. issued : row'[s] = row[s] /\ s # issued'
<1>1. issued \in Nat /\ issued' = issued + 1 /\ issued' \in Ids /\ MaxLogins \in Nat
  BY DEF TypeOK, SessionsAssumption, CreateSession, Ids
<1>2. row \in [Ids -> Rows] /\ 1 .. issued \subseteq Ids
  BY <1>1 DEF TypeOK, Ids
<1> QED  BY <1>1, <1>2 DEF CreateSession

\* Sliding the deadline changes no more of a row, and no other row.
LEMMA Slid ==
    ASSUME TypeOK, NEW b \in Browsers, Slide(b)
    PROVE  /\ table' = table /\ issued' = issued
           /\ \A s \in Ids :
                 \/ row'[s] = row[s]
                 \/ /\ s = req[b].id /\ s \in table
                    /\ row'[s] = [row[s] EXCEPT !.expires = req[b].expires]
<1>1. row \in [Ids -> Rows]
  BY DEF TypeOK
<1> QED  BY <1>1 DEF Slide, Updated

\* Whose an issued session is, what it may do and since when never changes.
LEMMA RowKept ==
    ASSUME SessionsAssumption, TypeOK, [Next]_vars, NEW s \in 1 .. issued
    PROVE  /\ s \in 1 .. issued'
           /\ row'[s].user = row[s].user
           /\ row'[s].admin = row[s].admin
           /\ row'[s].created = row[s].created
           /\ row'[s].after = row[s].after
<1>1. CASE row' = row /\ table' \subseteq table /\ issued' = issued
  BY <1>1
<1>2. ASSUME NEW f \in Logins, CreateSession(f)
      PROVE  s \in 1 .. issued' /\ row'[s] = row[s]
  <2>1. issued \in Nat /\ issued' = issued + 1 /\ row'[s] = row[s]
    BY <1>2, Created
  <2> QED  BY <2>1
<1>i. s \in Ids
  BY DEF TypeOK, Ids, SessionsAssumption
<1>3. ASSUME NEW b \in Browsers, Slide(b)
      PROVE  /\ s \in 1 .. issued'
             /\ row'[s] = row[s] \/ row'[s] = [row[s] EXCEPT !.expires = req[b].expires]
  BY <1>3, <1>i, Slid
<1>4. row[s] \in Rows
  BY <1>i DEF TypeOK
<1> QED  BY <1>1, <1>2, <1>3, <1>4, RowCases DEF Rows

\* A session that is gone, or was never created, is not in the table after a step,
\* except for the one that the step creates.
LEMMA GoneStep ==
    ASSUME SessionsAssumption, TypeOK, [Next]_vars, NEW s \in 1 .. issued, s \notin table
    PROVE  s \notin table'
<1>1. ASSUME NEW f \in Logins, CreateSession(f)
      PROVE  s \notin table'
  BY <1>1, Created
<1>2. ASSUME NEW b \in Browsers, Slide(b)
      PROVE  s \notin table'
  BY <1>2, Slid
<1> QED  BY <1>1, <1>2, RowCases

(* No step brings a session back that was logged out, revoked or cleaned up: *)
(* the UPDATE that a request in flight still sends finds no row.             *)
THEOREM SessionsStayGone == Spec => GoneStaysGone
<1> USE SessionsAssumption
<1>1. TypeOK /\ [Next]_vars => [\A s \in 1 .. issued : s \notin table => s \notin table']_vars
  BY GoneStep
<1> QED  BY <1>1, SessionsTypeCorrect, PTL DEF Spec, GoneStaysGone

-----------------------------------------------------------------------------
\* What a step does to the request of a browser.
LEMMA RequestCases ==
    ASSUME TypeOK, [Next]_vars, NEW b \in Browsers
    PROVE  \/ req'[b] = req[b]
           \/ req'[b].pc = "idle"
           \/ \E kind \in Kinds : Request(b, kind)
           \/ Slide(b)
           \/ CheckLogin(b)
<1>1. req \in [Browsers -> RequestStates]
  BY DEF TypeOK
<1>2. ASSUME NEW f \in Logins, LoginStep(f)
      PROVE  req' = req
  BY <1>2 DEF LoginStep, StartLogin, Callback, Exchange, RevokeOldSessions, ResolveTeams,
              CreateSession, LoginFails
<1>3. ASSUME NEW c \in Browsers, \E kind \in Kinds : Request(c, kind)
      PROVE  c = b \/ req'[b] = req[b]
  BY <1>1, <1>3 DEF Request
<1>4. ASSUME NEW c \in Browsers,
             StateCookieEnds(c) \/ RequestRefused(c)
      PROVE  req' = req
  BY <1>4 DEF StateCookieEnds, RequestRefused
<1>5. ASSUME NEW c \in Browsers,
             ServePage(c) \/ Logout(c) \/ DeleteRetro(c) \/ RequestFails(c)
      PROVE  req'[b] = req[b] \/ req'[b].pc = "idle"
  BY <1>1, <1>5 DEF ServePage, Logout, DeleteRetro, RequestFails, NoRequest
<1>6. ASSUME NEW c \in Browsers, Slide(c) \/ CheckLogin(c)
      PROVE  c = b \/ req'[b] = req[b]
  BY <1>1, <1>6 DEF Slide, CheckLogin
<1>7. CASE Restart
  BY <1>7 DEF Restart, NoRequest
<1>8. CASE Tick \/ UNCHANGED vars
  BY <1>8 DEF Tick, vars
<1> QED  BY <1>2, <1>3, <1>4, <1>5, <1>6, <1>7, <1>8 DEF Next, Handle

\* What a request that is let in has read, and when.
LEMMA Requested ==
    ASSUME SessionsAssumption, TypeOK, NEW b \in Browsers, NEW kind \in Kinds, Request(b, kind)
    PROVE  LET s == cookie[b].id
           IN  /\ s \in table /\ row[s].expires > now
               /\ req'[b].id = s /\ req'[b].at = now
               /\ \/ /\ req'[b].pc = "slide" /\ req'[b].expires = NewExpiry(s)
                     /\ DueToSlide(s) /\ used' = used
                  \/ /\ req'[b].pc = "handle"
                     /\ ~ DueToSlide(s) /\ used' = [used EXCEPT ![s] = now]
<1> DEFINE s == cookie[b].id
           r == [NoRequest EXCEPT !.kind = kind, !.id = s, !.at = now]
<1>t. req \in [Browsers -> RequestStates] /\ now \in Nat /\ table \subseteq Nat
  BY DEF TypeOK
<1>1. s \in table /\ row[s].expires > now
  BY DEF Request, Valid
<1>2. \/ /\ req'[b] = [r EXCEPT !.pc = "slide", !.expires = NewExpiry(s)]
         /\ DueToSlide(s) /\ used' = used
      \/ /\ req'[b] = [r EXCEPT !.pc = "handle"]
         /\ ~ DueToSlide(s) /\ used' = [used EXCEPT ![s] = now]
  BY <1>t DEF Request
<1>3. s \in Nat
  <2> HIDE DEF s
  <2> QED BY <1>1, <1>t
<1>4. r \in RequestStates
  BY <1>3, <1>t, StateTypes
<1>5. r.id = s /\ r.at = now
  BY StateTypes DEF RequestStates
<1> HIDE DEF r
<1>6. /\ req'[b].id = s /\ req'[b].at = now
      /\ \/ /\ req'[b].pc = "slide" /\ req'[b].expires = NewExpiry(s)
            /\ DueToSlide(s) /\ used' = used
         \/ /\ req'[b].pc = "handle"
            /\ ~ DueToSlide(s) /\ used' = [used EXCEPT ![s] = now]
  <2> HIDE DEF s
  <2> QED BY <1>2, <1>4, <1>5 DEF RequestStates
<1> QED BY <1>1, <1>6

\* InFlight is kept.
LEMMA InFlightStep ==
    ASSUME SessionsAssumption, TypeOK, InFlight, RowsEnd, [Next]_vars
    PROVE  InFlight'
<1> SUFFICES ASSUME NEW b \in Browsers, req'[b].pc # "idle"
             PROVE  /\ req'[b].id \in 1 .. issued'
                    /\ req'[b].at < row'[req'[b].id].created + AbsoluteAge
                    /\ req'[b].pc = "slide" =>
                          req'[b].expires <= row'[req'[b].id].created + AbsoluteAge
                    /\ req'[b].pc = "delete" =>
                          /\ req'[b].present
                          /\ row'[req'[b].id].admin
                          /\ req'[b].checked - row'[req'[b].id].created < ReauthAge
  BY DEF InFlight
<1>n. AbsoluteAge \in Nat /\ IdleAge \in Nat /\ ReauthAge \in Nat /\ MaxLogins \in Nat
  BY DEF SessionsAssumption
<1>t. /\ req \in [Browsers -> RequestStates] /\ now \in Nat /\ row \in [Ids -> Rows]
      /\ 1 .. issued \subseteq Ids /\ table \subseteq 1 .. issued
  BY DEF TypeOK, Ids, SessionsAssumption
<1>k. ASSUME NEW s \in 1 .. issued
      PROVE  s \in 1 .. issued' /\ row'[s].admin = row[s].admin
             /\ row'[s].created = row[s].created
  BY RowKept
<1>1. CASE req'[b] = req[b]
  BY <1>1, <1>k DEF InFlight
<1>2. ASSUME NEW kind \in Kinds, Request(b, kind)
      PROVE  /\ req'[b].id \in 1 .. issued
             /\ req'[b].at < row[req'[b].id].created + AbsoluteAge
             /\ req'[b].expires <= row[req'[b].id].created + AbsoluteAge
                  \/ req'[b].pc # "slide"
             /\ req'[b].pc # "delete"
  <2> DEFINE s == cookie[b].id
  <2>1. s \in table /\ now < row[s].expires /\ row[s] \in Rows
    <3>1. s \in table /\ row[s].expires > now /\ row[s] \in Rows
      BY <1>2, <1>t DEF Request, Valid
    <3> QED  BY <3>1, <1>t DEF Rows
  <2>2. now < row[s].created + AbsoluteAge
    <3>1. row[s].expires <= row[s].created + AbsoluteAge
      BY <2>1 DEF RowsEnd
    <3>2. row[s].expires \in Nat /\ row[s].created \in Nat
      BY <2>1 DEF Rows
    <3> HIDE DEF s
    <3> QED  BY <2>1, <3>1, <3>2, <1>n, <1>t
  <2>3. NewExpiry(s) <= row[s].created + AbsoluteAge
    BY <2>1, <1>n, <1>t DEF NewExpiry, Lower, Rows
  <2>4. /\ req'[b].id = s /\ req'[b].at = now
        /\ \/ req'[b].pc = "slide" /\ req'[b].expires = NewExpiry(s)
           \/ req'[b].pc = "handle"
    BY <1>2, Requested
  <2>5. s \in 1 .. issued
    BY <2>1, <1>t
  <2> HIDE DEF s
  <2> QED  BY <2>2, <2>3, <2>4, <2>5
<1>3. CASE Slide(b)
  <2>1. req'[b] = [req[b] EXCEPT !.pc = "handle"] /\ req[b].pc # "idle"
    BY <1>3, <1>t DEF Slide
  <2>2. /\ req'[b].id = req[b].id /\ req'[b].at = req[b].at /\ req'[b].pc = "handle"
    BY <2>1, <1>t DEF RequestStates
  <2> QED  BY <2>1, <2>2, <1>k DEF InFlight
<1>4. CASE CheckLogin(b)
  <2> DEFINE s == req[b].id
  <2>1. /\ row[s].admin /\ FreshLogin(s) /\ req[b].pc # "idle"
        /\ req'[b] = [req[b] EXCEPT !.pc = "delete", !.present = (s \in table), !.checked = now]
    BY <1>4, <1>t DEF CheckLogin, NoRequest
  <2>2. /\ req'[b].id = s /\ req'[b].at = req[b].at /\ req'[b].pc = "delete"
        /\ req'[b].present = (s \in table) /\ req'[b].checked = now
    BY <2>1, <1>t DEF RequestStates
  <2> QED  BY <2>1, <2>2, <1>k DEF InFlight, FreshLogin
<1> QED  BY <1>1, <1>2, <1>3, <1>4, <1>k, RequestCases

\* RowsEnd is kept.
LEMMA RowsEndStep ==
    ASSUME SessionsAssumption, TypeOK, InFlight, RowsEnd, [Next]_vars
    PROVE  RowsEnd'
<1> SUFFICES ASSUME NEW s \in table'
             PROVE  row'[s].expires <= row'[s].created + AbsoluteAge
  BY DEF RowsEnd
<1>t. /\ now \in Nat /\ IdleAge \in Nat /\ AbsoluteAge \in Nat
      /\ row \in [Ids -> Rows] /\ table \subseteq 1 .. issued /\ table \subseteq Ids
  BY DEF TypeOK, Ids, SessionsAssumption
<1>1. CASE row' = row /\ table' \subseteq table
  BY <1>1 DEF RowsEnd
<1>2. ASSUME NEW f \in Logins, CreateSession(f)
      PROVE  row'[s].expires <= row'[s].created + AbsoluteAge
  <2>1. CASE s = issued'
    <3>1. row'[s] = [user |-> Account[f], admin |-> login[f].admin, created |-> now,
                     expires |-> FirstExpiry, after |-> login[f].after]
      BY <1>2, <2>1, Created
    <3>2. row'[s].created = now /\ row'[s].expires = FirstExpiry
      BY <3>1
    <3> QED  BY <3>2, <1>t DEF FirstExpiry, Lower
  <2>2. CASE s # issued'
    <3>1. s \in table /\ row'[s] = row[s]
      BY <1>2, <2>2, <1>t, Created
    <3> QED  BY <3>1 DEF RowsEnd
  <2> QED  BY <2>1, <2>2
<1>3. ASSUME NEW b \in Browsers, Slide(b)
      PROVE  row'[s].expires <= row'[s].created + AbsoluteAge
  <2>1. s \in table /\ s \in Ids /\ row[s] \in Rows
    BY <1>3, <1>t, Slid
  <2>2. CASE row'[s] = row[s]
    BY <2>1, <2>2 DEF RowsEnd
  <2>3. CASE s = req[b].id /\ row'[s] = [row[s] EXCEPT !.expires = req[b].expires]
    <3>1. row'[s].created = row[s].created /\ row'[s].expires = req[b].expires
      BY <2>1, <2>3 DEF Rows
    <3>2. req[b].expires <= row[s].created + AbsoluteAge
      BY <1>3, <2>3 DEF Slide, InFlight
    <3> QED  BY <3>1, <3>2
  <2> QED  BY <1>3, <2>1, <2>2, <2>3, Slid
<1> QED  BY <1>1, <1>2, <1>3, RowCases

\* The deletions keep what allowed them.
LEMMA DeletionsStep ==
    ASSUME SessionsAssumption, TypeOK, InFlight, DeletionsIssued, DeletionsFresh, [Next]_vars
    PROVE  DeletionsIssued' /\ DeletionsFresh'
<1> SUFFICES ASSUME NEW d \in deletions'
             PROVE  /\ d.id \in 1 .. issued' /\ d.present /\ row'[d.id].admin
                    /\ d.at - row'[d.id].created < ReauthAge
  BY DEF DeletionsIssued, DeletionsFresh
<1>1. d \in deletions \/ \E b \in Browsers : DeleteRetro(b)
  BY DEF Next, vars, LoginStep, StartLogin, Callback, Exchange, RevokeOldSessions,
         ResolveTeams, CreateSession, LoginFails, StateCookieEnds, Request, RequestRefused,
         Handle, Slide, ServePage, Logout, CheckLogin, RequestFails, Restart, Tick
<1>2. CASE d \in deletions
  <2>1. /\ d.id \in 1 .. issued /\ d.present /\ row[d.id].admin
        /\ d.at - row[d.id].created < ReauthAge
    BY <1>2 DEF DeletionsIssued, DeletionsFresh
  <2> QED  BY <2>1, RowKept
<1>3. ASSUME NEW b \in Browsers, DeleteRetro(b), d \notin deletions
      PROVE  /\ d.id \in 1 .. issued' /\ d.present /\ row'[d.id].admin
             /\ d.at - row'[d.id].created < ReauthAge
  <2>1. /\ d = [id |-> req[b].id, at |-> req[b].checked, present |-> req[b].present]
        /\ req[b].pc = "delete"
    BY <1>3 DEF DeleteRetro
  <2>2. /\ req[b].id \in 1 .. issued /\ req[b].present /\ row[req[b].id].admin
        /\ req[b].checked - row[req[b].id].created < ReauthAge
    BY <2>1 DEF InFlight
  <2> QED  BY <2>1, <2>2, RowKept
<1> QED  BY <1>1, <1>2, <1>3

\* A login is past the revocation only by it.
LEMMA LoginCases ==
    ASSUME TypeOK, [Next]_vars, NEW f \in Logins,
           login'[f].pc \in {"resolving", "creating"}
    PROVE  \/ RevokeOldSessions(f)
           \/ /\ login[f].pc \in {"resolving", "creating"}
              /\ login'[f].after = login[f].after
<1>t. login \in [Logins -> LoginStates] /\ login[f] \in LoginStates
  BY DEF TypeOK
<1>1. CASE login'[f] = login[f]
  BY <1>1
<1>2. ASSUME LoginStep(f)
      PROVE  \/ RevokeOldSessions(f)
             \/ /\ login[f].pc \in {"resolving", "creating"}
                /\ login'[f].after = login[f].after
  <2>1. CASE StartLogin(f)
    BY <1>t, <2>1 DEF StartLogin, NoLogin
  <2>2. CASE Callback(f)
    BY <1>t, <2>2 DEF Callback, NoLogin
  <2>3. CASE Exchange(f)
    BY <1>t, <2>3 DEF Exchange, LoginStates
  <2>4. CASE ResolveTeams(f)
    BY <1>t, <2>4 DEF ResolveTeams, LoginStates
  <2>5. CASE CreateSession(f)
    BY <1>t, <2>5 DEF CreateSession, NoLogin
  <2>6. CASE LoginFails(f)
    BY <1>t, <2>6 DEF LoginFails, NoLogin
  <2> QED  BY <1>2, <2>1, <2>2, <2>3, <2>4, <2>5, <2>6 DEF LoginStep
<1>3. ASSUME NEW g \in Logins, g # f, LoginStep(g)
      PROVE  login'[f] = login[f]
  BY <1>t, <1>3 DEF LoginStep, StartLogin, Callback, Exchange, RevokeOldSessions,
                    ResolveTeams, CreateSession, LoginFails
<1>4. ASSUME NEW b \in Browsers,
             \/ StateCookieEnds(b)
             \/ \E kind \in Kinds : Request(b, kind)
             \/ RequestRefused(b)
             \/ Handle(b)
             \/ RequestFails(b)
      PROVE  login' = login
  BY <1>4 DEF StateCookieEnds, Request, RequestRefused, Handle, Slide, ServePage, Logout,
              CheckLogin, DeleteRetro, RequestFails
<1>5. CASE Restart
  BY <1>5, <1>t DEF Restart, NoLogin
<1>6. CASE Tick \/ UNCHANGED vars
  BY <1>6 DEF Tick, vars
<1> QED  BY <1>1, <1>2, <1>3, <1>4, <1>5, <1>6 DEF Next

\* RevokedBefore is kept.
LEMMA RevokedBeforeStep ==
    ASSUME SessionsAssumption, TypeOK, RevokedBefore, [Next]_vars
    PROVE  RevokedBefore'
<1> SUFFICES ASSUME NEW f \in Logins, login'[f].pc \in {"resolving", "creating"}
             PROVE  /\ login'[f].after <= issued'
                    /\ \A s \in table' : row'[s].user = Account[f] => login'[f].after < s
  BY DEF RevokedBefore
<1>t. /\ login \in [Logins -> LoginStates] /\ row \in [Ids -> Rows]
      /\ issued \in Nat /\ table \subseteq 1 .. issued /\ table \subseteq Ids
  BY DEF TypeOK, Ids, SessionsAssumption
<1>l. login[f] \in LoginStates /\ login[f].after \in Nat
  BY <1>t DEF LoginStates
<1>1. CASE RevokeOldSessions(f)
  <2>1. /\ issued' = issued /\ row' = row /\ table' = table \ Revoked(f)
        /\ login' = [login EXCEPT ![f].pc = "resolving", ![f].after = issued]
    BY <1>1 DEF RevokeOldSessions
  <2>2. login'[f].after = issued
    BY <2>1, <1>l, <1>t DEF LoginStates
  <2>3. \A s \in table' : row'[s].user # Account[f]
    BY <2>1 DEF Revoked
  <2> QED  BY <2>1, <2>2, <2>3, <1>t
<1>2. CASE /\ login[f].pc \in {"resolving", "creating"}
           /\ login'[f].after = login[f].after
  <2>1. /\ login[f].after <= issued
        /\ \A s \in table : row[s].user = Account[f] => login[f].after < s
    BY <1>2 DEF RevokedBefore
  <2>2. ASSUME NEW s \in table', s \in table
        PROVE  row'[s].user = row[s].user
    BY <2>2, <1>t, RowKept
  <2>3. CASE row' = row /\ table' \subseteq table /\ issued' = issued
    BY <2>1, <2>3, <1>2
  <2>4. ASSUME NEW g \in Logins, CreateSession(g)
        PROVE  /\ login'[f].after <= issued'
               /\ \A s \in table' : row'[s].user = Account[f] => login'[f].after < s
    <3>1. issued' = issued + 1 /\ table' = table \cup {issued'}
      BY <2>4, Created
    <3>2. login[f].after < issued'
      BY <3>1, <2>1, <1>t, <1>l
    <3> QED  BY <1>2, <2>1, <2>2, <3>1, <3>2, <1>l, <1>t
  <2>5. ASSUME NEW b \in Browsers, Slide(b)
        PROVE  /\ login'[f].after <= issued'
               /\ \A s \in table' : row'[s].user = Account[f] => login'[f].after < s
    <3>1. table' = table /\ issued' = issued
      BY <2>5, Slid
    <3> QED  BY <1>2, <2>1, <2>2, <3>1
  <2> QED  BY <2>3, <2>4, <2>5, RowCases
<1> QED  BY <1>1, <1>2, LoginCases

\* SurvivorsOverlap is kept.
LEMMA SurvivorsStep ==
    ASSUME SessionsAssumption, TypeOK, RevokedBefore, SurvivorsOverlap, [Next]_vars
    PROVE  SurvivorsOverlap'
<1> SUFFICES ASSUME NEW s \in table', NEW t \in table', s < t,
                    row'[s].user = row'[t].user
             PROVE  row'[t].after < s
  BY DEF SurvivorsOverlap
<1>t. /\ row \in [Ids -> Rows] /\ login \in [Logins -> LoginStates]
      /\ issued \in Nat /\ table \subseteq 1 .. issued
  BY DEF TypeOK
<1>1. CASE s \in table /\ t \in table
  <2>1. /\ row'[s].user = row[s].user /\ row'[t].user = row[t].user
        /\ row'[t].after = row[t].after
    BY <1>1, <1>t, RowKept
  <2> QED  BY <1>1, <2>1 DEF SurvivorsOverlap
<1>2. ASSUME s \notin table \/ t \notin table
      PROVE  row'[t].after < s
  <2>1. PICK f \in Logins : CreateSession(f)
    BY <1>2, Slid, RowCases
  <2>2. /\ issued' = issued + 1 /\ table' = table \cup {issued'}
        /\ row'[issued'] = [user |-> Account[f], admin |-> login[f].admin, created |-> now,
                            expires |-> FirstExpiry, after |-> login[f].after]
    BY <2>1, Created
  <2>3. s \in table /\ t = issued'
    BY <1>2, <1>t, <2>2
  <2>4. row'[t].user = Account[f] /\ row'[t].after = login[f].after
    BY <2>2, <2>3
  <2>5. row'[s].user = row[s].user
    BY <2>3, <1>t, RowKept
  <2>6. login[f].pc = "creating"
    BY <2>1 DEF CreateSession
  <2> QED  BY <2>3, <2>4, <2>5, <2>6 DEF RevokedBefore
<1> QED  BY <1>1, <1>2

-----------------------------------------------------------------------------
\* The inductive invariant holds in every state.
THEOREM SessionsInvariant == Spec => []IInv
<1> USE SessionsAssumption
<1>1. Init => IInv
  BY TypeInit DEF Init, IInv, InFlight, RowsEnd, DeletionsIssued, DeletionsFresh,
                  RevokedBefore, SurvivorsOverlap, NoRequest, NoLogin
<1>2. IInv /\ [Next]_vars => IInv'
  BY TypeStep, InFlightStep, RowsEndStep, DeletionsStep, RevokedBeforeStep, SurvivorsStep
     DEF IInv
<1> QED  BY <1>1, <1>2, PTL DEF Spec

(* However its browser's requests interleave, no session is kept, and no     *)
(* request let in, beyond the absolute lifetime of the login.                *)
THEOREM SessionsWithinAbsolute == Spec => []WithinAbsolute
<1>1. IInv => WithinAbsolute
  BY DEF IInv, InFlight, RowsEnd, WithinAbsolute
<1> QED  BY <1>1, SessionsInvariant, PTL

(* Only logins that overlap leave a user with two sessions.                  *)
THEOREM SessionsSurvivorsOverlap == Spec => []SurvivorsOverlap
<1>1. IInv => SurvivorsOverlap
  BY DEF IInv
<1> QED  BY <1>1, SessionsInvariant, PTL

(* Whoever deleted a retro was an admin whose login was fresh and not revoked *)
(* when it was checked.                                                       *)
THEOREM SessionsDeletionsFresh == Spec => []DeletionsFresh
<1>1. IInv => DeletionsFresh
  BY DEF IInv
<1> QED  BY <1>1, SessionsInvariant, PTL

-----------------------------------------------------------------------------
(* The sliding window.  A request writes the deadline that it computed when  *)
(* it was let in, and by then another may have used the session.             *)

\* A request is at most a tick old; what it will write it has computed from the
\* time it was let in, and only where the window has a half to slide by.
Sliding ==
    \A b \in Browsers : req[b].pc # "idle" =>
        /\ req[b].at <= now /\ now <= req[b].at + 1
        /\ req[b].pc = "slide" =>
              /\ IdleAge >= 2
              /\ req[b].expires = Lower(row[req[b].id].created + AbsoluteAge,
                                        req[b].at + IdleAge)

UsedBefore == \A s \in Ids : used[s] <= now

WindowInv == Sliding /\ UsedBefore /\ SlidingWindow

\* The clock stands still except in Tick, which waits for the requests.
LEMMA ClockCases ==
    ASSUME [Next]_vars
    PROVE  now' = now \/ Tick
  BY DEF Next, vars, LoginStep, StartLogin, Callback, Exchange, RevokeOldSessions,
         ResolveTeams, CreateSession, LoginFails, StateCookieEnds, Request, RequestRefused,
         Handle, Slide, ServePage, Logout, CheckLogin, DeleteRetro, RequestFails, Restart

LEMMA SlidingStep ==
    ASSUME SessionsAssumption, TypeOK, InFlight, Sliding, [Next]_vars
    PROVE  Sliding'
<1> SUFFICES ASSUME NEW b \in Browsers, req'[b].pc # "idle"
             PROVE  /\ req'[b].at <= now' /\ now' <= req'[b].at + 1
                    /\ req'[b].pc = "slide" =>
                          /\ IdleAge >= 2
                          /\ req'[b].expires = Lower(row'[req'[b].id].created + AbsoluteAge,
                                                     req'[b].at + IdleAge)
  BY DEF Sliding
<1>t. /\ req \in [Browsers -> RequestStates] /\ now \in Nat /\ row \in [Ids -> Rows]
      /\ 1 .. issued \subseteq Ids /\ table \subseteq 1 .. issued
      /\ IdleAge \in Nat /\ AbsoluteAge \in Nat
  BY DEF TypeOK, Ids, SessionsAssumption
<1>1. CASE Tick
  <2>1. req' = req /\ row' = row /\ now' = now + 1 /\ req[b].at = now
    BY <1>1 DEF Tick, dbVars
  <2> QED BY <2>1, <1>t DEF Sliding
<1>2. CASE now' = now
  <2>1. CASE req'[b] = req[b]
    <3>1. row'[req[b].id].created = row[req[b].id].created
      BY <2>1, RowKept DEF InFlight
    <3> QED BY <1>2, <2>1, <3>1 DEF Sliding
  <2>2. ASSUME NEW kind \in Kinds, Request(b, kind)
        PROVE  /\ req'[b].at = now
               /\ req'[b].pc = "slide" =>
                     /\ IdleAge >= 2
                     /\ req'[b].expires = Lower(row'[req'[b].id].created + AbsoluteAge,
                                                now + IdleAge)
    <3> DEFINE s == cookie[b].id
    <3>1. /\ s \in table /\ row[s].expires > now
          /\ req'[b].id = s /\ req'[b].at = now
          /\ req'[b].pc = "slide" => req'[b].expires = NewExpiry(s) /\ DueToSlide(s)
      BY <2>2, Requested
    <3>2. row' = row
      BY <2>2 DEF Request, dbVars
    <3> HIDE DEF s
    <3>3. row[s].expires \in Nat
      BY <3>1, <1>t DEF Rows
    <3>4. DueToSlide(s) => IdleAge >= 2
      BY <3>1, <3>3, <1>t DEF DueToSlide
    <3> QED BY <3>1, <3>2, <3>4 DEF NewExpiry
  <2>3. CASE Slide(b) \/ CheckLogin(b)
    <3>1. /\ req[b].pc # "idle" /\ req'[b].at = req[b].at /\ req'[b].pc # "slide"
      <4>1. /\ req[b].pc # "idle" /\ req[b] \in RequestStates
            /\ \/ req'[b] = [req[b] EXCEPT !.pc = "handle"]
               \/ req'[b] = [req[b] EXCEPT !.pc = "delete",
                              !.present = (req[b].id \in table), !.checked = now]
        BY <2>3, <1>t DEF Slide, CheckLogin, NoRequest
      <4> QED BY <4>1 DEF RequestStates
    <3> QED BY <1>2, <3>1 DEF Sliding
  <2> QED BY <1>2, <1>t, <2>1, <2>2, <2>3, RequestCases
<1> QED BY <1>1, <1>2, ClockCases

\* Where no session is created or slides, one that stays was used at most by a
\* request that found its deadline in the upper half of the window.
LEMMA UsedCases ==
    ASSUME SessionsAssumption, TypeOK, [Next]_vars,
           ~ \E f \in Logins : CreateSession(f), ~ \E b \in Browsers : Slide(b), NEW s \in Ids
    PROVE  \/ used'[s] = used[s]
           \/ used'[s] = now /\ ~ DueToSlide(s)
<1>t. used \in [Ids -> Nat]
  BY DEF TypeOK
<1>1. ASSUME NEW b \in Browsers, NEW kind \in Kinds, Request(b, kind)
      PROVE  used'[s] = used[s] \/ (used'[s] = now /\ ~ DueToSlide(s))
  <2>1. \/ used' = used
        \/ ~ DueToSlide(cookie[b].id) /\ used' = [used EXCEPT ![cookie[b].id] = now]
    BY <1>1, Requested
  <2> QED BY <2>1, <1>t
<1>2. ASSUME ~ \E b \in Browsers, kind \in Kinds : Request(b, kind)
      PROVE  used' = used
  BY <1>2 DEF Next, vars, LoginStep, StartLogin, Callback, Exchange, RevokeOldSessions,
         ResolveTeams, LoginFails, StateCookieEnds, RequestRefused, Handle, ServePage, Logout,
         CheckLogin, DeleteRetro, RequestFails, Restart, Tick
<1> QED BY <1>1, <1>2

LEMMA WindowStep ==
    ASSUME SessionsAssumption, TypeOK, InFlight, WindowInv, [Next]_vars
    PROVE  UsedBefore' /\ SlidingWindow'
<1>t. /\ now \in Nat /\ row \in [Ids -> Rows] /\ used \in [Ids -> Nat]
      /\ req \in [Browsers -> RequestStates]
      /\ table \subseteq Ids /\ table \subseteq 1 .. issued /\ issued \in Nat
      /\ IdleAge \in Nat \ {0} /\ AbsoluteAge \in Nat \ {0}
  BY DEF TypeOK, Ids, SessionsAssumption
<1>n. now' \in Nat /\ now' >= now
  BY <1>t, ClockCases DEF Tick
<1>0. \A s \in Ids : row[s].expires \in Nat /\ row[s].created \in Nat
  BY <1>t DEF Rows
<1>1. ASSUME NEW f \in Logins, CreateSession(f)
      PROVE  UsedBefore' /\ SlidingWindow'
  <2>1. /\ issued' \in Ids /\ table' = table \cup {issued'}
        /\ row'[issued'].created = now /\ row'[issued'].expires = FirstExpiry
        /\ \A s \in 1 .. issued : row'[s] = row[s] /\ s # issued'
    <3>1. row'[issued'] = [user |-> Account[f], admin |-> login[f].admin, created |-> now,
                           expires |-> FirstExpiry, after |-> login[f].after]
      BY <1>1, Created
    <3>2. row'[issued'].created = now /\ row'[issued'].expires = FirstExpiry
      BY <3>1
    <3> QED BY <1>1, <3>2, Created
  <2>2. /\ used'[issued'] = now
        /\ \A s \in Ids \ {issued'} : used'[s] = used[s]
    <3>1. issued' = issued + 1 /\ used' = [used EXCEPT ![issued + 1] = now]
      BY <1>1 DEF CreateSession
    <3> QED BY <2>1, <3>1, <1>t
  <2>3. /\ FirstExpiry <= now + IdleAge
        /\ 2 * (FirstExpiry - now) >= IdleAge \/ FirstExpiry = now + AbsoluteAge
    BY <1>t DEF FirstExpiry, Lower
  <2>4. UsedBefore'
    BY <2>2, <1>n, <1>t DEF WindowInv, UsedBefore
  <2>5. ASSUME NEW s \in table
        PROVE  row'[s] = row[s] /\ used'[s] = used[s]
    BY <1>t, <2>1, <2>2
  <2>6. SlidingWindow'
    BY <2>1, <2>2, <2>3, <2>5 DEF WindowInv, SlidingWindow
  <2> QED BY <2>4, <2>6
<1>2. ASSUME NEW b \in Browsers, Slide(b)
      PROVE  UsedBefore' /\ SlidingWindow'
  <2> DEFINE id == req[b].id
             at == req[b].at
  <2>1. /\ id \in Ids /\ at \in Nat
        /\ at <= now /\ now <= at + 1 /\ IdleAge >= 2
        /\ req[b].expires = Lower(row[id].created + AbsoluteAge, at + IdleAge)
    <3>1. req[b].pc = "slide" /\ req[b] \in RequestStates
      BY <1>2, <1>t DEF Slide
    <3>2. id \in Ids
      BY <3>1 DEF InFlight, TypeOK, Ids, SessionsAssumption
    <3>3. at \in Nat
      BY <3>1 DEF RequestStates
    <3> QED BY <3>1, <3>2, <3>3 DEF WindowInv, Sliding
  <2>2. /\ used' = [used EXCEPT ![id] = Higher(used[id], at)]
        /\ table' = table /\ now' = now
    BY <1>2 DEF Slide, Updated
  <2>3. /\ \A s \in Ids \ {id} : row'[s] = row[s]
        /\ id \in table => /\ row'[id].expires = req[b].expires
                           /\ row'[id].created = row[id].created
    BY <1>2, <1>t DEF Slide, Rows
  <2>4. \A s \in Ids \ {id} : used'[s] = used[s]
    BY <2>2, <1>t
  <2>5. used'[id] = Higher(used[id], at) /\ used[id] <= now /\ used[id] \in Nat
    BY <2>1, <2>2, <1>t DEF WindowInv, UsedBefore
  <2>6. req[b].expires = row[id].created + AbsoluteAge \/ req[b].expires = at + IdleAge
    BY <2>1 DEF Lower
  <2>7. req[b].expires <= at + IdleAge
    <3> HIDE DEF id, at
    <3>1. row[id].created + AbsoluteAge \in Nat /\ at + IdleAge \in Nat
      <4>1. row[id].created \in Nat /\ at \in Nat
        BY <2>1, <1>0
      <4> QED BY <4>1, <1>t
    <3>2. \A x, y \in Nat : Lower(x, y) <= y
      BY DEF Lower
    <3> QED BY <2>1, <3>1, <3>2, Zenon
  <2>8. req[b].expires \in Nat
    BY <1>t DEF RequestStates
  <2> HIDE DEF id, at
  <2>9. UsedBefore'
    BY <2>1, <2>2, <2>4, <2>5, <1>t DEF WindowInv, UsedBefore, Higher
  <2>10. ASSUME id \in table
         PROVE  /\ row'[id].expires <= used'[id] + IdleAge
                /\ \/ 2 * (row'[id].expires - used'[id]) >= IdleAge
                   \/ row'[id].expires = row'[id].created + AbsoluteAge
    <3>1. used'[id] \in Nat /\ at <= used'[id] /\ used'[id] <= at + 1
      BY <2>1, <2>5, <1>t DEF Higher
    <3>2. row'[id].expires <= used'[id] + IdleAge
      BY <2>1, <2>3, <2>7, <2>8, <2>10, <3>1, <1>t
    <3>3. req[b].expires = at + IdleAge => 2 * (req[b].expires - used'[id]) >= IdleAge
      BY <2>1, <3>1, <1>t
    <3> QED BY <2>3, <2>6, <2>10, <3>2, <3>3
  <2>11. SlidingWindow'
    BY <2>2, <2>3, <2>4, <2>10, <1>t DEF WindowInv, SlidingWindow
  <2> QED BY <2>9, <2>11
<1>3. CASE ~ (\E f \in Logins : CreateSession(f)) /\ ~ (\E b \in Browsers : Slide(b))
  <2>1. \A s \in Ids : used'[s] = used[s] \/ (used'[s] = now /\ ~ DueToSlide(s))
    BY <1>3, UsedCases
  <2>2. row' = row /\ table' \subseteq table
    BY <1>3, RowCases
  <2>3. UsedBefore'
    BY <2>1, <1>n, <1>t DEF WindowInv, UsedBefore
  <2>4. ASSUME NEW s \in table'
        PROVE  /\ row[s].expires <= used'[s] + IdleAge
               /\ \/ 2 * (row[s].expires - used'[s]) >= IdleAge
                  \/ row[s].expires = row[s].created + AbsoluteAge
    <3>1. /\ s \in table /\ s \in Ids /\ row[s].expires \in Nat
          /\ used[s] \in Nat /\ used[s] <= now
      BY <2>2, <1>0, <1>t DEF WindowInv, UsedBefore
    <3>2. /\ row[s].expires <= used[s] + IdleAge
          /\ \/ 2 * (row[s].expires - used[s]) >= IdleAge
             \/ row[s].expires = row[s].created + AbsoluteAge
      BY <3>1 DEF WindowInv, SlidingWindow
    <3>3. CASE used'[s] = now /\ ~ DueToSlide(s)
      BY <3>1, <3>2, <3>3, <1>t DEF DueToSlide
    <3> QED BY <2>1, <3>1, <3>2, <3>3
  <2> QED BY <2>2, <2>3, <2>4 DEF SlidingWindow
<1> QED BY <1>1, <1>2, <1>3

(* A session outlives its last request by half of the idle window, or to the *)
(* end of its login, and by the whole window at most, although the deadline  *)
(* is written after others may have used the session.                        *)
THEOREM SessionsSlidingWindow == Spec => []SlidingWindow
<1> USE SessionsAssumption
<1>1. Init => WindowInv
  BY DEF Init, WindowInv, Sliding, UsedBefore, SlidingWindow, NoRequest
<1>2. TypeOK /\ InFlight /\ WindowInv /\ [Next]_vars => WindowInv'
  BY SlidingStep, WindowStep DEF WindowInv
<1>3. IInv => TypeOK /\ InFlight
  BY DEF IInv
<1>4. WindowInv => SlidingWindow
  BY DEF WindowInv
<1> QED  BY <1>1, <1>2, <1>3, <1>4, SessionsInvariant, PTL DEF Spec
=============================================================================
