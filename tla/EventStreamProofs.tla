------------------------- MODULE EventStreamProofs -------------------------
(***************************************************************************)
(* Theorems about EventStream, for any number of retros, tabs and writers. *)
(***************************************************************************)
EXTENDS EventStream, TLAPS

(* Every variable keeps its type.                                           *)
LEMMA TypeInit == Init => TypeOK
<1> SUFFICES ASSUME Init PROVE TypeOK
    OBVIOUS
<1> USE DEF Init
<1>1. DbTypeOK  BY DEF DbTypeOK, NoTx, Ids
<1>2. NotifierTypeOK  BY DEF NotifierTypeOK, Phases, NoRetro
<1>3. ClientTypeOK  BY DEF ClientTypeOK, Conns
<1>4. HistoryTypeOK  BY DEF HistoryTypeOK
<1> QED  BY <1>1, <1>2, <1>3, <1>4 DEF TypeOK

\* Every step keeps the types of the events table and its transactions.
LEMMA DbTypeStep == TypeOK /\ [Next]_vars => DbTypeOK'
<1> SUFFICES ASSUME TypeOK, [Next]_vars PROVE DbTypeOK'
    OBVIOUS
<1> USE DEF TypeOK, DbTypeOK, Ids
<1>1. ASSUME NEW w \in Writers, NEW r \in Retros, EmitEvent(w, r)
      PROVE  DbTypeOK'
  <2>1. issued' \in Seq(Retros) /\ Len(issued') = Len(issued) + 1
    BY <1>1 DEF EmitEvent, NextId
  <2>2. Ids \subseteq Ids' /\ Len(issued) + 1 \in Ids'
    BY <2>1
  <2>3. tx'[w] \in [ids : SUBSET Ids', notes : Seq(Retros)]
    BY <1>1, <2>2 DEF EmitEvent, NextId
  <2>4. tx' \in [Writers -> [ids : SUBSET Ids', notes : Seq(Retros)]]
    <3>1. tx' = [tx EXCEPT ![w] = tx'[w]]
      BY <1>1 DEF EmitEvent, NextId
    <3>2. ASSUME NEW v \in Writers, v # w
          PROVE  tx[v] \in [ids : SUBSET Ids', notes : Seq(Retros)]
      BY <2>2
    <3> QED  BY <2>3, <3>1, <3>2
  <2> QED  BY <1>1, <2>1, <2>2, <2>4 DEF EmitEvent, NextId
<1>2. ASSUME NEW w \in Writers, Commit(w) \/ Rollback(w)
      PROVE  DbTypeOK'
  <2>1. tx' = [tx EXCEPT ![w] = NoTx] /\ NoTx \in [ids : SUBSET Ids, notes : Seq(Retros)]
    BY <1>2 DEF Commit, Rollback, NoTx
  <2>2. tx[w].ids \subseteq Ids
    OBVIOUS
  <2>3. committed' \subseteq Ids /\ issued' = issued /\ deleted' = deleted
    BY <1>2, <2>2 DEF Commit, Rollback
  <2> QED  BY <2>1, <2>3
<1>3. ASSUME NEW r \in Retros, DeleteRetro(r)
      PROVE  DbTypeOK'
  BY <1>3 DEF DeleteRetro
<1>4. ASSUME UNCHANGED dbVars
      PROVE  DbTypeOK'
  BY <1>4 DEF dbVars
<1>5. CASE Notifier
  BY <1>4, <1>5 DEF Notifier, ReadCursor, ReadCursorFails, Listen, ConnectionLost, Recv,
                    LoadEvents, LoadEventsFails, Publish
<1>6. ASSUME NEW c \in Clients, Browser(c)
      PROVE  DbTypeOK'
  BY <1>4, <1>6 DEF Browser, PageLoad, Admit, Subscribe, ReadMaxId, LoadReplay, SendReplay,
                    SendLive, Disconnect, Refuse
<1>7. CASE Restart  BY <1>4, <1>7 DEF Restart
<1>8. CASE UNCHANGED vars  BY <1>4, <1>8 DEF vars
<1> QED  BY <1>1, <1>2, <1>3, <1>5, <1>6, <1>7, <1>8 DEF Next, Database

(* A query on the events table returns committed events of that retro.       *)
LEMMA RowsCommitted ==
    ASSUME TypeOK, NEW r
    PROVE  /\ Rows(r) \subseteq committed
           /\ Rows(r) \subseteq Nat
           /\ committed \subseteq Nat
           /\ \A e \in Rows(r) : issued[e] = r
<1>1. committed \subseteq Nat
  BY DEF TypeOK, DbTypeOK, Ids
<1>2. Rows(r) \subseteq committed /\ \A e \in Rows(r) : issued[e] = r
  BY DEF Rows
<1> QED  BY <1>1, <1>2

\* Every step keeps the types of the notifier and its connection.
LEMMA NotifierTypeStep == TypeOK /\ [Next]_vars => NotifierTypeOK'
<1> SUFFICES ASSUME TypeOK, [Next]_vars PROVE NotifierTypeOK'
    OBVIOUS
<1> USE DEF TypeOK, NotifierTypeOK, Phases
<1>1. ASSUME UNCHANGED listenVars, UNCHANGED notifierVars
      PROVE  NotifierTypeOK'
  BY <1>1 DEF listenVars, notifierVars
<1>2. CASE Database
  <2>1. ASSUME NEW w \in Writers, Commit(w)
        PROVE  NotifierTypeOK'
    BY <2>1 DEF Commit, Notified, notifierVars, DbTypeOK
  <2> QED  BY <1>1, <1>2, <2>1 DEF Database, EmitEvent, Rollback, DeleteRetro
<1>3. CASE Notifier
  <2> USE DEF listenVars, Ids
  <2>1. CASE ReadCursor  BY <2>1 DEF ReadCursor, DbTypeOK
  <2>2. CASE ReadCursorFails  BY <2>2 DEF ReadCursorFails
  <2>3. CASE Listen  BY <2>3 DEF Listen, notifierVars
  <2>4. CASE ConnectionLost  BY <2>4 DEF ConnectionLost, DropListener, notifierVars
  <2>5. CASE Recv  BY <2>5 DEF Recv
  <2>6. CASE LoadEvents
    <3>1. batch' \subseteq Nat
      BY <2>6, RowsCommitted DEF LoadEvents, Unread
    <3>2. phase' \in Phases /\ target' \in Retros \cup {NoRetro}
      BY <2>6 DEF LoadEvents, Unread, AfterBatch
    <3> QED  BY <2>6, <3>1, <3>2 DEF LoadEvents
  <2>7. CASE LoadEventsFails  BY <2>7 DEF LoadEventsFails, DropListener
  <2>8. CASE Publish
    <3>1. PICK e \in batch : lastId' = (IF e > lastId THEN e ELSE lastId) /\ batch' = batch \ {e}
      BY <2>8 DEF Publish
    <3>2. phase' \in Phases /\ target' \in Retros \cup {NoRetro}
      BY <2>8 DEF Publish, AfterBatch
    <3> QED  BY <2>8, <3>1, <3>2 DEF Publish
  <2> QED  BY <1>3, <2>1, <2>2, <2>3, <2>4, <2>5, <2>6, <2>7, <2>8 DEF Notifier
<1>4. ASSUME NEW c \in Clients, Browser(c)
      PROVE  NotifierTypeOK'
  BY <1>1, <1>4 DEF Browser, PageLoad, Admit, Subscribe, ReadMaxId, LoadReplay, SendReplay,
                    SendLive, Disconnect, Refuse
<1>5. CASE Restart  BY <1>5 DEF Restart, DropListener
<1>6. CASE UNCHANGED vars  BY <1>1, <1>6 DEF vars
<1> QED  BY <1>2, <1>3, <1>4, <1>5, <1>6 DEF Next

\* Every step keeps the types of the tabs and their streams.
LEMMA ClientTypeStep == TypeOK /\ [Next]_vars => ClientTypeOK'
<1> SUFFICES ASSUME TypeOK, [Next]_vars PROVE ClientTypeOK'
    OBVIOUS
<1> USE DEF TypeOK, ClientTypeOK, Conns, Live
<1>1. ASSUME UNCHANGED clientVars
      PROVE  ClientTypeOK'
  BY <1>1 DEF clientVars
<1>2. CASE Database
  BY <1>1, <1>2 DEF Database, EmitEvent, Commit, Rollback, DeleteRetro
<1>3. CASE Notifier
  <2>1. CASE Publish
    <3>1. PICK e \in batch :
             inbox' = [c \in Clients |->
                         IF Board[c] = target /\ conn[c] \in Live
                         THEN Append(inbox[c], e) ELSE inbox[c]]
      BY <2>1 DEF Publish
    <3>2. e \in Nat
      BY DEF NotifierTypeOK
    <3>3. inbox' \in [Clients -> Seq(Nat)]
      <4>1. \A c \in Clients : inbox[c] \in Seq(Nat) /\ Append(inbox[c], e) \in Seq(Nat)
        BY <3>2
      <4> QED  BY <3>1, <4>1
    <3> QED  BY <2>1, <3>3 DEF Publish
  <2> QED  BY <1>1, <1>3, <2>1 DEF Notifier, ReadCursor, ReadCursorFails, Listen,
                    ConnectionLost, Recv, LoadEvents, LoadEventsFails
<1>4. ASSUME NEW c \in Clients, Browser(c)
      PROVE  ClientTypeOK'
  <2>0. Rows(Board[c]) \subseteq Nat
    BY RowsCommitted
  <2>1. CASE PageLoad(c)  BY <2>0, <2>1 DEF PageLoad
  <2>2. CASE Admit(c)
    <3>1. (IF received[c] = << >> THEN 0 ELSE received[c][Len(received[c])]) \in Nat
      BY <2>2
    <3> QED  BY <2>2, <3>1 DEF Admit
  <2>9. CASE Subscribe(c)  BY <2>9 DEF Subscribe
  <2>3. CASE ReadMaxId(c)  BY <2>3 DEF ReadMaxId, Ids, DbTypeOK
  <2>4. CASE LoadReplay(c)  BY <2>0, <2>4 DEF LoadReplay, ReplayRows
  <2>5. CASE SendReplay(c)
    <3>1. PICK e \in replay[c] :
             /\ received' = [received EXCEPT ![c] = Append(@, e)]
             /\ replay' = [replay EXCEPT ![c] = @ \ {e}]
      BY <2>5 DEF SendReplay
    <3>2. e \in Nat
      OBVIOUS
    <3>3. Append(received[c], e) \in Seq(Nat)
      BY <3>2
    <3> QED  BY <2>5, <3>1, <3>2, <3>3 DEF SendReplay
  <2>6. CASE SendLive(c)
    <3>1. Head(inbox[c]) \in Nat /\ Tail(inbox[c]) \in Seq(Nat)
      BY <2>6 DEF SendLive, BeyondBound
    <3>2. Append(received[c], Head(inbox[c])) \in Seq(Nat)
      BY <3>1
    <3> QED  BY <2>6, <3>1, <3>2 DEF SendLive, BeyondBound
  <2>7. CASE Disconnect(c)  BY <2>7 DEF Disconnect, Close
  <2>8. CASE Refuse(c)  BY <2>8 DEF Refuse, Close
  <2> QED  BY <1>4, <2>1, <2>2, <2>3, <2>4, <2>5, <2>6, <2>7, <2>8, <2>9 DEF Browser
<1>5. CASE Restart  BY <1>5 DEF Restart
<1>6. CASE UNCHANGED vars  BY <1>1, <1>6 DEF vars
<1> QED  BY <1>2, <1>3, <1>4, <1>5, <1>6 DEF Next

\* Every step keeps the types of the history.
LEMMA HistoryTypeStep == TypeOK /\ [Next]_vars => HistoryTypeOK'
<1> SUFFICES ASSUME TypeOK, [Next]_vars PROVE HistoryTypeOK'
    OBVIOUS
<1> USE DEF TypeOK, HistoryTypeOK
<1>1. ASSUME UNCHANGED historyVars
      PROVE  HistoryTypeOK'
  BY <1>1 DEF historyVars
<1>0. committed \subseteq Nat
  BY DEF DbTypeOK, Ids
<1>2. ASSUME NEW rs
      PROVE  Unpublished(rs) \subseteq Nat
  BY <1>0 DEF Unpublished
<1>3. ASSUME NEW w \in Writers, Commit(w)
      PROVE  HistoryTypeOK'
  <2>1. tx[w].ids \subseteq Nat
    BY DEF DbTypeOK, Ids
  <2> QED  BY <1>3, <2>1 DEF Commit
<1>4. CASE Database
  BY <1>1, <1>3, <1>4 DEF Database, EmitEvent, Rollback, DeleteRetro
<1>5. CASE Notifier
  <2>1. CASE ReadCursor  BY <2>1 DEF ReadCursor, Ids, DbTypeOK
  <2>2. CASE ConnectionLost  BY <1>2, <2>2 DEF ConnectionLost, DropListener
  <2>3. CASE LoadEventsFails  BY <1>2, <2>3 DEF LoadEventsFails, DropListener
  <2>4. CASE Publish  BY <2>4 DEF Publish, NotifierTypeOK
  <2> QED  BY <1>1, <1>5, <2>1, <2>2, <2>3, <2>4
           DEF Notifier, ReadCursorFails, Listen, Recv, LoadEvents
<1>6. ASSUME NEW c \in Clients, Browser(c)
      PROVE  HistoryTypeOK'
  BY <1>1, <1>6 DEF Browser, PageLoad, Admit, Subscribe, ReadMaxId, LoadReplay, SendReplay,
                    SendLive, Disconnect, Refuse
<1>7. CASE Restart  BY <1>2, <1>7 DEF Restart, DropListener
<1>8. CASE UNCHANGED vars  BY <1>1, <1>8 DEF vars
<1> QED  BY <1>4, <1>5, <1>6, <1>7, <1>8 DEF Next

\* Every step keeps every type.
LEMMA TypeStep == TypeOK /\ [Next]_vars => TypeOK'
BY DbTypeStep, NotifierTypeStep, ClientTypeStep, HistoryTypeStep DEF TypeOK

(* Every reachable state is well typed.                                     *)
THEOREM TypeCorrect == Spec => []TypeOK
BY TypeInit, TypeStep, PTL DEF Spec

-----------------------------------------------------------------------------
(* The inductive invariant behind FeedOrdered.  What remains to be sent to a *)
(* tab has two sources, the replay and the receiver, and each must be newer  *)
(* than all the tab has seen: the bound maxId separates the two.             *)

SeenBy(c) == page[c] \cup Range(received[c])

\* The batch is ahead of the cursor, so what is published only goes up.
BatchInv ==
    /\ phase # "publishing" => batch = {}
    /\ \A e \in batch : e \in committed /\ issued[e] = target /\ e > lastId

\* What a tab has seen, and what waits for it, are events of its board.
OwnEvents(c) ==
    /\ \A e \in SeenBy(c) : e \in committed /\ issued[e] = Board[c]
    /\ \A e \in Range(inbox[c]) : e \in committed /\ issued[e] = Board[c]
    /\ \A e \in replay[c] : e \in committed /\ issued[e] = Board[c]

\* The receiver is in publication order and behind the cursor.
InboxInv(c) ==
    /\ conn[c] \notin Live => inbox[c] = << >>
    /\ phase = "boot" => inbox[c] = << >>
    /\ Increasing(inbox[c])
    /\ \A y \in Range(inbox[c]) : y <= lastId

\* The replay ends at the bound.
ReplayInv(c) ==
    /\ conn[c] # "streaming" => replay[c] = {}
    /\ \A e \in replay[c] : e <= maxId[c]

Ordered(c) ==
    /\ Increasing(received[c])
    /\ \A x \in page[c], y \in Range(received[c]) : x < y

\* What is still to come is newer than what has been seen.
AheadInv(c) ==
    /\ conn[c] \in {"admitted", "subscribed", "bounded"} /\ since[c] # 0 =>
          \A x \in SeenBy(c) : x <= since[c]
    /\ conn[c] \in {"bounded", "streaming"} =>
          \A x \in SeenBy(c) :
             \/ x <= maxId[c]
             \/ /\ phase # "boot"
                /\ x <= lastId
                /\ \A y \in Range(inbox[c]) : x < y
    /\ \A x \in SeenBy(c), e \in replay[c] : x < e

TabInv(c) ==
    /\ OwnEvents(c)
    /\ InboxInv(c)
    /\ ReplayInv(c)
    /\ Board[c] \notin deleted => Ordered(c) /\ AheadInv(c)

FeedInv == BatchInv /\ \A c \in Clients : TabInv(c)

(* What Append and Tail do to the elements and to the order of a sequence.   *)
LEMMA RangeAppend ==
    ASSUME NEW S, NEW s \in Seq(S), NEW e \in S
    PROVE  Range(Append(s, e)) = Range(s) \cup {e}
<1>1. DOMAIN Append(s, e) = DOMAIN s \cup {Len(s) + 1}
  OBVIOUS
<1>2. \A i \in DOMAIN s : Append(s, e)[i] = s[i]
  OBVIOUS
<1>3. Append(s, e)[Len(s) + 1] = e
  OBVIOUS
<1> QED  BY <1>1, <1>2, <1>3 DEF Range

\* The tail of a sequence holds nothing the sequence does not.
LEMMA RangeTail ==
    ASSUME NEW S, NEW s \in Seq(S), s # << >>
    PROVE  Head(s) \in Range(s) /\ Range(Tail(s)) \subseteq Range(s)
<1>1. 1 \in DOMAIN s /\ Head(s) = s[1]
  OBVIOUS
<1>2. \A i \in DOMAIN Tail(s) : i + 1 \in DOMAIN s /\ Tail(s)[i] = s[i + 1]
  OBVIOUS
<1> QED  BY <1>1, <1>2 DEF Range

\* A newer id at the end of ascending ids.
LEMMA IncreasingAppend ==
    ASSUME NEW s \in Seq(Nat), NEW e \in Nat, Increasing(s), \A x \in Range(s) : x < e
    PROVE  Increasing(Append(s, e))
<1>1. DOMAIN Append(s, e) = DOMAIN s \cup {Len(s) + 1} /\ DOMAIN s = 1 .. Len(s)
  OBVIOUS
<1>2. \A i \in DOMAIN s : Append(s, e)[i] = s[i] /\ s[i] < e
  BY DEF Range
<1>3. Append(s, e)[Len(s) + 1] = e
  OBVIOUS
<1> QED  BY <1>1, <1>2, <1>3 DEF Increasing

\* The rest of ascending ids ascends, above the head.
LEMMA IncreasingTail ==
    ASSUME NEW s \in Seq(Nat), s # << >>, Increasing(s)
    PROVE  Increasing(Tail(s)) /\ \A y \in Range(Tail(s)) : Head(s) < y
<1>1. 1 \in DOMAIN s /\ Head(s) = s[1]
  OBVIOUS
<1>2. \A i \in DOMAIN Tail(s) : i + 1 \in DOMAIN s /\ 1 < i + 1 /\ Tail(s)[i] = s[i + 1]
  OBVIOUS
<1>3. \A i, j \in DOMAIN Tail(s) : i < j => i + 1 < j + 1
  OBVIOUS
<1> QED  BY <1>1, <1>2, <1>3 DEF Increasing, Range

(* The last element of an increasing sequence is its maximum.                *)
LEMMA IncreasingLast ==
    ASSUME NEW s \in Seq(Nat), s # << >>, Increasing(s)
    PROVE  /\ s[Len(s)] \in Range(s)
           /\ \A x \in Range(s) : x <= s[Len(s)]
<1>1. DOMAIN s = 1 .. Len(s) /\ Len(s) \in DOMAIN s
  OBVIOUS
<1>2. \A i \in DOMAIN s : i <= Len(s) /\ s[i] \in Nat
  OBVIOUS
<1> QED  BY <1>1, <1>2 DEF Increasing, Range

(* Steps that leave a tab, the cursor and the boot phase alone keep TabInv.  *)
SameTab(c) ==
    /\ page'[c] = page[c]
    /\ conn'[c] = conn[c]
    /\ inbox'[c] = inbox[c]
    /\ since'[c] = since[c]
    /\ maxId'[c] = maxId[c]
    /\ replay'[c] = replay[c]
    /\ received'[c] = received[c]

LogGrows ==
    /\ committed \subseteq committed'
    /\ \A e \in committed : issued'[e] = issued[e]
    /\ deleted \subseteq deleted'

\* A tab whose part of the state is unchanged stays in order.
LEMMA TabKept ==
    ASSUME NEW c \in Clients, TabInv(c), SameTab(c), LogGrows,
           lastId' = lastId, phase' = "boot" => phase = "boot"
    PROVE  TabInv(c)'
<1> USE DEF SameTab, SeenBy
<1>1. OwnEvents(c)'  BY DEF TabInv, OwnEvents, LogGrows
<1>2. InboxInv(c)'  BY DEF TabInv, InboxInv, Increasing
<1>3. ReplayInv(c)'  BY DEF TabInv, ReplayInv
<1>4. Board[c] \notin deleted' => Ordered(c)'
  BY DEF TabInv, Ordered, Increasing, LogGrows
<1>5. Board[c] \notin deleted' => AheadInv(c)'
  BY DEF TabInv, AheadInv, LogGrows
<1> QED  BY <1>1, <1>2, <1>3, <1>4, <1>5 DEF TabInv

\* No step takes an id from the log or gives it to another retro.
LEMMA LogStep == TypeOK /\ [Next]_vars => LogGrows
<1> SUFFICES ASSUME TypeOK, [Next]_vars PROVE LogGrows
    OBVIOUS
<1>1. ASSUME UNCHANGED dbVars
      PROVE  LogGrows
  BY <1>1 DEF dbVars, LogGrows
<1>2. ASSUME NEW w \in Writers, NEW r \in Retros, EmitEvent(w, r)
      PROVE  LogGrows
  <2>1. \A e \in Ids : Append(issued, r)[e] = issued[e]
    BY DEF TypeOK, DbTypeOK, Ids
  <2> QED  BY <1>2, <2>1 DEF EmitEvent, NextId, LogGrows, TypeOK, DbTypeOK
<1>3. CASE Database
  BY <1>2, <1>3 DEF Database, Commit, Rollback, DeleteRetro, LogGrows
<1>4. CASE Notifier
  BY <1>1, <1>4 DEF Notifier, ReadCursor, ReadCursorFails, Listen, ConnectionLost, Recv,
                    LoadEvents, LoadEventsFails, Publish
<1>5. ASSUME NEW c \in Clients, Browser(c)
      PROVE  LogGrows
  BY <1>1, <1>5 DEF Browser, PageLoad, Admit, Subscribe, ReadMaxId, LoadReplay, SendReplay,
                    SendLive, Disconnect, Refuse
<1>6. CASE Restart  BY <1>1, <1>6 DEF Restart
<1>7. CASE UNCHANGED vars  BY <1>1, <1>7 DEF vars
<1> QED  BY <1>3, <1>4, <1>5, <1>6, <1>7 DEF Next

\* Every step keeps the batch of the notifier in order.
LEMMA BatchStep == TypeOK /\ BatchInv /\ [Next]_vars => BatchInv'
<1> SUFFICES ASSUME TypeOK, BatchInv, [Next]_vars PROVE BatchInv'
    OBVIOUS
<1>0. LogGrows
  BY LogStep
<1>1. ASSUME UNCHANGED notifierVars
      PROVE  BatchInv'
  BY <1>0, <1>1 DEF notifierVars, BatchInv, LogGrows
<1>2. CASE Database
  BY <1>1, <1>2 DEF Database, EmitEvent, Commit, Rollback, DeleteRetro
<1>3. CASE Notifier
  <2> USE DEF BatchInv, dbVars
  <2>1. CASE ReadCursor  BY <2>1 DEF ReadCursor
  <2>2. CASE ReadCursorFails  BY <2>2 DEF ReadCursorFails
  <2>3. CASE Listen  BY <1>1, <2>3 DEF Listen
  <2>4. CASE ConnectionLost  BY <1>1, <2>4 DEF ConnectionLost
  <2>5. CASE Recv  BY <2>5 DEF Recv
  <2>6. CASE LoadEvents
    <3>1. \A e \in batch' : e \in committed /\ issued[e] = target /\ e > lastId
      BY <2>6, RowsCommitted DEF LoadEvents, Unread
    <3> QED  BY <2>6, <3>1 DEF LoadEvents, Unread, AfterBatch
  <2>7. CASE LoadEventsFails  BY <2>7 DEF LoadEventsFails
  <2>8. CASE Publish
    <3>1. PICK e \in batch : /\ IsNext(e, batch)
                             /\ lastId' = (IF e > lastId THEN e ELSE lastId)
                             /\ batch' = batch \ {e}
      BY <2>8 DEF Publish
    <3>2. \A f \in batch' : f > lastId'
      BY <3>1 DEF IsNext, TypeOK, NotifierTypeOK
    <3> QED  BY <2>8, <3>1, <3>2 DEF Publish, AfterBatch
  <2> QED  BY <1>3, <2>1, <2>2, <2>3, <2>4, <2>5, <2>6, <2>7, <2>8 DEF Notifier
<1>4. ASSUME NEW c \in Clients, Browser(c)
      PROVE  BatchInv'
  BY <1>1, <1>4 DEF Browser, PageLoad, Admit, Subscribe, ReadMaxId, LoadReplay, SendReplay,
                    SendLive, Disconnect, Refuse
<1>5. CASE Restart  BY <1>5 DEF Restart, BatchInv
<1>6. CASE UNCHANGED vars  BY <1>1, <1>6 DEF vars
<1> QED  BY <1>2, <1>3, <1>4, <1>5, <1>6 DEF Next

(* The steps of the notifier that a tab can notice.                          *)
LEMMA TabReadCursor ==
    ASSUME TypeOK, NEW c \in Clients, TabInv(c), ReadCursor \/ ReadCursorFails
    PROVE  TabInv(c)'
<1>1. /\ phase = "boot"
      /\ phase' # "boot"
      /\ UNCHANGED <<dbVars, clientVars>>
  BY DEF ReadCursor, ReadCursorFails
<1>2. inbox[c] = << >> /\ inbox'[c] = << >>
  BY <1>1 DEF TabInv, InboxInv, clientVars
<1>3. InboxInv(c)'
  BY <1>2 DEF InboxInv, Increasing, Range
<1>4. OwnEvents(c)' /\ ReplayInv(c)'
  BY <1>1 DEF TabInv, OwnEvents, ReplayInv, SeenBy, dbVars, clientVars
<1>5. Board[c] \notin deleted' => Ordered(c)' /\ AheadInv(c)'
  BY <1>1 DEF TabInv, Ordered, AheadInv, SeenBy, dbVars, clientVars
<1> QED  BY <1>3, <1>4, <1>5 DEF TabInv

\* A restart of the server leaves a tab in order.
LEMMA TabRestart ==
    ASSUME TypeOK, NEW c \in Clients, TabInv(c), Restart
    PROVE  TabInv(c)'
<1>1. /\ conn'[c] \in {"waiting", "failed"}
      /\ inbox'[c] = << >>
      /\ replay'[c] = {}
      /\ UNCHANGED <<dbVars, page, received>>
  BY DEF Restart, Live, TypeOK, ClientTypeOK
<1>2. InboxInv(c)' /\ ReplayInv(c)'
  BY <1>1 DEF InboxInv, ReplayInv, Increasing, Range
<1>3. OwnEvents(c)'
  BY <1>1 DEF TabInv, OwnEvents, SeenBy, Range, dbVars
<1>4. Board[c] \notin deleted' => Ordered(c)' /\ AheadInv(c)'
  BY <1>1 DEF TabInv, Ordered, AheadInv, SeenBy, Live, dbVars
<1> QED  BY <1>2, <1>3, <1>4 DEF TabInv

\* Publishing raises the cursor and appends the same id to the receivers.
LEMMA TabPublish ==
    ASSUME TypeOK, BatchInv, NEW c \in Clients, TabInv(c), Publish
    PROVE  TabInv(c)'
<1>1. PICK e \in batch :
         /\ inbox' = [d \in Clients |->
                         IF Board[d] = target /\ conn[d] \in Live
                         THEN Append(inbox[d], e) ELSE inbox[d]]
         /\ lastId' = IF e > lastId THEN e ELSE lastId
  BY DEF Publish
<1>2. /\ e \in committed /\ issued[e] = target
      /\ e \in Nat /\ lastId \in Nat /\ lastId < e
      /\ lastId' = e
      /\ inbox[c] \in Seq(Nat)
      /\ page[c] \subseteq Nat /\ received[c] \in Seq(Nat)
      /\ maxId[c] \in Nat
  BY <1>1 DEF BatchInv, TypeOK, NotifierTypeOK, ClientTypeOK
<1>3. UNCHANGED <<dbVars, page, conn, since, maxId, replay, received>>
  BY DEF Publish
<1>4. phase # "boot" /\ phase' # "boot"
  BY DEF Publish, AfterBatch
<1>5. SeenBy(c) \subseteq Nat /\ SeenBy(c)' = SeenBy(c)
  BY <1>2, <1>3 DEF SeenBy, Range
<1>6. \A y \in Range(inbox[c]) : y <= lastId /\ y \in Nat
  BY <1>2 DEF TabInv, InboxInv, Range
<1>7. Board[c] \notin deleted' => Ordered(c)'
  BY <1>3 DEF TabInv, Ordered, dbVars
<1>8. ReplayInv(c)'
  BY <1>3 DEF TabInv, ReplayInv
<1>9. CASE Board[c] = target /\ conn[c] \in Live
  <2>1. inbox'[c] = Append(inbox[c], e)
    BY <1>1, <1>9
  <2>2. Range(inbox'[c]) = Range(inbox[c]) \cup {e}
    <3>1. Range(Append(inbox[c], e)) = Range(inbox[c]) \cup {e}
      BY <1>2, RangeAppend
    <3> QED  BY <2>1, <3>1
  <2>3. OwnEvents(c)'
    BY <1>2, <1>3, <1>5, <1>9, <2>2 DEF TabInv, OwnEvents, dbVars
  <2>4. Increasing(inbox'[c])
    <3>1. \A y \in Range(inbox[c]) : y < e
      BY <1>2, <1>6
    <3> QED  BY <1>2, <2>1, <3>1, IncreasingAppend DEF TabInv, InboxInv
  <2>5. \A y \in Range(inbox'[c]) : y <= lastId'
    BY <1>2, <1>6, <2>2
  <2>6. InboxInv(c)'
    BY <1>3, <1>4, <1>9, <2>4, <2>5 DEF InboxInv, Live
  <2>7. Board[c] \notin deleted' => AheadInv(c)'
    BY <1>2, <1>3, <1>4, <1>5, <2>2 DEF TabInv, AheadInv, dbVars
  <2> QED  BY <1>7, <1>8, <2>3, <2>6, <2>7 DEF TabInv
<1>10. CASE ~(Board[c] = target /\ conn[c] \in Live)
  <2>1. inbox'[c] = inbox[c]
    BY <1>1, <1>10
  <2>2. OwnEvents(c)'
    BY <1>3, <1>5, <2>1 DEF TabInv, OwnEvents, dbVars
  <2>3. InboxInv(c)'
    BY <1>2, <1>3, <1>4, <1>6, <2>1 DEF TabInv, InboxInv
  <2>4. Board[c] \notin deleted' => AheadInv(c)'
    BY <1>2, <1>3, <1>4, <1>5, <2>1 DEF TabInv, AheadInv, dbVars
  <2> QED  BY <1>7, <1>8, <2>2, <2>3, <2>4 DEF TabInv
<1> QED  BY <1>9, <1>10

(* The steps of the tab itself.                                              *)
LEMMA TabAdmit ==
    ASSUME TypeOK, NEW c \in Clients, TabInv(c), Admit(c)
    PROVE  TabInv(c)'
<1>1. /\ conn[c] = "waiting" /\ conn'[c] = "admitted"
      /\ since'[c] = IF received[c] = << >> THEN 0 ELSE received[c][Len(received[c])]
      /\ UNCHANGED <<dbVars, notifierVars, page, inbox, maxId, replay, received>>
  BY DEF Admit, TypeOK, ClientTypeOK
<1>2. inbox'[c] = << >> /\ replay'[c] = {}
  BY <1>1 DEF TabInv, InboxInv, ReplayInv, Live
<1>3. OwnEvents(c)' /\ InboxInv(c)' /\ ReplayInv(c)'
  BY <1>1, <1>2 DEF TabInv, OwnEvents, InboxInv, ReplayInv, SeenBy, Live, dbVars,
                    notifierVars, Increasing, Range
<1>4. Board[c] \notin deleted' => Ordered(c)'
  BY <1>1 DEF TabInv, Ordered, dbVars
<1>5. ASSUME Board[c] \notin deleted', since'[c] # 0
      PROVE  \A x \in SeenBy(c)' : x <= since'[c]
  <2>1. received[c] # << >> /\ received[c] \in Seq(Nat) /\ Increasing(received[c])
    BY <1>1, <1>5 DEF TabInv, Ordered, TypeOK, ClientTypeOK, dbVars
  <2>2. /\ since'[c] \in Range(received[c])
        /\ \A x \in Range(received[c]) : x <= since'[c]
    BY <1>1, <2>1, IncreasingLast
  <2>3. \A x \in page[c] : x < since'[c]
    BY <1>1, <1>5, <2>2 DEF TabInv, Ordered, dbVars
  <2>4. page[c] \subseteq Nat /\ since'[c] \in Nat
    BY <2>1, <2>2 DEF TypeOK, ClientTypeOK, Range
  <2> QED  BY <1>1, <2>2, <2>3, <2>4 DEF SeenBy
<1>6. Board[c] \notin deleted' => AheadInv(c)'
  BY <1>1, <1>2, <1>5 DEF AheadInv
<1> QED  BY <1>3, <1>4, <1>6 DEF TabInv

\* Subscribing leaves a tab in order: the receiver starts empty.
LEMMA TabSubscribe ==
    ASSUME TypeOK, NEW c \in Clients, TabInv(c), Subscribe(c)
    PROVE  TabInv(c)'
<1>1. /\ conn[c] = "admitted" /\ conn'[c] = "subscribed"
      /\ UNCHANGED <<dbVars, notifierVars, page, inbox, since, maxId, replay, received>>
  BY DEF Subscribe, TypeOK, ClientTypeOK
<1>2. OwnEvents(c)' /\ InboxInv(c)' /\ ReplayInv(c)'
  BY <1>1 DEF TabInv, OwnEvents, InboxInv, ReplayInv, SeenBy, Live, dbVars, notifierVars
<1>3. Board[c] \notin deleted' => Ordered(c)' /\ AheadInv(c)'
  BY <1>1 DEF TabInv, Ordered, AheadInv, SeenBy, dbVars
<1> QED  BY <1>2, <1>3 DEF TabInv

\* The bound covers all the tab has seen: those are rows of its board.
LEMMA TabReadMaxId ==
    ASSUME TypeOK, NEW c \in Clients, TabInv(c), ReadMaxId(c)
    PROVE  TabInv(c)'
<1>1. /\ conn[c] = "subscribed" /\ conn'[c] = "bounded"
      /\ UNCHANGED <<dbVars, notifierVars, page, inbox, since, replay, received>>
  BY DEF ReadMaxId, TypeOK, ClientTypeOK
<1>2. IsMaxId(maxId'[c], Rows(Board[c]))
  BY DEF ReadMaxId, TypeOK, ClientTypeOK
<1>3. replay'[c] = {}
  BY <1>1 DEF TabInv, ReplayInv
<1>4. OwnEvents(c)' /\ InboxInv(c)' /\ ReplayInv(c)'
  BY <1>1, <1>3 DEF TabInv, OwnEvents, InboxInv, ReplayInv, SeenBy, Live, dbVars, notifierVars
<1>5. ASSUME Board[c] \notin deleted'
      PROVE  Ordered(c)' /\ AheadInv(c)'
  <2>1. Ordered(c)'
    BY <1>1, <1>5 DEF TabInv, Ordered, dbVars
  <2>2. \A x \in SeenBy(c) : x <= maxId'[c]
    BY <1>1, <1>2, <1>5 DEF TabInv, OwnEvents, IsMaxId, Rows, dbVars
  <2>3. SeenBy(c)' = SeenBy(c)
    BY <1>1 DEF SeenBy
  <2>4. conn[c] \in {"admitted", "subscribed", "bounded"} /\ since[c] # 0 =>
           \A x \in SeenBy(c) : x <= since[c]
    BY <1>1, <1>5 DEF TabInv, AheadInv, dbVars
  <2> QED  BY <1>1, <1>3, <2>1, <2>2, <2>3, <2>4 DEF AheadInv
<1> QED  BY <1>4, <1>5 DEF TabInv

\* The replay of the missed events leaves a tab in order.
LEMMA TabLoadReplay ==
    ASSUME TypeOK, NEW c \in Clients, TabInv(c), LoadReplay(c)
    PROVE  TabInv(c)'
<1>1. /\ conn[c] = "bounded" /\ conn'[c] = "streaming"
      /\ replay'[c] = IF since[c] = 0 THEN {}
                      ELSE {e \in Rows(Board[c]) : since[c] < e /\ e <= maxId[c]}
      /\ UNCHANGED <<dbVars, notifierVars, page, inbox, since, maxId, received>>
  BY DEF LoadReplay, ReplayRows, TypeOK, ClientTypeOK
<1>2. /\ \A e \in replay'[c] : /\ e \in committed /\ issued[e] = Board[c]
                               /\ since[c] # 0 /\ since[c] < e /\ e <= maxId[c]
      /\ replay'[c] \subseteq Nat
  BY <1>1, RowsCommitted
<1>3. OwnEvents(c)' /\ InboxInv(c)' /\ ReplayInv(c)'
  BY <1>1, <1>2 DEF TabInv, OwnEvents, InboxInv, ReplayInv, SeenBy, Live, dbVars, notifierVars
<1>4. ASSUME Board[c] \notin deleted'
      PROVE  Ordered(c)' /\ AheadInv(c)'
  <2>0. Ordered(c) /\ AheadInv(c)
    BY <1>1, <1>4 DEF TabInv, dbVars
  <2>1. Ordered(c)'
    BY <1>1, <2>0 DEF Ordered
  <2>2. SeenBy(c)' = SeenBy(c) /\ SeenBy(c) \subseteq Nat /\ since[c] \in Nat
    BY <1>1 DEF SeenBy, TypeOK, ClientTypeOK, Range
  <2>3. \A x \in SeenBy(c), e \in replay'[c] : x < e
    BY <1>1, <1>2, <2>0, <2>2 DEF AheadInv
  <2> QED  BY <1>1, <2>0, <2>1, <2>2, <2>3 DEF AheadInv, notifierVars
<1> QED  BY <1>3, <1>4 DEF TabInv

\* A frame that is newer than all that was seen keeps the feed in order.
LEMMA OrderedAppend ==
    ASSUME NEW c \in Clients, NEW e \in Nat, received[c] \in Seq(Nat), page'[c] = page[c],
           Ordered(c), \A x \in SeenBy(c) : x < e, received'[c] = Append(received[c], e)
    PROVE  Ordered(c)'
<1>1. Range(received'[c]) = Range(received[c]) \cup {e}
  <2>1. Range(Append(received[c], e)) = Range(received[c]) \cup {e}
    BY RangeAppend
  <2> QED  BY <2>1
<1>2. Increasing(received'[c])
  BY IncreasingAppend DEF Ordered, SeenBy
<1> QED  BY <1>1, <1>2 DEF Ordered, SeenBy

\* Sending the next event of the replay leaves a tab in order.
LEMMA TabSendReplay ==
    ASSUME TypeOK, NEW c \in Clients, TabInv(c), SendReplay(c)
    PROVE  TabInv(c)'
<1>1. PICK e \in replay[c] : /\ IsNext(e, replay[c])
                             /\ received'[c] = Append(received[c], e)
                             /\ replay'[c] = replay[c] \ {e}
  BY DEF SendReplay, TypeOK, ClientTypeOK
<1>2. /\ conn[c] = "streaming"
      /\ UNCHANGED <<dbVars, notifierVars, page, conn, inbox, since, maxId>>
  BY DEF SendReplay
<1>3. /\ received[c] \in Seq(Nat) /\ replay[c] \subseteq Nat /\ e \in Nat
      /\ page[c] \subseteq Nat
  BY DEF TypeOK, ClientTypeOK
<1>4. SeenBy(c)' = SeenBy(c) \cup {e}
  <2>1. Range(Append(received[c], e)) = Range(received[c]) \cup {e}
    BY <1>3, RangeAppend
  <2> QED  BY <1>1, <1>2, <2>1 DEF SeenBy
<1>5. OwnEvents(c)' /\ InboxInv(c)' /\ ReplayInv(c)'
  BY <1>1, <1>2, <1>4 DEF TabInv, OwnEvents, InboxInv, ReplayInv, dbVars, notifierVars
<1>6. ASSUME Board[c] \notin deleted'
      PROVE  Ordered(c)' /\ AheadInv(c)'
  <2>0. Ordered(c) /\ AheadInv(c) /\ ReplayInv(c)
    BY <1>2, <1>6 DEF TabInv, dbVars
  <2>1. Ordered(c)'
    <3>1. \A x \in SeenBy(c) : x < e
      BY <2>0 DEF AheadInv
    <3> QED  BY <1>1, <1>2, <1>3, <2>0, <3>1, OrderedAppend
  <2>2. e <= maxId[c]
    BY <2>0 DEF ReplayInv
  <2>3. \A x \in SeenBy(c)', f \in replay'[c] : x < f
    BY <1>1, <1>3, <1>4, <2>0 DEF AheadInv, IsNext
  <2>4. \A x \in SeenBy(c)' : \/ x <= maxId[c]
                              \/ /\ phase # "boot"
                                 /\ x <= lastId
                                 /\ \A y \in Range(inbox[c]) : x < y
    BY <1>2, <1>4, <2>0, <2>2 DEF AheadInv
  <2> QED  BY <1>2, <2>1, <2>3, <2>4 DEF AheadInv, notifierVars
<1> QED  BY <1>5, <1>6 DEF TabInv

\* A live frame is sent only when it is newer than the bound; the frames behind
\* it in the receiver are newer still.
LEMMA TabSendLive ==
    ASSUME TypeOK, NEW c \in Clients, TabInv(c), SendLive(c)
    PROVE  TabInv(c)'
<1> DEFINE e == Head(inbox[c])
<1>1. /\ conn[c] = "streaming" /\ replay[c] = {} /\ inbox[c] # << >>
      /\ inbox'[c] = Tail(inbox[c])
      /\ received'[c] = IF e > maxId[c] THEN Append(received[c], e) ELSE received[c]
      /\ UNCHANGED <<dbVars, notifierVars, page, conn, since, maxId, replay>>
  BY DEF SendLive, BeyondBound, TypeOK, ClientTypeOK
<1>2. /\ inbox[c] \in Seq(Nat) /\ received[c] \in Seq(Nat) /\ e \in Nat
      /\ maxId[c] \in Nat /\ page[c] \subseteq Nat
  BY <1>1 DEF TypeOK, ClientTypeOK
<1>3. e \in Range(inbox[c]) /\ Range(inbox'[c]) \subseteq Range(inbox[c])
  <2>1. Head(inbox[c]) \in Range(inbox[c]) /\ Range(Tail(inbox[c])) \subseteq Range(inbox[c])
    BY <1>1, <1>2, RangeTail
  <2> QED  BY <1>1, <2>1
<1>4. Increasing(inbox'[c]) /\ \A y \in Range(inbox'[c]) : e < y
  <2>1. Increasing(Tail(inbox[c])) /\ \A y \in Range(Tail(inbox[c])) : Head(inbox[c]) < y
    BY <1>1, <1>2, IncreasingTail DEF TabInv, InboxInv
  <2> QED  BY <1>1, <2>1
<1>5. SeenBy(c)' = IF e > maxId[c] THEN SeenBy(c) \cup {e} ELSE SeenBy(c)
  <2>1. Range(Append(received[c], e)) = Range(received[c]) \cup {e}
    BY <1>2, RangeAppend
  <2> QED  BY <1>1, <2>1 DEF SeenBy
<1>6. OwnEvents(c)'
  BY <1>1, <1>3, <1>5 DEF TabInv, OwnEvents, dbVars
<1>7. phase # "boot" /\ e <= lastId
  BY <1>1, <1>3 DEF TabInv, InboxInv
<1>8. InboxInv(c)' /\ ReplayInv(c)'
  BY <1>1, <1>3, <1>4, <1>7 DEF TabInv, InboxInv, ReplayInv, Live, notifierVars
<1>9. ASSUME Board[c] \notin deleted'
      PROVE  Ordered(c)' /\ AheadInv(c)'
  <2>0. Ordered(c) /\ AheadInv(c)
    BY <1>1, <1>9 DEF TabInv, dbVars
  <2>1. \A x \in SeenBy(c) : x \in Nat
    BY <1>2 DEF SeenBy, Range
  <2>2. ASSUME e > maxId[c], NEW x \in SeenBy(c)
        PROVE  x < e
    <3>1. x <= maxId[c] \/ \A y \in Range(inbox[c]) : x < y
      BY <1>1, <2>0 DEF AheadInv
    <3>2. x \in Nat /\ e \in Nat /\ maxId[c] \in Nat
      BY <1>2, <2>1
    <3>3. CASE x <= maxId[c]
      <4> HIDE DEF e
      <4> QED  BY <2>2, <3>2, <3>3
    <3>4. CASE \A y \in Range(inbox[c]) : x < y
      BY <1>3, <3>4
    <3> QED  BY <3>1, <3>3, <3>4
  <2>3. Ordered(c)'
    <3>1. CASE e > maxId[c]
      BY <1>1, <1>2, <2>0, <2>2, <3>1, OrderedAppend
    <3>2. CASE ~(e > maxId[c])
      BY <1>1, <2>0, <3>2 DEF Ordered
    <3> QED  BY <3>1, <3>2
  <2>4. \A x \in SeenBy(c)' : \/ x <= maxId[c]
                              \/ /\ phase # "boot"
                                 /\ x <= lastId
                                 /\ \A y \in Range(inbox'[c]) : x < y
    BY <1>1, <1>3, <1>4, <1>5, <1>7, <2>0 DEF AheadInv
  <2> QED  BY <1>1, <2>3, <2>4 DEF AheadInv, notifierVars
<1> QED  BY <1>6, <1>8, <1>9 DEF TabInv

\* A stream that ends, by a disconnect or a refusal, leaves its tab in order.
LEMMA TabClose ==
    ASSUME TypeOK, NEW c \in Clients, TabInv(c), Disconnect(c) \/ Refuse(c)
    PROVE  TabInv(c)'
<1>1. /\ conn'[c] \in {"waiting", "failed"} /\ inbox'[c] = << >> /\ replay'[c] = {}
      /\ UNCHANGED <<dbVars, notifierVars, page, received>>
  BY DEF Disconnect, Refuse, Close, TypeOK, ClientTypeOK
<1>2. InboxInv(c)' /\ ReplayInv(c)'
  BY <1>1 DEF InboxInv, ReplayInv, Increasing, Range
<1>3. OwnEvents(c)'
  BY <1>1 DEF TabInv, OwnEvents, SeenBy, Range, dbVars
<1>4. Board[c] \notin deleted' => Ordered(c)' /\ AheadInv(c)'
  BY <1>1 DEF TabInv, Ordered, AheadInv, SeenBy, dbVars
<1> QED  BY <1>2, <1>3, <1>4 DEF TabInv

\* A page load starts a tab in order.
LEMMA TabPageLoad ==
    ASSUME TypeOK, NEW c \in Clients, TabInv(c), PageLoad(c)
    PROVE  TabInv(c)'
<1>1. /\ conn'[c] = "waiting" /\ inbox'[c] = << >> /\ replay'[c] = {}
      /\ page'[c] = Rows(Board[c]) /\ received'[c] = << >>
      /\ UNCHANGED <<dbVars, notifierVars>>
  BY DEF PageLoad, TypeOK, ClientTypeOK
<1>2. InboxInv(c)' /\ ReplayInv(c)'
  BY <1>1 DEF InboxInv, ReplayInv, Increasing, Range
<1>3. OwnEvents(c)'
  <2>1. Range(received'[c]) = {} /\ Range(inbox'[c]) = {}
    BY <1>1 DEF Range
  <2> QED  BY <1>1, <2>1, RowsCommitted DEF OwnEvents, SeenBy, dbVars
<1>4. Ordered(c)' /\ AheadInv(c)'
  BY <1>1 DEF Ordered, AheadInv, SeenBy, Increasing, Range
<1> QED  BY <1>2, <1>3, <1>4 DEF TabInv

\* Every step leaves every tab in order.
LEMMA TabStep ==
    ASSUME TypeOK, FeedInv, [Next]_vars, NEW c \in Clients
    PROVE  TabInv(c)'
<1>0. LogGrows /\ BatchInv /\ TabInv(c)
  BY LogStep DEF FeedInv
<1>1. ASSUME UNCHANGED clientVars, UNCHANGED lastId, phase' = "boot" => phase = "boot"
      PROVE  TabInv(c)'
  BY <1>0, <1>1, TabKept DEF SameTab, clientVars
<1>2. CASE Database
  BY <1>1, <1>2 DEF Database, EmitEvent, Commit, Rollback, DeleteRetro, notifierVars
<1>3. CASE Notifier
  BY <1>0, <1>1, <1>3, TabReadCursor, TabPublish
     DEF Notifier, Listen, ConnectionLost, Recv, LoadEvents, LoadEventsFails, AfterBatch,
         notifierVars
<1>4. ASSUME NEW d \in Clients, Browser(d), d # c
      PROVE  TabInv(c)'
  <2>1. UNCHANGED notifierVars
    BY <1>4 DEF Browser, PageLoad, Admit, Subscribe, ReadMaxId, LoadReplay, SendReplay, SendLive,
                Disconnect, Refuse
  <2>2. SameTab(c)
    <3> USE <1>4 DEF SameTab, TypeOK, ClientTypeOK
    <3>1. CASE PageLoad(d)  BY <3>1 DEF PageLoad
    <3>2. CASE Admit(d) \/ Subscribe(d)  BY <3>2 DEF Admit, Subscribe
    <3>3. CASE ReadMaxId(d)  BY <3>3 DEF ReadMaxId
    <3>4. CASE LoadReplay(d)  BY <3>4 DEF LoadReplay, ReplayRows
    <3>5. CASE SendReplay(d)  BY <3>5 DEF SendReplay
    <3>6. CASE SendLive(d)  BY <3>6 DEF SendLive, BeyondBound
    <3>7. CASE Disconnect(d) \/ Refuse(d)  BY <3>7 DEF Disconnect, Refuse, Close
    <3> QED  BY <3>1, <3>2, <3>3, <3>4, <3>5, <3>6, <3>7 DEF Browser
  <2> QED  BY <1>0, <2>1, <2>2, TabKept DEF notifierVars
<1>5. CASE Browser(c)
  BY <1>0, <1>5, TabPageLoad, TabAdmit, TabSubscribe, TabReadMaxId, TabLoadReplay, TabSendReplay,
     TabSendLive, TabClose DEF Browser
<1>6. CASE Restart  BY <1>0, <1>6, TabRestart
<1>7. CASE UNCHANGED vars  BY <1>1, <1>7 DEF vars, notifierVars
<1> QED  BY <1>2, <1>3, <1>4, <1>5, <1>6, <1>7 DEF Next

\* No tab has seen anything at first.
LEMMA FeedInit == Init => FeedInv
BY DEF Init, FeedInv, BatchInv, TabInv, OwnEvents, InboxInv, ReplayInv, Ordered, AheadInv,
       SeenBy, Increasing, Range, Live

\* The inductive step of the feed.
LEMMA FeedStep == TypeOK /\ FeedInv /\ [Next]_vars => FeedInv'
<1> SUFFICES ASSUME TypeOK, FeedInv, [Next]_vars PROVE FeedInv'
    OBVIOUS
<1>1. BatchInv'
  BY BatchStep DEF FeedInv
<1>2. \A c \in Clients : TabInv(c)'
  BY TabStep
<1> QED  BY <1>1, <1>2 DEF FeedInv

\* The inductive invariant of the feed holds in every reachable state.
THEOREM FeedInvariant == Spec => []FeedInv
BY TypeCorrect, FeedInit, FeedStep, PTL DEF Spec

(* No browser is handed an event twice, out of order, or one its page already *)
(* shows, whatever the number of tabs, retros, writers, reconnects and        *)
(* restarts.                                                                  *)
THEOREM FeedIsOrdered == Spec => []FeedOrdered
<1>1. FeedInv => FeedOrdered
  BY DEF FeedInv, TabInv, Ordered, FeedOrdered
<1> QED  BY <1>1, FeedInvariant, PTL

-----------------------------------------------------------------------------
(* Refinement of OrderedFeed.                                                *)

Log == {[id |-> e, retro |-> issued[e]] : e \in committed}

\* The mapped log of the abstract feed holds ids.
LEMMA LogIds ==
    ASSUME NEW r
    PROVE  Feed!IdsOf(r) = {e \in committed : issued[e] = r}
<1> DEFINE record(e) == [id |-> e, retro |-> issued[e]]
<1>1. \A e \in committed : record(e).id = e /\ record(e).retro = issued[e]
  OBVIOUS
<1>2. Feed!IdsOf(r) = {m.id : m \in {n \in {record(e) : e \in committed} : n.retro = r}}
  BY DEF Feed!IdsOf
<1>3. ASSUME NEW x \in Feed!IdsOf(r)
      PROVE  x \in committed /\ issued[x] = r
  BY <1>1, <1>2, <1>3
<1>4. ASSUME NEW x \in committed, issued[x] = r
      PROVE  x \in Feed!IdsOf(r)
  <2>1. record(x) \in {n \in {record(e) : e \in committed} : n.retro = r}
    BY <1>1, <1>4
  <2> QED  BY <1>1, <1>2, <2>1
<1> QED  BY <1>3, <1>4

\* The rows of a transaction keep the retro they were inserted with.
LEMMA LogNext ==
    ASSUME TypeOK, TypeOK', [Next]_vars
    PROVE  /\ Log \subseteq Log'
           /\ \A m \in Log' : m \in Feed!LoggedEvent
           /\ committed' = committed => Log' = Log
<1>1. LogGrows
  BY LogStep
<1>2. Log \subseteq Log' /\ (committed' = committed => Log' = Log)
  BY <1>1 DEF Log, LogGrows
<1>3. \A e \in committed' : e \in Nat \ {0} /\ issued'[e] \in Retros
  BY DEF TypeOK, DbTypeOK, Ids
<1>4. \A m \in Log' : m \in Feed!LoggedEvent
  BY <1>3 DEF Log, Feed!LoggedEvent
<1> QED  BY <1>2, <1>4

\* What SendReplay and SendLive put on the wire is a delivery of the abstract feed.
LEMMA DeliverStep ==
    ASSUME NEW c \in Clients, NEW e, TypeOK, TabInv(c), e \in committed, issued[e] = Board[c],
           Board[c] \notin deleted => \A x \in SeenBy(c) : x < e,
           received' = [received EXCEPT ![c] = Append(@, e)],
           UNCHANGED <<Log, deleted, page>>
    PROVE  Feed!FeedNext
<1>1. e \in Feed!IdsOf(Board[c])
  BY LogIds
<1>2. Feed!Seen(c) = SeenBy(c)
  BY DEF Feed!Seen, SeenBy, Range
<1>3. Feed!Deliver(c, e)
  BY <1>2 DEF Feed!Deliver, Log
<1> QED  BY <1>1, <1>3 DEF Feed!FeedNext

\* Every step of the event stream is one of the abstract feed, or a stutter.
LEMMA FeedNextStep ==
    ASSUME TypeOK, TypeOK', FeedInv, [Next]_vars
    PROVE  [Feed!FeedNext]_(Feed!feedVars)
<1>0. /\ Log \subseteq Log'
      /\ \A m \in Log' : m \in Feed!LoggedEvent
      /\ committed' = committed => Log' = Log
  BY LogNext
<1>1. ASSUME UNCHANGED <<committed, deleted, page, received>>
      PROVE  UNCHANGED Feed!feedVars
  BY <1>0, <1>1 DEF Feed!feedVars, Log
<1>2. ASSUME NEW w \in Writers, NEW r \in Retros, EmitEvent(w, r)
      PROVE  UNCHANGED Feed!feedVars
  BY <1>1, <1>2 DEF EmitEvent, NextId, clientVars
<1>3. ASSUME NEW w \in Writers, Commit(w)
      PROVE  Feed!FeedNext
  <2>1. Feed!Record
    BY <1>0, <1>3 DEF Commit, Feed!Record, clientVars, Log
  <2> QED  BY <2>1 DEF Feed!FeedNext
<1>4. ASSUME NEW w \in Writers, Rollback(w)
      PROVE  UNCHANGED Feed!feedVars
  BY <1>1, <1>4 DEF Rollback, clientVars
<1>5. ASSUME NEW r \in Retros, DeleteRetro(r)
      PROVE  Feed!FeedNext
  <2>1. Feed!Remove(r)
    BY <1>0, <1>5 DEF DeleteRetro, Feed!Remove, clientVars, Log
  <2> QED  BY <2>1 DEF Feed!FeedNext
<1>6. CASE Notifier
  <2>1. UNCHANGED <<dbVars, page, received>>
    BY <1>6 DEF Notifier, ReadCursor, ReadCursorFails, Listen, ConnectionLost, Recv,
                LoadEvents, LoadEventsFails, Publish, clientVars
  <2> QED  BY <1>1, <2>1 DEF dbVars
<1>7. ASSUME NEW c \in Clients, Browser(c)
      PROVE  [Feed!FeedNext]_(Feed!feedVars)
  <2>0. TabInv(c)
    BY DEF FeedInv
  <2>1. CASE PageLoad(c)
    <3>1. Rows(Board[c]) = Feed!IdsOf(Board[c]) /\ Board[c] \notin deleted
      BY <2>1, LogIds DEF PageLoad, Rows
    <3>2. Feed!Render(c)
      BY <1>0, <2>1, <3>1 DEF PageLoad, Feed!Render, dbVars, Log
    <3> QED  BY <3>2 DEF Feed!FeedNext
  <2>2. CASE SendReplay(c)
    <3>1. PICK e \in replay[c] : received' = [received EXCEPT ![c] = Append(@, e)]
      BY <2>2 DEF SendReplay
    <3>2. UNCHANGED <<Log, deleted, page>>
      BY <1>0, <2>2 DEF SendReplay, dbVars
    <3>3. e \in committed /\ issued[e] = Board[c]
      BY <2>0 DEF TabInv, OwnEvents
    <3>4. Board[c] \notin deleted => \A x \in SeenBy(c) : x < e
      BY <2>0 DEF TabInv, AheadInv
    <3> QED  BY <2>0, <3>1, <3>2, <3>3, <3>4, DeliverStep
  <2>3. CASE SendLive(c)
    <3> DEFINE e == Head(inbox[c])
    <3>1. UNCHANGED <<Log, committed, deleted, page>>
      BY <1>0, <2>3 DEF SendLive, BeyondBound, dbVars
    <3>2. inbox[c] \in Seq(Nat) /\ inbox[c] # << >> /\ conn[c] = "streaming"
      BY <2>3 DEF SendLive, BeyondBound, TypeOK, ClientTypeOK
    <3>3. e \in Range(inbox[c])
      BY <3>2, RangeTail
    <3>4. e \in committed /\ issued[e] = Board[c]
      BY <2>0, <3>3 DEF TabInv, OwnEvents
    <3>5. CASE e > maxId[c]
      <4>1. received' = [received EXCEPT ![c] = Append(@, e)]
        BY <2>3, <3>5 DEF SendLive, BeyondBound, TypeOK, ClientTypeOK
      <4>2. ASSUME Board[c] \notin deleted, NEW x \in SeenBy(c)
            PROVE  x < e
        <5>1. x <= maxId[c] \/ \A y \in Range(inbox[c]) : x < y
          BY <2>0, <3>2, <4>2 DEF TabInv, AheadInv
        <5>2. x \in Nat /\ maxId[c] \in Nat /\ e \in Nat
          BY <3>2 DEF SeenBy, Range, TypeOK, ClientTypeOK
        <5>3. CASE x <= maxId[c]
          <6> HIDE DEF e
          <6> QED  BY <3>5, <5>2, <5>3
        <5> QED  BY <3>3, <5>1, <5>3
      <4> HIDE DEF e
      <4> QED  BY <2>0, <3>1, <3>4, <4>1, <4>2, DeliverStep
    <3>6. CASE ~(e > maxId[c])
      <4>1. received' = received
        BY <2>3, <3>6 DEF SendLive, BeyondBound, TypeOK, ClientTypeOK
      <4> QED  BY <1>1, <3>1, <4>1
    <3> QED  BY <3>5, <3>6
  <2>4. CASE Admit(c) \/ Subscribe(c) \/ ReadMaxId(c) \/ LoadReplay(c) \/ Disconnect(c) \/ Refuse(c)
    BY <1>1, <2>4 DEF Admit, Subscribe, ReadMaxId, LoadReplay, Disconnect, Refuse, Close, dbVars
  <2> QED  BY <1>7, <2>1, <2>2, <2>3, <2>4 DEF Browser
<1>8. CASE Restart  BY <1>1, <1>8 DEF Restart, dbVars
<1>9. CASE UNCHANGED vars  BY <1>1, <1>9 DEF vars, dbVars, clientVars
<1> QED  BY <1>2, <1>3, <1>4, <1>5, <1>6, <1>7, <1>8, <1>9 DEF Next, Database

(* The whole pipeline implements the abstract feed: every step of the         *)
(* database, the notifier, the handlers and the browsers is a step of         *)
(* OrderedFeed or leaves log, pages and feeds alone.                          *)
THEOREM ImplementsOrderedFeed == Spec => RefinesOrderedFeed
<1>1. Init => Feed!FeedInit
  BY DEF Init, Feed!FeedInit
<1>2. TypeOK /\ TypeOK' /\ FeedInv /\ [Next]_vars => [Feed!FeedNext]_(Feed!feedVars)
  BY FeedNextStep
<1> QED  BY <1>1, <1>2, TypeCorrect, FeedInvariant, PTL
         DEF Spec, RefinesOrderedFeed, Feed!FeedSpec

-----------------------------------------------------------------------------
(* What is delivered: the notifier does not sleep on an event, what it       *)
(* passes over is explained, and neither the replay nor the live path of a   *)
(* connection leaves a gap.                                                   *)

Running == phase \in {"idle", "loading", "publishing"}

\* A transaction notifies every retro it has written an event of.
TxNotes == \A w \in Writers : \A e \in tx[w].ids : issued[e] \in Range(tx[w].notes)

\* The cursor is where the notifier started or on the last event it published.
CursorInv ==
    /\ published \subseteq committed
    /\ Running => lastId = bootId \/ lastId \in published

\* What the batch does not hold came after it was loaded: late, or behind it.
LoadedInv ==
    phase = "publishing" =>
        \A e \in committed :
            issued[e] = target /\ e > lastId /\ e \notin batch =>
                e \in late \/ \A f \in batch : f < e

\* The bound of a connection is an event of its board.
BoundInv(c) ==
    conn[c] \in {"bounded", "streaming"} =>
        maxId[c] = 0 \/ (maxId[c] \in committed /\ issued[maxId[c]] = Board[c])

NoGap(c) ==
    Board[c] \notin deleted /\ conn[c] \in {"bounded", "streaming"} =>
        \A e \in published :
            issued[e] = Board[c] /\ e > maxId[c] =>
                e \in Range(inbox[c]) \cup Range(received[c])

Complete(c) ==
    conn[c] = "streaming" /\ since[c] > 0 =>
        \A e \in Rows(Board[c]) \ late :
            since[c] < e /\ e <= maxId[c] => e \in replay[c] \cup Range(received[c])

DeliveryInv ==
    /\ TxNotes
    /\ NoLostWakeup
    /\ CursorInv
    /\ LoadedInv
    /\ SkipsExplained
    /\ \A c \in Clients : BoundInv(c) /\ NoGap(c) /\ Complete(c)

-----------------------------------------------------------------------------
\* A concatenation holds what its parts hold.
LEMMA RangeConcat ==
    ASSUME NEW S, NEW s \in Seq(S), NEW t \in Seq(S)
    PROVE  Range(s \o t) = Range(s) \cup Range(t)
<1>1. /\ DOMAIN s = 1 .. Len(s) /\ DOMAIN t = 1 .. Len(t)
      /\ DOMAIN (s \o t) = 1 .. (Len(s) + Len(t))
      /\ Len(s) \in Nat /\ Len(t) \in Nat
  OBVIOUS
<1>2. /\ \A i \in DOMAIN s : (s \o t)[i] = s[i] /\ i \in DOMAIN (s \o t)
      /\ \A i \in DOMAIN t : (s \o t)[Len(s) + i] = t[i] /\ Len(s) + i \in DOMAIN (s \o t)
      /\ \A i \in DOMAIN (s \o t) : i \in DOMAIN s \/ i - Len(s) \in DOMAIN t
  BY <1>1
<1>3. \A i \in DOMAIN (s \o t) : i \notin DOMAIN s => (s \o t)[i] = t[i - Len(s)]
  BY <1>1
<1> DEFINE both == s \o t
<1>4. \A i \in DOMAIN both : both[i] \in Range(s) \cup Range(t)
  BY <1>2, <1>3 DEF Range
<1>5. /\ \A i \in DOMAIN s : s[i] \in Range(both)
      /\ \A i \in DOMAIN t : t[i] \in Range(both)
  BY <1>2 DEF Range
<1> HIDE DEF both
<1>6. Range(both) = Range(s) \cup Range(t)
  BY <1>4, <1>5 DEF Range
<1> QED BY <1>6 DEF both

\* The head and the tail of a queue hold all of it.
LEMMA RangeHeadTail ==
    ASSUME NEW S, NEW s \in Seq(S), s # << >>
    PROVE  Range(s) = {Head(s)} \cup Range(Tail(s))
<1>1. /\ Range(Tail(s)) \subseteq Range(s) /\ Head(s) \in Range(s)
  BY RangeTail
<1>2. ASSUME NEW i \in DOMAIN s
      PROVE  s[i] \in {Head(s)} \cup Range(Tail(s))
  <2>1. CASE i = 1
    BY <2>1
  <2>2. CASE i # 1
    <3>1. i - 1 \in DOMAIN Tail(s) /\ Tail(s)[i - 1] = s[i]
      BY <2>2
    <3> QED BY <3>1 DEF Range
  <2> QED BY <2>1, <2>2
<1> QED BY <1>1, <1>2 DEF Range

\* Which actions a tab takes, and that they leave the server and the database alone.
LEMMA TabsAlone ==
    ASSUME NEW c \in Clients, Browser(c)
    PROVE  UNCHANGED <<dbVars, listenVars, notifierVars, historyVars>>
  BY DEF Browser, PageLoad, Admit, Subscribe, ReadMaxId, LoadReplay, SendReplay, SendLive,
         Disconnect, Refuse

LEMMA TxNotesStep ==
    ASSUME TypeOK, TxNotes, [Next]_vars
    PROVE  TxNotes'
<1>1. ASSUME UNCHANGED <<issued, tx>>
      PROVE  TxNotes'
  BY <1>1 DEF TxNotes
<1>2. ASSUME NEW w \in Writers, NEW r \in Retros, EmitEvent(w, r)
      PROVE  TxNotes'
  <2> DEFINE notes == IF r \in Range(tx[w].notes) THEN tx[w].notes ELSE Append(tx[w].notes, r)
  <2>1. /\ issued \in Seq(Retros) /\ tx \in [Writers -> [ids : SUBSET Ids, notes : Seq(Retros)]]
        /\ issued' = Append(issued, r)
        /\ tx' = [tx EXCEPT ![w] = [ids |-> @.ids \cup {NextId}, notes |-> notes]]
    BY <1>2 DEF EmitEvent, TypeOK, DbTypeOK
  <2>2. issued'[NextId] = r /\ \A e \in Ids : issued'[e] = issued[e]
    BY <2>1 DEF NextId, Ids
  <2>3. Range(tx[w].notes) \cup {r} \subseteq Range(notes)
    <3>1. Range(Append(tx[w].notes, r)) = Range(tx[w].notes) \cup {r}
      BY <2>1, RangeAppend
    <3> QED BY <3>1
  <2> HIDE DEF notes
  <2>4. /\ tx'[w].ids = tx[w].ids \cup {NextId} /\ tx'[w].notes = notes
        /\ \A v \in Writers \ {w} : tx'[v] = tx[v]
    BY <2>1
  <2>5. \A v \in Writers : tx[v].ids \subseteq Ids
    BY <2>1
  <2> QED BY <2>2, <2>3, <2>4, <2>5 DEF TxNotes
<1>3. ASSUME NEW w \in Writers, Commit(w) \/ Rollback(w)
      PROVE  TxNotes'
  <2>1. issued' = issued /\ tx'[w] = NoTx /\ \A v \in Writers \ {w} : tx'[v] = tx[v]
    BY <1>3 DEF Commit, Rollback, TypeOK, DbTypeOK
  <2> QED BY <2>1 DEF TxNotes, NoTx
<1>4. CASE Database
  BY <1>1, <1>2, <1>3, <1>4 DEF Database, DeleteRetro
<1>5. CASE Notifier
  BY <1>1, <1>5 DEF Notifier, ReadCursor, ReadCursorFails, Listen, ConnectionLost, Recv,
                    LoadEvents, LoadEventsFails, Publish, dbVars
<1>6. ASSUME NEW c \in Clients, Browser(c)
      PROVE  TxNotes'
  BY <1>1, <1>6, TabsAlone DEF dbVars
<1>7. CASE Restart \/ UNCHANGED vars
  BY <1>1, <1>7 DEF Restart, vars, dbVars
<1> QED BY <1>4, <1>5, <1>6, <1>7 DEF Next

\* notify_once does not go back to sleep on an event.
LEMMA WakeupStep ==
    ASSUME TypeOK, BatchInv, TxNotes, NoLostWakeup, [Next]_vars
    PROVE  NoLostWakeup'
<1>0. LogGrows
  BY LogStep
<1>1. ASSUME committed' = committed, UNCHANGED <<listenVars, notifierVars, historyVars>>
      PROVE  NoLostWakeup'
  BY <1>0, <1>1 DEF LogGrows, NoLostWakeup, listenVars, notifierVars, historyVars
<1>2. ASSUME NEW w \in Writers, Commit(w)
      PROVE  NoLostWakeup'
  <2>1. /\ committed' = committed \cup tx[w].ids /\ issued' = issued /\ deleted' = deleted
        /\ notifications' = IF listener = "up" THEN notifications \o tx[w].notes
                            ELSE notifications
        /\ lost' = IF listener = "up" THEN lost ELSE lost \cup tx[w].ids
        /\ UNCHANGED notifierVars
    BY <1>2 DEF Commit, Notified
  <2>2. listener = "up" =>
            Range(notifications') = Range(notifications) \cup Range(tx[w].notes)
    <3>1. notifications \in Seq(Retros) /\ tx[w].notes \in Seq(Retros)
      BY DEF TypeOK, NotifierTypeOK, DbTypeOK
    <3> QED BY <2>1, <3>1, RangeConcat
  <2> QED BY <2>1, <2>2 DEF NoLostWakeup, TxNotes, notifierVars
<1>3. CASE Database
  BY <1>1, <1>2, <1>3 DEF Database, EmitEvent, Rollback, DeleteRetro
<1>4. CASE Notifier
  <2>1. CASE ReadCursor
    <3>1. \A e \in committed : issued[e] \notin deleted => e <= lastId'
      BY <2>1 DEF ReadCursor, IsMaxId, AllRows
    <3>2. \A e \in committed : e \in Nat
      BY DEF TypeOK, DbTypeOK, Ids
    <3>3. lastId' \in Nat
      BY <2>1 DEF ReadCursor, Ids
    <3> QED BY <2>1, <3>1, <3>2, <3>3 DEF ReadCursor, NoLostWakeup, dbVars
  <2>2. CASE ReadCursorFails
    BY <2>2 DEF ReadCursorFails, NoLostWakeup
  <2>3. CASE Listen
    BY <2>3 DEF Listen, NoLostWakeup, dbVars, notifierVars, historyVars
  <2>4. CASE ConnectionLost
    BY <2>4 DEF ConnectionLost, DropListener, Unpublished, NoLostWakeup, dbVars, notifierVars
  <2>5. CASE Recv
    <3>1. Range(notifications) = {target'} \cup Range(notifications')
      BY <2>5, RangeHeadTail DEF Recv, TypeOK, NotifierTypeOK
    <3> QED BY <2>5, <3>1 DEF Recv, NoLostWakeup, dbVars, historyVars
  <2>6. CASE LoadEvents
    <3>1. batch = {} /\ phase = "loading"
      BY <2>6 DEF LoadEvents, BatchInv
    <3>2. \A e \in committed : issued[e] = target /\ issued[e] \notin deleted /\ e > lastId
                                 => e \in batch'
      BY <2>6 DEF LoadEvents, Unread, Rows
    <3> QED BY <2>6, <3>1, <3>2 DEF LoadEvents, NoLostWakeup, dbVars, listenVars, historyVars
  <2>7. CASE LoadEventsFails
    <3>1. batch = {}
      BY <2>7 DEF LoadEventsFails, BatchInv
    <3> QED BY <2>7, <3>1 DEF LoadEventsFails, DropListener, Unpublished, NoLostWakeup, dbVars
  <2>8. CASE Publish
    <3>1. PICK e \in batch : /\ lastId' = (IF e > lastId THEN e ELSE lastId)
                             /\ batch' = batch \ {e}
      BY <2>8 DEF Publish
    <3>2. e \in Nat /\ lastId \in Nat /\ lastId' >= e /\ lastId' >= lastId /\ lastId' \in Nat
      BY <3>1 DEF TypeOK, NotifierTypeOK
    <3>3. \A f \in committed : f \in Nat
      BY DEF TypeOK, DbTypeOK, Ids
    <3>4. /\ phase = "publishing" /\ phase' \in {"idle", "publishing"}
          /\ UNCHANGED <<dbVars, listenVars, lost>>
      BY <2>8 DEF Publish, AfterBatch
    <3>5. ASSUME NEW f \in committed \ lost, f > lastId', issued[f] \notin deleted
          PROVE  f \in batch' \/ issued[f] \in Range(notifications)
      <4>1. f > lastId /\ f # e
        BY <3>2, <3>3, <3>5
      <4>2. f \in batch \/ issued[f] \in Range(notifications)
        BY <3>4, <3>5, <4>1 DEF NoLostWakeup
      <4> QED BY <3>1, <4>1, <4>2
    <3> QED BY <3>4, <3>5 DEF NoLostWakeup, dbVars, listenVars
  <2> QED BY <1>4, <2>1, <2>2, <2>3, <2>4, <2>5, <2>6, <2>7, <2>8 DEF Notifier
<1>5. ASSUME NEW c \in Clients, Browser(c)
      PROVE  NoLostWakeup'
  BY <1>1, <1>5, TabsAlone DEF dbVars
<1>6. CASE Restart
  BY <1>6 DEF Restart, NoLostWakeup
<1>7. CASE UNCHANGED vars
  BY <1>1, <1>7 DEF vars, dbVars
<1> QED BY <1>3, <1>4, <1>5, <1>6, <1>7 DEF Next

\* What is published is committed, and the cursor rests on it.
LEMMA CursorStep ==
    ASSUME TypeOK, BatchInv, CursorInv, [Next]_vars
    PROVE  CursorInv'
<1>0. LogGrows
  BY LogStep
<1>1. ASSUME UNCHANGED <<phase, lastId, published, bootId>>
      PROVE  CursorInv'
  BY <1>0, <1>1 DEF LogGrows, CursorInv, Running
<1>2. CASE Database
  BY <1>1, <1>2 DEF Database, EmitEvent, Commit, Rollback, DeleteRetro, notifierVars, historyVars
<1>3. CASE Notifier
  <2>1. CASE ReadCursor
    BY <2>1 DEF ReadCursor, CursorInv, Running, dbVars
  <2>2. CASE ReadCursorFails
    BY <2>2 DEF ReadCursorFails, CursorInv, Running, dbVars, historyVars
  <2>3. CASE Listen \/ ConnectionLost
    BY <1>1, <2>3 DEF Listen, ConnectionLost, notifierVars, historyVars
  <2>4. CASE Recv \/ LoadEvents \/ LoadEventsFails
    BY <2>4 DEF Recv, LoadEvents, LoadEventsFails, CursorInv, Running, dbVars, historyVars
  <2>5. CASE Publish
    <3>1. PICK e \in batch : /\ lastId' = (IF e > lastId THEN e ELSE lastId)
                             /\ published' = published \cup {e}
      BY <2>5 DEF Publish
    <3>2. e \in committed
      BY DEF BatchInv
    <3> QED BY <2>5, <3>1, <3>2 DEF Publish, CursorInv, Running, dbVars
  <2> QED BY <1>3, <2>1, <2>2, <2>3, <2>4, <2>5 DEF Notifier
<1>4. ASSUME NEW c \in Clients, Browser(c)
      PROVE  CursorInv'
  BY <1>1, <1>4, TabsAlone DEF notifierVars, historyVars
<1>5. CASE Restart
  BY <1>5 DEF Restart, CursorInv, Running
<1>6. CASE UNCHANGED vars
  BY <1>1, <1>6 DEF vars, notifierVars, historyVars
<1> QED BY <1>2, <1>3, <1>4, <1>5, <1>6 DEF Next

\* Ids are numbers, before and after a step.
LEMMA IdsNat ==
    ASSUME TypeOK, [Next]_vars
    PROVE  committed \subseteq Nat /\ committed' \subseteq Nat
<1>1. committed \subseteq Nat
  BY DEF TypeOK, DbTypeOK, Ids
<1>2. TypeOK'
  BY TypeStep
<1>3. committed' \subseteq Nat
  BY <1>2 DEF TypeOK, DbTypeOK, Ids
<1> QED BY <1>1, <1>3

\* An event that becomes visible below a visible one of its retro is late.
LEMMA LateStep ==
    ASSUME TypeOK, [Next]_vars
    PROVE  /\ late \subseteq late'
           /\ \A e \in committed' \ committed, f \in committed :
                 e < f /\ issued[f] = issued[e] => e \in late'
           /\ committed' # committed =>
                 UNCHANGED <<issued, notifierVars, clientVars, published, bootId, deleted>>
<1>1. ASSUME NEW w \in Writers, Commit(w)
      PROVE  /\ committed' = committed \cup tx[w].ids
             /\ late' = late \cup {e \in tx[w].ids :
                                     \E f \in committed : e < f /\ issued[f] = issued[e]}
             /\ UNCHANGED <<issued, notifierVars, clientVars, published, bootId, deleted>>
  BY <1>1 DEF Commit
<1>2. ASSUME ~ \E w \in Writers : Commit(w)
      PROVE  committed' = committed /\ late' = late
  <2>1. CASE Database
    BY <1>2, <2>1 DEF Database, EmitEvent, Rollback, DeleteRetro, historyVars
  <2>2. CASE Notifier
    BY <2>2 DEF Notifier, ReadCursor, ReadCursorFails, Listen, ConnectionLost, Recv, LoadEvents,
                LoadEventsFails, Publish, dbVars, historyVars
  <2>3. ASSUME NEW c \in Clients, Browser(c)
        PROVE  committed' = committed /\ late' = late
    BY <2>3, TabsAlone DEF dbVars, historyVars
  <2>4. CASE Restart \/ UNCHANGED vars
    BY <2>4 DEF Restart, vars, dbVars, historyVars
  <2> QED BY <2>1, <2>2, <2>3, <2>4 DEF Next
<1> QED BY <1>1, <1>2

\* The batch lacks only what is late or behind it.
LEMMA LoadedStep ==
    ASSUME TypeOK, BatchInv, LoadedInv, [Next]_vars
    PROVE  LoadedInv'
<1>0. LogGrows
  BY LogStep
<1>1. /\ late \subseteq late'
      /\ \A e \in committed' \ committed, f \in committed :
            e < f /\ issued[f] = issued[e] => e \in late'
  BY LateStep
<1>2. ASSUME UNCHANGED notifierVars
      PROVE  LoadedInv'
  <2> SUFFICES ASSUME phase = "publishing", NEW e \in committed', issued'[e] = target,
                      e > lastId, e \notin batch
               PROVE  e \in late' \/ \A f \in batch : f < e
    BY <1>2 DEF LoadedInv, notifierVars
  <2>1. CASE e \in committed
    BY <1>0, <1>1, <2>1 DEF LoadedInv, LogGrows
  <2>2. CASE e \notin committed
    <3>1. issued' = issued
      BY <2>2, LateStep
    <3>2. \A f \in batch : f \in committed /\ issued[f] = target /\ f # e
      BY DEF BatchInv
    <3>3. e \in Nat /\ \A f \in batch : f \in Nat
      BY <3>2, IdsNat
    <3>4. ASSUME NEW f \in batch, ~ (f < e)
          PROVE  e \in late'
      <4>1. e < f
        BY <3>2, <3>3, <3>4
      <4>2. issued[f] = issued[e]
        BY <3>1, <3>2
      <4> QED BY <1>1, <2>2, <3>2, <4>1, <4>2
    <3> QED BY <3>4
  <2> QED BY <2>1, <2>2
<1>3. CASE Database
  BY <1>2, <1>3 DEF Database, EmitEvent, Commit, Rollback, DeleteRetro
<1>4. CASE Notifier
  <2>1. CASE ReadCursor \/ ReadCursorFails \/ Recv \/ LoadEventsFails
    BY <2>1 DEF ReadCursor, ReadCursorFails, Recv, LoadEventsFails, LoadedInv
  <2>2. CASE Listen \/ ConnectionLost
    BY <1>2, <2>2 DEF Listen, ConnectionLost
  <2>3. CASE LoadEvents
    <3>1. ASSUME batch' # {}
          PROVE  \A e \in committed : issued[e] = target /\ e > lastId => e \in batch'
      BY <2>3, <3>1 DEF LoadEvents, Unread, Rows
    <3> QED BY <2>3, <3>1 DEF LoadEvents, AfterBatch, LoadedInv, dbVars
  <2>4. CASE Publish
    <3>1. PICK g \in batch : /\ IsNext(g, batch)
                             /\ lastId' = (IF g > lastId THEN g ELSE lastId)
                             /\ batch' = batch \ {g}
      BY <2>4 DEF Publish
    <3>2. g \in Nat /\ lastId \in Nat /\ lastId' >= g /\ lastId' >= lastId /\ lastId' \in Nat
      BY <3>1 DEF TypeOK, NotifierTypeOK
    <3>3. \A e \in committed : e > lastId' => e > lastId /\ e # g
      BY <3>2 DEF TypeOK, DbTypeOK, Ids
    <3>4. phase = "publishing" /\ UNCHANGED <<dbVars, late>>
      BY <2>4 DEF Publish
    <3>5. phase' = "publishing" => target' = target
      BY <2>4 DEF Publish, AfterBatch
    <3> QED BY <3>1, <3>3, <3>4, <3>5 DEF LoadedInv, dbVars
  <2> QED BY <1>4, <2>1, <2>2, <2>3, <2>4 DEF Notifier
<1>5. ASSUME NEW c \in Clients, Browser(c)
      PROVE  LoadedInv'
  BY <1>2, <1>5, TabsAlone
<1>6. CASE Restart
  BY <1>6 DEF Restart, LoadedInv
<1>7. CASE UNCHANGED vars
  BY <1>2, <1>7 DEF vars
<1> QED BY <1>3, <1>4, <1>5, <1>6, <1>7 DEF Next

\* What the cursor passes is explained.
LEMMA SkipsStep ==
    ASSUME TypeOK, BatchInv, CursorInv, LoadedInv, SkipsExplained, [Next]_vars
    PROVE  SkipsExplained'
<1>0. LogGrows /\ late \subseteq late'
  BY LogStep, LateStep
<1>1. ASSUME UNCHANGED <<phase, lastId, published, bootId>>
      PROVE  SkipsExplained'
  <2> SUFFICES ASSUME NEW e \in committed', phase \notin {"boot", "disabled"},
                      issued'[e] \notin deleted', e <= lastId, e \notin published
               PROVE  \/ e <= bootId
                      \/ e \in late'
                      \/ \E f \in published : e < f /\ issued'[f] # issued'[e]
    BY <1>1 DEF SkipsExplained
  <2>1. CASE e \in committed
    <3>1. \A f \in published : issued'[f] = issued[f]
      BY <1>0 DEF LogGrows, CursorInv
    <3>2. issued'[e] = issued[e] /\ issued[e] \notin deleted
      BY <1>0, <2>1 DEF LogGrows
    <3> QED BY <1>0, <2>1, <3>1, <3>2 DEF SkipsExplained
  <2>2. CASE e \notin committed
    <3>1. Running
      BY DEF Running, TypeOK, NotifierTypeOK, Phases
    <3>2. CASE lastId = bootId
      BY <3>2
    <3>3. CASE lastId \in published
      <4>1. issued' = issued /\ lastId \in committed
        BY <2>2, <3>3, LateStep DEF CursorInv
      <4>2. e < lastId
        <5>1. e \in Nat /\ lastId \in Nat /\ e # lastId
          BY <2>2, <4>1, IdsNat
        <5> QED BY <5>1
      <4>3. CASE issued[lastId] = issued[e]
        BY <2>2, <4>1, <4>2, <4>3, LateStep
      <4>4. CASE issued[lastId] # issued[e]
        BY <3>3, <4>1, <4>2, <4>4
      <4> QED BY <4>3, <4>4
    <3> QED BY <3>1, <3>2, <3>3 DEF CursorInv
  <2> QED BY <2>1, <2>2
<1>2. CASE Database
  BY <1>1, <1>2 DEF Database, EmitEvent, Commit, Rollback, DeleteRetro, notifierVars, historyVars
<1>3. CASE Notifier
  <2>1. CASE ReadCursor
    BY <2>1 DEF ReadCursor, SkipsExplained
  <2>2. CASE ReadCursorFails
    BY <2>2 DEF ReadCursorFails, SkipsExplained
  <2>3. CASE Listen \/ ConnectionLost
    BY <1>1, <2>3 DEF Listen, ConnectionLost, notifierVars, historyVars
  <2>4. CASE Recv \/ LoadEvents \/ LoadEventsFails
    BY <2>4 DEF Recv, LoadEvents, LoadEventsFails, SkipsExplained, dbVars, historyVars
  <2>5. CASE Publish
    <3>1. PICK g \in batch : /\ IsNext(g, batch)
                             /\ lastId' = (IF g > lastId THEN g ELSE lastId)
                             /\ published' = published \cup {g}
      BY <2>5 DEF Publish
    <3>2. /\ g \in committed /\ issued[g] = target /\ g > lastId /\ g \in Nat /\ lastId \in Nat
          /\ lastId' = g
      BY <3>1 DEF BatchInv, TypeOK, NotifierTypeOK
    <3>3. phase = "publishing" /\ UNCHANGED <<dbVars, late, bootId>>
      BY <2>5 DEF Publish
    <3>4. SUFFICES ASSUME NEW e \in committed, issued[e] \notin deleted, e <= g,
                          e \notin published, e # g
                   PROVE  \/ e <= bootId
                          \/ e \in late
                          \/ \E f \in published \cup {g} : e < f /\ issued[f] # issued[e]
      BY <3>1, <3>2, <3>3 DEF SkipsExplained, dbVars
    <3>5. e \in Nat /\ e < g
      BY <3>2, <3>4 DEF TypeOK, DbTypeOK, Ids
    <3>6. CASE e <= lastId
      BY <3>3, <3>4, <3>6 DEF SkipsExplained
    <3>7. CASE e > lastId /\ issued[e] # target
      BY <3>2, <3>5, <3>7
    <3>8. CASE e > lastId /\ issued[e] = target
      <4>1. e \notin batch
        BY <3>1, <3>2, <3>5 DEF IsNext
      <4>2. ~ (g < e)
        BY <3>2, <3>5
      <4> QED BY <3>1, <3>3, <3>8, <4>1, <4>2 DEF LoadedInv
    <3> QED BY <3>2, <3>5, <3>6, <3>7, <3>8
  <2> QED BY <1>3, <2>1, <2>2, <2>3, <2>4, <2>5 DEF Notifier
<1>4. ASSUME NEW c \in Clients, Browser(c)
      PROVE  SkipsExplained'
  BY <1>1, <1>4, TabsAlone DEF notifierVars, historyVars
<1>5. CASE Restart
  BY <1>5 DEF Restart, SkipsExplained
<1>6. CASE UNCHANGED vars
  BY <1>1, <1>6 DEF vars, notifierVars, historyVars
<1> QED BY <1>2, <1>3, <1>4, <1>5, <1>6 DEF Next

-----------------------------------------------------------------------------
(* What a connection gets.                                                  *)

\* A tab whose part of the state, and whose published events, are unchanged.
LEMMA SameGap ==
    ASSUME TypeOK, CursorInv, [Next]_vars, NEW c \in Clients, SameTab(c),
           published' \subseteq published,
           BoundInv(c), NoGap(c), Complete(c)
    PROVE  BoundInv(c)' /\ NoGap(c)' /\ Complete(c)'
<1>0. LogGrows /\ late \subseteq late'
  BY LogStep, LateStep
<1>1. BoundInv(c)'
  BY <1>0 DEF BoundInv, SameTab, LogGrows
<1>2. NoGap(c)'
  <2>1. \A e \in published' : e \in published /\ issued'[e] = issued[e]
    BY <1>0 DEF CursorInv, LogGrows
  <2> QED BY <1>0, <2>1 DEF NoGap, SameTab, LogGrows
<1>3. Complete(c)'
  <2> SUFFICES ASSUME conn[c] = "streaming", since[c] > 0, NEW e \in Rows(Board[c])' \ late',
                      since[c] < e, e <= maxId[c]
               PROVE  e \in replay[c] \cup Range(received[c])
    BY DEF Complete, SameTab
  <2>1. e \in committed' /\ issued'[e] = Board[c] /\ Board[c] \notin deleted' /\ e \in Nat
    BY IdsNat DEF Rows
  <2>2. CASE e \in committed
    <3>1. e \in Rows(Board[c]) \ late
      BY <1>0, <2>1, <2>2 DEF Rows, LogGrows
    <3> QED BY <3>1 DEF Complete
  <2>3. CASE e \notin committed
    <3>1. issued' = issued
      BY <2>1, <2>3, LateStep
    <3>2. since[c] \in Nat /\ maxId[c] \in Nat
      BY DEF TypeOK, ClientTypeOK
    <3>3. maxId[c] \in committed /\ issued[maxId[c]] = Board[c]
      BY <2>1, <3>2 DEF BoundInv
    <3>4. e < maxId[c]
      BY <2>1, <2>3, <3>2, <3>3
    <3>5. e \in late'
      BY <2>1, <2>3, <3>1, <3>3, <3>4, LateStep
    <3> QED BY <3>5
  <2> QED BY <2>2, <2>3
<1> QED BY <1>1, <1>2, <1>3

\* A tab without a connection that is bounded has nothing to miss.
LEMMA UnboundedGap ==
    ASSUME NEW c \in Clients, conn'[c] \notin {"bounded", "streaming"}
    PROVE  BoundInv(c)' /\ NoGap(c)' /\ Complete(c)'
  BY DEF BoundInv, NoGap, Complete

\* A receiver that is subscribed gets what is published.
LEMMA PublishGap ==
    ASSUME TypeOK, BatchInv, NEW c \in Clients, Publish,
           BoundInv(c), NoGap(c), Complete(c)
    PROVE  BoundInv(c)' /\ NoGap(c)' /\ Complete(c)'
<1>1. PICK g \in batch :
         /\ inbox' = [d \in Clients |->
                         IF Board[d] = target /\ conn[d] \in Live
                         THEN Append(inbox[d], g) ELSE inbox[d]]
         /\ published' = published \cup {g}
  BY DEF Publish
<1>2. UNCHANGED <<dbVars, page, conn, since, maxId, replay, received, late>>
  BY DEF Publish
<1>3. issued[g] = target /\ g \in Nat /\ inbox[c] \in Seq(Nat)
  BY DEF BatchInv, TypeOK, NotifierTypeOK, ClientTypeOK
<1>4. Range(Append(inbox[c], g)) = Range(inbox[c]) \cup {g}
  BY <1>3, RangeAppend
<1>5. inbox'[c] = IF Board[c] = target /\ conn[c] \in Live
                  THEN Append(inbox[c], g) ELSE inbox[c]
  BY <1>1
<1>6. Range(inbox[c]) \subseteq Range(inbox'[c])
  BY <1>4, <1>5
<1>7. Board[c] = target /\ conn[c] \in {"bounded", "streaming"} => g \in Range(inbox'[c])
  BY <1>4, <1>5 DEF Live
<1>8. NoGap(c)'
  BY <1>1, <1>2, <1>3, <1>6, <1>7 DEF NoGap, dbVars
<1>9. BoundInv(c)' /\ Complete(c)'
  BY <1>2 DEF BoundInv, Complete, Rows, dbVars
<1> QED BY <1>8, <1>9

\* What is published before the bound is read is not above it.
LEMMA BoundGap ==
    ASSUME TypeOK, CursorInv, NEW c \in Clients, ReadMaxId(c)
    PROVE  BoundInv(c)' /\ NoGap(c)' /\ Complete(c)'
<1>1. /\ conn'[c] = "bounded" /\ IsMaxId(maxId'[c], Rows(Board[c]))
      /\ UNCHANGED <<dbVars, published>>
  BY DEF ReadMaxId, TypeOK, ClientTypeOK, historyVars
<1>2. BoundInv(c)'
  BY <1>1 DEF BoundInv, IsMaxId, Rows, dbVars
<1>3. NoGap(c)'
  <2> SUFFICES ASSUME Board[c] \notin deleted, NEW e \in published, issued[e] = Board[c]
               PROVE  ~ (e > maxId'[c])
    BY <1>1 DEF NoGap, dbVars
  <2>1. e \in Rows(Board[c])
    BY DEF CursorInv, Rows
  <2>2. e \in Nat /\ Rows(Board[c]) \subseteq Nat
    <3>1. committed \subseteq Nat
      BY DEF TypeOK, DbTypeOK, Ids
    <3> QED BY <2>1, <3>1, RowsCommitted
  <2>3. e <= maxId'[c] /\ maxId'[c] \in Nat
    <3> DEFINE m == maxId'[c]
               S == Rows(Board[c])
    <3>1. m \in S \cup {0} /\ \A f \in S : f <= m
      BY <1>1 DEF IsMaxId
    <3> HIDE DEF m, S
    <3>2. e <= m /\ m \in Nat
      BY <2>1, <2>2, <3>1 DEF S
    <3> QED BY <3>2 DEF m
  <2> QED BY <2>2, <2>3
<1>4. Complete(c)'
  BY <1>1 DEF Complete
<1> QED BY <1>2, <1>3, <1>4

\* The steps of the tab that is streaming, or begins to.
LEMMA StreamGap ==
    ASSUME TypeOK, NEW c \in Clients, LoadReplay(c) \/ SendReplay(c) \/ SendLive(c),
           BoundInv(c), NoGap(c), Complete(c)
    PROVE  BoundInv(c)' /\ NoGap(c)' /\ Complete(c)'
<1>1. /\ conn[c] \in {"bounded", "streaming"} /\ conn'[c] = "streaming"
      /\ UNCHANGED <<dbVars, historyVars, since, maxId>>
  BY DEF LoadReplay, SendReplay, SendLive, TypeOK, ClientTypeOK
<1>2. inbox[c] \in Seq(Nat) /\ received[c] \in Seq(Nat) /\ replay[c] \subseteq Nat
  BY DEF TypeOK, ClientTypeOK
<1>3. BoundInv(c)'
  BY <1>1 DEF BoundInv, dbVars
<1>4. CASE LoadReplay(c)
  <2>1. inbox' = inbox /\ received' = received /\ replay'[c] = ReplayRows(c)
    BY <1>4 DEF LoadReplay, TypeOK, ClientTypeOK
  <2>2. NoGap(c)'
    BY <1>1, <2>1 DEF NoGap, dbVars, historyVars
  <2>3. Complete(c)'
    <3>1. Rows(Board[c])' = Rows(Board[c])
      BY <1>1 DEF Rows, dbVars
    <3>2. since[c] > 0 => \A e \in Rows(Board[c]) :
                             since[c] < e /\ e <= maxId[c] => e \in replay'[c]
      BY <2>1 DEF ReplayRows, TypeOK, ClientTypeOK
    <3> QED BY <1>1, <3>1, <3>2 DEF Complete
  <2> QED BY <1>3, <2>2, <2>3
<1>5. CASE SendReplay(c)
  <2>1. PICK g \in replay[c] : /\ received'[c] = Append(received[c], g)
                               /\ replay'[c] = replay[c] \ {g}
    BY <1>5 DEF SendReplay, TypeOK, ClientTypeOK
  <2>2. inbox' = inbox /\ conn[c] = "streaming"
    BY <1>5 DEF SendReplay
  <2>3. Range(received'[c]) = Range(received[c]) \cup {g}
    <3> DEFINE r == received[c]
    <3>1. r \in Seq(Nat) /\ g \in Nat
      BY <1>2, <2>1
    <3> HIDE DEF r
    <3>2. Range(Append(r, g)) = Range(r) \cup {g}
      BY <3>1, RangeAppend
    <3> QED BY <2>1, <3>2 DEF r
  <2>4. NoGap(c)'
    BY <1>1, <2>2, <2>3 DEF NoGap, dbVars, historyVars
  <2>5. Complete(c)'
    BY <1>1, <2>1, <2>2, <2>3 DEF Complete, Rows, dbVars, historyVars
  <2> QED BY <1>3, <2>4, <2>5
<1>6. CASE SendLive(c)
  <2> DEFINE g == Head(inbox[c])
  <2>1. /\ inbox[c] # << >> /\ inbox'[c] = Tail(inbox[c]) /\ replay' = replay
        /\ received'[c] = IF g > maxId[c] THEN Append(received[c], g) ELSE received[c]
        /\ conn[c] = "streaming"
    BY <1>6 DEF SendLive, BeyondBound, TypeOK, ClientTypeOK
  <2>2. g \in Nat
    BY <1>2, <2>1
  <2>3. Range(inbox[c]) = {g} \cup Range(inbox'[c])
    BY <1>2, <2>1, RangeHeadTail
  <2> HIDE DEF g
  <2>4. Range(received'[c]) = IF g > maxId[c] THEN Range(received[c]) \cup {g}
                              ELSE Range(received[c])
    <3> DEFINE r == received[c]
    <3>1. r \in Seq(Nat)
      BY <1>2
    <3> HIDE DEF r
    <3>2. Range(Append(r, g)) = Range(r) \cup {g}
      BY <2>2, <3>1, RangeAppend
    <3> QED BY <2>1, <3>2 DEF r
  <2>5. NoGap(c)'
    BY <1>1, <2>1, <2>3, <2>4 DEF NoGap, dbVars, historyVars
  <2>6. Complete(c)'
    BY <1>1, <2>1, <2>4 DEF Complete, Rows, dbVars, historyVars
  <2> QED BY <1>3, <2>5, <2>6
<1> QED BY <1>4, <1>5, <1>6

LEMMA ConnectionStep ==
    ASSUME TypeOK, BatchInv, CursorInv, [Next]_vars, NEW c \in Clients,
           BoundInv(c), NoGap(c), Complete(c)
    PROVE  BoundInv(c)' /\ NoGap(c)' /\ Complete(c)'
<1>1. ASSUME UNCHANGED clientVars, UNCHANGED published
      PROVE  BoundInv(c)' /\ NoGap(c)' /\ Complete(c)'
  BY <1>1, SameGap DEF SameTab, clientVars
<1>2. CASE Database
  BY <1>1, <1>2 DEF Database, EmitEvent, Commit, Rollback, DeleteRetro, historyVars
<1>3. CASE Notifier
  BY <1>1, <1>3, PublishGap
     DEF Notifier, ReadCursor, ReadCursorFails, Listen, ConnectionLost, Recv, LoadEvents,
         LoadEventsFails, historyVars
<1>4. ASSUME NEW d \in Clients, Browser(d), d # c
      PROVE  BoundInv(c)' /\ NoGap(c)' /\ Complete(c)'
  <2>1. published' = published
    BY <1>4, TabsAlone DEF historyVars
  <2>2. SameTab(c)
    <3> USE <1>4 DEF SameTab, TypeOK, ClientTypeOK
    <3>1. CASE PageLoad(d)
      BY <3>1 DEF PageLoad
    <3>2. CASE Admit(d) \/ Subscribe(d)
      BY <3>2 DEF Admit, Subscribe
    <3>3. CASE ReadMaxId(d)
      BY <3>3 DEF ReadMaxId
    <3>4. CASE LoadReplay(d)
      BY <3>4 DEF LoadReplay, ReplayRows
    <3>5. CASE SendReplay(d)
      BY <3>5 DEF SendReplay
    <3>6. CASE SendLive(d)
      BY <3>6 DEF SendLive, BeyondBound
    <3>7. CASE Disconnect(d) \/ Refuse(d)
      BY <3>7 DEF Disconnect, Refuse, Close
    <3> QED BY <3>1, <3>2, <3>3, <3>4, <3>5, <3>6, <3>7 DEF Browser
  <2> QED BY <2>1, <2>2, SameGap
<1>5. CASE PageLoad(c) \/ Admit(c) \/ Subscribe(c) \/ Disconnect(c) \/ Refuse(c)
  <2>1. conn'[c] \notin {"bounded", "streaming"}
    BY <1>5 DEF PageLoad, Admit, Subscribe, Disconnect, Refuse, Close, TypeOK, ClientTypeOK
  <2> QED BY <2>1, UnboundedGap
<1>6. CASE Browser(c)
  BY <1>5, <1>6, BoundGap, StreamGap DEF Browser
<1>7. CASE Restart
  <2>1. conn'[c] \notin {"bounded", "streaming"}
    BY <1>7 DEF Restart
  <2> QED BY <2>1, UnboundedGap
<1>8. CASE UNCHANGED vars
  BY <1>1, <1>8 DEF vars, historyVars
<1> QED BY <1>2, <1>3, <1>4, <1>6, <1>7, <1>8 DEF Next

-----------------------------------------------------------------------------
\* Nothing is written, loaded or bounded at first.
LEMMA DeliveryInit == Init => DeliveryInv
  BY DEF Init, DeliveryInv, TxNotes, NoTx, NoLostWakeup, CursorInv, Running, LoadedInv,
         SkipsExplained, BoundInv, NoGap, Complete

LEMMA DeliveryStep == TypeOK /\ FeedInv /\ DeliveryInv /\ [Next]_vars => DeliveryInv'
<1> SUFFICES ASSUME TypeOK, FeedInv, DeliveryInv, [Next]_vars
             PROVE  DeliveryInv'
  OBVIOUS
<1> USE DEF DeliveryInv, FeedInv
<1>1. TxNotes' /\ NoLostWakeup'
  BY TxNotesStep, WakeupStep
<1>2. CursorInv' /\ LoadedInv' /\ SkipsExplained'
  BY CursorStep, LoadedStep, SkipsStep
<1>3. \A c \in Clients : BoundInv(c)' /\ NoGap(c)' /\ Complete(c)'
  BY ConnectionStep
<1> QED BY <1>1, <1>2, <1>3

\* The inductive invariant of the delivery holds in every reachable state.
THEOREM DeliveryInvariant == Spec => []DeliveryInv
  BY DeliveryInit, DeliveryStep, TypeCorrect, FeedInvariant, PTL DEF Spec

\* However commits, lost connections, failed loads and restarts interleave, the
\* notifier never sleeps on an event whose notification was not dropped.
THEOREM NotifierStaysAwake == Spec => []NoLostWakeup
<1>1. DeliveryInv => NoLostWakeup
  BY DEF DeliveryInv
<1> QED BY <1>1, DeliveryInvariant, PTL

\* The live path skips an event only for the reasons named, whatever the order in
\* which the writers commit.
THEOREM SkipsAreExplained == Spec => []SkipsExplained
<1>1. DeliveryInv => SkipsExplained
  BY DEF DeliveryInv
<1> QED BY <1>1, DeliveryInvariant, PTL

\* Between the bound of a connection and its live stream there is no gap.
THEOREM LiveHasNoGap == Spec => []NoLiveGap
<1>1. DeliveryInv => NoLiveGap
  BY DEF DeliveryInv, NoGap, NoLiveGap
<1> QED BY <1>1, DeliveryInvariant, PTL

\* A replay holds every event up to the bound that did not become visible late.
THEOREM ReplayIsComplete == Spec => []ReplayComplete
<1>1. DeliveryInv => ReplayComplete
  BY DEF DeliveryInv, Complete, ReplayComplete
<1> QED BY <1>1, DeliveryInvariant, PTL

=============================================================================
