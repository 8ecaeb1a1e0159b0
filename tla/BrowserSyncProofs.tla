------------------------- MODULE BrowserSyncProofs -------------------------
(***************************************************************************)
(* The proof that a settled board shows what the database has, but for     *)
(* fields that an older answer or event has overtaken: Browser's           *)
(* OnlyOvertakenOutOfSync, for any number of cards, requests and events.   *)
(* What a card shows is what the log tells up to the newest thing the tab  *)
(* has got about it, and what is newer is still to come.                   *)
(***************************************************************************)
EXTENDS BrowserProofs

-----------------------------------------------------------------------------
(* What the log tells of a card up to a place.                              *)

EventOf(l, e, i, types) == e \in DOMAIN l /\ Says(l, e, i, types)

\* The newest event of these types up to place p.
NewestAt(l, e, i, types, p) ==
    /\ EventOf(l, e, i, types) /\ e <= p
    /\ \A x \in DOMAIN l : Says(l, x, i, types) /\ x <= p => x <= e

\* The class that item_card.html gives a card of this status.
KindOf(status) ==
    IF status = "HIGHLIGHTED" THEN "highlighted"
    ELSE IF status = "COMPLETED" THEN "completed" ELSE "plain"

BoardKinds == {"plain", "highlighted", "completed", "editing"}

\* The deadline that an event of TimerTypes tells.
EndOf(event) == IF event.type \in TimerEvents THEN event.started + event.duration ELSE 0

TellsKind(l, i, p, kind) == \A e : NewestAt(l, e, i, StatusTypes, p) => kind = KindOf(l[e].status)
TellsText(l, i, p, text) == \A e : NewestAt(l, e, i, TextTypes, p) => text = l[e].text
TellsEnd(l, i, p, end)   == \A e : NewestAt(l, e, i, TimerTypes, p) => end = EndOf(l[e])

KnowsCreation(l, i, p) == \A e \in DOMAIN l : Says(l, e, i, {"ITEM_CREATED"}) => e <= p

\* The card in an answer is what the log tells up to p.
AnswerTells(l, face, i, p) ==
    /\ KnowsCreation(l, i, p)
    /\ face.kind \in BoardKinds
    /\ face.kind # "editing" => TellsKind(l, i, p, face.kind) /\ TellsText(l, i, p, face.text)
    /\ face.kind = "highlighted" => TellsEnd(l, i, p, face.endAt) /\ (face.over => face.elapsed)

\* Events of cards stay in the log as they are.
LEMMA EventStays ==
    ASSUME Grows, NEW i, NEW types, types \cap Closing = {}, NEW e \in DOMAIN log
    PROVE  /\ e \in DOMAIN log'
           /\ Says(log', e, i, types) <=> Says(log, e, i, types)
           /\ Says(log, e, i, types) => log'[e] = log[e]
<1>1. e \in DOMAIN log'
  BY DEF Grows
<1>2. CASE log'[e] = log[e]
  BY <1>1, <1>2 DEF Says
<1>3. CASE log[e].type \in Closing /\ log'[e].type = None
  <2>1. log[e].type \notin types /\ log'[e].type \notin types
    BY <1>3 DEF Closing
  <2> QED BY <1>1, <2>1 DEF Says
<1> QED BY <1>2, <1>3 DEF Grows

\* What is newest up to a place stays so when the log grows.
LEMMA NewestStays ==
    ASSUME Grows, NEW i, NEW types, types \cap Closing = {}, NEW p \in 0 .. Len(log)
    PROVE  \A e : /\ NewestAt(log', e, i, types, p) <=> NewestAt(log, e, i, types, p)
                  /\ NewestAt(log, e, i, types, p) => log'[e] = log[e]
<1>1. \A x \in DOMAIN log : /\ x \in DOMAIN log'
                            /\ Says(log', x, i, types) <=> Says(log, x, i, types)
                            /\ Says(log, x, i, types) => log'[x] = log[x]
  BY EventStays
<1>2. \A x \in DOMAIN log' : x <= p => x \in DOMAIN log
  BY DEF Grows
<1> QED BY <1>1, <1>2 DEF NewestAt, EventOf

\* No event of a card is one of an archive.
LEMMA CardTypesApart ==
    /\ StatusTypes \cap Closing = {} /\ TextTypes \cap Closing = {} /\ TimerTypes \cap Closing = {}
    /\ TimerEvents \cap Closing = {} /\ CardTypes \cap Closing = {} /\ {"ITEM_CREATED"} \cap Closing = {}
    /\ {"ITEM_STATUS_CHANGED"} \cap Closing = {}
BY DEF StatusTypes, TextTypes, TimerTypes, ElapsedTypes, CardTypes, TimerEvents, Closing, None

\* So what was told up to a place stays told.
LEMMA ToldStays ==
    ASSUME Grows, NEW i, NEW p \in 0 .. Len(log)
    PROVE  /\ \A kind : TellsKind(log, i, p, kind) => TellsKind(log', i, p, kind)
           /\ \A text : TellsText(log, i, p, text) => TellsText(log', i, p, text)
           /\ \A end  : TellsEnd(log, i, p, end) => TellsEnd(log', i, p, end)
<1>1. \A e : /\ NewestAt(log', e, i, StatusTypes, p) <=> NewestAt(log, e, i, StatusTypes, p)
             /\ NewestAt(log, e, i, StatusTypes, p) => log'[e] = log[e]
  BY NewestStays, CardTypesApart
<1>2. \A e : /\ NewestAt(log', e, i, TextTypes, p) <=> NewestAt(log, e, i, TextTypes, p)
             /\ NewestAt(log, e, i, TextTypes, p) => log'[e] = log[e]
  BY NewestStays, CardTypesApart
<1>3. \A e : /\ NewestAt(log', e, i, TimerTypes, p) <=> NewestAt(log, e, i, TimerTypes, p)
             /\ NewestAt(log, e, i, TimerTypes, p) => log'[e] = log[e]
  BY NewestStays, CardTypesApart
<1> QED BY <1>1, <1>2, <1>3 DEF TellsKind, TellsText, TellsEnd

-----------------------------------------------------------------------------
(* What the log and the transactions owe to the order of events.            *)

\* A timer that is told of has a deadline.
TimersEnd == \A e \in DOMAIN log : log[e].type \in TimerEvents => EndOf(log[e]) # 0

\* A timer that has elapsed was the last that was told, and its deadline has passed.
ElapsedEnded ==
    \A e \in DOMAIN log, i \in Items : Says(log, e, i, {"TIMER_ELAPSED"}) =>
        \A x : NewestAt(log, x, i, TimerTypes, e) =>
            log[x].type \in TimerEvents /\ EndOf(log[x]) <= now

CreatedAfter(i, e) == \E x \in DOMAIN log : Says(log, x, i, {"ITEM_CREATED"}) /\ e < x

\* A card that is still active was added after every archive that has ended,
ArchivesOlder ==
    \A e \in DOMAIN log :
        /\ log[e].type = "RETRO_ARCHIVED"
        /\ \A q \in Archivers : InTransaction(q) => arch[q].event # e
        => \A i \in Items : Exists(i) /\ Unarchived(i) => CreatedAfter(i, e)

\* or after the event of the one that has not found it.
LeftOver ==
    \A q \in Archivers : arch[q].pc \in {"items", "action_items"} =>
        \A i \in Items \ arch[q].items : Exists(i) /\ Unarchived(i) => CreatedAfter(i, arch[q].event)

\* Only events of archives are hidden.
HidesArchives == \A q \in Archivers : arch[q].event # 0 => InTransaction(q)

SyncLog == TimersEnd /\ ElapsedEnded /\ ArchivesOlder /\ LeftOver /\ HidesArchives

\* A card that is read is what the log tells up to the moment it is read at.
FreshMeaning ==
    \A i \in Items : Unarchived(i) =>
        LET p == Moment(i, item[i], log)
        IN  /\ \A e \in DOMAIN log : Says(log, e, i, CardTypes) => e <= p
            /\ Exists(i) => AnswerTells(log, Face(item[i]), i, p) /\ AnswerTells(log, EditForm(item[i]), i, p)

\* Events of cards are visible at once: only archives hide theirs.
LEMMA CardVisible ==
    ASSUME BoardInv, HidesArchives, NEW e \in DOMAIN log, NEW i, Says(log, e, i, CardTypes)
    PROVE  Visible(log, e)
<1>1. log[e].type \notin Closing
  BY CardTypesApart DEF Says
<1>2. e # 0
  BY LogType
<1>3. \A q \in Archivers : InTransaction(q) => log[arch[q].event].type \in Closing
  BY DEF BoardInv, LogInv, OpenEvent, Closing
<1> QED BY <1>1, <1>2, <1>3 DEF Visible, HidesArchives, Closing

\* It is read after all events of the card.
LEMMA MomentLast ==
    ASSUME BoardInv, HidesArchives, NEW i \in Items, Unarchived(i),
           NEW e \in DOMAIN log, Says(log, e, i, CardTypes)
    PROVE  e <= Moment(i, item[i], log)
<1> DEFINE ids == {0} \cup {x \in DOMAIN log : Visible(log, x) /\ Concerns(log[x], i)}
<1>0. Len(log) \in Nat /\ DOMAIN log = 1 .. Len(log)
  BY LogType
<1>1. ids \in SUBSET (0 .. Len(log)) /\ ids # {}
  BY <1>0
<1>2. Moment(i, item[i], log) = Max(ids)
  BY DEF Moment, Unarchived
<1>3. e \in ids
  <2>1. Visible(log, e)
    BY CardVisible
  <2>2. Concerns(log[e], i)
    BY CardTypesApart DEF Concerns, Says, Closing
  <2> QED BY <2>1, <2>2
<1> HIDE DEF ids
<1>4. \E m \in ids : \A x \in ids : x <= m
  BY <1>0, <1>1, HasMax
<1>5. \A x, y \in ids : x <= y => y >= x
  BY <1>1
<1>6. Max(ids) \in ids /\ \A x \in ids : Max(ids) >= x
  BY <1>4, <1>5 DEF Max
<1>7. e \in Int /\ Max(ids) \in Int
  BY <1>1, <1>3, <1>6
<1> QED BY <1>2, <1>3, <1>6, <1>7

\* The last event of a card at a place after all of them is its newest.
LEMMA NewestIsLast ==
    ASSUME NEW l \in Seq(Events), NEW i, NEW types \in SUBSET CardTypes, NEW p,
           \A e \in DOMAIN l : Says(l, e, i, CardTypes) => e <= p, NEW e, NewestAt(l, e, i, types, p)
    PROVE  e = LastEvent(l, i, types) /\ l[e] = Newest(l, i, types)
<1>1. e \in DOMAIN l /\ Says(l, e, i, types)
  BY DEF NewestAt, EventOf
<1>2. \A x \in DOMAIN l : Says(l, x, i, types) => x <= e
  BY DEF NewestAt, Says
<1>3. LastEvent(l, i, types) = e
  BY <1>1, <1>2, LastEventIs
<1> QED BY <1>3 DEF Newest

\* The same when all the newest things of these types are known by then.
LEMMA FaceTells ==
    ASSUME BoardInv, NEW i \in Items, Exists(i), Unarchived(i), NEW p,
           \A e \in DOMAIN log : Says(log, e, i, CardTypes) => e <= p
    PROVE  AnswerTells(log, Face(item[i]), i, p) /\ AnswerTells(log, EditForm(item[i]), i, p)
<1> DEFINE row == item[i]
<1>0. log \in Seq(Events) /\ LogTold(log, i, row) /\ row.status # "ARCHIVED"
  BY LogType DEF BoardInv, LogInv, Unarchived
<1>1. KnowsCreation(log, i, p)
  BY DEF KnowsCreation, Says, CardTypes, TextTypes
<1>2. ASSUME NEW e, NewestAt(log, e, i, StatusTypes, p)
      PROVE  log[e].status = row.status
  <2>1. log[e] = Newest(log, i, StatusTypes)
    BY <1>0, <1>2, NewestIsLast DEF CardTypes, ElapsedTypes, StatusTypes
  <2> QED BY <1>0, <2>1 DEF LogTold
<1>3. ASSUME NEW e, NewestAt(log, e, i, TextTypes, p)
      PROVE  log[e].text = row.text
  <2>1. log[e] = Newest(log, i, TextTypes)
    BY <1>0, <1>3, NewestIsLast DEF CardTypes
  <2> QED BY <1>0, <2>1 DEF LogTold
<1>4. ASSUME NEW e, NewestAt(log, e, i, TimerTypes, p)
      PROVE  TimerOf(log[e]) = <<row.started, row.duration>>
  <2>1. log[e] = Newest(log, i, TimerTypes)
    BY <1>0, <1>4, NewestIsLast DEF CardTypes, ElapsedTypes, TimerTypes
  <2> QED BY <1>0, <2>1 DEF LogTold
<1>5. row.started # Null => row.status \in {"HIGHLIGHTED", "ARCHIVED"}
  BY DEF BoardInv, TimerInv, TimerOK
<1>6. /\ Face(row).kind = KindOf(row.status) /\ Face(row).text = row.text
      /\ Face(row).endAt = (IF row.status = "HIGHLIGHTED" /\ row.started # Null THEN EndsAt(row) ELSE 0)
      /\ Face(row).over => Face(row).elapsed
  BY DEF Face, KindOf
<1>7. EditForm(row).kind = "editing"
  BY DEF EditForm
<1>8. KindOf(row.status) \in BoardKinds \ {"editing"}
  BY DEF KindOf, BoardKinds
<1>9. row \in ItemRows
  BY RowOf
<1>10. row.started \in Nat /\ row.duration \in Nat
  BY <1>9 DEF ItemRows
<1> HIDE DEF row
<1>11. AnswerTells(log, EditForm(row), i, p)
  BY <1>1, <1>7 DEF AnswerTells, BoardKinds
<1>12. TellsKind(log, i, p, Face(row).kind)
  BY <1>2, <1>6 DEF TellsKind
<1>13. TellsText(log, i, p, Face(row).text)
  BY <1>3, <1>6 DEF TellsText
<1>14. ASSUME Face(row).kind = "highlighted"
       PROVE  TellsEnd(log, i, p, Face(row).endAt)
  <2>1. row.status = "HIGHLIGHTED"
    BY <1>6, <1>14 DEF KindOf
  <2> SUFFICES ASSUME NEW e, NewestAt(log, e, i, TimerTypes, p)
               PROVE  Face(row).endAt = EndOf(log[e])
    BY DEF TellsEnd
  <2>2. TimerOf(log[e]) = <<row.started, row.duration>>
    BY <1>4
  <2>3. CASE log[e].type \in TimerEvents
    <3>1. log[e].started = row.started /\ log[e].duration = row.duration
      BY <2>2, <2>3 DEF TimerOf, TimerEvents
    <3>2. EndOf(log[e]) = EndsAt(row)
      BY <2>3, <3>1 DEF EndOf, EndsAt
    <3>3. row.started = Null => row.duration = Null
      BY DEF BoardInv, TimerInv, TimerOK, row
    <3>4. row.started = Null => EndsAt(row) = 0
      BY <3>3 DEF EndsAt, Null
    <3> QED BY <1>6, <2>1, <3>2, <3>4
  <2>4. CASE log[e].type \notin TimerEvents
    <3>1. row.started = Null
      BY <2>2, <2>4 DEF TimerOf, TimerEvents
    <3> QED BY <1>6, <2>4, <3>1 DEF EndOf
  <2> QED BY <2>3, <2>4
<1>15. AnswerTells(log, Face(row), i, p)
  BY <1>1, <1>6, <1>8, <1>12, <1>13, <1>14 DEF AnswerTells
<1> QED BY <1>11, <1>15 DEF row

\* A card is read as the log tells it.
LEMMA FreshIs == BoardInv /\ HidesArchives => FreshMeaning
<1> SUFFICES ASSUME BoardInv, HidesArchives, NEW i \in Items, Unarchived(i), NEW p,
                    p = Moment(i, item[i], log)
             PROVE  /\ \A e \in DOMAIN log : Says(log, e, i, CardTypes) => e <= p
                    /\ Exists(i) => AnswerTells(log, Face(item[i]), i, p)
                                    /\ AnswerTells(log, EditForm(item[i]), i, p)
  BY DEF FreshMeaning
<1>1. \A e \in DOMAIN log : Says(log, e, i, CardTypes) => e <= p
  BY MomentLast
<1> QED BY <1>1, FaceTells

\* The same after a step.
LEMMA FreshLater == ASSUME BoardInv', HidesArchives' PROVE FreshMeaning'
<1>1. (BoardInv /\ HidesArchives => FreshMeaning)'
  BY FreshIs, PTL
<1> QED BY <1>1

-----------------------------------------------------------------------------
(* What a step of the board adds to the log.                                *)

\* The steps of the board while the tab is open; no retro is deleted.
Works ==
    \/ \E i \in Items : ItemHandler(i)
    \/ \E q \in Editors : UpdateItem(q)
    \/ \E q \in Archivers : ArchiveRetro(q)
    \/ TimerSweep
    \/ Tick
    \/ UNCHANGED vars

\* A step is, for the database, a handler, an archive, the sweep, the clock or
\* nothing.
LEMMA StepWorks ==
    ASSUME TabInv, [BrowserNext]_browserVars
    PROVE  Works /\ [Next]_vars
<1> SUFFICES Works
  BY StepOfBoard
<1>1. CASE UNCHANGED browserVars
  BY <1>1 DEF browserVars, Works
<1>2. CASE Elsewhere
  BY <1>2 DEF Elsewhere, Works
<1>3. CASE Publish
  BY <1>3 DEF Publish, Works
<1>4. CASE Listener
  BY <1>4, ListenerIdle DEF Works
<1>5. ASSUME NEW f \in fetches, ServeFetch(f) \/ FetchArrives(f) \/ FetchFails(f)
      PROVE  UNCHANGED vars
  BY <1>5 DEF ServeFetch, FetchArrives, FetchFails
<1>6. ASSUME NEW s \in Slots, Request(s)
      PROVE  Works
  BY <1>6, RequestStep DEF TabInv, Works
<1>7. CASE Settle
  BY <1>7 DEF Settle, Works
<1>8. ASSUME NEW p \in posts, ServePost(p) \/ PostArrives(p) \/ PostFails(p)
      PROVE  Works
  BY <1>8, PostStep DEF TabInv, Works
<1>9. ASSUME NEW i \in Items, ClickExtend(i) \/ FallbackTick(i)
      PROVE  UNCHANGED vars
  BY <1>9 DEF ClickExtend, FallbackTick
<1>10. UNCHANGED vars => Works
  BY DEF Works
<1>11. CASE \E f \in fetches : ServeFetch(f) \/ FetchArrives(f) \/ FetchFails(f)
  BY <1>5, <1>10, <1>11
<1>12. CASE \E s \in Slots : Request(s)
  BY <1>6, <1>12
<1>13. CASE \E p \in posts : ServePost(p) \/ PostArrives(p) \/ PostFails(p)
  BY <1>8, <1>13
<1>14. CASE \E i \in Items : ClickExtend(i) \/ FallbackTick(i)
  BY <1>9, <1>10, <1>14
<1> QED BY <1>1, <1>2, <1>3, <1>4, <1>7, <1>11, <1>12, <1>13, <1>14 DEF BrowserNext

\* What an UPDATE of one card can tell.
Updates ==
    {ev \in Events : \/ ev.type \in {"ITEM_STATUS_CHANGED", "ITEM_UPDATED"}
                     \/ ev.type \in TimerEvents /\ EndOf(ev) # 0}

Fresh(e) == e \in DOMAIN log' /\ e \notin DOMAIN log

\* The rows that handlers write do not mark a timer elapsed, and a timer that
\* they change runs.
RunsOn(old, new) ==
    new.status = old.status =>
        /\ new.elapsed = Null \/ new.elapsed = old.elapsed
        /\ TimerChanged(old, new) => new.started # Null

\* An UPDATE that runs on announces nothing or one thing about its card.
LEMMA UpdateTells ==
    ASSUME TypeOK, NEW i \in Items, NEW new \in ItemRows, new.status \in Status,
           RunsOn(item[i], new), Write(i, new)
    PROVE  log' = log \/ \E ev \in Updates : ev.item = i /\ log' = Append(log, ev)
<1> DEFINE s == ItemEvent(i, item[i], new)
<1>0. item[i] \in ItemRows /\ log \in Seq(Events) /\ log' = log \o s
  BY DEF TypeOK, BoardTypeOK, Write
<1>1. s \in Seq(Events)
  BY <1>0, ItemEventType
<1>2. new.started \in Nat /\ new.duration \in Nat
  BY DEF ItemRows
<1>3. s = << >> \/ \E ev : s = <<ev>> /\ ev.item = i /\
          (\/ ev.type \in {"ITEM_STATUS_CHANGED", "ITEM_UPDATED"}
           \/ ev.type \in TimerEvents /\ ev.started = new.started /\ ev.duration = new.duration
              /\ new.started # Null)
  BY DEF ItemEvent, RunsOn, TimerEvents, TimerChanged
<1> HIDE DEF s
<1>4. CASE s = << >>
  BY <1>0, <1>4
<1>5. ASSUME NEW ev, s = <<ev>>, ev.item = i,
             \/ ev.type \in {"ITEM_STATUS_CHANGED", "ITEM_UPDATED"}
             \/ ev.type \in TimerEvents /\ ev.started = new.started /\ ev.duration = new.duration
                /\ new.started # Null
      PROVE  ev \in Updates /\ log' = Append(log, ev)
  <2>1. ev \in Events
    <3>1. DOMAIN s = 1 .. 1 /\ s[1] = ev
      BY <1>5
    <3> QED BY <1>1, <3>1, ElementOfSeq
  <2>2. ev \in Updates
    BY <1>2, <1>5, <2>1 DEF Updates, EndOf, Null
  <2>3. log' = Append(log, ev)
    BY <1>0, <1>5, <2>1, AppendIsConcat
  <2> QED BY <2>2, <2>3
<1> QED BY <1>3, <1>4, <1>5

\* An event that is appended is the only fresh one.
LEMMA OneAdded ==
    ASSUME TypeOK, NEW ev \in Events, log' = Append(log, ev)
    PROVE  /\ \A e : Fresh(e) <=> e = Len(log) + 1
           /\ log'[Len(log) + 1] = ev
<1>1. log \in Seq(Events)
  BY DEF TypeOK, BoardTypeOK
<1>2. Len(log) \in Nat /\ DOMAIN log = 1 .. Len(log) /\ DOMAIN log' = 1 .. Len(log) + 1
      /\ log'[Len(log) + 1] = ev
  BY <1>1, AppendProperties, LenProperties
<1> QED BY <1>2 DEF Fresh

\* What the handlers write to a row runs on.
LEMMA RowsRunOn ==
    ASSUME CardsAssumption, NEW row \in ItemRows, NEW t \in Nat \ {0}
    PROVE  /\ \A action : RunsOn(row, Changed(row, action))
           /\ \A d : RunsOn(row, [row EXCEPT !.started = t, !.duration = d, !.elapsed = Null])
           /\ row.started # Null => RunsOn(row, Extended(row))
           /\ \A text : RunsOn(row, [row EXCEPT !.text = text])
<1>1. ASSUME NEW action
      PROVE  RunsOn(row, Changed(row, action))
  <2>1. CASE row.status = "HIGHLIGHTED" /\ action \in {"cancel", "complete"}
    <3>1. Changed(row, action) = [ResetTimer(row) EXCEPT !.status = NextStatus(row.status, action)]
      BY <2>1 DEF Changed
    <3>2. NextStatus(row.status, action) # row.status
      BY <2>1 DEF NextStatus
    <3>3. Changed(row, action).status # row.status
      BY <3>1, <3>2 DEF ResetTimer, ItemRows
    <3> QED BY <3>3 DEF RunsOn
  <2>2. CASE ~ (row.status = "HIGHLIGHTED" /\ action \in {"cancel", "complete"})
    <3>1. Changed(row, action) = [row EXCEPT !.status = NextStatus(row.status, action)]
      BY <2>2 DEF Changed
    <3>2. /\ Changed(row, action).started = row.started
          /\ Changed(row, action).duration = row.duration
          /\ Changed(row, action).elapsed = row.elapsed
      BY <3>1 DEF ItemRows
    <3> QED BY <3>2 DEF RunsOn, TimerChanged
  <2> QED BY <2>1, <2>2
<1>2. \A d : RunsOn(row, [row EXCEPT !.started = t, !.duration = d, !.elapsed = Null])
  BY DEF RunsOn, ItemRows, Null
<1>3. row.started # Null => RunsOn(row, Extended(row))
  BY DEF RunsOn, Extended, ItemRows
<1>4. \A text : RunsOn(row, [row EXCEPT !.text = text])
  BY DEF RunsOn, TimerChanged, ItemRows
<1> QED BY <1>1, <1>2, <1>3, <1>4

\* The requests about one card: it is added, or an UPDATE is told.
LEMMA HandlerTells ==
    ASSUME CardsAssumption, TypeOK, NEW i \in Items, ItemHandler(i)
    PROVE  \/ log' = log
           \/ \E ev \in Updates : ev.item = i /\ log' = Append(log, ev)
           \/ \E text \in Texts : AddItem(i, text)
<1>0. item[i] \in ItemRows /\ now \in Nat \ {0}
  BY DEF TypeOK, BoardTypeOK
<1>1. ASSUME NEW action \in {"highlight", "cancel", "complete"}, ChangeItemStatus(i, action), log' # log
      PROVE  \E ev \in Updates : ev.item = i /\ log' = Append(log, ev)
  <2>1. Changed(item[i], action) \in ItemRows /\ Changed(item[i], action).status \in Status
    BY <1>0, <1>1, RowTypes DEF ChangeItemStatus, Exists
  <2>2. Write(i, Changed(item[i], action))
    BY <1>1 DEF ChangeItemStatus
  <2> QED BY <1>0, <1>1, <2>1, <2>2, RowsRunOn, UpdateTells
<1>2. ASSUME NEW d \in Submitted, StartItemTimer(i, d), log' # log
      PROVE  \E ev \in Updates : ev.item = i /\ log' = Append(log, ev)
  <2> DEFINE new == [item[i] EXCEPT !.started = now, !.duration = Clamp(d), !.elapsed = Null]
  <2>1. Clamp(d) \in Nat
    BY <1>0, RowTypes DEF CardsAssumption
  <2>2. new \in ItemRows /\ new.status \in Status
    BY <1>0, <1>2, <2>1 DEF ItemRows, Null, Exists, StartItemTimer
  <2>3. Write(i, new) /\ RunsOn(item[i], new)
    BY <1>0, <1>2, RowsRunOn DEF StartItemTimer
  <2> HIDE DEF new
  <2> QED BY <1>2, <2>2, <2>3, UpdateTells
<1>3. ASSUME ExtendItemTimer(i), log' # log
      PROVE  \E ev \in Updates : ev.item = i /\ log' = Append(log, ev)
  <2>1. Extended(item[i]) \in ItemRows /\ Extended(item[i]).status \in Status
    BY <1>0, <1>3, RowTypes DEF ExtendItemTimer, Exists
  <2>2. Write(i, Extended(item[i])) /\ item[i].started # Null
    BY <1>3 DEF ExtendItemTimer
  <2> QED BY <1>0, <1>3, <2>1, <2>2, RowsRunOn, UpdateTells
<1> QED BY <1>1, <1>2, <1>3 DEF ItemHandler

\* A saved edit announces at most the card's new text.
LEMMA TextTells ==
    ASSUME CardsAssumption, TypeOK, NEW q \in Editors, UpdateItem(q)
    PROVE  log' = log \/ \E ev \in Updates : log' = Append(log, ev)
<1>1. ASSUME UpdateText(q), log' # log
      PROVE  \E ev \in Updates : log' = Append(log, ev)
  <2> DEFINE i   == edit[q].item
             new == [item[i] EXCEPT !.text = edit[q].text]
  <2>1. i \in Items /\ edit[q].text \in Texts \cup {None}
    BY <1>1 DEF UpdateText, TypeOK, RequestTypeOK, EditStates
  <2>2. item[i] \in ItemRows /\ item[i].status \in Status /\ Write(i, new) /\ now \in Nat \ {0}
    BY <1>1, <2>1 DEF TypeOK, BoardTypeOK, UpdateText, Exists
  <2>3. new \in ItemRows /\ new.status \in Status
    BY <2>1, <2>2 DEF ItemRows
  <2>4. RunsOn(item[i], new)
    BY <2>2, RowsRunOn
  <2> HIDE DEF new, i
  <2> QED BY <1>1, <2>1, <2>2, <2>3, <2>4, UpdateTells
<1> QED BY <1>1 DEF UpdateItem, ReadOldText, AbandonEdit

\* What is told anew: timers with a deadline, cards that were not there,
\* deadlines that have passed when nothing else is told of the timer, and
\* archives that begin.
FreshNews ==
    \A e : Fresh(e) =>
        /\ log'[e].type \in TimerEvents => EndOf(log'[e]) # 0
        /\ log'[e].type = "ITEM_CREATED" =>
              /\ ~ Exists(log'[e].item)
              /\ \E text \in Texts : AddItem(log'[e].item, text)
        /\ log'[e].type = "TIMER_ELAPSED" =>
              log'[e].item \in Due /\ \A x : Fresh(x) => log'[x].type = "TIMER_ELAPSED"
        /\ log'[e].type = "RETRO_ARCHIVED" =>
              \E q \in Archivers : InsertArchive(q) /\ e = Len(log) + 1

\* The sweep announces timers that were due.
LEMMA SweepTells ==
    ASSUME CardsAssumption, TypeOK, TimerSweep, NEW e, Fresh(e)
    PROVE  log'[e].type = "TIMER_ELAPSED" /\ log'[e].item \in Due
<1>0. log \in Seq(Events)
  BY DEF TypeOK, BoardTypeOK
<1>1. PICK rows \in SetToSeqs(Due) :
          log' = log \o [k \in DOMAIN rows |-> [type |-> "TIMER_ELAPSED", item |-> rows[k]]]
  BY DEF TimerSweep
<1> DEFINE s == [k \in DOMAIN rows |-> [type |-> "TIMER_ELAPSED", item |-> rows[k]]]
<1>2. Due \subseteq Items /\ IsFiniteSet(Due)
  BY FS_Subset DEF Due, CardsAssumption
<1>3. rows \in Seq(Due)
  BY <1>1, <1>2, SetToSeqsProperties
<1>4. \A i \in Items : [type |-> "TIMER_ELAPSED", item |-> i] \in Events
  BY DEF Events
<1>5. rows \in [1 .. Len(rows) -> Items] /\ Len(rows) \in Nat /\ DOMAIN rows = 1 .. Len(rows)
      /\ \A k \in DOMAIN rows : rows[k] \in Due
  BY <1>2, <1>3, LenProperties, ElementOfSeq
<1>6. s \in [1 .. Len(rows) -> Events]
      /\ \A k \in DOMAIN s : s[k].type = "TIMER_ELAPSED" /\ s[k].item \in Due
  BY <1>4, <1>5
<1>7. log' = log \o s
  BY <1>1
<1> HIDE DEF s
<1>8. s \in Seq(Events)
  BY <1>5, <1>6, SeqDef
<1>9. /\ Len(log) \in Nat /\ DOMAIN log = 1 .. Len(log) /\ Len(s) \in Nat /\ DOMAIN s = 1 .. Len(s)
      /\ DOMAIN log' = 1 .. Len(log) + Len(s)
      /\ \A k \in 1 .. Len(log) + Len(s) : log'[k] = IF k <= Len(log) THEN log[k] ELSE s[k - Len(log)]
  BY <1>0, <1>7, <1>8, ConcatProperties, LenProperties
<1>10. e \in 1 .. Len(log) + Len(s) /\ ~ (e <= Len(log)) /\ e - Len(log) \in DOMAIN s
  BY <1>9 DEF Fresh
<1> QED BY <1>6, <1>9, <1>10

\* Whatever works, its fresh events are news of the cards it changed.
LEMMA WorksTell ==
    ASSUME CardsAssumption, TypeOK, Works
    PROVE  FreshNews
<1>1. ASSUME NEW ev \in Updates, log' = Append(log, ev)
      PROVE  FreshNews
  <2>1. ev \in Events
    BY DEF Updates
  <2>2. \A e : Fresh(e) => log'[e] = ev
    BY <1>1, <2>1, OneAdded
  <2>3. /\ ev.type \in {"ITEM_STATUS_CHANGED", "ITEM_UPDATED"} \cup TimerEvents
        /\ ev.type \in TimerEvents => EndOf(ev) # 0
    BY DEF Updates, TimerEvents
  <2> QED BY <2>2, <2>3 DEF FreshNews, TimerEvents
<1>2. ASSUME DOMAIN log' = DOMAIN log
      PROVE  FreshNews
  BY <1>2 DEF FreshNews, Fresh
<1>3. ASSUME NEW i \in Items, NEW text \in Texts, AddItem(i, text)
      PROVE  FreshNews
  <2> DEFINE ev == [type |-> "ITEM_CREATED", item |-> i, text |-> text, status |-> "CREATED"]
  <2>1. log' = Append(log, ev) /\ ~ Exists(i)
    BY <1>3 DEF AddItem, Exists, Status
  <2>2. ev \in Events /\ ev.type = "ITEM_CREATED" /\ ev.item = i
    BY DEF Events, Status
  <2> HIDE DEF ev
  <2>3. \A e : Fresh(e) => log'[e] = ev
    BY <2>1, <2>2, OneAdded
  <2> QED BY <1>3, <2>1, <2>2, <2>3 DEF FreshNews, TimerEvents
<1>4. ASSUME NEW i \in Items, ItemHandler(i)
      PROVE  FreshNews
  BY <1>1, <1>2, <1>3, <1>4, HandlerTells
<1>5. ASSUME NEW q \in Editors, UpdateItem(q)
      PROVE  FreshNews
  BY <1>1, <1>2, <1>5, TextTells
<1>6. ASSUME NEW q \in Archivers, InsertArchive(q)
      PROVE  FreshNews
  <2> DEFINE ev == [type |-> "RETRO_ARCHIVED", retro |-> arch[q].retro]
  <2>1. log' = Append(log, ev)
    BY <1>6 DEF InsertArchive
  <2>2. ev \in Events /\ ev.type = "RETRO_ARCHIVED"
    BY ArchTypes DEF Events
  <2> HIDE DEF ev
  <2>3. \A e : Fresh(e) => log'[e] = ev /\ e = Len(log) + 1
    BY <2>1, <2>2, OneAdded
  <2> QED BY <1>6, <2>2, <2>3 DEF FreshNews, TimerEvents
<1>7. ASSUME NEW q \in Archivers, ArchiveRetro(q), ~ InsertArchive(q)
      PROVE  DOMAIN log' = DOMAIN log
  BY <1>7 DEF ArchiveRetro, ArchiveStep, CountActive, ArchiveItems, ArchiveActionItems,
              CommitArchive, AbortArchive
<1>8. CASE TimerSweep
  BY <1>8, SweepTells DEF FreshNews, TimerEvents
<1>9. Tick \/ UNCHANGED vars => DOMAIN log' = DOMAIN log
  BY DEF Tick, vars
<1>10. CASE \E q \in Archivers : ArchiveRetro(q)
  BY <1>2, <1>6, <1>7, <1>10
<1> QED BY <1>2, <1>4, <1>5, <1>8, <1>9, <1>10 DEF Works

\* A row that is written is there before and after.
LEMMA RowStays ==
    ASSUME TypeOK, NEW j \in Items, NEW new, item' = [item EXCEPT ![j] = new],
           new.status \in Status, Exists(j), NEW i \in Items
    PROVE  Exists(i)' <=> Exists(i)
<1>1. item'[j] = new /\ \A k \in Items \ {j} : item'[k] = item[k]
  BY DEF TypeOK, BoardTypeOK
<1> QED BY <1>1 DEF Exists

\* Cards stay there, and a new one is announced.
LEMMA CardsStay ==
    ASSUME CardsAssumption, TypeOK, ArchiveInv, Works, NEW i \in Items
    PROVE  /\ Exists(i) => Exists(i)'
           /\ Exists(i)' => Exists(i) \/ \E text \in Texts : AddItem(i, text)
<1>0. \A j \in Items : item[j] \in ItemRows
  BY DEF TypeOK, BoardTypeOK
<1>1. item' = item => (Exists(i)' <=> Exists(i))
  BY DEF Exists
<1>2. ASSUME NEW j \in Items, NEW action \in {"highlight", "cancel", "complete"},
             ChangeItemStatus(j, action)
      PROVE  Exists(i)' <=> Exists(i)
  <2>1. Changed(item[j], action).status \in Status
    BY <1>0, <1>2, RowTypes DEF ChangeItemStatus, Exists
  <2>2. Exists(j) /\ (item' = item \/ item' = [item EXCEPT ![j] = Changed(item[j], action)])
    BY <1>2 DEF ChangeItemStatus, Write
  <2> QED BY <1>1, <2>1, <2>2, RowStays
<1>3. ASSUME NEW j \in Items, NEW d \in Submitted, StartItemTimer(j, d)
      PROVE  Exists(i)' <=> Exists(i)
  <2> DEFINE new == [item[j] EXCEPT !.started = now, !.duration = Clamp(d), !.elapsed = Null]
  <2>1. Exists(j) /\ (item' = item \/ item' = [item EXCEPT ![j] = new])
    BY <1>3 DEF StartItemTimer, Write
  <2>2. new.status = item[j].status
    BY <1>0, KeptRows
  <2> HIDE DEF new
  <2> QED BY <1>1, <2>1, <2>2, RowStays DEF Exists
<1>4. ASSUME NEW j \in Items, ExtendItemTimer(j)
      PROVE  Exists(i)' <=> Exists(i)
  <2>1. Exists(j) /\ (item' = item \/ item' = [item EXCEPT ![j] = Extended(item[j])])
    BY <1>4 DEF ExtendItemTimer, Write
  <2>2. Extended(item[j]).status = item[j].status
    BY <1>0, KeptRows
  <2> QED BY <1>1, <2>1, <2>2, RowStays DEF Exists
<1>5. ASSUME NEW j \in Items, NEW text \in Texts, AddItem(j, text)
      PROVE  /\ Exists(i) => Exists(i)'
             /\ Exists(i)' => Exists(i) \/ i = j
  <2>1. \A k \in Items \ {j} : item'[k] = item[k]
    BY <1>5 DEF AddItem
  <2>2. ~ Exists(j)
    BY <1>5 DEF AddItem, Exists, Status
  <2> QED BY <2>1, <2>2 DEF Exists
<1>6. ASSUME NEW q \in Editors, UpdateItem(q)
      PROVE  Exists(i)' <=> Exists(i)
  <2>1. CASE UpdateText(q)
    <3> DEFINE j   == edit[q].item
               new == [item[j] EXCEPT !.text = edit[q].text]
    <3>1. j \in Items /\ item' = [item EXCEPT ![j] = new] /\ Exists(j)
      BY <2>1 DEF UpdateText, Write, TypeOK, RequestTypeOK, EditStates
    <3>2. new.status = item[j].status
      BY <1>0, <3>1, KeptRows
    <3> HIDE DEF j, new
    <3> QED BY <3>1, <3>2, RowStays DEF Exists
  <2>2. CASE ~ UpdateText(q)
    BY <1>1, <1>6, <2>2 DEF UpdateItem, ReadOldText, AbandonEdit, boardVars
  <2> QED BY <2>1, <2>2
<1>7. ASSUME NEW q \in Archivers, ArchiveRetro(q)
      PROVE  Exists(i)' <=> Exists(i)
  <2>1. CASE CommitArchive(q)
    <3>1. item'[i] = IF i \in arch[q].items
                     THEN [item[i] EXCEPT !.status = "ARCHIVED", !.archive = arch[q].id] ELSE item[i]
      BY <2>1 DEF CommitArchive
    <3>2. CASE i \in arch[q].items
      <4>1. item'[i].status = "ARCHIVED"
        BY <1>0, <3>1, <3>2 DEF ItemRows
      <4>2. Exists(i)
        BY <3>2 DEF ArchiveInv, RequestInv, Holds
      <4> QED BY <4>1, <4>2 DEF Exists, Status
    <3>3. CASE i \notin arch[q].items
      BY <3>1, <3>3 DEF Exists
    <3> QED BY <3>2, <3>3
  <2>2. CASE ~ CommitArchive(q)
    BY <1>1, <1>7, <2>2 DEF ArchiveRetro, ArchiveStep, CountActive, InsertArchive, ArchiveItems,
                            ArchiveActionItems, AbortArchive, boardVars
  <2> QED BY <2>1, <2>2
<1>8. CASE TimerSweep
  <2>1. item'[i] = IF i \in Due THEN [item[i] EXCEPT !.elapsed = now] ELSE item[i]
    BY <1>8 DEF TimerSweep
  <2>2. item'[i].status = item[i].status
    BY <1>0, <2>1, KeptRows
  <2> QED BY <2>2 DEF Exists
<1>9. Tick \/ UNCHANGED vars => item' = item
  BY DEF Tick, vars, boardVars
<1>10. ASSUME NEW j \in Items, ItemHandler(j)
       PROVE  /\ Exists(i) => Exists(i)'
              /\ Exists(i)' => Exists(i) \/ \E text \in Texts : AddItem(i, text)
  BY <1>2, <1>3, <1>4, <1>5, <1>10 DEF ItemHandler
<1> QED BY <1>1, <1>6, <1>7, <1>8, <1>9, <1>10 DEF Works

\* What a step does to the transaction of q.
LEMMA ArchiverMoves ==
    ASSUME TypeOK, [Next]_vars, NEW q \in Archivers
    PROVE  \/ arch'[q] = arch[q]
           \/ ArchiveItems(q) \/ ArchiveActionItems(q)
           \/ InsertArchive(q) /\ arch'[q].event = Len(log) + 1 /\ arch'[q].pc = "inserted"
           \/ /\ arch'[q].event = 0 /\ arch'[q].pc \in {"idle", "counted"}
              /\ ~ InTransaction(q) \/ CommitArchive(q) \/ TakesBack(q)
<1>0. arch \in [Archivers -> ArchiveStates]
  BY DEF TypeOK, RequestTypeOK
<1>1. ASSUME arch' # arch
      PROVE  \E p \in Archivers : ArchiveRetro(p)
  BY <1>1 DEF Next, vars, ItemHandler, AddItem, ChangeItemStatus, StartItemTimer, ExtendItemTimer,
              UpdateItem, ReadOldText, UpdateText, AbandonEdit, ActionItemHandler, AddActionItem,
              UpdateActionItem, CompleteActionItem, DeleteActionItem, DeleteRetro, TimerSweep, Tick
<1>2. ASSUME NEW p \in Archivers, ArchiveRetro(p), p # q
      PROVE  arch'[q] = arch[q]
  BY <1>0, <1>2 DEF ArchiveRetro, ArchiveStep, CountActive, InsertArchive, ArchiveItems,
                    ArchiveActionItems, CommitArchive, AbortArchive
<1>3. ASSUME NEW r \in Retros, CountActive(q, r)
      PROVE  arch'[q].event = 0 /\ arch'[q].pc = "counted" /\ ~ InTransaction(q)
  <2>1. arch'[q] = [NoArchive EXCEPT !.pc = "counted", !.retro = r, !.seen = Active(r)]
    BY <1>0, <1>3 DEF CountActive
  <2> QED BY <1>3, <2>1 DEF NoArchive, CountActive, InTransaction
<1>4. ASSUME InsertArchive(q)
      PROVE  arch'[q].event = Len(log) + 1 /\ arch'[q].pc = "inserted"
  <2>1. arch' = [arch EXCEPT ![q].pc = "inserted", ![q].id = Len(archives) + 1,
                             ![q].event = Len(log) + 1]
    BY <1>4 DEF InsertArchive
  <2> QED BY <1>0, <2>1 DEF ArchiveStates
<1>5. ASSUME CommitArchive(q) \/ AbortArchive(q)
      PROVE  arch'[q].event = 0 /\ arch'[q].pc = "idle"
  <2>1. arch'[q] = NoArchive
    BY <1>0, <1>5 DEF CommitArchive, AbortArchive
  <2> QED BY <2>1 DEF NoArchive
<1>6. ASSUME AbortArchive(q)
      PROVE  ~ InTransaction(q) \/ TakesBack(q)
  BY <1>6 DEF AbortArchive, InTransaction, TakesBack
<1> QED BY <1>1, <1>2, <1>3, <1>4, <1>5, <1>6 DEF ArchiveRetro, ArchiveStep

\* What the two UPDATEs of an archive hold.
LEMMA ArchiverItems ==
    ASSUME TypeOK, NEW q \in Archivers
    PROVE  /\ ArchiveItems(q) => /\ arch'[q].items = Active(arch[q].retro) /\ arch'[q].pc = "items"
                                 /\ arch'[q].event = arch[q].event
           /\ ArchiveActionItems(q) => /\ arch'[q].items = arch[q].items /\ arch'[q].pc = "action_items"
                                       /\ arch'[q].event = arch[q].event
<1>0. arch \in [Archivers -> ArchiveStates]
  BY DEF TypeOK, RequestTypeOK
<1>1. ASSUME ArchiveItems(q)
      PROVE  /\ arch'[q].items = Active(arch[q].retro) /\ arch'[q].pc = "items"
             /\ arch'[q].event = arch[q].event
  <2>1. arch' = [arch EXCEPT ![q].pc = "items", ![q].items = Archivable(arch[q].retro)]
    BY <1>1 DEF ArchiveItems
  <2> QED BY <1>0, <2>1 DEF ArchiveStates, Archivable
<1>2. ASSUME ArchiveActionItems(q)
      PROVE  /\ arch'[q].items = arch[q].items /\ arch'[q].pc = "action_items"
             /\ arch'[q].event = arch[q].event
  <2>1. arch' = [arch EXCEPT ![q].pc = "action_items",
                             ![q].actionItems = ActiveActionItems(arch[q].retro)]
    BY <1>2 DEF ArchiveActionItems
  <2> QED BY <1>0, <2>1 DEF ArchiveStates
<1> QED BY <1>1, <1>2

\* A timer is announced with a deadline.
LEMMA TimersEndStep ==
    ASSUME Grows, FreshNews, TimersEnd
    PROVE  TimersEnd'
<1> SUFFICES ASSUME NEW e \in DOMAIN log', log'[e].type \in TimerEvents
             PROVE  EndOf(log'[e]) # 0
  BY DEF TimersEnd, EndOf
<1>1. CASE e \in DOMAIN log
  <2>1. log'[e] = log[e]
    BY <1>1 DEF Grows, TimerEvents, None
  <2> QED BY <1>1, <2>1 DEF TimersEnd
<1>2. CASE e \notin DOMAIN log
  BY <1>2 DEF FreshNews, Fresh
<1> QED BY <1>1, <1>2

\* When the sweep announces a card, the newest timer in the log is over.
LEMMA SwepTimer ==
    ASSUME BoardInv, Grows, FreshNews, NEW e, Fresh(e), NEW i \in Items,
           Says(log', e, i, {"TIMER_ELAPSED"}), NEW x, NewestAt(log', x, i, TimerTypes, e)
    PROVE  log'[x].type \in TimerEvents /\ EndOf(log'[x]) <= now
<1>1. i \in Due /\ \A y : Fresh(y) => log'[y].type = "TIMER_ELAPSED"
  BY DEF Says, FreshNews
<1>2. x \in DOMAIN log' /\ Says(log', x, i, TimerTypes)
  BY DEF NewestAt, EventOf
<1>3. x \in DOMAIN log
  BY <1>1, <1>2 DEF Fresh, Says, TimerTypes
<1>4. \A y \in DOMAIN log : /\ y \in DOMAIN log'
                            /\ Says(log', y, i, TimerTypes) <=> Says(log, y, i, TimerTypes)
                            /\ Says(log, y, i, TimerTypes) => log'[y] = log[y]
  BY EventStays, CardTypesApart
<1>5. \A y \in DOMAIN log : Says(log, y, i, TimerTypes) => y <= x
  <2>1. \A y \in DOMAIN log : y <= e
    BY DEF Fresh, Grows
  <2> QED BY <1>4, <2>1 DEF NewestAt
<1>6. LastEvent(log, i, TimerTypes) = x
  BY <1>2, <1>3, <1>4, <1>5, LogType, LastEventIs
<1>7. Exists(i) /\ item[i].started # Null /\ EndsAt(item[i]) <= now
  BY <1>1 DEF Due, Highlighted, Exists, Status
<1>8. TimerOf(log[x]) = <<item[i].started, item[i].duration>>
  BY <1>6, <1>7 DEF BoardInv, LogInv, LogTold, Newest
<1>9. log[x].type \in TimerEvents
  BY <1>7, <1>8 DEF TimerOf, TimerEvents
<1>10. log[x].started = item[i].started /\ log[x].duration = item[i].duration
  BY <1>8, <1>9 DEF TimerOf, TimerEvents
<1>11. EndOf(log[x]) = EndsAt(item[i])
  BY <1>9, <1>10 DEF EndOf, EndsAt
<1> QED BY <1>2, <1>3, <1>4, <1>7, <1>9, <1>11

\* The clock does not go back.
LEMMA ClockMoves ==
    ASSUME TypeOK, Works
    PROVE  now \in Nat /\ now' \in Nat /\ now <= now'
<1>1. now \in Nat
  BY DEF TypeOK, BoardTypeOK
<1>2. now' = now \/ now' = now + 1
  BY DEF Works, ItemHandler, AddItem, ChangeItemStatus, StartItemTimer, ExtendItemTimer, UpdateItem,
         ReadOldText, UpdateText, AbandonEdit, ArchiveRetro, ArchiveStep, CountActive, InsertArchive,
         ArchiveItems, ArchiveActionItems, CommitArchive, AbortArchive, TimerSweep, Tick, vars
<1> QED BY <1>1, <1>2

\* A deadline that a log tells is a number.
LEMMA EndType ==
    ASSUME NEW l \in Seq(Events), NEW e \in DOMAIN l
    PROVE  EndOf(l[e]) \in Nat
<1>1. l[e] \in Events
  BY ElementOfSeq
<1>2. l[e].type \in TimerEvents => l[e].started \in Nat /\ l[e].duration \in Nat
  BY <1>1 DEF Events, TimerEvents, None
<1> QED BY <1>2 DEF EndOf

\* So a card that was announced as elapsed has a timer that is over, before it
\* is told of a new one.
LEMMA ElapsedEndedStep ==
    ASSUME BoardInv, BoardInv', Grows, Works, FreshNews, ElapsedEnded
    PROVE  ElapsedEnded'
<1> SUFFICES ASSUME NEW e \in DOMAIN log', NEW i \in Items, Says(log', e, i, {"TIMER_ELAPSED"}),
                    NEW x, NewestAt(log', x, i, TimerTypes, e)
             PROVE  log'[x].type \in TimerEvents /\ EndOf(log'[x]) <= now'
  BY DEF ElapsedEnded, NewestAt, EventOf, Says, EndOf
<1>1. now \in Nat /\ now' \in Nat /\ now <= now'
  BY ClockMoves DEF BoardInv
<1>2. EndOf(log'[x]) \in Nat
  <2>1. x \in DOMAIN log' /\ log' \in Seq(Events)
    BY DEF NewestAt, EventOf, BoardInv, TypeOK, BoardTypeOK
  <2> QED BY <2>1, EndType
<1>3. CASE e \in DOMAIN log
  <2>1. Says(log, e, i, {"TIMER_ELAPSED"})
    BY <1>3, EventStays DEF Closing, None
  <2>2. NewestAt(log, x, i, TimerTypes, e) /\ log'[x] = log[x]
    <3>1. e \in 0 .. Len(log)
      BY <1>3, LogType
    <3> QED BY <3>1, NewestStays, CardTypesApart
  <2>3. log[x].type \in TimerEvents /\ EndOf(log[x]) <= now
    BY <1>3, <2>1, <2>2 DEF ElapsedEnded
  <2>4. EndOf(log'[x]) = EndOf(log[x])
    BY <2>2
  <2> QED BY <1>1, <1>2, <2>2, <2>3, <2>4
<1>4. CASE e \notin DOMAIN log
  <2>1. log'[x].type \in TimerEvents /\ EndOf(log'[x]) <= now
    BY <1>4, SwepTimer DEF Fresh
  <2> QED BY <1>1, <1>2, <2>1
<1> QED BY <1>3, <1>4

\* An archive that ends hides nothing.
LEMMA HidesStep ==
    ASSUME TypeOK, [Next]_vars, HidesArchives
    PROVE  HidesArchives'
<1> SUFFICES ASSUME NEW q \in Archivers, arch'[q].event # 0
             PROVE  InTransaction(q)'
  BY DEF HidesArchives
<1>1. arch'[q] = arch[q] => InTransaction(q)'
  BY DEF HidesArchives, InTransaction
<1>2. ArchiveItems(q) \/ ArchiveActionItems(q) => InTransaction(q)'
  BY ArchiverItems DEF InTransaction
<1> QED BY <1>1, <1>2, ArchiverMoves DEF InTransaction

\* A card that was added after an event stays so.
LEMMA CreatedStays ==
    ASSUME Grows, NEW i, NEW e, CreatedAfter(i, e)
    PROVE  CreatedAfter(i, e)'
<1>1. PICK x \in DOMAIN log : Says(log, x, i, {"ITEM_CREATED"}) /\ e < x
  BY DEF CreatedAfter
<1>2. x \in DOMAIN log' /\ Says(log', x, i, {"ITEM_CREATED"})
  BY <1>1, EventStays, CardTypesApart
<1> QED BY <1>1, <1>2 DEF CreatedAfter, Says

\* A card that is added now comes after every event there is.
LEMMA AddedAfter ==
    ASSUME BoardInv, NEW i \in Items, NEW text \in Texts, AddItem(i, text), NEW e \in 0 .. Len(log)
    PROVE  CreatedAfter(i, e)'
<1> DEFINE ev == [type |-> "ITEM_CREATED", item |-> i, text |-> text, status |-> "CREATED"]
<1>1. log' = Append(log, ev) /\ TypeOK
  BY DEF AddItem, BoardInv
<1>2. ev \in Events /\ ev.type = "ITEM_CREATED" /\ ev.item = i
  BY DEF Events, Status
<1> HIDE DEF ev
<1>3. Fresh(Len(log) + 1) /\ log'[Len(log) + 1] = ev
  BY <1>1, <1>2, OneAdded
<1>4. e < Len(log) + 1
  BY LogType
<1> QED BY <1>2, <1>3, <1>4 DEF CreatedAfter, Says, Fresh

\* A card that is there now has been added after e when one that was there has.
LEMMA AfterStays ==
    ASSUME CardsAssumption, BoardInv, Grows, Works, NEW i \in Items, Exists(i)',
           NEW e \in 0 .. Len(log), Exists(i) => CreatedAfter(i, e)
    PROVE  CreatedAfter(i, e)'
<1>1. Exists(i) \/ \E text \in Texts : AddItem(i, text)
  BY CardsStay DEF BoardInv
<1> QED BY <1>1, AddedAfter, CreatedStays

\* A transaction has a place in the log.
LEMMA EventHeld ==
    ASSUME BoardInv, NEW q \in Archivers, InTransaction(q)
    PROVE  arch[q].event \in DOMAIN log /\ arch[q].event \in 0 .. Len(log) /\ arch[q].event # 0
<1>1. arch[q].event \in DOMAIN log
  BY DEF BoardInv, LogInv, OpenEvent
<1> QED BY <1>1, LogType

\* A card that is active when an archive ends was added after its event.
LEMMA ArchivesOlderStep ==
    ASSUME CardsAssumption, BoardInv, BoardInv', Grows, Works, [Next]_vars, FreshNews,
           ArchivesOlder, LeftOver
    PROVE  ArchivesOlder'
<1> SUFFICES ASSUME NEW e \in DOMAIN log', log'[e].type = "RETRO_ARCHIVED",
                    \A q \in Archivers : InTransaction(q)' => arch'[q].event # e,
                    NEW i \in Items, Exists(i)', Unarchived(i)'
             PROVE  CreatedAfter(i, e)'
  BY DEF ArchivesOlder
<1>0. TypeOK
  BY DEF BoardInv
<1>1. e \in DOMAIN log
  <2> SUFFICES ASSUME e \notin DOMAIN log PROVE FALSE
    OBVIOUS
  <2>1. PICK q \in Archivers : InsertArchive(q) /\ e = Len(log) + 1
    BY DEF FreshNews, Fresh
  <2>2. arch'[q].event = Len(log) + 1 /\ arch'[q].pc = "inserted"
    <3>1. arch \in [Archivers -> ArchiveStates]
      BY <1>0 DEF TypeOK, RequestTypeOK
    <3>2. arch' = [arch EXCEPT ![q].pc = "inserted", ![q].id = Len(archives) + 1,
                               ![q].event = Len(log) + 1]
      BY <2>1 DEF InsertArchive
    <3> QED BY <3>1, <3>2 DEF ArchiveStates
  <2> QED BY <2>1, <2>2 DEF InTransaction
<1>2. log[e].type = "RETRO_ARCHIVED" /\ log'[e] = log[e] /\ e \in 0 .. Len(log)
  BY <1>1, LogType DEF Grows, None
<1>3. Unarchived(i)
  BY UnarchivedFrom
<1>4. ASSUME NEW q \in Archivers, InTransaction(q), arch[q].event = e, Exists(i)
      PROVE  CreatedAfter(i, e)
  <2>1. CommitArchive(q)
    <3>1. ~ TakesBack(q)
      <4> SUFFICES ASSUME TakesBack(q) PROVE FALSE
        OBVIOUS
      <4>1. log' = [log EXCEPT ![e] = NoEvent]
        BY <1>4 DEF TakesBack
      <4>2. log'[e] = NoEvent
        BY <1>1, <4>1
      <4> QED BY <4>2 DEF NoEvent, None
    <3>2. ~ InsertArchive(q)
      BY <1>4 DEF InsertArchive, InTransaction
    <3>3. arch'[q] # arch[q]
      BY <1>4 DEF InTransaction
    <3>4. ~ ArchiveItems(q) /\ ~ ArchiveActionItems(q)
      BY <1>0, <1>4, ArchiverItems DEF InTransaction
    <3> QED BY <1>0, <1>4, <3>1, <3>2, <3>3, <3>4, ArchiverMoves
  <2>2. i \notin arch[q].items
    <3> SUFFICES ASSUME i \in arch[q].items PROVE FALSE
      OBVIOUS
    <3>1. item'[i] = [item[i] EXCEPT !.status = "ARCHIVED", !.archive = arch[q].id]
      BY <2>1 DEF CommitArchive
    <3>2. item[i] \in ItemRows
      BY RowOf
    <3>3. item'[i].status = "ARCHIVED"
      BY <3>1, <3>2 DEF ItemRows
    <3> QED BY <3>3 DEF Unarchived
  <2>3. arch[q].pc = "action_items"
    BY <2>1 DEF CommitArchive
  <2> QED BY <1>3, <1>4, <2>2, <2>3 DEF LeftOver
<1>5. Exists(i) => CreatedAfter(i, e)
  BY <1>1, <1>2, <1>3, <1>4 DEF ArchivesOlder
<1> QED BY <1>2, <1>5, AfterStays

\* What an archive has not found was added after its event, as it takes all
\* active cards of its retro.
LEMMA LeftOverStep ==
    ASSUME CardsAssumption, RetroAssumption, BoardInv, BoardInv', Grows, Works, [Next]_vars, LeftOver
    PROVE  LeftOver'
<1> SUFFICES ASSUME NEW q \in Archivers, arch'[q].pc \in {"items", "action_items"}, NEW e,
                    e = arch'[q].event, NEW i \in Items \ arch'[q].items, Exists(i)', Unarchived(i)'
             PROVE  CreatedAfter(i, e)'
  BY DEF LeftOver, CreatedAfter
<1>0. TypeOK
  BY DEF BoardInv
<1>1. Unarchived(i)
  BY UnarchivedFrom
<1>2. arch'[q] = arch[q] \/ ArchiveItems(q) \/ ArchiveActionItems(q)
  BY <1>0, ArchiverMoves
<1>3. InTransaction(q) /\ e = arch[q].event
  BY <1>0, <1>2, ArchiverItems DEF InTransaction, ArchiveItems, ArchiveActionItems
<1>4. e \in 0 .. Len(log)
  BY <1>3, EventHeld
<1>5. CASE ArchiveItems(q)
  <2>1. item' = item /\ Exists(i)
    BY <1>5 DEF ArchiveItems, boardVars, Exists
  <2>2. arch[q].retro \in Retros /\ i \notin Active(arch[q].retro)
    BY <1>0, <1>3, <1>5, ArchiverItems DEF BoardInv, ArchiveInv, RequestInv, OpenArchive
  <2>3. Home[i] \in Retros
    BY HomeType
  <2>4. Home[i] = arch[q].retro
    BY <2>2, <2>3, RetroAssumption
  <2>5. item[i].archive = Null
    BY <1>1 DEF Unarchived, BoardInv, ArchiveInv, RowsInv, ArchivedInOwnRetro
  <2> QED BY <2>1, <2>2, <2>4, <2>5 DEF Active
<1>6. CASE ~ ArchiveItems(q)
  <2>1. arch[q].pc \in {"items", "action_items"} /\ i \notin arch[q].items
    BY <1>0, <1>2, <1>6, ArchiverItems DEF ArchiveActionItems
  <2>2. Exists(i) => CreatedAfter(i, e)
    BY <1>1, <1>3, <2>1 DEF LeftOver
  <2> QED BY <1>4, <2>2, AfterStays
<1> QED BY <1>5, <1>6

\* What the tab needs to know of a step of the board.
BoardMoves ==
    /\ Grows
    /\ now \in Nat /\ now' \in Nat /\ now <= now'
    /\ \A i \in Items :
          /\ Unarchived(i)' => Unarchived(i)
          /\ Exists(i) => Exists(i)' /\ \A e : Fresh(e) => ~ Says(log', e, i, {"ITEM_CREATED"})
          /\ Exists(i)' /\ ~ Exists(i) => \E x \in DOMAIN log' : Says(log', x, i, {"ITEM_CREATED"}) /\ Len(log) < x

\* Every step keeps the part of the invariant that is about the database.
LEMMA SyncLogStep ==
    ASSUME CardsAssumption, RetroAssumption, BrowserAssumption, BoardInv, BoardInv', TabInv, SyncLog,
           [BrowserNext]_browserVars
    PROVE  BoardMoves /\ SyncLog'
<1>1. Works /\ [Next]_vars
  BY StepWorks
<1>2. Grows
  BY <1>1, BoardGrows
<1>3. FreshNews /\ TypeOK /\ ArchiveInv
  BY <1>1, WorksTell DEF BoardInv
<1>4. TimersEnd' /\ ElapsedEnded'
  BY <1>1, <1>2, <1>3, TimersEndStep, ElapsedEndedStep DEF SyncLog
<1>5. ArchivesOlder' /\ LeftOver'
  BY <1>1, <1>2, <1>3, ArchivesOlderStep, LeftOverStep DEF SyncLog
<1>6. HidesArchives'
  BY <1>1, <1>3, HidesStep DEF SyncLog
<1>7. ASSUME NEW i \in Items
      PROVE  /\ Unarchived(i)' => Unarchived(i)
             /\ Exists(i) => Exists(i)' /\ \A e : Fresh(e) => ~ Says(log', e, i, {"ITEM_CREATED"})
             /\ Exists(i)' /\ ~ Exists(i) =>
                   \E x \in DOMAIN log' : Says(log', x, i, {"ITEM_CREATED"}) /\ Len(log) < x
  <2>1. Unarchived(i)' => Unarchived(i)
    BY <1>1, UnarchivedFrom
  <2>2. Exists(i) => Exists(i)' /\ \A e : Fresh(e) => ~ Says(log', e, i, {"ITEM_CREATED"})
    BY <1>1, <1>3, CardsStay DEF FreshNews, Says
  <2>3. ASSUME Exists(i)', ~ Exists(i)
        PROVE  \E x \in DOMAIN log' : Says(log', x, i, {"ITEM_CREATED"}) /\ Len(log) < x
    <3>1. PICK text \in Texts : AddItem(i, text)
      BY <1>1, <1>3, <2>3, CardsStay
    <3>2. \E x \in DOMAIN log' : Says(log', x, i, {"ITEM_CREATED"}) /\ Len(log) < x
      <4> DEFINE ev == [type |-> "ITEM_CREATED", item |-> i, text |-> text, status |-> "CREATED"]
      <4>1. log' = Append(log, ev)
        BY <3>1 DEF AddItem
      <4>2. ev \in Events /\ ev.type = "ITEM_CREATED" /\ ev.item = i
        BY DEF Events, Status
      <4> HIDE DEF ev
      <4>3. Fresh(Len(log) + 1) /\ log'[Len(log) + 1] = ev
        BY <1>3, <4>1, <4>2, OneAdded
      <4>4. Len(log) < Len(log) + 1
        BY LogType
      <4> QED BY <4>2, <4>3, <4>4 DEF Says, Fresh
    <3> QED BY <3>2 DEF BoardMoves
  <2> QED BY <2>1, <2>2, <2>3
<1>8. now \in Nat /\ now' \in Nat /\ now <= now'
  BY <1>1, <1>3, ClockMoves
<1> QED BY <1>2, <1>4, <1>5, <1>6, <1>7, <1>8 DEF BoardMoves, SyncLog

-----------------------------------------------------------------------------
(* What the tab has to do with the log.                                     *)

\* The events of a card that change one of its fields.
NewsTypes(f) ==
    IF f = "card" THEN {"ITEM_CREATED", "ITEM_STATUS_CHANGED"}
    ELSE IF f = "text" THEN {"ITEM_UPDATED"}
    ELSE {"ITEM_STATUS_CHANGED", "TIMER_STARTED", "TIMER_EXTENDED", "TIMER_ELAPSED"}

\* The tab will get event e and not drop it.
ToCome(e) == e \in DOMAIN log /\ (cursor < e \/ Queued(e)) /\ e \notin applied

QueueInOrder ==
    \A j, k \in DOMAIN queue : queue[k] <= cursor /\ (j < k => queue[j] < queue[k])

\* What is newer than the tab knows of is still to come.
NewsComes ==
    \A i \in Items : Unarchived(i) =>
        \A f \in Fields, e \in DOMAIN log :
            Says(log, e, i, NewsTypes(f)) /\ newest[i][f] < e => ToCome(e)

\* A fetch that event x has caused is under way.
Asked(i, x) == \E f \in fetches : f.item = i /\ f.event = x

\* The status changes whose card will be fetched.
DueAt(i) == {x \in DOMAIN log : Says(log, x, i, {"ITEM_STATUS_CHANGED"}) /\ (ToCome(x) \/ Asked(i, x))}

\* At p, no timer runs since a change of status that is as new as x.
Supersedes(l, i, x, p) ==
    \A e : NewestAt(l, e, i, TimerTypes, p) => e <= x /\ l[e].type \notin TimerEvents

ShowsKind(l, i, p, face, due) == face.kind = "editing" \/ TellsKind(l, i, p, face.kind) \/ due # {}

ShowsText(l, i, p, face) == face.kind = "editing" \/ TellsText(l, i, p, face.text)

OverInTime(face, t) == face.over => face.elapsed \/ (face.endAt # 0 /\ face.endAt <= t)

ShowsEnd(l, i, p, face, due, t) ==
    face.kind = "highlighted" =>
        /\ OverInTime(face, t)
        /\ TellsEnd(l, i, p, face.endAt) \/ \E x \in due : Supersedes(l, i, x, p)

\* Each field of a card, unless overtaken, is what the log tells up to the newest
\* event or answer about it, or a fetch that is due will bring it.
CardFine(l, t, i, face, n, o, due) ==
    /\ face.kind \in BoardKinds
    /\ \A f \in Fields : KnowsCreation(l, i, n[f])
    /\ <<i, "card">> \notin o => ShowsKind(l, i, n.card, face, due)
    /\ <<i, "text">> \notin o => ShowsText(l, i, n.text, face)
    /\ <<i, "timer">> \notin o => ShowsEnd(l, i, n.timer, face, due, t)

\* A card that is not on the board is still to be inserted.
Awaited(i) ==
    Exists(i) /\ Unarchived(i) /\ ~ OnBoard(i) /\ <<i, "card">> \notin overtaken =>
        \E x \in DOMAIN log : Says(log, x, i, {"ITEM_CREATED"}) /\ (newest[i].card < x \/ Asked(i, x))

CardSync(i) ==
    /\ OnBoard(i) => Exists(i)
    /\ OnBoard(i) /\ Unarchived(i) =>
          CardFine(log, now, i, Card(i), newest[i], overtaken, DueAt(i))
    /\ Awaited(i)
    /\ deadlines[i] <= newest[i].timer

\* An answer tells all of the card at the place it was read at, which is after
\* the event it names.
AnswerSync(i, face, header, at) ==
    Exists(i) /\ (Unarchived(i) => header <= at /\ AnswerTells(log, face, i, at))

FetchSync(f) ==
    /\ EventOf(log, f.event, f.item, StatusTypes)
    /\ f.phase = "answered" => AnswerSync(f.item, f.face, f.event, f.at)

RequestSync(r) ==
    /\ r.header # 0 => EventOf(log, r.header, r.item, CardTypes)
    /\ r.phase = "answered" => AnswerSync(r.item, r.face, r.header, r.at)

PostSync(p) ==
    /\ p.header # 0 => EventOf(log, p.header, p.item, TimerEvents)
    /\ p.phase = "answered" => AnswerSync(p.item, p.face, p.header, p.at)

\* update_item runs for one request of the tab at a time, on its card.
EditorsApart ==
    \A s \in Slots : req[s].phase = "read" =>
        /\ edit[req[s].editor].item = req[s].item
        /\ \A x \in Slots \ {s} : req[x].phase = "read" => req[x].editor # req[s].editor

SyncStream  == QueueInOrder /\ NewsComes
SyncAnswers == /\ \A f \in fetches : FetchSync(f)
               /\ \A s \in Slots : RequestSync(req[s])
               /\ \A p \in posts : PostSync(p)
               /\ EditorsApart
SyncBoard   == \A i \in Items : CardSync(i)
SyncInv     == SyncLog /\ SyncStream /\ SyncAnswers /\ SyncBoard

-----------------------------------------------------------------------------
(* Cards that are fine.                                                     *)

\* A card that has been announced up to p has a newest event there.
LEMMA NewestExists ==
    ASSUME NEW l \in Seq(Events), NEW i, NEW types, "ITEM_CREATED" \in types, NEW p,
           Tells(l, i, {"ITEM_CREATED"}), KnowsCreation(l, i, p)
    PROVE  \E e : NewestAt(l, e, i, types, p)
<1> DEFINE ids == {e \in DOMAIN l : Says(l, e, i, types) /\ e <= p}
<1>1. ids \in SUBSET (0 .. Len(l)) /\ Len(l) \in Nat
  BY LenProperties
<1>2. ids # {}
  <2>1. PICK e \in DOMAIN l : Says(l, e, i, {"ITEM_CREATED"})
    BY DEF Tells
  <2> QED BY <2>1 DEF KnowsCreation, Says
<1>3. PICK m \in ids : \A x \in ids : x <= m
  <2> HIDE DEF ids
  <2> QED BY <1>1, <1>2, HasMax
<1> QED BY <1>3 DEF NewestAt, EventOf

\* An event is the newest of its types at its own place.
LEMMA NewestHere ==
    ASSUME NEW l \in Seq(Events), NEW i, NEW types, NEW e, EventOf(l, e, i, types), NEW x,
           NewestAt(l, x, i, types, e)
    PROVE  x = e
<1>1. x <= e /\ e <= x
  <2>1. e \in Int
    BY LenProperties DEF EventOf
  <2> QED BY <2>1 DEF NewestAt, EventOf
<1>2. x \in Int /\ e \in Int
  BY LenProperties DEF NewestAt, EventOf
<1> QED BY <1>1, <1>2

\* A card is created once.
LEMMA CreationStaysKnown ==
    ASSUME BoardMoves, NEW i \in Items, Exists(i), NEW p, KnowsCreation(log, i, p)
    PROVE  KnowsCreation(log', i, p)
<1> SUFFICES ASSUME NEW e \in DOMAIN log', Says(log', e, i, {"ITEM_CREATED"})
             PROVE  e <= p
  BY DEF KnowsCreation
<1>1. e \in DOMAIN log
  BY DEF BoardMoves, Fresh
<1>2. Says(log, e, i, {"ITEM_CREATED"})
  BY <1>1, EventStays, CardTypesApart DEF BoardMoves
<1> QED BY <1>1, <1>2 DEF KnowsCreation

\* An answer goes on telling the card up to its place.
LEMMA AnswerStays ==
    ASSUME BoardMoves, NEW i \in Items, Exists(i), NEW p \in 0 .. Len(log), NEW face,
           AnswerTells(log, face, i, p)
    PROVE  AnswerTells(log', face, i, p)
<1>1. KnowsCreation(log', i, p)
  BY CreationStaysKnown DEF AnswerTells
<1>2. /\ \A kind : TellsKind(log, i, p, kind) => TellsKind(log', i, p, kind)
      /\ \A text : TellsText(log, i, p, text) => TellsText(log', i, p, text)
      /\ \A end  : TellsEnd(log, i, p, end) => TellsEnd(log', i, p, end)
  BY ToldStays DEF BoardMoves
<1> QED BY <1>1, <1>2 DEF AnswerTells

\* A card that is fine stays so, with more to be fetched, more overtaken and a
\* longer log.
LEMMA FineStays ==
    ASSUME BoardMoves, NEW i \in Items, Exists(i), NEW face, face.endAt \in Nat,
           NEW n \in [Fields -> 0 .. Len(log)],
           NEW o, NEW due, CardFine(log, now, i, face, n, o, due),
           NEW oo, \A f \in Fields : <<i, f>> \in o => <<i, f>> \in oo,
           NEW more, due \subseteq more
    PROVE  CardFine(log', now', i, face, n, oo, more)
<1>0. Grows /\ now \in Nat /\ now' \in Nat /\ now <= now'
  BY DEF BoardMoves
<1>1. n.card \in 0 .. Len(log) /\ n.text \in 0 .. Len(log) /\ n.timer \in 0 .. Len(log)
      /\ Fields = {"card", "text", "timer"}
  BY DEF Fields
<1>2. \A f \in Fields : KnowsCreation(log', i, n[f])
  BY CreationStaysKnown DEF CardFine
<1>3. ASSUME ShowsKind(log, i, n.card, face, due)
      PROVE  ShowsKind(log', i, n.card, face, more)
  BY <1>0, <1>1, <1>3, ToldStays DEF ShowsKind
<1>4. ASSUME ShowsText(log, i, n.text, face)
      PROVE  ShowsText(log', i, n.text, face)
  BY <1>0, <1>1, <1>4, ToldStays DEF ShowsText
<1>5. ASSUME ShowsEnd(log, i, n.timer, face, due, now)
      PROVE  ShowsEnd(log', i, n.timer, face, more, now')
  <2> SUFFICES ASSUME face.kind = "highlighted"
               PROVE  /\ OverInTime(face, now')
                      /\ \/ TellsEnd(log', i, n.timer, face.endAt)
                         \/ \E x \in more : Supersedes(log', i, x, n.timer)
    BY DEF ShowsEnd
  <2>1. OverInTime(face, now')
    BY <1>0, <1>5 DEF ShowsEnd, OverInTime
  <2>2. \A x : Supersedes(log, i, x, n.timer) => Supersedes(log', i, x, n.timer)
    <3>1. \A e : /\ NewestAt(log', e, i, TimerTypes, n.timer) <=> NewestAt(log, e, i, TimerTypes, n.timer)
                 /\ NewestAt(log, e, i, TimerTypes, n.timer) => log'[e] = log[e]
      BY <1>0, <1>1, NewestStays, CardTypesApart
    <3> QED BY <3>1 DEF Supersedes
  <2> QED BY <1>0, <1>1, <1>5, <2>1, <2>2, ToldStays DEF ShowsEnd
<1> QED BY <1>1, <1>2, <1>3, <1>4, <1>5 DEF CardFine

\* An answer that is put on the board, as new as p.
LEMMA PutFine ==
    ASSUME BoardInv, NEW i, NEW face, NEW p \in Int, AnswerTells(log, face, i, p),
           NEW n \in [Fields -> Int], NEW m \in [Fields -> Int], NEW o, NEW due,
           \A f \in Fields : m[f] = Later(n[f], p), \A f \in Fields : p < n[f] => <<i, f>> \in o
    PROVE  CardFine(log, now, i, face, m, o, due)
<1>1. \A f \in Fields : /\ n[f] \in Int /\ p <= m[f] /\ m[f] \in Int
                        /\ <<i, f>> \notin o => m[f] = p
  BY DEF Later
<1>2. \A f \in Fields : KnowsCreation(log, i, m[f])
  <2> SUFFICES ASSUME NEW f \in Fields, NEW e \in DOMAIN log, Says(log, e, i, {"ITEM_CREATED"})
               PROVE  e <= m[f]
    BY DEF KnowsCreation
  <2>1. e <= p
    BY DEF AnswerTells, KnowsCreation
  <2>2. p <= m[f] /\ m[f] \in Int
    BY <1>1
  <2>3. Len(log) \in Nat /\ DOMAIN log = 1 .. Len(log)
    BY LogType
  <2>4. e \in Int
    BY <2>3
  <2> QED BY <2>1, <2>2, <2>4
<1>3. /\ <<i, "card">> \notin o => m.card = p
      /\ <<i, "text">> \notin o => m.text = p
      /\ <<i, "timer">> \notin o => m.timer = p
  BY <1>1 DEF Fields
<1>4. ShowsKind(log, i, p, face, due) /\ ShowsText(log, i, p, face) /\ ShowsEnd(log, i, p, face, due, now)
  BY DEF AnswerTells, ShowsKind, ShowsText, ShowsEnd, OverInTime
<1> QED BY <1>2, <1>3, <1>4 DEF CardFine, AnswerTells

\* What the tab knows of a field after it was told of some.
LEMMA ToldField ==
    ASSUME ShownOK, NEW j, NEW fields, NEW p, NEW i \in Items, NEW f \in Fields
    PROVE  Told(newest, j, fields, p)[i][f] =
             IF i = j /\ f \in fields THEN Later(newest[i][f], p) ELSE newest[i][f]
<1>1. newest[i] \in [Fields -> Places] /\ DOMAIN newest = Items
  BY DEF ShownOK
<1>2. Told(newest, j, fields, p) =
        [newest EXCEPT ![j] = [g \in Fields |-> IF g \in fields THEN Later(newest[j][g], p) ELSE newest[j][g]]]
  BY DEF Told
<1>3. CASE i = j
  <2>1. Told(newest, j, fields, p)[i] =
          [g \in Fields |-> IF g \in fields THEN Later(newest[i][g], p) ELSE newest[i][g]]
    BY <1>1, <1>2, <1>3
  <2> QED BY <1>1, <1>3, <2>1
<1>4. CASE i # j
  BY <1>1, <1>2, <1>4
<1> QED BY <1>3, <1>4

\* Other cards are left as they are.
LEMMA ToldOthers ==
    ASSUME ShownOK, NEW j, NEW fields, NEW p, NEW i \in Items, i # j
    PROVE  Told(newest, j, fields, p)[i] = newest[i]
<1>1. Told(newest, j, fields, p) =
        [newest EXCEPT ![j] = [g \in Fields |-> IF g \in fields THEN Later(newest[j][g], p) ELSE newest[j][g]]]
  BY DEF Told
<1> QED BY <1>1 DEF ShownOK

\* Which fields show something old after some were put on the board.
LEMMA ShownField ==
    ASSUME NEW o, NEW j, NEW fields \in SUBSET Fields, NEW p, NEW i, NEW f
    PROVE  <<i, f>> \in Shown(o, j, fields, p) <=>
              IF i = j /\ f \in fields THEN p < newest[j][f] ELSE <<i, f>> \in o
BY DEF Shown

\* What the tab knows of is in the log.
LEMMA PlacesInt ==
    ASSUME BoardInv, ShownOK, NEW i \in Items
    PROVE  /\ newest[i] \in [Fields -> 0 .. Len(log)] /\ newest[i] \in [Fields -> Int]
           /\ newest[i].card \in 0 .. Len(log) /\ newest[i].text \in 0 .. Len(log)
           /\ newest[i].timer \in 0 .. Len(log)
<1>1. newest[i] \in [Fields -> 0 .. Len(log)]
  BY DEF ShownOK, Places
<1>2. newest[i] \in [Fields -> Int]
  BY <1>1
<1> QED BY <1>1, <1>2 DEF Fields

\* A card that a step leaves alone, while the board may move.
LEMMA CardUntouched ==
    ASSUME BoardInv, ShownOK, BoardMoves, NEW i \in Items, CardSync(i),
           board'[i] = board[i], newest'[i] = newest[i],
           \A f \in Fields : <<i, f>> \in overtaken => <<i, f>> \in overtaken',
           OnBoard(i) => DueAt(i) \subseteq DueAt(i)',
           ~ OnBoard(i) => \A x : Says(log, x, i, {"ITEM_CREATED"}) /\ Asked(i, x) => Asked(i, x)',
           deadlines'[i] \in {deadlines[i], 0}
    PROVE  CardSync(i)'
<1>1. (OnBoard(i)' <=> OnBoard(i)) /\ Card(i)' = Card(i)
  BY DEF OnBoard, Card
<1>2. newest[i] \in [Fields -> 0 .. Len(log)] /\ newest[i].timer \in 0 .. Len(log)
      /\ newest[i].card \in 0 .. Len(log) /\ "card" \in Fields
  BY PlacesInt DEF Fields
<1>3. OnBoard(i)' => Exists(i)'
  BY <1>1 DEF CardSync, BoardMoves
<1>4. ASSUME OnBoard(i)', Unarchived(i)'
      PROVE  CardFine(log', now', i, Card(i)', newest'[i], overtaken', DueAt(i)')
  <2>1. OnBoard(i) /\ Exists(i) /\ Unarchived(i)
    BY <1>1, <1>4 DEF CardSync, BoardMoves
  <2>2. CardFine(log, now, i, Card(i), newest[i], overtaken, DueAt(i))
    BY <2>1 DEF CardSync
  <2>3. Card(i).endAt \in Nat
    BY <2>1, CardType DEF Faces
  <2> QED BY <1>1, <1>2, <2>1, <2>2, <2>3, FineStays
<1>5. Awaited(i)'
  <2> SUFFICES ASSUME Exists(i)', Unarchived(i)', ~ OnBoard(i)', <<i, "card">> \notin overtaken'
               PROVE  \E x \in DOMAIN log' : Says(log', x, i, {"ITEM_CREATED"})
                                             /\ (newest'[i].card < x \/ Asked(i, x)')
    BY DEF Awaited
  <2>1. Unarchived(i) /\ ~ OnBoard(i) /\ <<i, "card">> \notin overtaken
    BY <1>1, <1>2 DEF BoardMoves
  <2>2. CASE Exists(i)
    <3>1. PICK x \in DOMAIN log : Says(log, x, i, {"ITEM_CREATED"})
                                  /\ (newest[i].card < x \/ Asked(i, x))
      BY <2>1, <2>2 DEF CardSync, Awaited
    <3>2. x \in DOMAIN log' /\ Says(log', x, i, {"ITEM_CREATED"})
      BY <3>1, EventStays, CardTypesApart DEF BoardMoves
    <3>3. newest'[i].card < x \/ Asked(i, x)'
      BY <2>1, <3>1
    <3> QED BY <3>2, <3>3
  <2>3. CASE ~ Exists(i)
    <3>1. PICK x \in DOMAIN log' : Says(log', x, i, {"ITEM_CREATED"}) /\ Len(log) < x
      BY <2>3 DEF BoardMoves
    <3>2. Len(log) \in Nat /\ x \in Int
      BY <3>1 DEF BoardMoves, Grows
    <3>3. newest'[i].card < x
      BY <1>2, <3>1, <3>2
    <3> QED BY <3>1, <3>3
  <2> QED BY <2>2, <2>3
<1>6. deadlines'[i] <= newest'[i].timer
  <2>1. deadlines[i] <= newest[i].timer
    BY DEF CardSync
  <2> QED BY <1>2, <2>1
<1> QED BY <1>3, <1>4, <1>5, <1>6 DEF CardSync

\* A deadline that is held is the end of the timer that its event told.
LEMMA DeadlineTells ==
    ASSUME BoardInv, DeadlinesOK, NEW i \in Items, deadlines[i] # 0
    PROVE  /\ deadlines[i] \in DOMAIN log /\ Says(log, deadlines[i], i, TimerEvents)
           /\ Deadline(deadlines[i]) = EndOf(log[deadlines[i]])
           /\ TellsEnd(log, i, deadlines[i], Deadline(deadlines[i]))
<1> DEFINE d == deadlines[i]
<1>1. d \in DOMAIN log /\ log[d].type \in TimerEvents /\ log[d].item = i /\ log \in Seq(Events)
  BY LogType DEF DeadlinesOK, Places
<1>2. EventOf(log, d, i, TimerTypes)
  BY <1>1 DEF EventOf, Says, TimerTypes, TimerEvents
<1>3. \A x : NewestAt(log, x, i, TimerTypes, d) => x = d
  BY <1>1, <1>2, NewestHere
<1>4. Deadline(d) = EndOf(log[d])
  BY <1>1 DEF Deadline, EndOf
<1> QED BY <1>1, <1>3, <1>4 DEF TellsEnd, Says

\* Rendering the timer of a card that is fine leaves it fine.
LEMMA RenderedFine ==
    ASSUME BoardInv, DeadlinesOK, NEW i \in Items, NEW face \in Faces, NEW n \in [Fields -> Int],
           deadlines[i] <= n.timer, NEW o, NEW oo, NEW due, CardFine(log, now, i, face, n, o, due),
           \A f \in Fields : <<i, f>> \in oo <=>
              IF f = "timer" /\ FromDeadlines(face, i, deadlines) THEN deadlines[i] < n.timer
              ELSE <<i, f>> \in o
    PROVE  CardFine(log, now, i, RenderTimer(face, i, deadlines), n, oo, due)
<1> DEFINE r == RenderTimer(face, i, deadlines)
           d == deadlines[i]
<1>0. {"card", "text", "timer"} = Fields /\ n.timer \in Int /\ d \in Int
  BY DEF Fields, DeadlinesOK, Places
<1>1. r.kind = face.kind /\ r.text = face.text /\ r.elapsed = face.elapsed
  BY DEF RenderTimer, Faces
<1>2. /\ <<i, "card">> \in oo <=> <<i, "card">> \in o
      /\ <<i, "text">> \in oo <=> <<i, "text">> \in o
  BY <1>0
<1>3. ASSUME <<i, "timer">> \notin oo, face.kind = "highlighted"
      PROVE  /\ OverInTime(r, now)
             /\ TellsEnd(log, i, n.timer, r.endAt) \/ \E x \in due : Supersedes(log, i, x, n.timer)
  <2>1. CASE FromDeadlines(face, i, deadlines)
    <3>1. r = [face EXCEPT !.endAt = Deadline(d), !.over = FALSE]
      BY <1>3, <2>1 DEF RenderTimer
    <3>2. r.endAt = Deadline(d) /\ r.over = FALSE
      BY <3>1 DEF Faces
    <3>3. d # 0 /\ ~ (d < n.timer)
      BY <1>0, <1>3, <2>1 DEF FromDeadlines
    <3>4. d = n.timer
      BY <1>0, <3>3
    <3>5. TellsEnd(log, i, d, Deadline(d))
      BY <3>3, DeadlineTells
    <3> QED BY <3>2, <3>4, <3>5 DEF OverInTime
  <2>2. CASE ~ FromDeadlines(face, i, deadlines)
    <3>1. r = [face EXCEPT !.over = face.elapsed]
      BY <1>3, <2>2 DEF RenderTimer
    <3>2. r.endAt = face.endAt /\ r.over = face.elapsed
      BY <3>1 DEF Faces
    <3>3. <<i, "timer">> \notin o
      BY <1>0, <1>3, <2>2
    <3> QED BY <1>1, <1>3, <3>2, <3>3 DEF OverInTime, CardFine, ShowsEnd
  <2> QED BY <2>1, <2>2
<1> HIDE DEF r
<1>4. /\ r.kind \in BoardKinds /\ \A f \in Fields : KnowsCreation(log, i, n[f])
      /\ <<i, "card">> \notin oo => ShowsKind(log, i, n.card, r, due)
      /\ <<i, "text">> \notin oo => ShowsText(log, i, n.text, r)
  BY <1>1, <1>2 DEF CardFine, ShowsKind, ShowsText
<1>5. <<i, "timer">> \notin oo => ShowsEnd(log, i, n.timer, r, due, now)
  BY <1>1, <1>3 DEF ShowsEnd
<1>6. CardFine(log, now, i, r, n, oo, due)
  BY <1>4, <1>5 DEF CardFine
<1> QED BY <1>6 DEF r

\* Rendering the timers leaves a fine card fine.
LEMMA RenderedCard ==
    ASSUME BoardInv, DeadlinesOK, NEW b \in [Items -> Pile], NEW o,
           RenderAllTimers(b, o, deadlines), NEW i \in Items, NEW face \in Faces, b[i] = <<face>>,
           newest'[i] \in [Fields -> Int], deadlines[i] <= newest'[i].timer, NEW due,
           CardFine(log, now, i, face, newest'[i], o, due)
    PROVE  CardFine(log, now, i, Card(i)', newest'[i], overtaken', due)
<1>1. Card(i)' = RenderTimer(face, i, deadlines)
  <2> DEFINE r == RenderTimer(face, i, deadlines)
  <2>1. DOMAIN b[i] = 1 .. 1 /\ b[i][1] = face
    OBVIOUS
  <2>2. board'[i] = [k \in DOMAIN b[i] |-> RenderTimer(b[i][k], i, deadlines)]
    BY DEF RenderAllTimers
  <2>3. board'[i] = [k \in 1 .. 1 |-> r]
    BY <2>1, <2>2
  <2> HIDE DEF r
  <2>4. [k \in 1 .. 1 |-> r] = <<r>> /\ Head(<<r>>) = r
    OBVIOUS
  <2> QED BY <2>3, <2>4 DEF Card, r
<1>2. b[i] # << >> /\ Head(b[i]) = face
  BY PileTypes
<1>3. \A f \in Fields : <<i, f>> \in overtaken' <=>
              IF f = "timer" /\ FromDeadlines(face, i, deadlines) THEN deadlines[i] < newest'[i].timer
              ELSE <<i, f>> \in o
  BY <1>2 DEF RenderAllTimers
<1> QED BY <1>1, <1>3, RenderedFine


-----------------------------------------------------------------------------
(* What most steps keep.                                                    *)

\* News is about cards.
LEMMA NewsAreCards ==
    /\ \A f \in Fields : NewsTypes(f) \subseteq CardTypes /\ NewsTypes(f) \cap Closing = {}
    /\ Fields = {"card", "text", "timer"}
BY DEF Fields, NewsTypes, CardTypes, ElapsedTypes, TextTypes, Closing, None

\* The news of a step that the tab did not know of are those it did not have.
LEMMA NewsStay ==
    ASSUME BoardInv, BoardMoves, NewsComes, ShownOK, NEW i \in Items, Unarchived(i)', NEW f \in Fields,
           newest'[i][f] \in Int, newest[i][f] <= newest'[i][f],
           NEW e \in DOMAIN log', Says(log', e, i, NewsTypes(f)), newest'[i][f] < e
    PROVE  Fresh(e) \/ ToCome(e)
<1>1. CASE e \notin DOMAIN log
  BY <1>1 DEF Fresh
<1>2. CASE e \in DOMAIN log
  <2>1. Says(log, e, i, NewsTypes(f))
    BY <1>2, EventStays, NewsAreCards DEF BoardMoves
  <2>2. Unarchived(i)
    BY DEF BoardMoves
  <2>3. newest[i] \in [Fields -> Int]
    BY PlacesInt
  <2>4. newest[i][f] \in Int
    BY <2>3
  <2>5. Len(log) \in Nat /\ DOMAIN log = 1 .. Len(log)
    BY LogType
  <2>6. e \in Int
    BY <1>2, <2>5
  <2>7. newest[i][f] < e
    BY <2>4, <2>6
  <2> QED BY <1>2, <2>1, <2>2, <2>7 DEF NewsComes
<1> QED BY <1>1, <1>2

\* The listener waits, and the events that become the tab's own are known.
LEMMA StreamSync ==
    ASSUME BoardInv, TabInv, BoardMoves, SyncStream, UNCHANGED <<queue, cursor>>,
           newest' \in [Items -> [Fields -> Int]],
           \A i \in Items, f \in Fields : newest[i][f] <= newest'[i][f],
           NEW own, applied' \subseteq applied \cup own,
           \A i \in Items, f \in Fields, e \in own \cap DOMAIN log' :
              Unarchived(i)' /\ Says(log', e, i, NewsTypes(f)) => e <= newest'[i][f],
           \A e \in applied' : e \in 0 .. Len(log)
    PROVE  SyncStream'
<1>1. QueueInOrder'
  BY DEF SyncStream, QueueInOrder
<1> SUFFICES ASSUME NEW i \in Items, Unarchived(i)', NEW f \in Fields, NEW e \in DOMAIN log',
                    Says(log', e, i, NewsTypes(f)), newest'[i][f] < e
             PROVE  ToCome(e)'
  BY <1>1 DEF SyncStream, NewsComes
<1>2. newest'[i][f] \in Int /\ newest[i][f] <= newest'[i][f]
  OBVIOUS
<1>3. Fresh(e) \/ ToCome(e)
  BY <1>2, NewsStay DEF TabInv, SyncStream
<1>4. Len(log) \in Nat /\ DOMAIN log = 1 .. Len(log) /\ cursor \in 0 .. Len(log)
      /\ Len(log') \in Nat /\ DOMAIN log' = 1 .. Len(log')
  BY DEF BoardMoves, Grows, TabInv, StreamOK, Places
<1>5. e \in Int
  BY <1>4
<1>6. e \notin applied'
  <2>1. ~ (e <= newest'[i][f])
    BY <1>2, <1>5
  <2>2. e \notin own
    BY <2>1
  <2>3. CASE ToCome(e)
    BY <2>2, <2>3 DEF ToCome
  <2>4. CASE Fresh(e)
    <3>1. e \notin 0 .. Len(log)
      BY <1>4, <1>5, <2>4 DEF Fresh
    <3> QED BY <3>1
  <2> QED BY <1>3, <2>3, <2>4
<1>7. cursor' < e \/ Queued(e)'
  <2>1. CASE ToCome(e)
    BY <2>1 DEF ToCome, Queued
  <2>2. CASE Fresh(e)
    <3>1. ~ (e <= Len(log))
      BY <1>4, <1>5, <2>2 DEF Fresh
    <3> QED BY <1>4, <1>5, <3>1
  <2> QED BY <1>3, <2>1, <2>2
<1> QED BY <1>6, <1>7 DEF ToCome

\* The stream is left alone.
LEMMA StreamIdle ==
    ASSUME BoardInv, TabInv, BoardMoves, SyncStream, UNCHANGED <<newest, queue, cursor, applied>>
    PROVE  SyncStream'
<1>1. newest' \in [Items -> [Fields -> Int]] /\ \A i \in Items, f \in Fields : newest[i][f] <= newest'[i][f]
  <2>1. newest \in [Items -> [Fields -> 0 .. Len(log)]] /\ Len(log) \in Nat
    BY LogType DEF TabInv, ShownOK, Places
  <2>2. newest \in [Items -> [Fields -> Int]]
    BY <2>1
  <2>3. \A i \in Items, f \in Fields : newest[i][f] \in Int
    BY <2>2
  <2> QED BY <2>2, <2>3
<1>2. \A e \in applied' : e \in 0 .. Len(log)
  BY DEF TabInv, StreamOK, Places
<1> QED BY <1>1, <1>2, StreamSync

\* A status change whose card is due stays due.
LEMMA DueStays ==
    ASSUME Grows, NEW i,
           \A x \in DOMAIN log : Says(log, x, i, {"ITEM_STATUS_CHANGED"}) /\ (ToCome(x) \/ Asked(i, x)) =>
              ToCome(x)' \/ Asked(i, x)'
    PROVE  DueAt(i) \subseteq DueAt(i)'
<1> SUFFICES ASSUME NEW x \in DOMAIN log, Says(log, x, i, {"ITEM_STATUS_CHANGED"}), ToCome(x) \/ Asked(i, x)
             PROVE  x \in DueAt(i)'
  BY DEF DueAt
<1>1. x \in DOMAIN log' /\ Says(log', x, i, {"ITEM_STATUS_CHANGED"})
  BY EventStays, CardTypesApart
<1>2. ToCome(x)' \/ Asked(i, x)'
  OBVIOUS
<1> QED BY <1>1, <1>2 DEF DueAt

\* What is to come stays so when the stream rests.
LEMMA ToComeStays ==
    ASSUME Grows, UNCHANGED <<queue, cursor, applied>>, NEW x, ToCome(x)
    PROVE  ToCome(x)'
BY DEF ToCome, Queued, Grows

\* What is known of the answers under way stays true.
LEMMA AnswerKept ==
    ASSUME BoardInv, BoardMoves, NEW i \in Items, NEW face, NEW header, NEW at \in 0 .. Len(log),
           AnswerSync(i, face, header, at)
    PROVE  AnswerSync(i, face, header, at)'
BY AnswerStays DEF AnswerSync, BoardMoves

\* An event of a card stays one.
LEMMA EventOfStays ==
    ASSUME Grows, NEW e, NEW i, NEW types, types \cap Closing = {}, EventOf(log, e, i, types)
    PROVE  EventOf(log', e, i, types)
BY EventStays DEF EventOf

\* A fetch under way keeps its meaning,
LEMMA FetchKept ==
    ASSUME BoardInv, BoardMoves, NEW f \in Fetches(Len(log)), FetchSync(f)
    PROVE  FetchSync(f)'
<1>1. f.item \in Items /\ f.at \in 0 .. Len(log)
  BY DEF Fetches
<1>2. EventOf(log', f.event, f.item, StatusTypes)
  BY EventOfStays, CardTypesApart DEF FetchSync, BoardMoves
<1> QED BY <1>1, <1>2, AnswerKept DEF FetchSync

\* and so does a request,
LEMMA RequestKept ==
    ASSUME BoardInv, BoardMoves, NEW r \in Requests(Len(log)), RequestOK(r), RequestSync(r)
    PROVE  RequestSync(r)'
<1>1. r.at \in 0 .. Len(log) /\ (r.phase = "answered" => r.item \in Items)
  BY DEF Requests, RequestOK
<1>2. r.header # 0 => EventOf(log', r.header, r.item, CardTypes)
  BY EventOfStays, CardTypesApart DEF RequestSync, BoardMoves
<1> QED BY <1>1, <1>2, AnswerKept DEF RequestSync

\* and a timer request.
LEMMA PostKept ==
    ASSUME BoardInv, BoardMoves, NEW p, PostOK(p, Len(log)), PostSync(p)
    PROVE  PostSync(p)'
<1>1. p.item \in Items /\ p.at \in 0 .. Len(log)
  BY DEF PostOK
<1>2. p.header # 0 => EventOf(log', p.header, p.item, TimerEvents)
  BY EventOfStays, CardTypesApart DEF PostSync, BoardMoves
<1> QED BY <1>1, <1>2, AnswerKept DEF PostSync

\* The requests that a step leaves alone.
LEMMA AnswersSync ==
    ASSUME BoardInv, BoardMoves, TabInv, SyncAnswers
    PROVE  /\ \A f \in fetches : FetchSync(f)'
           /\ \A s \in Slots : \A r : r = req[s] => RequestSync(r)'
           /\ \A p \in posts : PostSync(p)'
<1>1. ASSUME NEW f \in fetches PROVE FetchSync(f)'
  BY FetchKept DEF TabInv, FetchesOK, SyncAnswers
<1>2. ASSUME NEW s \in Slots, NEW r, r = req[s] PROVE RequestSync(r)'
  BY <1>2, RequestKept, ReqRow DEF TabInv, SyncAnswers
<1>3. ASSUME NEW p \in posts PROVE PostSync(p)'
  BY PostKept DEF TabInv, PostsOK, SyncAnswers
<1> QED BY <1>1, <1>2, <1>3


-----------------------------------------------------------------------------
(* The answers of the server.                                               *)

SameAnswer(r, old) ==
    r.item = old.item /\ r.phase = old.phase /\ r.face = old.face /\ r.header = old.header /\ r.at = old.at

NothingYet(r) == r.phase # "answered" /\ r.header = 0

\* The requests under way are those there were, new ones or answered just now.
LEMMA AnswersNext ==
    ASSUME BoardInv, BoardMoves, TabInv, SyncAnswers,
           \A f \in fetches' : f \in fetches \/ FetchSync(f)',
           \A s \in Slots : \A r : r = req'[s] => SameAnswer(r, req[s]) \/ NothingYet(r) \/ RequestSync(r)',
           \A p \in posts' : p \in posts \/ NothingYet(p) \/ PostSync(p)',
           EditorsApart'
    PROVE  SyncAnswers'
<1>1. /\ \A f \in fetches : FetchSync(f)'
      /\ \A s \in Slots : \A r : r = req[s] => RequestSync(r)'
      /\ \A p \in posts : PostSync(p)'
  BY AnswersSync
<1>2. ASSUME NEW s \in Slots, NEW r, r = req'[s]
      PROVE  RequestSync(r)'
  <2>1. CASE SameAnswer(r, req[s])
    <3>1. \A old : old = req[s] => RequestSync(old)'
      BY <1>1
    <3>2. ASSUME NEW old, SameAnswer(r, old), RequestSync(old)'
          PROVE  RequestSync(r)'
      BY <3>2 DEF SameAnswer, RequestSync
    <3> QED BY <2>1, <3>1, <3>2
  <2>2. CASE NothingYet(r)
    BY <2>2 DEF NothingYet, RequestSync
  <2> QED BY <1>2, <2>1, <2>2
<1>3. \A p \in posts' : PostSync(p)'
  BY <1>1 DEF NothingYet, PostSync
<1>4. ASSUME NEW s \in Slots
      PROVE  RequestSync(req[s])'
  BY <1>2 DEF RequestSync, AnswerSync, Exists, Unarchived
<1> QED BY <1>1, <1>3, <1>4 DEF SyncAnswers

\* The texts that requests of the tab are changing stay theirs.
LEMMA EditorsKept ==
    ASSUME EditorsApart,
           \A s \in Slots : req'[s].phase = "read" =>
              /\ req[s].phase = "read" /\ req'[s].editor = req[s].editor /\ req'[s].item = req[s].item
              /\ edit'[req[s].editor].item = edit[req[s].editor].item
    PROVE  EditorsApart'
BY DEF EditorsApart

\* Requests that do not begin an edit stay apart from the others.
LEMMA EditorsIdle ==
    ASSUME EditorsApart, edit' = edit,
           \A s \in Slots : req'[s].phase = "read" =>
              req[s].phase = "read" /\ req'[s].editor = req[s].editor /\ req'[s].item = req[s].item
    PROVE  EditorsApart'
BY EditorsKept

\* A lookup that finds an event finds one of those it looks for.
LEMMA LastEventOf ==
    ASSUME NEW l \in Seq(Events), NEW i, NEW types
    PROVE  LastEvent(l, i, types) # 0 => EventOf(l, LastEvent(l, i, types), i, types)
<1>1. CASE Tells(l, i, types)
  BY <1>1, LastEventLast DEF EventOf
<1>2. CASE ~ Tells(l, i, types)
  <2>1. {e \in DOMAIN l : l[e].type \in types /\ l[e].item = i} = {}
    BY <1>2 DEF Tells, Says
  <2> QED BY <2>1 DEF LastEvent
<1> QED BY <1>1, <1>2

\* The event that a response names is one of its card.
LEMMA HeaderSays ==
    ASSUME BoardInv', NEW i \in Items, NEW h, h = answer'.header, h # 0
    PROVE  /\ \A text : AddItem(i, text) => EventOf(log', h, i, {"ITEM_CREATED"})
           /\ \A action : ChangeItemStatus(i, action) => EventOf(log', h, i, {"ITEM_STATUS_CHANGED"})
           /\ \A d : StartItemTimer(i, d) => EventOf(log', h, i, {"TIMER_STARTED"})
           /\ ExtendItemTimer(i) => EventOf(log', h, i, {"TIMER_EXTENDED"})
           /\ \A q : UpdateText(q) /\ edit[q].item = i => EventOf(log', h, i, {"ITEM_UPDATED"})
<1>0. log' \in Seq(Events)
  BY DEF BoardInv, TypeOK, BoardTypeOK
<1>1. \A types : h = LastEvent(log', i, types) => EventOf(log', h, i, types)
  BY <1>0, LastEventOf
<1>2. ASSUME NEW to, NEW own, NEW header, Respond(to, own, header)
      PROVE  h = header
  BY <1>2 DEF Respond
<1>3. ASSUME NEW text, AddItem(i, text)
      PROVE  EventOf(log', h, i, {"ITEM_CREATED"})
  BY <1>1, <1>2, <1>3 DEF AddItem
<1>4. ASSUME NEW action, ChangeItemStatus(i, action)
      PROVE  EventOf(log', h, i, {"ITEM_STATUS_CHANGED"})
  <2> DEFINE new == Changed(item[i], action)
  <2>1. \/ Write(i, new) /\ Respond("change_item_status", OwnEvent(i, new), StatusHeader(i, new))
        \/ Respond("change_item_status", 0, 0)
    BY <1>4 DEF ChangeItemStatus
  <2> HIDE DEF new
  <2>2. Write(i, new) /\ h = StatusHeader(i, new)
    BY <1>2, <2>1
  <2>3. log' = log \o ItemEvent(i, item[i], new)
    BY <2>2 DEF Write
  <2>4. h = LastEvent(log', i, {"ITEM_STATUS_CHANGED"})
    BY <2>2, <2>3 DEF StatusHeader
  <2> QED BY <1>1, <2>4
<1>5. ASSUME NEW d, StartItemTimer(i, d)
      PROVE  EventOf(log', h, i, {"TIMER_STARTED"})
  <2>1. \/ \E own : Respond("start_item_timer", own, LastEvent(log', i, {"TIMER_STARTED"}))
        \/ Respond("start_item_timer", 0, 0)
    BY <1>5 DEF StartItemTimer
  <2> QED BY <1>1, <1>2, <2>1
<1>6. ASSUME ExtendItemTimer(i)
      PROVE  EventOf(log', h, i, {"TIMER_EXTENDED"})
  <2>1. \/ \E own : Respond("extend_item_timer", own, LastEvent(log', i, {"TIMER_EXTENDED"}))
        \/ Respond("extend_item_timer", 0, 0)
    BY <1>6 DEF ExtendItemTimer
  <2> QED BY <1>1, <1>2, <2>1
<1>7. ASSUME NEW q, UpdateText(q), edit[q].item = i
      PROVE  EventOf(log', h, i, {"ITEM_UPDATED"})
  <2>1. \E own, to : Respond(to, own, IF edit[q].old # edit[q].text
                                      THEN LastEvent(log', i, {"ITEM_UPDATED"}) ELSE 0)
    BY <1>7 DEF UpdateText
  <2>2. h = LastEvent(log', i, {"ITEM_UPDATED"})
    BY <1>2, <2>1
  <2> QED BY <1>1, <2>2
<1> QED BY <1>3, <1>4, <1>5, <1>6, <1>7

\* Headers name events of cards.
LEMMA CardHeaders ==
    /\ {"ITEM_CREATED"} \subseteq CardTypes /\ {"ITEM_STATUS_CHANGED"} \subseteq CardTypes
    /\ {"ITEM_UPDATED"} \subseteq CardTypes /\ TimerEvents \subseteq CardTypes
    /\ {"TIMER_STARTED"} \subseteq TimerEvents /\ {"TIMER_EXTENDED"} \subseteq TimerEvents
BY DEF CardTypes, ElapsedTypes, TextTypes, TimerEvents

\* An event of some types is one of more types.
LEMMA EventOfMore ==
    ASSUME NEW l, NEW e, NEW i, NEW types, NEW more, types \subseteq more, EventOf(l, e, i, types)
    PROVE  EventOf(l, e, i, more)
BY DEF EventOf, Says

\* A card that is read just now is told by the log.
LEMMA JustAnswered ==
    ASSUME BoardInv', HidesArchives', NEW i \in Items, Exists(i)', NEW p, p = Moment(i, item[i], log)',
           NEW header, header # 0 => EventOf(log', header, i, CardTypes),
           NEW face, face \in {Face(item'[i]), EditForm(item'[i])}
    PROVE  AnswerSync(i, face, header, p)'
<1>1. FreshMeaning'
  BY FreshLater
<1>2. p \in 0 .. Len(log') /\ Len(log') \in Nat
  <2>1. MomentsOK'
    BY MomentLater
  <2>2. Len(log') \in Nat
    BY LenProperties DEF BoardInv, TypeOK, BoardTypeOK
  <2> QED BY <2>1, <2>2 DEF MomentsOK, Places
<1>3. ASSUME Unarchived(i)'
      PROVE  header <= p /\ AnswerTells(log', face, i, p)
  <2>1. /\ \A e \in DOMAIN log' : Says(log', e, i, CardTypes) => e <= p
        /\ AnswerTells(log', Face(item'[i]), i, p) /\ AnswerTells(log', EditForm(item'[i]), i, p)
    BY <1>1, <1>3 DEF FreshMeaning
  <2>2. header <= p
    BY <1>2, <2>1 DEF EventOf
  <2> QED BY <2>1, <2>2
<1> QED BY <1>3 DEF AnswerSync

\* The moment of a row, in a step that no archive takes.
LEMMA MomentSame ==
    ASSUME arch' = arch, NEW i
    PROVE  Moment(i, item'[i], log') = Moment(i, item[i], log)'
BY DEF Moment, Visible


\* The steps that answer nothing.
LEMMA AnswersIdle ==
    ASSUME BoardInv, BoardMoves, TabInv, SyncAnswers, EditorsApart',
           \A f \in fetches' : f \in fetches \/ FetchSync(f)',
           \A s \in Slots : SameAnswer(req'[s], req[s]),
           \A p \in posts' : p \in posts \/ NothingYet(p)
    PROVE  SyncAnswers'
BY AnswersNext

\* What others do changes no answer under way,
LEMMA AnswersElsewhere ==
    ASSUME BoardInv, BoardMoves, TabInv, SyncAnswers, Elsewhere
    PROVE  SyncAnswers'
<1>1. UNCHANGED <<fetches, req, posts>>
  BY DEF Elsewhere, tabVars, timerVars
<1>2. ASSUME NEW s \in Slots, req[s].phase = "read", NEW q, q = req[s].editor
      PROVE  edit'[q] = edit[q]
  <2>1. q \in Editors
    BY <1>2, ReqRow DEF TabInv, RequestOK
  <2>2. ASSUME NEW x \in Editors, ~ (\E t \in Slots : req[t].editor = x), UpdateItem(x)
        PROVE  edit'[q] = edit[q]
    <3>1. x # q
      BY <1>2, <2>2
    <3>2. edit \in [Editors -> EditStates]
      BY DEF BoardInv, TypeOK, RequestTypeOK
    <3>3. \E new : edit' = [edit EXCEPT ![x] = new]
      BY <2>2 DEF UpdateItem, ReadOldText, UpdateText, AbandonEdit
    <3> QED BY <2>1, <3>1, <3>2, <3>3
  <2>3. ASSUME NEW i \in Items, ItemHandler(i)
        PROVE  edit' = edit
    BY <2>3 DEF ItemHandler, AddItem, ChangeItemStatus, StartItemTimer, ExtendItemTimer
  <2>4. ASSUME NEW a \in Archivers, ArchiveRetro(a)
        PROVE  edit' = edit
    BY <2>4 DEF ArchiveRetro, CountActive, InsertArchive, ArchiveStep, ArchiveItems,
                ArchiveActionItems, CommitArchive, AbortArchive
  <2>5. TimerSweep \/ Tick => edit' = edit
    BY DEF TimerSweep, Tick
  <2> QED BY <2>2, <2>3, <2>4, <2>5 DEF Elsewhere
<1>3. EditorsApart'
  <2>1. \A s \in Slots : req'[s].phase = "read" =>
              /\ req[s].phase = "read" /\ req'[s].editor = req[s].editor /\ req'[s].item = req[s].item
              /\ edit'[req[s].editor].item = edit[req[s].editor].item
    BY <1>1, <1>2
  <2> QED BY <2>1, EditorsKept DEF SyncAnswers
<1> QED BY <1>1, <1>3, AnswersIdle DEF SameAnswer

\* The tab keeps its requests.
LEMMA AnswersUntouched ==
    ASSUME BoardInv, BoardMoves, TabInv, SyncAnswers, edit' = edit,
           fetches' \subseteq fetches, UNCHANGED req,
           \A p \in posts' : p \in posts \/ NothingYet(p)
    PROVE  SyncAnswers'
<1>1. EditorsApart'
  BY EditorsIdle DEF SyncAnswers
<1> QED BY <1>1, AnswersIdle DEF SameAnswer

\* Requests lose their targets.
LEMMA AnswersDetached ==
    ASSUME BoardInv, BoardMoves, TabInv, SyncAnswers, edit' = edit,
           fetches' \subseteq fetches, UNCHANGED posts,
           \A s \in Slots : \E x : req'[s] = [req[s] EXCEPT !.attached = x]
    PROVE  SyncAnswers'
<1>1. \A s \in Slots : SameAnswer(req'[s], req[s]) /\ req'[s].editor = req[s].editor
  <2> SUFFICES ASSUME NEW s \in Slots, NEW r \in Requests(Len(log)), NEW x, req'[s] = [r EXCEPT !.attached = x]
               PROVE  SameAnswer(req'[s], r) /\ req'[s].editor = r.editor
    BY ReqRow DEF TabInv
  <2> QED BY DEF SameAnswer, Requests
<1>2. EditorsApart'
  BY <1>1, EditorsIdle DEF SyncAnswers, SameAnswer
<1> QED BY <1>1, <1>2, AnswersIdle

\* nor does handling an event.
LEMMA AnswersListener ==
    ASSUME BoardInv, BoardMoves, TabInv, SyncAnswers, Listener
    PROVE  SyncAnswers'
<1> DEFINE e == Head(queue)
<1>0. queue # << >> /\ Handled
  BY DEF Listener, DropOwn, OnItemCreated, OnItemStatusChanged, OnItemUpdated, OnTimerUpdated,
         OnTimerElapsed, OnRetroArchived, Receives
<1>1. edit' = edit /\ log' = log /\ posts' = posts /\ e \in DOMAIN log
  BY <1>0, TabHandled DEF Handled, vars, timerVars, BoardMoves
<1>2. CASE UNCHANGED <<fetches, req>>
  BY <1>1, <1>2, AnswersUntouched
<1>3. ASSUME FetchCard(log[e].item, e), req' = req, log[e].type \in StatusTypes
      PROVE  SyncAnswers'
  <2>1. ASSUME NEW f \in fetches', f \notin fetches
        PROVE  FetchSync(f)'
    <3>1. f = [item |-> log[e].item, event |-> e, phase |-> "sent", face |-> NoFace, at |-> 0]
      BY <1>3, <2>1 DEF FetchCard
    <3>2. f.item = log[e].item /\ f.event = e /\ f.phase = "sent"
      BY <3>1
    <3> QED BY <1>1, <1>3, <3>2 DEF FetchSync, EventOf, Says
  <2>2. EditorsApart'
    BY <1>1, <1>3, EditorsIdle DEF SyncAnswers
  <2> QED BY <1>1, <1>3, <2>1, <2>2, AnswersIdle DEF SameAnswer
<1>4. CASE OnRetroArchived
  <2>1. fetches' = fetches /\ req' = [s \in Slots |-> [req[s] EXCEPT !.attached = req[s].kind = "add"]]
    BY <1>4 DEF OnRetroArchived
  <2>2. \A s \in Slots : \E x : req'[s] = [req[s] EXCEPT !.attached = x]
    BY <2>1
  <2> QED BY <1>1, <2>1, <2>2, AnswersDetached
<1>5. CASE DropOwn \/ OnItemUpdated \/ OnTimerUpdated \/ OnTimerElapsed
  BY <1>2, <1>5 DEF DropOwn, OnItemUpdated, OnTimerUpdated, OnTimerElapsed
<1>6. CASE OnItemCreated \/ OnItemStatusChanged
  BY <1>3, <1>6 DEF OnItemCreated, OnItemStatusChanged, Receives, StatusTypes
<1> QED BY <1>4, <1>5, <1>6 DEF Listener

\* Replacing a card changes only whether requests are attached.
LEMMA DetachedIs ==
    ASSUME ReqOK, NEW i
    PROVE  \A s \in Slots : \E x : Detached(req, i)[s] = [req[s] EXCEPT !.attached = x]
<1> SUFFICES ASSUME NEW s \in Slots
             PROVE  \E x : Detached(req, i)[s] = [req[s] EXCEPT !.attached = x]
  OBVIOUS
<1>1. Detached(req, i)[s] = IF req[s].item = i /\ req[s].kind # "add"
                            THEN [req[s] EXCEPT !.attached = FALSE] ELSE req[s]
  BY DEF Detached
<1>2. ASSUME NEW r \in Requests(Len(log))
      PROVE  r = [r EXCEPT !.attached = r.attached]
  BY DEF Requests
<1> QED BY <1>1, <1>2, ReqRow


\* A fetch is answered with the card as it is then.
LEMMA AnswersFetch ==
    ASSUME BoardInv, BoardInv', HidesArchives', BoardMoves, TabInv, SyncAnswers,
           NEW f \in fetches, ServeFetch(f) \/ FetchArrives(f) \/ FetchFails(f)
    PROVE  SyncAnswers'
<1>0. edit' = edit /\ posts' = posts /\ log' = log /\ item' = item /\ arch' = arch
  BY DEF ServeFetch, FetchArrives, FetchFails, vars, boardVars, timerVars
<1>1. f \in Fetches(Len(log)) /\ FetchSync(f) /\ ReqOK
  BY DEF TabInv, FetchesOK, SyncAnswers
<1>2. CASE ServeFetch(f)
  <2> DEFINE i == f.item
  <2>1. PICK at, face, g :
             /\ at = Moment(i, item[i], log) /\ face = Face(item[i])
             /\ g = [f EXCEPT !.phase = "answered", !.face = face, !.at = at]
             /\ fetches' = (fetches \ {f}) \cup {g}
    BY <1>2 DEF ServeFetch
  <2>2. i \in Items /\ Exists(i) /\ req' = req
    BY <1>1, <1>2 DEF Fetches, ServeFetch
  <2>3. face = Face(item'[i]) /\ at = Moment(i, item[i], log)'
    <3>1. Moment(i, item'[i], log') = Moment(i, item[i], log)'
      BY <1>0, MomentSame
    <3> QED BY <1>0, <2>1, <3>1
  <2>4. g.item = i /\ g.event = f.event /\ g.face = face /\ g.at = at
    BY <1>1, <2>1 DEF Fetches
  <2>5. EventOf(log, f.event, i, StatusTypes) /\ EventOf(log, f.event, i, CardTypes)
    <3>1. EventOf(log, f.event, i, StatusTypes)
      BY <1>1 DEF FetchSync
    <3>2. StatusTypes \subseteq CardTypes
      BY DEF StatusTypes, CardTypes, ElapsedTypes
    <3> QED BY <3>1, <3>2, EventOfMore
  <2>6. Exists(i)'
    BY <1>0, <2>2 DEF Exists
  <2>7. AnswerSync(i, face, f.event, at)'
    <3>1. face \in {Face(item'[i]), EditForm(item'[i])}
      BY <2>3
    <3>2. f.event # 0 => EventOf(log', f.event, i, CardTypes)
      BY <1>0, <2>5
    <3> HIDE DEF i
    <3> QED BY <2>2, <2>3, <2>6, <3>1, <3>2, JustAnswered
  <2>8. FetchSync(g)'
    <3>1. EventOf(log', f.event, i, StatusTypes)
      BY <1>0, <2>5
    <3> HIDE DEF i
    <3> QED BY <2>4, <2>7, <3>1 DEF FetchSync
  <2>9. EditorsApart'
    BY <1>0, <2>2, EditorsIdle DEF SyncAnswers
  <2>10. \A h \in fetches' : h \in fetches \/ FetchSync(h)'
    BY <2>1, <2>8
  <2> QED BY <1>0, <2>2, <2>9, <2>10, AnswersIdle DEF SameAnswer
<1>3. CASE FetchArrives(f)
  <2>1. fetches' \subseteq fetches
    BY <1>3 DEF FetchArrives
  <2>2. req' = req \/ req' = Detached(req, f.item)
    BY <1>3 DEF FetchArrives, ReplaceCard
  <2>3. CASE req' = req
    BY <1>0, <2>1, <2>3, AnswersUntouched
  <2>4. CASE req' = Detached(req, f.item)
    <3>1. \A s \in Slots : \E x : req'[s] = [req[s] EXCEPT !.attached = x]
      <4>1. \A s \in Slots : \E x : Detached(req, f.item)[s] = [req[s] EXCEPT !.attached = x]
        BY <1>1, DetachedIs
      <4> QED BY Zenon, <2>4, <4>1
    <3> QED BY <1>0, <2>1, <3>1, AnswersDetached
  <2> QED BY <2>2, <2>3, <2>4
<1>4. CASE FetchFails(f)
  BY <1>0, <1>4, AnswersUntouched DEF FetchFails
<1> QED BY <1>2, <1>3, <1>4

\* One request of the tab gets on, the others stay.
LEMMA AnswersOne ==
    ASSUME BoardInv, BoardMoves, TabInv, SyncAnswers, NEW s \in Slots, NEW r,
           req' = [req EXCEPT ![s] = r], NothingYet(r) \/ RequestSync(r)',
           EditorsApart', fetches' = fetches, \A p \in posts' : p \in posts \/ NothingYet(p)
    PROVE  SyncAnswers'
<1>1. req'[s] = r /\ \A x \in Slots \ {s} : req'[x] = req[x]
  BY DEF TabInv, ReqOK
<1>2. \A x \in Slots : \A y : y = req'[x] => SameAnswer(y, req[x]) \/ NothingYet(y) \/ RequestSync(y)'
  BY <1>1 DEF SameAnswer
<1> QED BY <1>2, AnswersNext

\* It is not one that changes a text.
LEMMA EditorsOne ==
    ASSUME TabInv, EditorsApart, NEW s \in Slots, NEW r, r.phase # "read",
           req' = [req EXCEPT ![s] = r], edit' = edit
    PROVE  EditorsApart'
<1>1. req'[s] = r /\ \A x \in Slots \ {s} : req'[x] = req[x]
  BY DEF TabInv, ReqOK
<1> QED BY <1>1, EditorsIdle

\* A slot without a request has no answer.
LEMMA NoReqNothing ==
    NothingYet(NoReq) /\ NoReq.phase # "read"
BY DEF NothingYet, NoReq, None

\* A request that begins or fails has no answer.
LEMMA AnswersClick ==
    ASSUME BoardInv, BoardMoves, TabInv, SyncAnswers, NEW s \in Slots,
           \/ \E i, kind, text : Click(s, i, kind, text)
           \/ \E text : SubmitCard(s, text)
           \/ RequestFails(s)
    PROVE  SyncAnswers'
<1>0. edit' = edit /\ fetches' = fetches /\ posts' = posts
  BY DEF Click, SubmitCard, RequestFails, vars, timerVars
<1>1. \E r : req' = [req EXCEPT ![s] = r] /\ NothingYet(r) /\ r.phase # "read"
  <2>1. ASSUME NEW i, NEW kind, NEW text, Click(s, i, kind, text)
        PROVE  \E r : req' = [req EXCEPT ![s] = r] /\ NothingYet(r) /\ r.phase # "read"
    <3> DEFINE r == [NoReq EXCEPT !.kind = kind, !.item = i, !.text = text,
                                  !.phase = "sent", !.attached = TRUE]
    <3>1. req' = [req EXCEPT ![s] = r]
      BY <2>1 DEF Click
    <3>2. NothingYet(r) /\ r.phase # "read"
      BY DEF NothingYet, NoReq
    <3> HIDE DEF r
    <3> QED BY <3>1, <3>2
  <2>2. ASSUME NEW text, SubmitCard(s, text)
        PROVE  \E r : req' = [req EXCEPT ![s] = r] /\ NothingYet(r) /\ r.phase # "read"
    <3> DEFINE r == [NoReq EXCEPT !.kind = "add", !.text = text, !.phase = "sent", !.attached = TRUE]
    <3>1. req' = [req EXCEPT ![s] = r]
      BY <2>2 DEF SubmitCard
    <3>2. NothingYet(r) /\ r.phase # "read"
      BY DEF NothingYet, NoReq
    <3> HIDE DEF r
    <3> QED BY <3>1, <3>2
  <2>3. CASE RequestFails(s)
    BY <2>3, NoReqNothing DEF RequestFails
  <2> QED BY <2>1, <2>2, <2>3
<1>2. PICK r : req' = [req EXCEPT ![s] = r] /\ NothingYet(r) /\ r.phase # "read"
  BY <1>1
<1>3. EditorsApart'
  BY <1>0, <1>2, EditorsOne DEF SyncAnswers
<1> QED BY <1>0, <1>2, <1>3, AnswersOne


\* A card that is rendered is a card.
LEMMA FaceIsOne ==
    \A row : Face(row) # NoFace /\ EditForm(row) # NoFace
<1> SUFFICES ASSUME NEW row PROVE Face(row).kind # NoFace.kind /\ EditForm(row).kind # NoFace.kind
  OBVIOUS
<1>1. NoFace.kind = "none" /\ EditForm(row).kind = "editing"
  BY DEF NoFace, EditForm, None
<1>2. Face(row).kind \in {"highlighted", "completed", "plain"}
  BY DEF Face
<1> QED BY <1>1, <1>2

\* A request gets to a phase with the card in its response.
LEMMA AnswersProgress ==
    ASSUME BoardInv, BoardInv', HidesArchives', BoardMoves, TabInv, SyncAnswers, arch' = arch,
           NEW s \in Slots, NEW phase \in {"committed", "answered"}, NEW i \in Items, NEW face,
           NEW header, Progress(s, phase, i, face, header),
           header # 0 => EventOf(log', header, i, CardTypes),
           phase = "answered" => Exists(i)' /\ face \in {Face(item'[i]), EditForm(item'[i])},
           EditorsApart'
    PROVE  SyncAnswers'
<1>1. PICK r, at : /\ req' = [req EXCEPT ![s] = r]
                   /\ r = [req[s] EXCEPT !.phase = phase, !.item = i, !.face = face, !.header = header, !.at = at]
                   /\ at = IF face = NoFace THEN 0 ELSE Moment(i, item'[i], log')
  BY DEF Progress
<1>2. fetches' = fetches /\ posts' = posts
  BY DEF Progress, timerVars
<1>3. r.phase = phase /\ r.item = i /\ r.face = face /\ r.header = header /\ r.at = at
  <2>1. req[s] \in Requests(Len(log))
    BY ReqRow DEF TabInv
  <2> QED BY <1>1, <2>1 DEF Requests
<1>4. ASSUME phase = "answered"
      PROVE  AnswerSync(i, face, header, at)'
  <2>1. face # NoFace
    BY <1>4, FaceIsOne
  <2>2. at = Moment(i, item[i], log)'
    BY <1>1, <2>1, MomentSame
  <2> QED BY <1>4, <2>2, JustAnswered
<1>5. RequestSync(r)'
  BY <1>3, <1>4 DEF RequestSync
<1> QED BY <1>1, <1>2, <1>5, AnswersOne

\* The editors stay apart when a request goes on to another phase.
LEMMA EditorsProgress ==
    ASSUME TabInv, EditorsApart, NEW s \in Slots, NEW phase \in {"committed", "answered"}, NEW i, NEW face,
           NEW header, Progress(s, phase, i, face, header),
           \A x \in Slots \ {s} : req[x].phase = "read" =>
              edit'[req[x].editor].item = edit[req[x].editor].item
    PROVE  EditorsApart'
<1>1. PICK r, at : /\ req' = [req EXCEPT ![s] = r]
                   /\ r = [req[s] EXCEPT !.phase = phase, !.item = i, !.face = face, !.header = header, !.at = at]
  BY DEF Progress
<1>2. r.phase = phase
  <2>1. req[s] \in Requests(Len(log))
    BY ReqRow DEF TabInv
  <2> QED BY <1>1, <2>1 DEF Requests
<1>3. req'[s] = r /\ \A x \in Slots \ {s} : req'[x] = req[x]
  BY <1>1 DEF TabInv, ReqOK
<1> QED BY <1>2, <1>3, EditorsKept

\* A request is answered with the card as it is then, and the header is no
\* newer.
LEMMA AnswersServe ==
    ASSUME BoardInv, BoardInv', HidesArchives', BoardMoves, TabInv, SyncAnswers, NEW s \in Slots,
           ServeStatus(s) \/ ServeAdd(s) \/ ServeUpdate(s) \/ ServeCard(s)
    PROVE  SyncAnswers'
<1>0. req[s] \in Requests(Len(log)) /\ RequestOK(req[s]) /\ EditorsApart
      /\ edit \in [Editors -> EditStates]
  BY ReqRow DEF TabInv, SyncAnswers, BoardInv, TypeOK, RequestTypeOK
<1>1. PICK h : h = answer'.header
  OBVIOUS
<1>2. CASE ServeStatus(s)
  <2>1. PICK i : i = req[s].item
    OBVIOUS
  <2>2. i \in Items
    BY <1>0, <1>2, <2>1 DEF ServeStatus, RequestOK, StatusActions
  <2>3. ChangeItemStatus(i, req[s].kind) /\ Progress(s, "committed", i, NoFace, h)
    BY <1>1, <1>2, <2>1 DEF ServeStatus
  <2>4. arch' = arch /\ edit' = edit
    BY <2>3 DEF ChangeItemStatus
  <2>5. h # 0 => EventOf(log', h, i, CardTypes)
    BY <1>1, <2>2, <2>3, HeaderSays, CardHeaders, EventOfMore
  <2>6. EditorsApart'
    BY <1>0, <2>3, <2>4, EditorsProgress
  <2> QED BY <2>2, <2>3, <2>4, <2>5, <2>6, AnswersProgress
<1>3. CASE ServeAdd(s)
  <2>1. PICK i, face : /\ i \in Items /\ AddItem(i, req[s].text) /\ face = Face(item'[i])
                       /\ Progress(s, "answered", i, face, h)
    BY <1>1, <1>3 DEF ServeAdd
  <2>2. arch' = arch /\ edit' = edit
    BY <2>1 DEF AddItem
  <2>3. h # 0 => EventOf(log', h, i, CardTypes)
    BY <1>1, <2>1, HeaderSays, CardHeaders, EventOfMore
  <2>4. EditorsApart'
    BY <1>0, <2>1, <2>2, EditorsProgress
  <2>5. Exists(i)'
    <3>1. PICK new : /\ item' = [item EXCEPT ![i] = new]
                     /\ new = [NoItem EXCEPT !.status = "CREATED", !.text = req[s].text]
      BY <2>1 DEF AddItem
    <3>2. item \in [Items -> ItemRows]
      BY DEF BoardInv, TypeOK, BoardTypeOK
    <3>3. new.status = "CREATED"
      BY <3>1 DEF NoItem
    <3>4. item'[i].status = "CREATED"
      BY <2>1, <3>1, <3>2, <3>3
    <3> QED BY <3>4 DEF Exists, Status
  <2> QED BY <2>1, <2>2, <2>3, <2>4, <2>5, AnswersProgress
<1>4. ASSUME NEW q \in Editors, ReadOldText(q, req[s].item, req[s].text),
             req[s].kind = "update", req[s].phase = "sent",
             req' = [req EXCEPT ![s].phase = "read", ![s].editor = q],
             UNCHANGED <<shownVars, streamVars, fetches, timerVars, settling>>
      PROVE  SyncAnswers'
  <2>1. PICK r : req' = [req EXCEPT ![s] = r] /\ r = [req[s] EXCEPT !.phase = "read", !.editor = q]
    BY <1>4
  <2>2. r.phase = "read" /\ r.header = req[s].header /\ r.item = req[s].item /\ r.editor = q
    BY <1>0, <2>1 DEF Requests
  <2>3. RequestSync(r)'
    <3>1. \A old : old = req[s] => RequestSync(old)'
      BY AnswersSync
    <3>2. ASSUME NEW old, RequestSync(old)', r.header = old.header, r.item = old.item
          PROVE  RequestSync(r)'
      BY <2>2, <3>2 DEF RequestSync
    <3> QED BY <2>2, <3>1, <3>2
  <2>4. req'[s] = r /\ \A x \in Slots \ {s} : req'[x] = req[x]
    BY <2>1 DEF TabInv, ReqOK
  <2>5. edit[q].item = None
        /\ edit' = [edit EXCEPT ![q] = [item |-> req[s].item, text |-> req[s].text, old |-> item[req[s].item].text]]
    BY <1>4 DEF ReadOldText
  <2>6. edit'[q].item = req[s].item /\ \A x \in Editors \ {q} : edit'[x] = edit[x]
    BY <1>0, <2>5
  <2>7. ASSUME NEW x \in Slots \ {s}, req[x].phase = "read"
        PROVE  req[x].editor \in Editors \ {q}
    <3>1. RequestOK(req[x]) /\ req[x].item \in Items
      BY <2>7, ReqRow DEF TabInv, RequestOK
    <3>2. edit[req[x].editor].item = req[x].item
      BY <1>0, <2>7 DEF EditorsApart
    <3>3. req[x].item # None
      BY <3>1, CardsAssumption DEF None
    <3>4. req[x].editor # q
      BY <2>5, <3>2, <3>3
    <3> QED BY <2>7, <3>1, <3>4 DEF RequestOK
  <2>8. EditorsApart'
    <3> SUFFICES ASSUME NEW x \in Slots, req'[x].phase = "read"
                 PROVE  /\ edit'[req'[x].editor].item = req'[x].item
                        /\ \A y \in Slots \ {x} : req'[y].phase = "read" => req'[y].editor # req'[x].editor
      BY DEF EditorsApart
    <3>1. CASE x = s
      BY <2>2, <2>4, <2>6, <2>7, <3>1
    <3>2. CASE x # s
      <4>1. req'[x] = req[x] /\ req[x].editor \in Editors \ {q} /\ edit'[req[x].editor] = edit[req[x].editor]
        BY <2>4, <2>6, <2>7, <3>2
      <4>2. edit[req[x].editor].item = req[x].item
            /\ \A y \in Slots \ {x} : req[y].phase = "read" => req[y].editor # req[x].editor
        BY <1>0, <4>1 DEF EditorsApart
      <4> QED BY <2>2, <2>4, <4>1, <4>2
    <3> QED BY <3>1, <3>2
  <2>9. fetches' = fetches /\ posts' = posts
    BY <1>4 DEF timerVars
  <2> QED BY <2>1, <2>3, <2>8, <2>9, AnswersOne
<1>5. ASSUME req[s].phase = "read", UpdateText(req[s].editor),
             Progress(s, "answered", req[s].item, Face(item'[req[s].item]), answer'.header)
      PROVE  SyncAnswers'
  <2>1. PICK i, q, face : i = req[s].item /\ q = req[s].editor /\ face = Face(item'[i])
                          /\ Progress(s, "answered", i, face, h)
    BY <1>1, <1>5
  <2>2. i \in Items /\ q \in Editors
    BY <1>0, <1>5, <2>1 DEF RequestOK
  <2>3. edit[q].item = i
    BY <1>0, <1>5, <2>1 DEF EditorsApart
  <2>4. UpdateText(q) /\ arch' = arch
    BY <1>5, <2>1 DEF UpdateText
  <2>5. h # 0 => EventOf(log', h, i, CardTypes)
    BY <1>1, <2>2, <2>3, <2>4, HeaderSays, CardHeaders, EventOfMore
  <2>6. Exists(i)'
    BY <2>2, <2>3, <2>4 DEF UpdateText, BoardMoves
  <2>7. EditorsApart'
    <3>1. edit' = [edit EXCEPT ![q] = NoEdit]
      BY <2>4 DEF UpdateText
    <3>2. ASSUME NEW x \in Slots \ {s}, req[x].phase = "read"
          PROVE  edit'[req[x].editor].item = edit[req[x].editor].item
      <4>1. req[x].editor # q
        BY <1>0, <1>5, <2>1, <3>2 DEF EditorsApart
      <4>2. req[x].editor \in Editors
        BY <3>2, ReqRow DEF TabInv, RequestOK
      <4> QED BY <1>0, <3>1, <4>1, <4>2
    <3> QED BY <1>0, <2>1, <3>2, EditorsProgress
  <2> QED BY <2>1, <2>2, <2>4, <2>5, <2>6, <2>7, AnswersProgress
<1>6. CASE ServeUpdate(s)
  BY <1>4, <1>5, <1>6 DEF ServeUpdate
<1>7. CASE ServeCard(s)
  <2>1. PICK i, face, header :
             /\ i = req[s].item /\ header = req[s].header
             /\ face = IF req[s].kind = "edit" THEN EditForm(item[i]) ELSE Face(item[i])
             /\ Progress(s, "answered", i, face, header)
    BY <1>7 DEF ServeCard
  <2>2. i \in Items /\ Exists(i)
    BY <1>0, <1>7, <2>1 DEF ServeCard, RequestOK
  <2>3. item' = item /\ log' = log /\ edit' = edit /\ arch' = arch
    BY <1>7 DEF ServeCard, vars, boardVars
  <2>4. header # 0 => EventOf(log', header, i, CardTypes)
    BY <2>1, <2>3 DEF SyncAnswers, RequestSync
  <2>5. Exists(i)' /\ face \in {Face(item'[i]), EditForm(item'[i])}
    BY <2>1, <2>2, <2>3 DEF Exists
  <2>6. EditorsApart'
    BY <1>0, <2>1, <2>3, EditorsProgress
  <2> QED BY <2>1, <2>2, <2>3, <2>4, <2>5, <2>6, AnswersProgress
<1> QED BY <1>2, <1>3, <1>6, <1>7


\* A new timer request has no answer.
LEMMA PostsNothing ==
    ASSUME NEW i, NEW path
    PROVE  \A p \in Post(posts, i, path) : p \in posts \/ NothingYet(p)
<1> SUFFICES ASSUME NEW p \in Post(posts, i, path), p \notin posts
             PROVE  NothingYet(p)
  OBVIOUS
<1>1. PICK nr : p = [item |-> i, path |-> path, nr |-> nr, phase |-> "sent", face |-> NoFace,
                     header |-> 0, at |-> 0]
  BY DEF Post
<1> QED BY <1>1 DEF NothingYet

\* A response that arrives leaves the others as they are.
LEMMA AnswersResponse ==
    ASSUME BoardInv, BoardMoves, TabInv, SyncAnswers, NEW s \in Slots, ResponseArrives(s)
    PROVE  SyncAnswers'
<1> DEFINE i == req[s].item
           d == IF req[s].attached THEN Detached(req, i) ELSE req
<1>0. edit' = edit /\ fetches' = fetches
  BY DEF ResponseArrives, vars
<1>1. req' = [d EXCEPT ![s] = NoReq]
  BY DEF ResponseArrives
<1>2. \A p \in posts' : p \in posts \/ NothingYet(p)
  <2>1. posts' = posts \/ posts' = Post(posts, i, "start")
    BY DEF ResponseArrives
  <2> QED BY <2>1, PostsNothing
<1>3. ReqOK /\ DOMAIN d = Slots
  BY DEF TabInv, ReqOK, Detached
<1>4. \A x \in Slots : \E y : d[x] = [req[x] EXCEPT !.attached = y]
  <2>1. \A x \in Slots : \E y : Detached(req, i)[x] = [req[x] EXCEPT !.attached = y]
    BY <1>3, DetachedIs
  <2>2. ASSUME NEW r \in Requests(Len(log))
        PROVE  r = [r EXCEPT !.attached = r.attached]
    BY DEF Requests
  <2>3. \A x \in Slots : \E y : req[x] = [req[x] EXCEPT !.attached = y]
    BY <1>3, <2>2, ReqRow
  <2>4. CASE req[s].attached
    BY Zenon, <2>1, <2>4
  <2>5. CASE ~ req[s].attached
    BY Zenon, <2>3, <2>5
  <2> QED BY <2>4, <2>5
<1> HIDE DEF d
<1>5. ASSUME NEW x \in Slots
      PROVE  SameAnswer(d[x], req[x]) /\ d[x].editor = req[x].editor
  <2>1. ASSUME NEW r \in Requests(Len(log)), NEW y, NEW new, new = [r EXCEPT !.attached = y]
        PROVE  SameAnswer(new, r) /\ new.editor = r.editor
    BY <2>1 DEF SameAnswer, Requests
  <2>2. PICK y : d[x] = [req[x] EXCEPT !.attached = y]
    BY <1>4
  <2>3. req[x] \in Requests(Len(log))
    BY <1>3, ReqRow
  <2> QED BY <2>1, <2>2, <2>3
<1>6. req'[s] = NoReq /\ \A x \in Slots \ {s} : req'[x] = d[x]
  BY <1>1, <1>3
<1>7. EditorsApart'
  BY <1>0, <1>5, <1>6, NoReqNothing, EditorsIdle DEF SyncAnswers, SameAnswer
<1>8. \A x \in Slots : \A r : r = req'[x] => SameAnswer(r, req[x]) \/ NothingYet(r) \/ RequestSync(r)'
  BY <1>5, <1>6, NoReqNothing
<1> QED BY <1>0, <1>2, <1>7, <1>8, AnswersNext

\* A timer request is answered with the card as it is then.
LEMMA AnswersPosts ==
    ASSUME BoardInv, BoardInv', HidesArchives', BoardMoves, TabInv, SyncAnswers,
           NEW p \in posts, ServePost(p) \/ PostArrives(p) \/ PostFails(p)
    PROVE  SyncAnswers'
<1>1. CASE PostArrives(p) \/ PostFails(p)
  <2>1. edit' = edit /\ fetches' = fetches /\ req' = req /\ posts' \subseteq posts
    BY <1>1 DEF PostArrives, PostFails, vars
  <2> QED BY <2>1, AnswersUntouched
<1>2. CASE ServePost(p)
  <2>1. PICK i, face, h, at, q :
             /\ i = p.item /\ face = Face(item'[i]) /\ h = answer'.header /\ at = Moment(i, item'[i], log')
             /\ q = [p EXCEPT !.phase = "answered", !.face = face, !.header = h, !.at = at]
             /\ posts' = (posts \ {p}) \cup {q}
    BY <1>2 DEF ServePost
  <2>2. PostOK(p, Len(log)) /\ i \in Items
    BY <2>1 DEF TabInv, PostsOK, PostOK
  <2>3. q.item = i /\ q.face = face /\ q.header = h /\ q.at = at
    <3>1. PICK j, path, nr, phase, f, e, m :
               p = [item |-> j, path |-> path, nr |-> nr, phase |-> phase, face |-> f,
                    header |-> e, at |-> m]
      BY <2>2 DEF PostOK
    <3> DEFINE old == [item |-> j, path |-> path, nr |-> nr, phase |-> phase, face |-> f,
                       header |-> e, at |-> m]
    <3>2. q = [old EXCEPT !.phase = "answered", !.face = face, !.header = h, !.at = at]
      BY Zenon, <2>1, <3>1
    <3>3. q.item = j /\ q.face = face /\ q.header = h /\ q.at = at
      BY <3>2
    <3> QED BY <2>1, <3>1, <3>3
  <2>4. (\E d \in Submitted : StartItemTimer(i, d)) \/ ExtendItemTimer(i)
    BY <1>2, <2>1 DEF ServePost
  <2>5. arch' = arch /\ edit' = edit /\ Exists(i) /\ fetches' = fetches /\ req' = req
    BY <1>2, <2>4 DEF ServePost, StartItemTimer, ExtendItemTimer
  <2>6. h # 0 => EventOf(log', h, i, TimerEvents)
    BY <2>1, <2>2, <2>4, HeaderSays, CardHeaders, EventOfMore
  <2>7. at = Moment(i, item[i], log)'
    BY <2>1, <2>5, MomentSame
  <2>8. Exists(i)'
    BY <2>2, <2>5 DEF BoardMoves
  <2>9. AnswerSync(i, face, h, at)'
    <3>1. h # 0 => EventOf(log', h, i, CardTypes)
      BY <2>6, CardHeaders, EventOfMore
    <3>2. face \in {Face(item'[i]), EditForm(item'[i])}
      BY <2>1
    <3> QED BY <2>2, <2>7, <2>8, <3>1, <3>2, JustAnswered
  <2>10. PostSync(q)'
    BY <2>3, <2>6, <2>9 DEF PostSync
  <2>11. EditorsApart'
    BY <2>5, EditorsIdle DEF SyncAnswers
  <2>12. \A x \in posts' : x \in posts \/ PostSync(x)'
    BY <2>1, <2>10
  <2> QED BY <2>5, <2>11, <2>12, AnswersNext DEF SameAnswer
<1> QED BY <1>1, <1>2

\* Every step keeps the part of the invariant that is about answers.
LEMMA SyncAnswersStep ==
    ASSUME CardsAssumption, BoardInv, BoardInv', HidesArchives', BoardMoves, TabInv, SyncAnswers,
           [BrowserNext]_browserVars
    PROVE  SyncAnswers'
<1>1. CASE UNCHANGED browserVars
  <2>1. edit' = edit /\ fetches' = fetches /\ req' = req /\ posts' = posts
    BY <1>1 DEF browserVars, vars, tabVars, timerVars
  <2> QED BY <2>1, AnswersUntouched
<1>2. CASE Publish
  <2>1. edit' = edit /\ fetches' = fetches /\ req' = req /\ posts' = posts
    BY <1>2 DEF Publish, vars, timerVars
  <2> QED BY <2>1, AnswersUntouched
<1>3. CASE Settle
  <2>1. edit' = edit /\ fetches' = fetches /\ req' = req /\ posts' = posts
    BY <1>3 DEF Settle, vars, timerVars
  <2> QED BY <2>1, AnswersUntouched
<1>4. ASSUME NEW i \in Items, ClickExtend(i) \/ FallbackTick(i)
      PROVE  SyncAnswers'
  <2>1. edit' = edit /\ fetches' = fetches /\ req' = req
    BY <1>4 DEF ClickExtend, FallbackTick, vars
  <2>2. posts' = posts \/ \E path : posts' = Post(posts, i, path)
    BY <1>4 DEF ClickExtend, FallbackTick
  <2>3. \A p \in posts' : p \in posts \/ NothingYet(p)
    BY <2>2, PostsNothing
  <2> QED BY <2>1, <2>3, AnswersUntouched
<1>5. ASSUME NEW s \in Slots, Request(s)
      PROVE  SyncAnswers'
  <2>1. CASE ServeStatus(s) \/ ServeAdd(s) \/ ServeUpdate(s) \/ ServeCard(s)
    BY <2>1, AnswersServe
  <2>2. CASE ResponseArrives(s)
    BY <2>2, AnswersResponse
  <2>3. CASE \/ \E i, kind, text : Click(s, i, kind, text)
             \/ \E text : SubmitCard(s, text)
             \/ RequestFails(s)
    BY <2>3, AnswersClick
  <2> QED BY <1>5, <2>1, <2>2, <2>3 DEF Request
<1>6. ASSUME NEW f \in fetches, ServeFetch(f) \/ FetchArrives(f) \/ FetchFails(f)
      PROVE  SyncAnswers'
  BY <1>6, AnswersFetch
<1>7. ASSUME NEW p \in posts, ServePost(p) \/ PostArrives(p) \/ PostFails(p)
      PROVE  SyncAnswers'
  BY <1>7, AnswersPosts
<1>8. CASE Elsewhere \/ Listener
  BY <1>8, AnswersElsewhere, AnswersListener
<1>9. CASE \/ \E f \in fetches : ServeFetch(f) \/ FetchArrives(f) \/ FetchFails(f)
           \/ \E p \in posts : ServePost(p) \/ PostArrives(p) \/ PostFails(p)
  BY <1>6, <1>7, <1>9
<1>10. CASE \/ \E s \in Slots : Request(s)
            \/ \E i \in Items : ClickExtend(i) \/ FallbackTick(i)
  BY <1>4, <1>5, <1>10
<1> QED BY <1>1, <1>2, <1>3, <1>8, <1>9, <1>10 DEF BrowserNext


-----------------------------------------------------------------------------
(* The events that come.                                                    *)

NewestGrows == \A i \in Items, f \in Fields :
    newest'[i][f] \in Int /\ newest[i][f] \in Int /\ newest[i][f] <= newest'[i][f]

\* The places that the tab knows are numbers.
LEMMA NewestInt ==
    ASSUME BoardInv, TabInv, NEW i \in Items, NEW f \in Fields
    PROVE  newest[i][f] \in Int /\ newest[i][f] \in 0 .. Len(log)
<1>1. newest[i] \in [Fields -> Int] /\ newest[i] \in [Fields -> 0 .. Len(log)]
  BY PlacesInt DEF TabInv
<1> QED BY <1>1

\* Being told of something, the tab knows no less than before.
LEMMA ToldGrows ==
    ASSUME BoardInv, TabInv, NEW j, NEW fields, NEW p \in Int, newest' = Told(newest, j, fields, p)
    PROVE  NewestGrows /\ \A f \in fields \cap Fields : j \in Items => p <= newest'[j][f]
<1>1. ASSUME NEW i \in Items, NEW f \in Fields
      PROVE  /\ newest'[i][f] \in Int /\ newest[i][f] \in Int /\ newest[i][f] <= newest'[i][f]
             /\ i = j /\ f \in fields => p <= newest'[i][f]
  <2>1. newest[i][f] \in Int
    BY NewestInt
  <2>2. newest'[i][f] = IF i = j /\ f \in fields THEN Later(newest[i][f], p) ELSE newest[i][f]
    BY ToldField DEF TabInv
  <2> QED BY <2>1, <2>2 DEF Later
<1> QED BY <1>1 DEF NewestGrows

\* The same when it is told of nothing.
LEMMA NewestIdle ==
    ASSUME BoardInv, TabInv, newest' = newest
    PROVE  NewestGrows
<1>1. ASSUME NEW i \in Items, NEW f \in Fields
      PROVE  newest'[i][f] \in Int /\ newest[i][f] \in Int /\ newest[i][f] <= newest'[i][f]
  <2>1. newest[i][f] \in Int
    BY NewestInt
  <2> QED BY <2>1
<1> QED BY <1>1 DEF NewestGrows

\* The listener waits, and what becomes the tab's own event is known.
LEMMA StreamOwn ==
    ASSUME BoardInv, TabInv, TabInv', BoardMoves, SyncStream, UNCHANGED <<queue, cursor>>, NewestGrows,
           NEW h \in 0 .. Len(log), applied' \subseteq applied \cup {h},
           \A i \in Items, f \in Fields :
              h \in DOMAIN log' /\ Unarchived(i)' /\ Says(log', h, i, NewsTypes(f)) => h <= newest'[i][f]
    PROVE  SyncStream'
<1>1. newest' \in [Items -> [Fields -> Int]]
  <2>1. newest' \in [Items -> [Fields -> 0 .. Len(log')]] /\ Len(log') \in Nat
    BY DEF TabInv, ShownOK, Places, BoardMoves, Grows
  <2> QED BY <2>1
<1>2. \A e \in applied' : e \in 0 .. Len(log)
  BY DEF TabInv, StreamOK, Places
<1>3. \A i \in Items, f \in Fields : newest[i][f] <= newest'[i][f]
  BY DEF NewestGrows
<1> DEFINE own == {h}
<1>4. \A i \in Items, f \in Fields, e \in own \cap DOMAIN log' :
              Unarchived(i)' /\ Says(log', e, i, NewsTypes(f)) => e <= newest'[i][f]
  OBVIOUS
<1>5. applied' \subseteq applied \cup own
  OBVIOUS
<1> HIDE DEF own
<1> QED BY <1>1, <1>2, <1>3, <1>4, <1>5, StreamSync

\* Ids in their order ascend.
LEMMA InOrderGrows ==
    ASSUME NEW m \in Nat, NEW ids \in SUBSET (0 .. m), NEW j \in DOMAIN InOrder(ids),
           NEW k \in DOMAIN InOrder(ids), j < k
    PROVE  InOrder(ids)[j] < InOrder(ids)[k]
<1>1. Cardinality(ids) \in Nat /\ \A e : IsFiniteSet(UpTo(ids, e)) /\ Cardinality(UpTo(ids, e)) \in Nat
  BY UpToCount
<1>2. j \in 1 .. Cardinality(ids) /\ k \in 1 .. Cardinality(ids)
      /\ InOrder(ids)[j] = Nth(ids, j) /\ InOrder(ids)[k] = Nth(ids, k)
  BY DEF InOrder
<1> DEFINE a == Nth(ids, j)
           b == Nth(ids, k)
<1>3. a \in ids /\ b \in ids /\ Cardinality(UpTo(ids, a)) = j /\ Cardinality(UpTo(ids, b)) = k
  BY <1>2, NthIs
<1> HIDE DEF a, b
<1>4. a \in Int /\ b \in Int
  BY <1>3
<1>5. ASSUME b <= a
      PROVE  FALSE
  <2>1. \A x \in ids : x <= b => x <= a
    BY <1>4, <1>5
  <2>2. UpTo(ids, b) \subseteq UpTo(ids, a)
    BY <2>1 DEF UpTo
  <2>3. k <= j
    BY <1>1, <1>3, <2>2, FS_Subset
  <2> QED BY <1>1, <1>2, <2>3
<1> QED BY <1>2, <1>4, <1>5 DEF a, b

Lists(new, ids) == \A e \in ids : \E k \in DOMAIN new : new[k] = e

\* What the notifier sends.
LEMMA PublishSends ==
    ASSUME BoardInv, TabInv, Publish, NEW ids, ids = {e \in DOMAIN log : cursor < e /\ Visible(log, e)},
           NEW new, new = InOrder(ids)
    PROVE  /\ ids \subseteq DOMAIN log /\ ids \in SUBSET (0 .. Len(log))
           /\ new \in Seq(ids) /\ queue' = queue \o new
           /\ Lists(new, ids)
           /\ cursor' \in ids /\ \A e \in ids : e <= cursor'
<1>1. Len(log) \in Nat /\ DOMAIN log = 1 .. Len(log)
  BY LogType
<1>2. ids \subseteq DOMAIN log /\ ids \in SUBSET (0 .. Len(log))
  BY <1>1
<1>3. new \in Seq(ids)
  BY <1>1, <1>2, InOrderType
<1>4. ids # {} /\ queue' = queue \o new /\ cursor' = Max(ids)
  BY DEF Publish
<1>5. Lists(new, ids)
  <2> SUFFICES ASSUME NEW e \in ids PROVE \E k \in DOMAIN new : new[k] = e
    BY DEF Lists
  <2> DEFINE k == Cardinality(UpTo(ids, e))
  <2>1. k \in 1 .. Cardinality(ids) /\ Nth(ids, k) = e
    BY <1>1, <1>2, IsNth
  <2> HIDE DEF k
  <2>2. new[k] = e /\ k \in DOMAIN new
    BY <2>1 DEF InOrder
  <2> QED BY <2>2
<1>6. cursor' \in ids /\ \A e \in ids : e <= cursor'
  <2>1. \E m \in ids : \A x \in ids : x <= m
    BY <1>1, <1>2, <1>4, HasMax
  <2>2. \A x, y \in ids : x <= y <=> y >= x
    BY <1>2
  <2>3. Max(ids) \in ids /\ \A x \in ids : Max(ids) >= x
    BY <2>1, <2>2 DEF Max
  <2> QED BY <1>4, <2>2, <2>3
<1> QED BY <1>2, <1>3, <1>4, <1>5, <1>6

\* The events of cards are among it.
LEMMA PublishComes ==
    ASSUME BoardInv, HidesArchives, TabInv, Publish, NEW x, ToCome(x), NEW i, Says(log, x, i, CardTypes)
    PROVE  ToCome(x)'
<1>1. PICK ids, new : ids = {e \in DOMAIN log : cursor < e /\ Visible(log, e)} /\ new = InOrder(ids)
  OBVIOUS
<1>2. /\ ids \subseteq DOMAIN log /\ ids \in SUBSET (0 .. Len(log))
      /\ new \in Seq(ids) /\ queue' = queue \o new
      /\ Lists(new, ids)
      /\ cursor' \in ids /\ \A e \in ids : e <= cursor'
  BY <1>1, PublishSends
<1>3. log' = log /\ applied' = applied /\ queue \in Seq(DOMAIN log)
  BY DEF Publish, vars, TabInv, StreamOK
<1>4. /\ Len(queue) \in Nat /\ DOMAIN queue = 1 .. Len(queue)
      /\ Len(new) \in Nat /\ DOMAIN new = 1 .. Len(new)
      /\ DOMAIN queue' = 1 .. Len(queue) + Len(new)
      /\ \A k \in 1 .. Len(queue) + Len(new) :
            queue'[k] = IF k <= Len(queue) THEN queue[k] ELSE new[k - Len(queue)]
  BY <1>2, <1>3, LenProperties, ConcatProperties
<1>5. Queued(x)'
  <2>1. CASE Queued(x)
    <3>1. PICK k \in DOMAIN queue : queue[k] = x
      BY <2>1 DEF Queued
    <3>2. k \in DOMAIN queue' /\ queue'[k] = x
      BY <1>4, <3>1
    <3> QED BY <3>2 DEF Queued
  <2>2. CASE cursor < x
    <3>1. x \in DOMAIN log /\ Visible(log, x)
      BY CardVisible DEF ToCome
    <3>2. PICK k \in DOMAIN new : new[k] = x
      BY <1>1, <1>2, <2>2, <3>1 DEF Lists
    <3>3. Len(queue) + k \in DOMAIN queue' /\ queue'[Len(queue) + k] = x
      BY <1>4, <3>2
    <3> QED BY <3>3 DEF Queued
  <2> QED BY <2>1, <2>2 DEF ToCome
<1> QED BY <1>3, <1>5 DEF ToCome

\* The stream passes nothing by.
LEMMA StreamPublish ==
    ASSUME BoardInv, HidesArchives, TabInv, SyncStream, Publish
    PROVE  SyncStream'
<1>1. PICK ids, new : ids = {x \in DOMAIN log : cursor < x /\ Visible(log, x)} /\ new = InOrder(ids)
  OBVIOUS
<1>2. /\ ids \subseteq DOMAIN log /\ ids \in SUBSET (0 .. Len(log)) /\ new \in Seq(ids) /\ queue' = queue \o new
      /\ cursor' \in ids /\ \A e \in ids : e <= cursor'
  BY <1>1, PublishSends
<1>3. log' = log /\ item' = item /\ newest' = newest /\ queue \in Seq(DOMAIN log)
      /\ Len(log) \in Nat /\ DOMAIN log = 1 .. Len(log) /\ cursor \in 0 .. Len(log)
  BY LogType DEF Publish, vars, boardVars, shownVars, TabInv, StreamOK, Places
<1>4. /\ Len(queue) \in Nat /\ DOMAIN queue = 1 .. Len(queue)
      /\ Len(new) \in Nat /\ DOMAIN new = 1 .. Len(new)
      /\ DOMAIN queue' = 1 .. Len(queue) + Len(new)
      /\ \A k \in 1 .. Len(queue) + Len(new) :
            queue'[k] = IF k <= Len(queue) THEN queue[k] ELSE new[k - Len(queue)]
  BY <1>2, <1>3, LenProperties, ConcatProperties
<1>5. \A k \in DOMAIN new : new[k] \in ids /\ new[k] \in Int
  BY <1>2, ElementOfSeq
<1>6. \A k \in DOMAIN queue : queue[k] \in Int /\ queue[k] <= cursor
  <2>1. \A k \in DOMAIN queue : queue[k] \in DOMAIN log
    BY <1>3, ElementOfSeq
  <2>2. \A k \in DOMAIN queue : queue[k] <= cursor
    BY DEF SyncStream, QueueInOrder
  <2> QED BY <1>3, <2>1, <2>2
<1>7. QueueInOrder'
  <2> SUFFICES ASSUME NEW j \in DOMAIN queue', NEW k \in DOMAIN queue'
               PROVE  queue'[k] <= cursor' /\ (j < k => queue'[j] < queue'[k])
    BY DEF QueueInOrder
  <2>1. cursor < cursor' /\ cursor' \in Int
    BY <1>1, <1>2
  <2>2. CASE k <= Len(queue)
    <3>1. k \in DOMAIN queue /\ queue'[k] = queue[k]
      BY <1>4, <2>2
    <3>2. j < k => j \in DOMAIN queue /\ queue'[j] = queue[j]
      BY <1>4, <2>2
    <3>3. j < k => queue[j] < queue[k]
      BY <3>1, <3>2 DEF SyncStream, QueueInOrder
    <3> QED BY <1>3, <1>6, <2>1, <3>1, <3>2, <3>3
  <2>3. CASE ~ (k <= Len(queue))
    <3>1. k - Len(queue) \in DOMAIN new /\ queue'[k] = new[k - Len(queue)]
      BY <1>4, <2>3
    <3>2. queue'[k] \in ids /\ queue'[k] \in Int
      BY <1>5, <3>1
    <3>3. queue'[k] <= cursor' /\ cursor < queue'[k]
      BY <1>1, <1>2, <3>2
    <3>4. CASE j <= Len(queue)
      <4>1. j \in DOMAIN queue /\ queue'[j] = queue[j]
        BY <1>4, <3>4
      <4>2. queue'[j] \in Int /\ queue'[j] <= cursor
        BY <1>6, <4>1
      <4> QED BY <1>3, <3>2, <3>3, <4>2
    <3>5. CASE ~ (j <= Len(queue))
      <4>1. j - Len(queue) \in DOMAIN new /\ queue'[j] = new[j - Len(queue)]
        BY <1>4, <3>5
      <4>2. j < k => j - Len(queue) < k - Len(queue)
        BY <1>4
      <4>3. j < k => new[j - Len(queue)] < new[k - Len(queue)]
        BY <1>1, <1>2, <1>3, <3>1, <4>1, <4>2, InOrderGrows
      <4> QED BY <3>1, <3>3, <4>1, <4>3
    <3> QED BY <3>4, <3>5
  <2> QED BY <2>2, <2>3
<1>8. NewsComes'
  <2> SUFFICES ASSUME NEW i \in Items, Unarchived(i)', NEW f \in Fields, NEW e \in DOMAIN log',
                      Says(log', e, i, NewsTypes(f)), newest'[i][f] < e
               PROVE  ToCome(e)'
    BY DEF NewsComes
  <2>1. Unarchived(i)
    BY <1>3 DEF Unarchived
  <2>2. ToCome(e)
    BY <1>3, <2>1 DEF SyncStream, NewsComes
  <2>3. Says(log, e, i, CardTypes)
    BY <1>3, NewsAreCards DEF Says
  <2> QED BY <2>2, <2>3, PublishComes
<1> QED BY <1>7, <1>8 DEF SyncStream


\* The listener takes the event that is first in the queue and in the log.
LEMMA HeadIsFirst ==
    ASSUME BoardInv, TabInv, QueueInOrder, queue # << >>, Handled, NEW e, e = Head(queue)
    PROVE  /\ e \in DOMAIN log /\ e \in Int /\ Queued(e) /\ QueueInOrder'
           /\ \A x : x # e /\ ToCome(x) => ToCome(x)'
           /\ \A x : Queued(x) => e <= x
           /\ \A x : ToCome(x) => e <= x
           /\ e \notin applied => ToCome(e)
<1>1. queue \in Seq(DOMAIN log) /\ queue' = Tail(queue) /\ UNCHANGED <<log, cursor, applied>>
  BY DEF TabInv, StreamOK, Handled, vars
<1>2. /\ Len(queue) \in Nat \ {0} /\ DOMAIN queue = 1 .. Len(queue) /\ e = queue[1]
      /\ DOMAIN Tail(queue) = 1 .. Len(queue) - 1
      /\ \A k \in 1 .. Len(queue) - 1 : Tail(queue)[k] = queue[k + 1]
  BY <1>1, LenProperties, EmptySeq, HeadTailProperties
<1>3. \A k \in DOMAIN queue : queue[k] \in DOMAIN log
  BY <1>1, ElementOfSeq
<1>4. Len(log) \in Nat /\ DOMAIN log = 1 .. Len(log) /\ cursor \in Int
  BY LogType DEF TabInv, StreamOK, Places
<1>5. e \in DOMAIN log /\ Queued(e) /\ e \in Int
  BY <1>2, <1>3, <1>4 DEF Queued
<1>6. QueueInOrder'
  <2> SUFFICES ASSUME NEW j \in DOMAIN queue', NEW k \in DOMAIN queue'
               PROVE  queue'[k] <= cursor' /\ (j < k => queue'[j] < queue'[k])
    BY DEF QueueInOrder
  <2>1. queue'[j] = queue[j + 1] /\ queue'[k] = queue[k + 1] /\ j + 1 \in DOMAIN queue /\ k + 1 \in DOMAIN queue
    BY <1>1, <1>2
  <2>2. j < k => j + 1 < k + 1
    BY <1>1, <1>2
  <2> QED BY <1>1, <2>1, <2>2 DEF QueueInOrder
<1>7. ASSUME NEW x, x # e, ToCome(x)
      PROVE  ToCome(x)'
  <2>1. CASE cursor < x
    BY <1>1, <1>7, <2>1 DEF ToCome
  <2>2. CASE Queued(x)
    <3>1. PICK k \in DOMAIN queue : queue[k] = x
      BY <2>2 DEF Queued
    <3>2. k # 1 /\ k - 1 \in 1 .. Len(queue) - 1
      BY <1>2, <1>7, <3>1
    <3>3. Tail(queue)[k - 1] = x
      BY <1>2, <3>1, <3>2
    <3> QED BY <1>1, <1>2, <1>7, <3>2, <3>3 DEF ToCome, Queued
  <2> QED BY <1>7, <2>1, <2>2 DEF ToCome
<1>8. ASSUME NEW x, Queued(x)
      PROVE  e <= x
  <2>1. PICK k \in DOMAIN queue : queue[k] = x
    BY <1>8 DEF Queued
  <2>2. CASE k = 1
    BY <1>2, <1>5, <2>1, <2>2
  <2>3. CASE k # 1
    <3>1. 1 \in DOMAIN queue /\ 1 < k
      BY <1>2, <2>1, <2>3
    <3>2. e < x
      BY <1>2, <2>1, <3>1 DEF QueueInOrder
    <3>3. x \in Int
      BY <1>3, <1>4, <2>1
    <3> QED BY <1>5, <3>2, <3>3
  <2> QED BY <2>2, <2>3
<1>9. ASSUME NEW x, ToCome(x)
      PROVE  e <= x
  <2>1. CASE Queued(x)
    BY <1>8, <2>1
  <2>2. CASE cursor < x
    <3>1. e <= cursor
      BY <1>2 DEF QueueInOrder
    <3>2. x \in Int
      BY <1>4, <1>9 DEF ToCome
    <3> QED BY <1>4, <1>5, <2>2, <3>1, <3>2
  <2> QED BY <1>9, <2>1, <2>2 DEF ToCome
<1>10. e \notin applied => ToCome(e)
  BY <1>5 DEF ToCome
<1> QED BY <1>5, <1>6, <1>7, <1>8, <1>9, <1>10

\* What the listener does with it.
LEMMA ListenerTold ==
    ASSUME BoardInv, TabInv, Listener, NEW e, e = Head(queue), e \in DOMAIN log
    PROVE  /\ NewestGrows
           /\ \A i \in Items, f \in Fields :
                 e \notin applied /\ Says(log, e, i, NewsTypes(f)) => e <= newest'[i][f]
<1>0. e \in Int
  BY LogType
<1>1. CASE DropOwn
  BY <1>1, NewestIdle DEF DropOwn, IsOwn, shownVars
<1>2. ASSUME NEW fields, newest' = Told(newest, log[e].item, fields, e),
             \A f \in Fields : log[e].type \in NewsTypes(f) => f \in fields
      PROVE  /\ NewestGrows
             /\ \A i \in Items, f \in Fields : Says(log, e, i, NewsTypes(f)) => e <= newest'[i][f]
  <2>1. NewestGrows /\ \A f \in fields \cap Fields : log[e].item \in Items => e <= newest'[log[e].item][f]
    BY <1>0, <1>2, ToldGrows
  <2> QED BY <1>2, <2>1 DEF Says
<1>3. CASE OnItemCreated
  <2>1. newest' = Told(newest, log[e].item, {"card"}, e) /\ log[e].type = "ITEM_CREATED"
    BY <1>3 DEF OnItemCreated, Receives
  <2>2. \A f \in Fields : log[e].type \in NewsTypes(f) => f \in {"card"}
    BY <2>1 DEF NewsTypes, Fields
  <2> QED BY <1>2, <2>1, <2>2
<1>4. CASE OnItemStatusChanged
  <2>1. newest' = Told(newest, log[e].item, {"card", "timer"}, e) /\ log[e].type = "ITEM_STATUS_CHANGED"
    BY <1>4 DEF OnItemStatusChanged, Receives
  <2>2. \A f \in Fields : log[e].type \in NewsTypes(f) => f \in {"card", "timer"}
    BY <2>1 DEF NewsTypes, Fields
  <2> QED BY <1>2, <2>1, <2>2
<1>5. CASE OnItemUpdated
  <2>1. newest' = Told(newest, log[e].item, {"text"}, e) /\ log[e].type = "ITEM_UPDATED"
    BY <1>5 DEF OnItemUpdated, Receives, InPlace
  <2>2. \A f \in Fields : log[e].type \in NewsTypes(f) => f \in {"text"}
    BY <2>1 DEF NewsTypes, Fields
  <2> QED BY <1>2, <2>1, <2>2
<1>6. CASE OnTimerUpdated
  <2>1. newest' = Told(newest, log[e].item, {"timer"}, e) /\ log[e].type \in {"TIMER_STARTED", "TIMER_EXTENDED"}
    BY <1>6 DEF OnTimerUpdated, Receives, InPlace
  <2>2. \A f \in Fields : log[e].type \in NewsTypes(f) => f \in {"timer"}
    BY <2>1 DEF NewsTypes, Fields
  <2> QED BY <1>2, <2>1, <2>2
<1>7. CASE OnTimerElapsed
  <2>1. newest' = Told(newest, log[e].item, {"timer"}, e) /\ log[e].type = "TIMER_ELAPSED"
    BY <1>7 DEF OnTimerElapsed, Receives
  <2>2. \A f \in Fields : log[e].type \in NewsTypes(f) => f \in {"timer"}
    BY <2>1 DEF NewsTypes, Fields
  <2> QED BY <1>2, <2>1, <2>2
<1>8. CASE OnRetroArchived
  <2>1. newest' = [i \in Items |-> [f \in Fields |-> Later(newest[i][f], e)]]
        /\ log[e].type = "RETRO_ARCHIVED"
    BY <1>8 DEF OnRetroArchived, Receives
  <2>2. ASSUME NEW i \in Items, NEW f \in Fields
        PROVE  newest'[i][f] \in Int /\ newest[i][f] \in Int /\ newest[i][f] <= newest'[i][f]
    <3>1. newest[i][f] \in Int /\ newest'[i][f] = Later(newest[i][f], e)
      BY <2>1, NewestInt
    <3> QED BY <1>0, <3>1 DEF Later
  <2>3. \A f \in Fields : log[e].type \notin NewsTypes(f)
    BY <2>1 DEF NewsTypes, Fields
  <2> QED BY <2>2, <2>3 DEF NewestGrows, Says
<1> QED BY <1>1, <1>3, <1>4, <1>5, <1>6, <1>7, <1>8 DEF Listener

\* Every listener takes the first event of the queue.
LEMMA ListenerHandles == Listener => queue # << >> /\ Handled
BY DEF Listener, DropOwn, OnItemCreated, OnItemStatusChanged, OnItemUpdated, OnTimerUpdated,
       OnTimerElapsed, OnRetroArchived, Receives

\* What a listener handles is known afterwards, or it is an own event and was
\* known.
LEMMA StreamListener ==
    ASSUME BoardInv, TabInv, SyncStream, Listener
    PROVE  SyncStream'
<1>0. queue # << >> /\ Handled
  BY ListenerHandles
<1>1. PICK e : e = Head(queue)
  OBVIOUS
<1>2. /\ e \in DOMAIN log /\ e \in Int /\ QueueInOrder'
      /\ \A x : x # e /\ ToCome(x) => ToCome(x)'
  BY <1>0, <1>1, HeadIsFirst DEF SyncStream
<1>3. /\ NewestGrows
      /\ \A i \in Items, f \in Fields :
            e \notin applied /\ Says(log, e, i, NewsTypes(f)) => e <= newest'[i][f]
  BY <1>1, <1>2, ListenerTold
<1>4. log' = log /\ item' = item
  BY <1>0 DEF Handled, vars, boardVars
<1> SUFFICES ASSUME NEW i \in Items, Unarchived(i)', NEW f \in Fields, NEW x \in DOMAIN log',
                    Says(log', x, i, NewsTypes(f)), newest'[i][f] < x
             PROVE  ToCome(x)'
  BY <1>2 DEF SyncStream, NewsComes
<1>5. newest'[i][f] \in Int /\ newest[i][f] \in Int /\ newest[i][f] <= newest'[i][f]
  BY <1>3 DEF NewestGrows
<1>6. x \in Int
  BY <1>4, LogType
<1>7. newest[i][f] < x
  BY <1>5, <1>6
<1>8. ToCome(x)
  <2>1. Unarchived(i)
    BY <1>4 DEF Unarchived
  <2> QED BY <1>4, <1>7, <2>1 DEF SyncStream, NewsComes
<1>9. x # e
  <2>1. x \notin applied
    BY <1>8 DEF ToCome
  <2>2. ~ (x <= newest'[i][f])
    BY <1>5, <1>6
  <2> QED BY <1>3, <1>4, <2>1, <2>2
<1> QED BY <1>2, <1>8, <1>9

\* A response that names an event of its card is as new as the event.
LEMMA StreamResponse ==
    ASSUME BoardInv, TabInv, TabInv', BoardMoves, SyncStream, SyncAnswers, NEW s \in Slots, ResponseArrives(s)
    PROVE  SyncStream'
<1>1. PICK r, i, h, at : r = req[s] /\ i = r.item /\ h = r.header /\ at = r.at
  OBVIOUS
<1>2. log' = log /\ item' = item /\ queue' = queue /\ cursor' = cursor
  BY DEF ResponseArrives, vars, boardVars
<1>3. r \in Requests(Len(log)) /\ RequestOK(r) /\ RequestSync(r)
  <2>1. r \in Requests(Len(log)) /\ RequestOK(r)
    BY <1>1, ReqRow DEF TabInv
  <2>2. \A x : x = req[s] => RequestSync(x)
    BY DEF SyncAnswers
  <2> QED BY <1>1, <2>1, <2>2
<1>4. r.phase = "answered"
  BY <1>1 DEF ResponseArrives
<1>5. i \in Items /\ h \in 0 .. Len(log) /\ at \in 0 .. Len(log) /\ Len(log) \in Nat
  BY <1>1, <1>3, <1>4, LogType DEF Requests, RequestOK
<1>6. (h # 0 => EventOf(log, h, i, CardTypes)) /\ (Unarchived(i) => h <= at)
  BY <1>1, <1>3, <1>4 DEF RequestSync, AnswerSync
<1>7. CASE ~ r.attached
  <2>1. UNCHANGED <<newest, queue, cursor, applied>>
    BY <1>1, <1>2, <1>7 DEF ResponseArrives
  <2> QED BY <2>1, StreamIdle
<1>8. CASE r.attached
  <2>1. newest' = Told(newest, i, Fields, at) /\ applied' \subseteq applied \cup {h}
    BY <1>1, <1>8 DEF ResponseArrives
  <2>2. at \in Int
    BY <1>5
  <2>3. NewestGrows /\ \A f \in Fields : at <= newest'[i][f]
    BY <1>5, <2>1, <2>2, ToldGrows
  <2>4. ASSUME NEW j \in Items, NEW f \in Fields, h \in DOMAIN log', Unarchived(j)', Says(log', h, j, NewsTypes(f))
        PROVE  h <= newest'[j][f]
    <3>1. h # 0
      BY <1>2, <2>4, LogType
    <3>2. j = i
      BY <1>2, <1>6, <2>4, <3>1 DEF EventOf, Says
    <3>3. Unarchived(i)
      BY <1>2, <2>4, <3>2 DEF Unarchived
    <3>4. h <= at /\ at <= newest'[i][f] /\ newest'[i][f] \in Int
      BY <1>5, <1>6, <2>3, <3>3 DEF NewestGrows
    <3>5. h \in Int /\ at \in Int
      BY <1>5
    <3> QED BY <3>2, <3>4, <3>5
  <2> QED BY <1>2, <1>5, <2>1, <2>3, <2>4, StreamOwn
<1> QED BY <1>7, <1>8

\* The event of a timer request is news of the timer alone.
LEMMA TimerNews ==
    ASSUME NEW f \in Fields, NewsTypes(f) \cap TimerEvents # {}
    PROVE  f = "timer"
BY DEF Fields, NewsTypes, TimerEvents

\* The event that a timer answer has told of is known before it is dropped.
LEMMA StreamPost ==
    ASSUME BoardInv, TabInv, TabInv', BoardMoves, SyncStream, SyncAnswers, NEW p \in posts, PostArrives(p)
    PROVE  SyncStream'
<1>1. PICK i, h, at : i = p.item /\ h = p.header /\ at = p.at
  OBVIOUS
<1>2. log' = log /\ item' = item /\ queue' = queue /\ cursor' = cursor
  BY DEF PostArrives, vars, boardVars
<1>3. PostOK(p, Len(log)) /\ PostSync(p) /\ p.phase = "answered"
  BY DEF TabInv, PostsOK, SyncAnswers, PostArrives
<1>5. i \in Items /\ h \in 0 .. Len(log) /\ at \in 0 .. Len(log) /\ Len(log) \in Nat
  BY <1>1, <1>3, LogType DEF PostOK
<1>6. (h # 0 => EventOf(log, h, i, TimerEvents)) /\ (Unarchived(i) => h <= at)
  BY <1>1, <1>3 DEF PostSync, AnswerSync
<1>7. applied' \subseteq applied \cup {h}
  BY <1>1 DEF PostArrives
<1>8. PICK m : m \in {at, h} /\ newest' = Told(newest, i, {"timer"}, m)
  <2>1. newest' = Told(newest, i, {"timer"}, at) \/ newest' = Told(newest, i, {"timer"}, h)
    BY <1>1 DEF PostArrives
  <2> QED BY <2>1
<1>9. m \in Int /\ at \in Int /\ h \in Int
  BY <1>5, <1>8
<1>10. NewestGrows /\ m <= newest'[i]["timer"]
  <2>1. NewestGrows /\ \A f \in {"timer"} \cap Fields : m <= newest'[i][f]
    BY <1>5, <1>8, <1>9, ToldGrows
  <2> QED BY <2>1 DEF Fields
<1>11. ASSUME NEW j \in Items, NEW f \in Fields, h \in DOMAIN log', Unarchived(j)', Says(log', h, j, NewsTypes(f))
       PROVE  h <= newest'[j][f]
  <2>1. h # 0
    BY <1>2, <1>11, LogType
  <2>2. j = i /\ log[h].type \in TimerEvents /\ log[h].type \in NewsTypes(f)
    BY <1>2, <1>6, <1>11, <2>1 DEF EventOf, Says
  <2>3. f = "timer"
    BY <2>2, TimerNews
  <2>4. Unarchived(i)
    BY <1>2, <1>11, <2>2 DEF Unarchived
  <2>5. h <= m /\ newest'[i][f] \in Int
    BY <1>6, <1>8, <1>9, <1>10, <2>2, <2>4 DEF NewestGrows
  <2> QED BY <1>9, <1>10, <2>2, <2>3, <2>5
<1> QED BY <1>2, <1>5, <1>7, <1>10, <1>11, StreamOwn

\* A card that is fetched is news of its own.
LEMMA StreamFetch ==
    ASSUME BoardInv, TabInv, TabInv', BoardMoves, SyncStream, NEW f \in fetches, FetchArrives(f)
    PROVE  SyncStream'
<1>1. queue' = queue /\ cursor' = cursor /\ applied' = applied
  BY DEF FetchArrives, streamVars
<1>2. f.at \in 0 .. Len(log) /\ Len(log) \in Nat
  BY LogType DEF TabInv, FetchesOK, Fetches
<1>3. newest' = newest \/ newest' = Told(newest, f.item, Fields, f.at)
  BY DEF FetchArrives, InsertCard, ReplaceCard
<1>4. NewestGrows
  <2>1. f.at \in Int
    BY <1>2
  <2> QED BY <1>3, <2>1, NewestIdle, ToldGrows
<1>5. 0 \in 0 .. Len(log) /\ applied' \subseteq applied \cup {0} /\ 0 \notin DOMAIN log'
  BY <1>1, <1>2 DEF BoardMoves, Grows
<1> QED BY <1>1, <1>4, <1>5, StreamOwn

\* The steps that leave what the tab has been told of and the stream alone.
LEMMA StreamLeft ==
    ASSUME \/ UNCHANGED browserVars
           \/ Elsewhere
           \/ Settle
           \/ \E f \in fetches : ServeFetch(f) \/ FetchFails(f)
           \/ \E s \in Slots : Request(s) /\ ~ ResponseArrives(s)
           \/ \E p \in posts : ServePost(p) \/ PostFails(p)
           \/ \E i \in Items : ClickExtend(i) \/ FallbackTick(i)
    PROVE  UNCHANGED <<newest, queue, cursor, applied>>
<1>1. CASE UNCHANGED browserVars \/ Elsewhere
  BY <1>1 DEF browserVars, Elsewhere, tabVars, shownVars, streamVars
<1>2. CASE Settle \/ \E f \in fetches : ServeFetch(f) \/ FetchFails(f)
  BY <1>2 DEF Settle, ServeFetch, FetchFails, shownVars, streamVars
<1>3. ASSUME NEW s \in Slots, Request(s), ~ ResponseArrives(s)
      PROVE  UNCHANGED <<newest, queue, cursor, applied>>
  <2>1. \A i, kind, text : Click(s, i, kind, text) => UNCHANGED <<newest, queue, cursor, applied>>
    BY DEF Click, streamVars
  <2>2. \A text : SubmitCard(s, text) => UNCHANGED <<newest, queue, cursor, applied>>
    BY DEF SubmitCard, shownVars, streamVars
  <2>3. ServeStatus(s) \/ ServeAdd(s) \/ ServeCard(s) => UNCHANGED <<newest, queue, cursor, applied>>
    BY DEF ServeStatus, ServeAdd, ServeCard, Progress, shownVars, streamVars
  <2>4. ServeUpdate(s) \/ RequestFails(s) => UNCHANGED <<newest, queue, cursor, applied>>
    BY DEF ServeUpdate, RequestFails, Progress, shownVars, streamVars
  <2> QED BY <1>3, <2>1, <2>2, <2>3, <2>4 DEF Request
<1>4. CASE \E p \in posts : ServePost(p) \/ PostFails(p)
  BY <1>4 DEF ServePost, PostFails, shownVars, streamVars
<1>5. CASE \E i \in Items : ClickExtend(i) \/ FallbackTick(i)
  BY <1>5 DEF ClickExtend, FallbackTick, shownVars, streamVars
<1> QED BY <1>1, <1>2, <1>3, <1>4, <1>5

\* Every step keeps the part of the invariant that is about the stream.
LEMMA SyncStreamStep ==
    ASSUME BoardInv, TabInv, TabInv', BoardMoves, HidesArchives, SyncStream, SyncAnswers,
           [BrowserNext]_browserVars
    PROVE  SyncStream'
<1>1. CASE Publish \/ Listener
  BY <1>1, StreamPublish, StreamListener
<1>2. CASE \E f \in fetches : FetchArrives(f)
  BY <1>2, StreamFetch
<1>3. CASE \E s \in Slots : ResponseArrives(s)
  BY <1>3, StreamResponse
<1>4. CASE \E p \in posts : PostArrives(p)
  BY <1>4, StreamPost
<1>5. CASE \/ UNCHANGED browserVars
           \/ Elsewhere
           \/ Settle
           \/ \E f \in fetches : ServeFetch(f) \/ FetchFails(f)
           \/ \E s \in Slots : Request(s) /\ ~ ResponseArrives(s)
           \/ \E p \in posts : ServePost(p) \/ PostFails(p)
           \/ \E i \in Items : ClickExtend(i) \/ FallbackTick(i)
  BY <1>5, StreamLeft, StreamIdle
<1> QED BY <1>1, <1>2, <1>3, <1>4, <1>5 DEF BrowserNext

-----------------------------------------------------------------------------
(* The cards on the board.                                                  *)

\* The steps that leave the board, the news and what is due alone.
LEMMA BoardIdle ==
    ASSUME BoardInv, TabInv, BoardMoves, SyncBoard,
           UNCHANGED <<board, newest, overtaken, queue, cursor, applied>>,
           \A i \in Items : deadlines'[i] \in {deadlines[i], 0},
           \A i \in Items : \A x : Asked(i, x) => Asked(i, x)'
    PROVE  SyncBoard'
<1> SUFFICES ASSUME NEW i \in Items PROVE CardSync(i)'
  BY DEF SyncBoard
<1>1. Grows /\ ShownOK /\ CardSync(i)
  BY DEF BoardMoves, TabInv, SyncBoard
<1>2. DueAt(i) \subseteq DueAt(i)'
  BY <1>1, DueStays, ToComeStays
<1> QED BY <1>1, <1>2, CardUntouched

\* What was asked for stays so,
LEMMA AskedStays ==
    ASSUME fetches \subseteq fetches'
    PROVE  \A i \in Items : \A x : Asked(i, x) => Asked(i, x)'
BY DEF Asked

\* also when it is answered.
LEMMA AskedServed ==
    ASSUME FetchesOK, NEW f \in fetches, ServeFetch(f)
    PROVE  \A i \in Items : \A x : Asked(i, x) => Asked(i, x)'
<1>1. PICK face, at, g :
           /\ g = [f EXCEPT !.phase = "answered", !.face = face, !.at = at]
           /\ fetches' = (fetches \ {f}) \cup {g}
  BY DEF ServeFetch
<1>2. g.item = f.item /\ g.event = f.event
  BY <1>1 DEF FetchesOK, Fetches
<1> SUFFICES ASSUME NEW i, NEW x, NEW h \in fetches, h.item = i, h.event = x
             PROVE  \E y \in fetches' : y.item = i /\ y.event = x
  BY DEF Asked
<1>3. CASE h = f
  BY <1>1, <1>2, <1>3
<1>4. CASE h # f
  BY <1>1, <1>4
<1> QED BY <1>3, <1>4

\* Such are most of what the tab asks for.
LEMMA BoardLeft ==
    ASSUME BoardInv, TabInv, BoardMoves, SyncBoard,
           \/ UNCHANGED browserVars
           \/ Elsewhere
           \/ \E f \in fetches : ServeFetch(f)
           \/ \E s \in Slots : Request(s) /\ ~ ResponseArrives(s)
           \/ \E p \in posts : ServePost(p) \/ PostFails(p)
           \/ \E i \in Items : ClickExtend(i) \/ FallbackTick(i)
    PROVE  SyncBoard'
<1>0. DeadlinesOK /\ FetchesOK
  BY DEF TabInv
<1> DEFINE Same == UNCHANGED <<board, newest, overtaken, queue, cursor, applied>>
           Held == \A i \in Items : deadlines'[i] \in {deadlines[i], 0}
<1>1. CASE UNCHANGED browserVars \/ Elsewhere
  BY <1>1, AskedStays, BoardIdle DEF browserVars, Elsewhere, tabVars, shownVars, streamVars
<1>2. ASSUME NEW f \in fetches, ServeFetch(f)
      PROVE  SyncBoard'
  BY <1>0, <1>2, AskedServed, BoardIdle DEF ServeFetch, shownVars, streamVars
<1>3. ASSUME NEW s \in Slots, Request(s), ~ ResponseArrives(s)
      PROVE  SyncBoard'
  <2>1. ASSUME NEW i \in Items, NEW kind, NEW text, Click(s, i, kind, text)
        PROVE  Same /\ Held /\ fetches' = fetches
    <3>1. Same /\ fetches' = fetches
      BY <2>1 DEF Click, streamVars
    <3>2. deadlines' = deadlines \/ deadlines' = [deadlines EXCEPT ![i] = 0]
      BY <2>1 DEF Click, ForgetDeadline
    <3>3. Held
      BY <1>0, <3>2 DEF DeadlinesOK
    <3> QED BY <3>1, <3>3
  <2>2. \A text : SubmitCard(s, text) => Same /\ Held /\ fetches' = fetches
    BY DEF SubmitCard, shownVars, streamVars
  <2>3. ServeStatus(s) \/ ServeAdd(s) \/ ServeCard(s) => Same /\ Held /\ fetches' = fetches
    BY DEF ServeStatus, ServeAdd, ServeCard, Progress, shownVars, streamVars
  <2>4. ServeUpdate(s) \/ RequestFails(s) => Same /\ Held /\ fetches' = fetches
    BY DEF ServeUpdate, RequestFails, Progress, shownVars, streamVars
  <2>5. Same /\ Held /\ fetches' = fetches
    BY <1>3, <2>1, <2>2, <2>3, <2>4 DEF Request
  <2> QED BY <2>5, AskedStays, BoardIdle
<1>4. CASE \E p \in posts : ServePost(p) \/ PostFails(p)
  BY <1>4, AskedStays, BoardIdle DEF ServePost, PostFails, shownVars, streamVars
<1>5. CASE \E i \in Items : ClickExtend(i) \/ FallbackTick(i)
  BY <1>5, AskedStays, BoardIdle DEF ClickExtend, FallbackTick, shownVars, streamVars
<1> QED BY <1>1, <1>2, <1>3, <1>4, <1>5

\* The notifier takes nothing away that is to come.
LEMMA BoardPublish ==
    ASSUME BoardInv, HidesArchives, TabInv, BoardMoves, SyncBoard, Publish
    PROVE  SyncBoard'
<1> SUFFICES ASSUME NEW i \in Items PROVE CardSync(i)'
  BY DEF SyncBoard
<1>1. Grows /\ ShownOK /\ CardSync(i) /\ UNCHANGED <<board, newest, overtaken, deadlines, fetches>>
  BY DEF BoardMoves, TabInv, SyncBoard, Publish, shownVars
<1>2. \A x : Asked(i, x) => Asked(i, x)'
  BY <1>1, AskedStays
<1>3. ASSUME NEW x \in DOMAIN log, Says(log, x, i, {"ITEM_STATUS_CHANGED"}), ToCome(x)
      PROVE  ToCome(x)'
  <2>1. Says(log, x, i, CardTypes)
    BY <1>3, CardHeaders DEF Says
  <2> QED BY <1>3, <2>1, PublishComes
<1>4. DueAt(i) \subseteq DueAt(i)'
  BY <1>1, <1>2, <1>3, DueStays
<1> QED BY <1>1, <1>2, <1>4, CardUntouched

\* A fetch that fails leaves its news off the board, which is known.
LEMMA BoardFetchFails ==
    ASSUME BoardInv, TabInv, BoardMoves, SyncBoard, NEW f \in fetches, FetchFails(f)
    PROVE  SyncBoard'
<1> SUFFICES ASSUME NEW i \in Items PROVE CardSync(i)'
  BY DEF SyncBoard
<1>1. /\ Grows /\ ShownOK /\ CardSync(i) /\ fetches' = fetches \ {f}
      /\ UNCHANGED <<board, newest, deadlines, queue, cursor, applied, log, item, now>>
      /\ overtaken' = overtaken \cup {<<f.item, "card">>, <<f.item, "timer">>}
  BY DEF BoardMoves, TabInv, SyncBoard, FetchFails, streamVars, vars, boardVars
<1>2. CASE i # f.item
  <2>1. \A x : Asked(i, x) => Asked(i, x)'
    BY <1>1, <1>2 DEF Asked
  <2>2. DueAt(i) \subseteq DueAt(i)'
    BY <1>1, <2>1, DueStays, ToComeStays
  <2> QED BY <1>1, <2>1, <2>2, CardUntouched
<1>3. CASE i = f.item
  <2>1. (OnBoard(i)' <=> OnBoard(i)) /\ Card(i)' = Card(i) /\ (Exists(i)' <=> Exists(i))
        /\ (Unarchived(i)' <=> Unarchived(i))
    BY <1>1 DEF OnBoard, Card, Exists, Unarchived
  <2>2. ASSUME OnBoard(i), Unarchived(i)
        PROVE  CardFine(log', now', i, Card(i)', newest'[i], overtaken', DueAt(i)')
    <3>1. CardFine(log, now, i, Card(i), newest[i], overtaken, DueAt(i))
      BY <1>1, <2>2 DEF CardSync
    <3>2. <<i, "card">> \in overtaken' /\ <<i, "timer">> \in overtaken'
      BY <1>1, <1>3
    <3>3. <<i, "text">> \notin overtaken' => <<i, "text">> \notin overtaken
      BY <1>1
    <3> QED BY <1>1, <2>1, <3>1, <3>2, <3>3 DEF CardFine
  <2>3. Awaited(i)'
    BY <1>1, <1>3 DEF Awaited
  <2> QED BY <1>1, <2>1, <2>2, <2>3 DEF CardSync
<1> QED BY <1>2, <1>3

\* What the tab has been told of a card since it was told of its creation.
LEMMA KnowsMore ==
    ASSUME BoardInv, NEW i, NEW p \in Int, NEW q \in Int, p <= q, KnowsCreation(log, i, p)
    PROVE  KnowsCreation(log, i, q)
<1> SUFFICES ASSUME NEW e \in DOMAIN log, Says(log, e, i, {"ITEM_CREATED"})
             PROVE  e <= q
  BY DEF KnowsCreation
<1>1. e <= p
  BY DEF KnowsCreation
<1>2. e \in Int
  BY LogType
<1> QED BY <1>1, <1>2

\* The news that are to come are still to come, but for e; and they are newer.
LEMMA HandlesNext ==
    ASSUME BoardInv, TabInv, SyncStream, queue # << >>, Handled, NEW e, e = Head(queue),
           fetches \subseteq fetches',
           NEW i \in Items, Says(log, e, i, {"ITEM_STATUS_CHANGED"}) => e \in applied \/ Asked(i, e)'
    PROVE  /\ e \in DOMAIN log /\ e \in Int /\ Queued(e)
           /\ UNCHANGED <<log, item, now>>
           /\ DueAt(i) \subseteq DueAt(i)'
           /\ \A x : Asked(i, x) => Asked(i, x)'
           /\ \A x : ToCome(x) => e <= x
<1>1. UNCHANGED <<log, item, now, applied>>
  BY DEF Handled, vars, boardVars
<1>2. /\ e \in DOMAIN log /\ e \in Int /\ Queued(e)
      /\ \A x : x # e /\ ToCome(x) => ToCome(x)'
      /\ \A x : ToCome(x) => e <= x
  BY HeadIsFirst DEF SyncStream
<1>3. \A x : Asked(i, x) => Asked(i, x)'
  BY AskedStays
<1>4. DueAt(i) \subseteq DueAt(i)'
  <2> SUFFICES ASSUME NEW x \in DOMAIN log, Says(log, x, i, {"ITEM_STATUS_CHANGED"}), ToCome(x) \/ Asked(i, x)
               PROVE  ToCome(x)' \/ Asked(i, x)'
    BY <1>1 DEF DueAt
  <2>1. CASE x # e
    BY <1>2, <1>3, <2>1
  <2>2. CASE x = e
    BY <1>3, <2>2 DEF ToCome
  <2> QED BY <2>1, <2>2
<1> QED BY <1>1, <1>2, <1>3, <1>4

\* A card that the listener leaves alone.
LEMMA ListenerLeaves ==
    ASSUME BoardInv, TabInv, BoardMoves, SyncStream, SyncBoard, queue # << >>, Handled, NEW e, e = Head(queue),
           fetches \subseteq fetches', NEW i \in Items, Says(log, e, i, {"ITEM_STATUS_CHANGED"}) => e \in applied,
           board'[i] = board[i], newest'[i] = newest[i], deadlines'[i] = deadlines[i],
           \A f \in Fields : <<i, f>> \in overtaken => <<i, f>> \in overtaken'
    PROVE  CardSync(i)'
<1>1. ShownOK /\ CardSync(i)
  BY DEF TabInv, SyncBoard
<1>2. DueAt(i) \subseteq DueAt(i)' /\ \A x : Asked(i, x) => Asked(i, x)'
  BY HandlesNext
<1> QED BY <1>1, <1>2, CardUntouched

\* Nothing is lost when the tab drops an event of its own.
LEMMA BoardDropOwn ==
    ASSUME BoardInv, TabInv, BoardMoves, SyncStream, SyncBoard, DropOwn
    PROVE  SyncBoard'
<1>1. /\ queue # << >> /\ Handled /\ Head(queue) \in applied
      /\ UNCHANGED <<board, newest, overtaken, deadlines, fetches>>
  BY DEF DropOwn, IsOwn, shownVars
<1> SUFFICES ASSUME NEW i \in Items PROVE CardSync(i)'
  BY DEF SyncBoard
<1> QED BY <1>1, ListenerLeaves

\* The parts of a card that the tab is told of later than of its creation.
LEMMA ToldKnows ==
    ASSUME BoardInv, TabInv, NEW i \in Items, NewestGrows,
           \A f \in Fields : KnowsCreation(log, i, newest[i][f]), log' = log
    PROVE  \A f \in Fields : KnowsCreation(log', i, newest'[i][f])
<1> SUFFICES ASSUME NEW f \in Fields PROVE KnowsCreation(log, i, newest'[i][f])
  OBVIOUS
<1>1. newest[i][f] \in Int /\ newest'[i][f] \in Int /\ newest[i][f] <= newest'[i][f]
  BY DEF NewestGrows
<1> QED BY <1>1, KnowsMore

\* Of a card that comes, only a fetch that is asked for or news will tell.
LEMMA AwaitedOn ==
    ASSUME BoardInv, TabInv, SyncStream, NEW i \in Items, Awaited(i), UNCHANGED <<log, item>>,
           ~ OnBoard(i)' => ~ OnBoard(i), <<i, "card">> \in overtaken => <<i, "card">> \in overtaken',
           \A x : Says(log, x, i, {"ITEM_CREATED"}) /\ Asked(i, x) => Asked(i, x)',
           \A x \in DOMAIN log : ToCome(x) /\ Says(log, x, i, {"ITEM_CREATED"}) /\ newest[i].card < x =>
              newest'[i].card < x \/ Asked(i, x)'
    PROVE  Awaited(i)'
<1> SUFFICES ASSUME Exists(i)', Unarchived(i)', ~ OnBoard(i)', <<i, "card">> \notin overtaken'
             PROVE  \E x \in DOMAIN log' : Says(log', x, i, {"ITEM_CREATED"})
                                           /\ (newest'[i].card < x \/ Asked(i, x)')
  BY DEF Awaited
<1>1. Exists(i) /\ Unarchived(i) /\ ~ OnBoard(i) /\ <<i, "card">> \notin overtaken
  BY DEF Exists, Unarchived
<1>2. PICK x \in DOMAIN log : Says(log, x, i, {"ITEM_CREATED"}) /\ (newest[i].card < x \/ Asked(i, x))
  BY <1>1 DEF Awaited
<1>3. CASE Asked(i, x)
  BY <1>2, <1>3
<1>4. CASE newest[i].card < x
  <2>1. "card" \in Fields /\ Says(log, x, i, NewsTypes("card"))
    BY <1>2 DEF Fields, NewsTypes, Says
  <2>2. newest[i]["card"] < x
    BY <1>4
  <2>3. ToCome(x)
    BY <1>1, <2>1, <2>2 DEF SyncStream, NewsComes
  <2> QED BY <1>2, <1>4, <2>3
<1> QED BY <1>2, <1>3, <1>4

\* A card that is fetched has been asked for.
LEMMA AskedFor ==
    ASSUME NEW i, NEW e, FetchCard(i, e)
    PROVE  fetches \subseteq fetches' /\ Asked(i, e)'
<1>1. PICK g : /\ g = [item |-> i, event |-> e, phase |-> "sent", face |-> NoFace, at |-> 0]
               /\ fetches' = fetches \cup {g}
  BY DEF FetchCard
<1>2. g.item = i /\ g.event = e
  BY <1>1
<1> QED BY <1>1, <1>2 DEF Asked

\* The card of an added item will be inserted.
LEMMA BoardItemCreated ==
    ASSUME BoardInv, TabInv, BoardMoves, SyncStream, SyncBoard, OnItemCreated
    PROVE  SyncBoard'
<1>1. PICK e, j : e = Head(queue) /\ j = log[e].item
  OBVIOUS
<1>2. /\ queue # << >> /\ Handled /\ log[e].type = "ITEM_CREATED" /\ FetchCard(j, e)
      /\ newest' = Told(newest, j, {"card"}, e) /\ UNCHANGED <<board, overtaken, deadlines>>
  BY <1>1 DEF OnItemCreated, Receives
<1>3. fetches \subseteq fetches' /\ Asked(j, e)' /\ ShownOK
  BY <1>2, AskedFor DEF TabInv
<1>4. \A i : ~ Says(log, e, i, {"ITEM_STATUS_CHANGED"})
  BY <1>2 DEF Says
<1> SUFFICES ASSUME NEW i \in Items PROVE CardSync(i)'
  BY DEF SyncBoard
<1>5. CardSync(i)
  BY DEF SyncBoard
<1>6. CASE i # j
  <2>1. newest'[i] = newest[i]
    BY <1>2, <1>3, <1>6, ToldOthers
  <2> QED BY <1>1, <1>2, <1>3, <1>4, <2>1, ListenerLeaves
<1>7. CASE i = j
  <2>1. /\ e \in DOMAIN log /\ e \in Int /\ UNCHANGED <<log, item, now>>
        /\ DueAt(i) \subseteq DueAt(i)'
        /\ \A x : Asked(i, x) => Asked(i, x)'
        /\ \A x : ToCome(x) => e <= x
    BY <1>1, <1>2, <1>3, <1>4, HandlesNext
  <2>2. /\ newest'[i].card = Later(newest[i].card, e)
        /\ newest'[i].text = newest[i].text /\ newest'[i].timer = newest[i].timer
    <3>1. \A f \in Fields : newest'[i][f] = IF f = "card" THEN Later(newest[i][f], e) ELSE newest[i][f]
      BY <1>2, <1>3, <1>7, ToldField
    <3>2. "card" \in Fields /\ "text" \in Fields /\ "timer" \in Fields
      BY DEF Fields
    <3> QED BY <3>1, <3>2
  <2>3. newest[i].card \in Int
    BY <1>3, PlacesInt
  <2>4. ASSUME OnBoard(i)', Unarchived(i)'
        PROVE  CardFine(log', now', i, Card(i)', newest'[i], overtaken', DueAt(i)')
    <3>1. OnBoard(i) /\ Exists(i) /\ Unarchived(i)
      BY <1>2, <1>5, <2>1, <2>4 DEF OnBoard, Unarchived, CardSync
    <3>2. CardFine(log, now, i, Card(i), newest[i], overtaken, DueAt(i))
      BY <1>5, <3>1 DEF CardSync
    <3>3. e <= newest[i].card
      <4>1. Says(log, e, i, {"ITEM_CREATED"}) /\ "card" \in Fields
        BY <1>1, <1>2, <1>7 DEF Says, Fields
      <4>2. KnowsCreation(log, i, newest[i]["card"])
        BY <3>2, <4>1 DEF CardFine
      <4> QED BY <2>1, <4>1, <4>2 DEF KnowsCreation
    <3>4. newest'[i].card = newest[i].card
      BY <2>1, <2>2, <2>3, <3>3 DEF Later
    <3>5. newest'[i] = newest[i]
      <4>1. newest[i] \in [Fields -> Int] /\ newest'[i] \in [Fields -> 0 .. Len(log)]
        <5>1. newest \in [Items -> [Fields -> 0 .. Len(log)]] /\ e \in 0 .. Len(log) /\ Len(log) \in Nat
          BY <1>3, <2>1, LogType DEF ShownOK, Places
        <5>2. newest' \in [Items -> [Fields -> 0 .. Len(log)]]
          BY <1>2, <5>1, ToldType
        <5> QED BY <1>3, <5>2, PlacesInt
      <4> QED BY <2>2, <3>4, <4>1 DEF Fields
    <3>6. Card(i).endAt \in Nat
      BY <1>3, <3>1, CardType DEF Faces
    <3>7. newest[i] \in [Fields -> 0 .. Len(log)]
      BY <1>3, PlacesInt
    <3>8. Card(i)' = Card(i) /\ \A f \in Fields : <<i, f>> \in overtaken => <<i, f>> \in overtaken'
      BY <1>2 DEF Card
    <3>9. CardFine(log', now', i, Card(i), newest[i], overtaken', DueAt(i)')
      BY <2>1, <3>1, <3>2, <3>6, <3>7, <3>8, FineStays
    <3> QED BY <3>5, <3>8, <3>9
  <2>5. Awaited(i)'
    <3>1. Awaited(i) /\ (~ OnBoard(i)' => ~ OnBoard(i)) /\ overtaken' = overtaken
      BY <1>2, <1>5 DEF OnBoard, CardSync
    <3>2. ASSUME NEW x \in DOMAIN log, ToCome(x), newest[i].card < x
          PROVE  newest'[i].card < x \/ Asked(i, x)'
      <4>1. e <= x /\ x \in Int
        BY <2>1, <3>2, LogType
      <4>2. CASE x = e
        BY <1>3, <1>7, <4>2
      <4>3. CASE x # e
        BY <2>1, <2>2, <2>3, <3>2, <4>1, <4>3 DEF Later
      <4> QED BY <4>2, <4>3
    <3> QED BY <2>1, <3>1, <3>2, AwaitedOn
  <2>6. (OnBoard(i)' => Exists(i)') /\ deadlines'[i] <= newest'[i].timer
    BY <1>2, <1>5, <2>1, <2>2 DEF CardSync, OnBoard, Exists
  <2> QED BY <2>4, <2>5, <2>6 DEF CardSync
<1> QED BY <1>6, <1>7

\* A change of status makes the card one that will be fetched.
LEMMA BoardStatusChanged ==
    ASSUME BoardInv, TabInv, BoardMoves, SyncStream, SyncBoard, OnItemStatusChanged
    PROVE  SyncBoard'
<1>1. PICK e, j : e = Head(queue) /\ j = log[e].item
  OBVIOUS
<1>2. /\ queue # << >> /\ Handled /\ log[e].type = "ITEM_STATUS_CHANGED" /\ FetchCard(j, e)
      /\ deadlines' = [deadlines EXCEPT ![j] = 0]
      /\ newest' = Told(newest, j, {"card", "timer"}, e) /\ UNCHANGED <<board, overtaken>>
  BY <1>1 DEF OnItemStatusChanged, Receives, ResetDeadline
<1>3. fetches \subseteq fetches' /\ Asked(j, e)' /\ ShownOK /\ DeadlinesOK
  BY <1>2, AskedFor DEF TabInv
<1> SUFFICES ASSUME NEW i \in Items PROVE CardSync(i)'
  BY DEF SyncBoard
<1>5. CardSync(i)
  BY DEF SyncBoard
<1>6. CASE i # j
  <2>1. newest'[i] = newest[i] /\ deadlines'[i] = deadlines[i]
    BY <1>2, <1>3, <1>6, ToldOthers DEF DeadlinesOK
  <2>2. ~ Says(log, e, i, {"ITEM_STATUS_CHANGED"})
    BY <1>1, <1>6 DEF Says
  <2> QED BY <1>1, <1>2, <1>3, <2>1, <2>2, ListenerLeaves
<1>7. CASE i = j
  <2>1. /\ e \in DOMAIN log /\ e \in Int /\ UNCHANGED <<log, item, now>>
        /\ DueAt(i) \subseteq DueAt(i)'
        /\ \A x : Asked(i, x) => Asked(i, x)'
        /\ \A x : ToCome(x) => e <= x
    BY <1>1, <1>2, <1>3, <1>7, HandlesNext
  <2>2. /\ newest'[i].card = Later(newest[i].card, e)
        /\ newest'[i].text = newest[i].text /\ newest'[i].timer = Later(newest[i].timer, e)
    <3>1. \A f \in Fields : newest'[i][f] = IF f \in {"card", "timer"} THEN Later(newest[i][f], e) ELSE newest[i][f]
      BY <1>2, <1>3, <1>7, ToldField
    <3>2. "card" \in Fields /\ "text" \in Fields /\ "timer" \in Fields
      BY DEF Fields
    <3> QED BY <3>1, <3>2
  <2>3. newest[i].card \in Int /\ newest[i].timer \in 0 .. Len(log) /\ Len(log) \in Nat
    BY <1>3, PlacesInt, LogType
  <2>4. e \in DueAt(i)'
    BY <1>1, <1>2, <1>3, <1>7, <2>1 DEF DueAt, Says
  <2>5. ASSUME OnBoard(i)', Unarchived(i)'
        PROVE  CardFine(log', now', i, Card(i)', newest'[i], overtaken', DueAt(i)')
    <3>1. OnBoard(i) /\ Unarchived(i) /\ Card(i)' = Card(i)
      BY <1>2, <2>1, <2>5 DEF OnBoard, Unarchived, Card
    <3>2. CardFine(log, now, i, Card(i), newest[i], overtaken, DueAt(i))
      BY <1>5, <3>1 DEF CardSync
    <3>3. \A f \in Fields : KnowsCreation(log', i, newest'[i][f])
      <4>1. NewestGrows
        BY <1>2, <2>1, ToldGrows
      <4> QED BY <2>1, <3>2, <4>1, ToldKnows DEF CardFine
    <3>4. ShowsKind(log', i, newest'[i].card, Card(i), DueAt(i)')
      BY <2>4 DEF ShowsKind
    <3>5. ASSUME ShowsEnd(log, i, newest[i].timer, Card(i), DueAt(i), now)
          PROVE  ShowsEnd(log, i, newest'[i].timer, Card(i), DueAt(i)', now)
      <4>1. CASE newest[i].timer < e
        <5>1. newest'[i].timer = e
          BY <2>1, <2>2, <4>1 DEF Later
        <5>2. EventOf(log, e, i, TimerTypes) /\ log[e].type \notin TimerEvents
          BY <1>1, <1>2, <1>7, <2>1 DEF EventOf, Says, TimerTypes, TimerEvents
        <5>3. \A z : NewestAt(log, z, i, TimerTypes, e) => z = e
          BY <5>2, LogType, NewestHere
        <5>4. Supersedes(log, i, e, e)
          BY <2>1, <5>2, <5>3 DEF Supersedes
        <5> QED BY <2>4, <3>5, <5>1, <5>4 DEF ShowsEnd
      <4>2. CASE ~ (newest[i].timer < e)
        <5>1. newest'[i].timer = newest[i].timer
          BY <2>2, <4>2 DEF Later
        <5> QED BY <2>1, <3>5, <5>1 DEF ShowsEnd
      <4> QED BY <4>1, <4>2
    <3> QED BY <1>2, <2>1, <2>2, <3>1, <3>2, <3>3, <3>4, <3>5 DEF CardFine
  <2>6. Awaited(i)'
    <3>1. Awaited(i) /\ (~ OnBoard(i)' => ~ OnBoard(i)) /\ overtaken' = overtaken
      BY <1>2, <1>5 DEF OnBoard, CardSync
    <3>2. ASSUME NEW x \in DOMAIN log, ToCome(x), Says(log, x, i, {"ITEM_CREATED"}), newest[i].card < x
          PROVE  newest'[i].card < x
      <4>1. e <= x /\ x \in Int /\ x # e
        BY <1>2, <2>1, <3>2, LogType DEF Says
      <4> QED BY <2>1, <2>2, <2>3, <3>2, <4>1 DEF Later
    <3> QED BY <2>1, <3>1, <3>2, AwaitedOn
  <2>7. (OnBoard(i)' => Exists(i)') /\ deadlines'[i] <= newest'[i].timer
    <3>1. deadlines'[i] = 0
      BY <1>2, <1>3, <1>7 DEF DeadlinesOK
    <3>2. 0 <= newest'[i].timer
      BY <2>1, <2>2, <2>3 DEF Later
    <3> QED BY <1>2, <1>5, <2>1, <3>1, <3>2 DEF CardSync, OnBoard, Exists
  <2> QED BY <2>5, <2>6, <2>7 DEF CardSync
<1> QED BY <1>6, <1>7

\* What an event that changes a part of card j in place does.
LEMMA InPlaceIs ==
    ASSUME ShownOK, NEW e, NEW j \in Items, NEW f \in Fields, NEW kinds, NEW face,
           Shows(j, kinds) => face \in Faces, InPlace(e, j, f, kinds, face)
    PROVE  /\ newest' = Told(newest, j, {f}, e)
           /\ \A i \in Items \ {j} : board'[i] = board[i]
           /\ \A i \in Items \ {j} : \A g : <<i, g>> \in overtaken => <<i, g>> \in overtaken'
           /\ OnBoard(j)' <=> OnBoard(j)
           /\ Card(j)' = IF Shows(j, kinds) THEN face ELSE Card(j)
           /\ \A g : <<j, g>> \in overtaken' <=>
                        IF g = f /\ Shows(j, kinds) THEN e < newest[j][f] ELSE <<j, g>> \in overtaken
<1>1. newest' = Told(newest, j, {f}, e)
  BY DEF InPlace
<1>2. CASE ~ Shows(j, kinds)
  BY <1>1, <1>2 DEF InPlace, OnBoard, Card
<1>3. CASE Shows(j, kinds)
  <2>1. /\ board' = [board EXCEPT ![j] = <<face>> \o Tail(@)] /\ overtaken' = Shown(overtaken, j, {f}, e)
        /\ OnBoard(j)
    BY <1>3 DEF InPlace, Shows
  <2>2. Tail(board[j]) = << >> /\ DOMAIN board = Items
    BY <2>1, CardType DEF ShownOK
  <2>3. board'[j] = <<face>>
    BY <1>3, <2>1, <2>2, PileTypes
  <2>4. <<face>> # << >> /\ Head(<<face>>) = face
    BY <1>3, PileTypes
  <2>0. {f} \in SUBSET Fields
    OBVIOUS
  <2>5. ASSUME NEW i, NEW g
        PROVE  <<i, g>> \in overtaken' <=> IF i = j /\ g \in {f} THEN e < newest[j][g] ELSE <<i, g>> \in overtaken
    BY <2>0, <2>1, ShownField
  <2>6. \A i \in Items \ {j} : board'[i] = board[i]
    BY <2>1, <2>2
  <2> QED BY <1>1, <1>3, <2>1, <2>3, <2>4, <2>5, <2>6 DEF OnBoard, Card
<1> QED BY <1>2, <1>3

\* The listener changes a part of card j, and only of it.
LEMMA PartChanges ==
    ASSUME BoardInv, TabInv, BoardMoves, SyncStream, SyncBoard, queue # << >>, Handled, NEW e, e = Head(queue),
           fetches' = fetches, log[e].type # "ITEM_STATUS_CHANGED",
           NEW j \in Items, NEW f \in {"text", "timer"}, newest' = Told(newest, j, {f}, e),
           \A i \in Items \ {j} : board'[i] = board[i],
           \A i \in Items \ {j} : deadlines'[i] = deadlines[i],
           \A i \in Items \ {j} : \A g : <<i, g>> \in overtaken => <<i, g>> \in overtaken',
           OnBoard(j)' <=> OnBoard(j), <<j, "card">> \in overtaken => <<j, "card">> \in overtaken',
           deadlines'[j] <= newest'[j].timer,
           OnBoard(j) /\ Unarchived(j) =>
              CardFine(log, now, j, Card(j)', newest'[j], overtaken', DueAt(j)')
    PROVE  SyncBoard'
<1> SUFFICES ASSUME NEW i \in Items PROVE CardSync(i)'
  BY DEF SyncBoard
<1>1. ShownOK /\ fetches \subseteq fetches' /\ ~ Says(log, e, i, {"ITEM_STATUS_CHANGED"})
  BY DEF TabInv, Says
<1>2. CASE i # j
  <2>1. newest'[i] = newest[i]
    BY <1>1, <1>2, ToldOthers
  <2> QED BY <1>1, <1>2, <2>1, ListenerLeaves
<1>3. CASE i = j
  <2>1. CardSync(i) /\ UNCHANGED <<log, item, now>> /\ \A x : Asked(i, x) => Asked(i, x)'
    BY <1>1, HandlesNext DEF SyncBoard
  <2>2. newest'[i].card = newest[i].card
    <3>1. "card" \in Fields /\ f # "card"
      BY DEF Fields
    <3>2. newest'[i]["card"] = newest[i]["card"]
      BY <1>1, <1>3, <3>1, ToldField
    <3> QED BY <3>2
  <2>3. Awaited(i)'
    BY <1>3, <2>1, <2>2, AwaitedOn DEF CardSync
  <2>4. OnBoard(i)' => Exists(i)'
    BY <1>3, <2>1 DEF CardSync, Exists
  <2>5. OnBoard(i)' /\ Unarchived(i)' => CardFine(log', now', i, Card(i)', newest'[i], overtaken', DueAt(i)')
    BY <1>3, <2>1 DEF Unarchived
  <2> QED BY <1>3, <2>3, <2>4, <2>5 DEF CardSync
<1> QED BY <1>2, <1>3

\* What the tab knows of a part that was told.
LEMMA PartTold ==
    ASSUME BoardInv, TabInv, NEW j \in Items, NEW f \in Fields, NEW e \in Int, newest' = Told(newest, j, {f}, e)
    PROVE  /\ NewestGrows
           /\ newest'[j][f] = Later(newest[j][f], e)
           /\ \A g \in Fields \ {f} : newest'[j][g] = newest[j][g]
           /\ newest[j][f] \in 0 .. Len(log)
<1>1. \A g \in Fields : newest'[j][g] = IF j = j /\ g \in {f} THEN Later(newest[j][g], e) ELSE newest[j][g]
  BY ToldField DEF TabInv
<1> QED BY <1>1, ToldGrows, NewestInt

\* ITEM_UPDATED puts the text of its place on the card.
LEMMA BoardItemUpdated ==
    ASSUME BoardInv, TabInv, BoardMoves, SyncStream, SyncBoard, OnItemUpdated
    PROVE  SyncBoard'
<1>1. PICK e, j : e = Head(queue) /\ j = log[e].item
  OBVIOUS
<1> DEFINE kinds == {"plain", "highlighted", "completed"}
           face  == [Card(j) EXCEPT !.text = log[e].text]
<1>2. /\ queue # << >> /\ Handled /\ log[e].type = "ITEM_UPDATED"
      /\ InPlace(e, j, "text", kinds, face) /\ UNCHANGED <<deadlines, fetches>>
  BY <1>1 DEF OnItemUpdated, Receives
<1>3. ShownOK /\ DeadlinesOK /\ "text" \in Fields /\ "card" \in Fields /\ "timer" \in Fields
  BY DEF TabInv, Fields
<1>4. e \in DOMAIN log /\ e \in Int /\ j \in Items /\ log[e].text \in Texts \cup {None}
  <2>1. e \in DOMAIN log /\ e \in Int
    BY <1>1, <1>2, HeadIsFirst DEF SyncStream
  <2>2. log[e] \in Events
    BY <2>1, LogType
  <2> QED BY <1>1, <1>2, <2>1, <2>2, EventTypes
<1>5. Shows(j, kinds) => /\ face \in Faces
                         /\ face.kind = Card(j).kind /\ face.text = log[e].text
                         /\ face.endAt = Card(j).endAt /\ face.over = Card(j).over /\ face.elapsed = Card(j).elapsed
  <2> SUFFICES ASSUME OnBoard(j)
               PROVE  /\ face \in Faces
                      /\ face.kind = Card(j).kind /\ face.text = log[e].text
                      /\ face.endAt = Card(j).endAt /\ face.over = Card(j).over /\ face.elapsed = Card(j).elapsed
    BY DEF Shows
  <2>1. Card(j) \in Faces
    BY <1>3, <1>4, CardType
  <2>2. face \in Faces
    BY <1>4, <2>1, FaceParts
  <2> QED BY <2>1, <2>2 DEF Faces
<1> HIDE DEF face
<1>6. /\ newest' = Told(newest, j, {"text"}, e)
      /\ \A i \in Items \ {j} : board'[i] = board[i]
      /\ \A i \in Items \ {j} : \A g : <<i, g>> \in overtaken => <<i, g>> \in overtaken'
      /\ OnBoard(j)' <=> OnBoard(j)
      /\ Card(j)' = IF Shows(j, kinds) THEN face ELSE Card(j)
      /\ \A g : <<j, g>> \in overtaken' <=>
                        IF g = "text" /\ Shows(j, kinds) THEN e < newest[j]["text"] ELSE <<j, g>> \in overtaken
  BY <1>2, <1>3, <1>4, <1>5, InPlaceIs
<1>7. /\ NewestGrows /\ newest'[j].text = Later(newest[j].text, e)
      /\ newest'[j].card = newest[j].card /\ newest'[j].timer = newest[j].timer
      /\ newest[j].text \in 0 .. Len(log)
  BY <1>3, <1>4, <1>6, PartTold
<1>8. DueAt(j) \subseteq DueAt(j)' /\ log' = log
  <2>1. ~ Says(log, e, j, {"ITEM_STATUS_CHANGED"})
    BY <1>2 DEF Says
  <2> QED BY <1>1, <1>2, <1>4, <2>1, HandlesNext
<1>9. ASSUME OnBoard(j), Unarchived(j)
      PROVE  CardFine(log, now, j, Card(j)', newest'[j], overtaken', DueAt(j)')
  <2>1. CardFine(log, now, j, Card(j), newest[j], overtaken, DueAt(j))
    BY <1>4, <1>9 DEF SyncBoard, CardSync
  <2>2. \A f \in Fields : KnowsCreation(log, j, newest'[j][f])
    BY <1>4, <1>7, <1>8, <2>1, ToldKnows DEF CardFine
  <2>3. PICK c : c = Card(j)'
    OBVIOUS
  <2>4. /\ c.kind = Card(j).kind /\ c.endAt = Card(j).endAt /\ c.over = Card(j).over /\ c.elapsed = Card(j).elapsed
        /\ Shows(j, kinds) => c.text = log[e].text
    BY <1>5, <1>6, <2>3
  <2>5. ShowsKind(log, j, newest[j].card, Card(j), DueAt(j)) => ShowsKind(log, j, newest'[j].card, c, DueAt(j)')
    BY <1>7, <1>8, <2>4 DEF ShowsKind
  <2>6. ShowsEnd(log, j, newest[j].timer, Card(j), DueAt(j), now)
        => ShowsEnd(log, j, newest'[j].timer, c, DueAt(j)', now)
    BY <1>7, <1>8, <2>4 DEF ShowsEnd, OverInTime
  <2>7. <<j, "text">> \notin overtaken' => ShowsText(log, j, newest'[j].text, c)
    <3>1. CASE Shows(j, kinds)
      <4>1. ASSUME <<j, "text">> \notin overtaken'
            PROVE  newest'[j].text = e
        BY <1>4, <1>6, <1>7, <3>1, <4>1 DEF Later
      <4>2. EventOf(log, e, j, TextTypes)
        BY <1>1, <1>2, <1>4 DEF EventOf, Says, TextTypes
      <4>3. \A z : NewestAt(log, z, j, TextTypes, e) => z = e
        BY <4>2, LogType, NewestHere
      <4> QED BY <2>4, <3>1, <4>1, <4>3 DEF ShowsText, TellsText
    <3>2. CASE ~ Shows(j, kinds)
      <4>1. Card(j).kind = "editing"
        BY <1>9, <2>1, <3>2 DEF CardFine, BoardKinds, Shows
      <4> QED BY <2>4, <4>1 DEF ShowsText
    <3> QED BY <3>1, <3>2
  <2>8. /\ <<j, "card">> \in overtaken' <=> <<j, "card">> \in overtaken
        /\ <<j, "timer">> \in overtaken' <=> <<j, "timer">> \in overtaken
    BY <1>6
  <2>9. CardFine(log, now, j, c, newest'[j], overtaken', DueAt(j)')
    BY <2>1, <2>2, <2>4, <2>5, <2>6, <2>7, <2>8 DEF CardFine
  <2> QED BY <2>3, <2>9
<1>10. deadlines'[j] <= newest'[j].timer /\ \A i \in Items \ {j} : deadlines'[i] = deadlines[i]
  BY <1>2, <1>4, <1>7 DEF SyncBoard, CardSync
<1>11. <<j, "card">> \in overtaken => <<j, "card">> \in overtaken'
  BY <1>6
<1> HIDE DEF kinds
<1> QED BY <1>1, <1>2, <1>4, <1>6, <1>9, <1>10, <1>11, PartChanges

\* The timer of a card starts anew or goes on.
LEMMA BoardTimerUpdated ==
    ASSUME BoardInv, TabInv, BoardMoves, SyncStream, SyncBoard, OnTimerUpdated
    PROVE  SyncBoard'
<1>1. PICK e, j : e = Head(queue) /\ j = log[e].item
  OBVIOUS
<1> DEFINE kinds == {"highlighted"}
           face  == CountdownTo(Card(j), e)
<1>2. /\ queue # << >> /\ Handled /\ log[e].type \in TimerEvents
      /\ InPlace(e, j, "timer", kinds, face)
      /\ deadlines' = [deadlines EXCEPT ![j] = e] /\ fetches' = fetches
  BY <1>1 DEF OnTimerUpdated, Receives, TimerEvents
<1>3. ShownOK /\ DeadlinesOK /\ "text" \in Fields /\ "card" \in Fields /\ "timer" \in Fields
  BY DEF TabInv, Fields
<1>4. e \in DOMAIN log /\ e \in Int /\ j \in Items
  <2>1. e \in DOMAIN log /\ e \in Int
    BY <1>1, <1>2, HeadIsFirst DEF SyncStream
  <2>2. log[e] \in Events
    BY <2>1, LogType
  <2> QED BY <1>1, <1>2, <2>1, <2>2, EventTypes DEF TimerEvents
<1>5. Shows(j, kinds) => /\ face \in Faces
                         /\ face.kind = Card(j).kind /\ face.text = Card(j).text
                         /\ face.endAt = EndOf(log[e]) /\ face.over = FALSE
  <2> SUFFICES ASSUME OnBoard(j)
               PROVE  /\ face \in Faces
                      /\ face.kind = Card(j).kind /\ face.text = Card(j).text
                      /\ face.endAt = EndOf(log[e]) /\ face.over = FALSE
    BY DEF Shows
  <2>1. Card(j) \in Faces
    BY <1>3, <1>4, CardType
  <2>2. Deadline(e) \in Nat /\ Deadline(e) = EndOf(log[e])
    BY <1>2, <1>4, DeadlineType DEF Deadline, EndOf
  <2>3. face = [Card(j) EXCEPT !.endAt = Deadline(e), !.over = FALSE]
    BY DEF CountdownTo
  <2> HIDE DEF face
  <2>4. face \in Faces
    BY <2>1, <2>2, <2>3 DEF Faces
  <2> QED BY <2>1, <2>2, <2>3, <2>4 DEF Faces
<1> HIDE DEF face
<1>6. /\ newest' = Told(newest, j, {"timer"}, e)
      /\ \A i \in Items \ {j} : board'[i] = board[i]
      /\ \A i \in Items \ {j} : \A g : <<i, g>> \in overtaken => <<i, g>> \in overtaken'
      /\ OnBoard(j)' <=> OnBoard(j)
      /\ Card(j)' = IF Shows(j, kinds) THEN face ELSE Card(j)
      /\ \A g : <<j, g>> \in overtaken' <=>
                        IF g = "timer" /\ Shows(j, kinds) THEN e < newest[j]["timer"] ELSE <<j, g>> \in overtaken
  BY <1>2, <1>3, <1>4, <1>5, InPlaceIs
<1>7. /\ NewestGrows /\ newest'[j].timer = Later(newest[j].timer, e)
      /\ newest'[j].card = newest[j].card /\ newest'[j].text = newest[j].text
      /\ newest[j].timer \in 0 .. Len(log)
  BY <1>3, <1>4, <1>6, PartTold
<1>8. DueAt(j) \subseteq DueAt(j)' /\ log' = log
  <2>1. ~ Says(log, e, j, {"ITEM_STATUS_CHANGED"})
    BY <1>2 DEF Says, TimerEvents
  <2> QED BY <1>1, <1>2, <1>4, <2>1, HandlesNext
<1>9. ASSUME OnBoard(j), Unarchived(j)
      PROVE  CardFine(log, now, j, Card(j)', newest'[j], overtaken', DueAt(j)')
  <2>1. CardFine(log, now, j, Card(j), newest[j], overtaken, DueAt(j))
    BY <1>4, <1>9 DEF SyncBoard, CardSync
  <2>2. \A f \in Fields : KnowsCreation(log, j, newest'[j][f])
    BY <1>4, <1>7, <1>8, <2>1, ToldKnows DEF CardFine
  <2>3. PICK c : c = Card(j)'
    OBVIOUS
  <2>4. /\ c.kind = Card(j).kind /\ c.text = Card(j).text
        /\ Shows(j, kinds) => c.endAt = EndOf(log[e]) /\ c.over = FALSE
    BY <1>5, <1>6, <2>3
  <2>5. ShowsKind(log, j, newest[j].card, Card(j), DueAt(j)) => ShowsKind(log, j, newest'[j].card, c, DueAt(j)')
    BY <1>7, <1>8, <2>4 DEF ShowsKind
  <2>6. ShowsText(log, j, newest[j].text, Card(j)) => ShowsText(log, j, newest'[j].text, c)
    BY <1>7, <2>4 DEF ShowsText
  <2>7. <<j, "timer">> \notin overtaken' => ShowsEnd(log, j, newest'[j].timer, c, DueAt(j)', now)
    <3>1. CASE Shows(j, kinds)
      <4>1. ASSUME <<j, "timer">> \notin overtaken'
            PROVE  newest'[j].timer = e
        BY <1>4, <1>6, <1>7, <3>1, <4>1 DEF Later
      <4>2. EventOf(log, e, j, TimerTypes)
        BY <1>1, <1>2, <1>4 DEF EventOf, Says, TimerTypes, TimerEvents
      <4>3. \A z : NewestAt(log, z, j, TimerTypes, e) => z = e
        BY <4>2, LogType, NewestHere
      <4> QED BY <2>4, <3>1, <4>1, <4>3 DEF ShowsEnd, TellsEnd, OverInTime
    <3>2. CASE ~ Shows(j, kinds)
      <4>1. Card(j).kind # "highlighted"
        BY <1>9, <3>2 DEF Shows
      <4> QED BY <2>4, <4>1 DEF ShowsEnd
    <3> QED BY <3>1, <3>2
  <2>8. /\ <<j, "card">> \in overtaken' <=> <<j, "card">> \in overtaken
        /\ <<j, "text">> \in overtaken' <=> <<j, "text">> \in overtaken
    BY <1>6
  <2>9. CardFine(log, now, j, c, newest'[j], overtaken', DueAt(j)')
    BY <2>1, <2>2, <2>4, <2>5, <2>6, <2>7, <2>8 DEF CardFine
  <2> QED BY <2>3, <2>9
<1>10. deadlines'[j] <= newest'[j].timer /\ \A i \in Items \ {j} : deadlines'[i] = deadlines[i]
  BY <1>2, <1>3, <1>4, <1>7 DEF DeadlinesOK, Later
<1>11. (<<j, "card">> \in overtaken => <<j, "card">> \in overtaken') /\ log[e].type # "ITEM_STATUS_CHANGED"
  BY <1>2, <1>6 DEF TimerEvents
<1> HIDE DEF kinds
<1> QED BY <1>1, <1>2, <1>4, <1>6, <1>9, <1>10, <1>11, PartChanges

\* When a card that is up to date is told that its timer has elapsed, the badge
\* counts down to the end that has passed.
LEMMA ElapsedTells ==
    ASSUME BoardInv, TabInv, SyncLog, SyncStream, NEW j \in Items, Exists(j), Unarchived(j),
           NEW e \in DOMAIN log, Says(log, e, j, {"TIMER_ELAPSED"}), \A x : ToCome(x) => e <= x,
           NEW p \in Int, p = newest[j].timer, p <= e, KnowsCreation(log, j, p)
    PROVE  \E z : /\ NewestAt(log, z, j, TimerTypes, p)
                  /\ \A x : NewestAt(log, x, j, TimerTypes, e) => x = z
                  /\ log[z].type \in TimerEvents
                  /\ EndOf(log[z]) # 0 /\ EndOf(log[z]) <= now
<1>1. log \in Seq(Events) /\ e \in Int /\ DOMAIN log \subseteq Int
  BY LogType
<1>2. KnowsCreation(log, j, e)
  BY <1>1, KnowsMore
<1>3. PICK z : NewestAt(log, z, j, TimerTypes, e)
  <2>1. Tells(log, j, {"ITEM_CREATED"})
    BY DEF BoardInv, LogInv, LogTold
  <2>2. "ITEM_CREATED" \in TimerTypes
    BY DEF TimerTypes
  <2> QED BY <1>1, <1>2, <2>1, <2>2, NewestExists
<1>4. z \in DOMAIN log /\ z \in Int /\ z <= e
  BY <1>1, <1>3 DEF NewestAt, EventOf
<1>5. log[z].type \in TimerEvents /\ EndOf(log[z]) # 0 /\ EndOf(log[z]) <= now
  BY <1>3, <1>4 DEF SyncLog, ElapsedEnded, TimersEnd
<1>6. z <= p
  <2> SUFFICES ASSUME p < z PROVE FALSE
    BY <1>4
  <2>1. Says(log, z, j, NewsTypes("timer")) /\ "timer" \in Fields
    BY <1>3, <1>5 DEF NewestAt, EventOf, Says, NewsTypes, TimerEvents, Fields
  <2>2. newest[j]["timer"] < z
    OBVIOUS
  <2>3. ToCome(z)
    BY <1>4, <2>1, <2>2 DEF SyncStream, NewsComes
  <2>4. z = e
    BY <1>1, <1>4, <2>3
  <2> QED BY <1>5, <2>4 DEF Says, TimerEvents
<1>7. NewestAt(log, z, j, TimerTypes, p)
  <2>1. \A x \in DOMAIN log : Says(log, x, j, TimerTypes) /\ x <= p => x <= z
    <3> SUFFICES ASSUME NEW x \in DOMAIN log, Says(log, x, j, TimerTypes), x <= p
                 PROVE  x <= z
      OBVIOUS
    <3>1. x <= e
      BY <1>1
    <3> QED BY <1>3, <3>1 DEF NewestAt
  <2> QED BY <1>3, <1>6, <2>1 DEF NewestAt
<1>8. \A x : NewestAt(log, x, j, TimerTypes, e) => x = z
  <2> SUFFICES ASSUME NEW x, NewestAt(log, x, j, TimerTypes, e) PROVE x = z
    OBVIOUS
  <2>1. x <= z /\ z <= x /\ x \in Int
    BY <1>1, <1>3, <1>4 DEF NewestAt, EventOf
  <2> QED BY <1>4, <2>1
<1> QED BY <1>5, <1>7, <1>8

\* TIMER_ELAPSED is about the newest timer, which is over.
LEMMA BoardTimerElapsed ==
    ASSUME BoardInv, TabInv, BoardMoves, SyncLog, SyncStream, SyncBoard, OnTimerElapsed
    PROVE  SyncBoard'
<1>1. PICK e, j : e = Head(queue) /\ j = log[e].item
  OBVIOUS
<1> DEFINE kinds == {"highlighted"}
           face  == [Card(j) EXCEPT !.over = TRUE]
<1>2. /\ queue # << >> /\ Handled /\ log[e].type = "TIMER_ELAPSED"
      /\ newest' = Told(newest, j, {"timer"}, e) /\ UNCHANGED <<deadlines, fetches>>
      /\ IF Shows(j, kinds)
         THEN /\ board' = [board EXCEPT ![j] = <<face>> \o Tail(@)]
              /\ overtaken' = overtaken \cup {x \in {<<j, "timer">>} : e < newest[j].timer}
         ELSE UNCHANGED <<board, overtaken>>
  BY <1>1 DEF OnTimerElapsed, Receives
<1>3. ShownOK /\ DeadlinesOK /\ "text" \in Fields /\ "card" \in Fields /\ "timer" \in Fields
  BY DEF TabInv, Fields
<1>4. e \in DOMAIN log /\ e \in Int /\ j \in Items
  <2>1. e \in DOMAIN log /\ e \in Int
    BY <1>1, <1>2, HeadIsFirst DEF SyncStream
  <2>2. log[e] \in Events
    BY <2>1, LogType
  <2> QED BY <1>1, <1>2, <2>1, <2>2, EventTypes
<1>5. Shows(j, kinds) => /\ face \in Faces
                         /\ face.kind = Card(j).kind /\ face.text = Card(j).text
                         /\ face.endAt = Card(j).endAt
  <2> SUFFICES ASSUME OnBoard(j)
               PROVE  /\ face \in Faces
                      /\ face.kind = Card(j).kind /\ face.text = Card(j).text
                      /\ face.endAt = Card(j).endAt
    BY DEF Shows
  <2>1. Card(j) \in Faces
    BY <1>3, <1>4, CardType
  <2>2. face \in Faces
    BY <2>1 DEF Faces
  <2> QED BY <2>1, <2>2 DEF Faces
<1> HIDE DEF face
<1>6. /\ \A i \in Items \ {j} : board'[i] = board[i]
      /\ OnBoard(j)' <=> OnBoard(j)
      /\ Card(j)' = IF Shows(j, kinds) THEN face ELSE Card(j)
  <2>1. CASE ~ Shows(j, kinds)
    BY <1>2, <2>1 DEF OnBoard, Card
  <2>2. CASE Shows(j, kinds)
    <3>1. Tail(board[j]) = << >> /\ DOMAIN board = Items /\ OnBoard(j)
      BY <1>3, <1>4, <2>2, CardType DEF ShownOK, Shows
    <3>2. board'[j] = <<face>>
      BY <1>2, <1>4, <1>5, <2>2, <3>1, PileTypes
    <3>3. <<face>> # << >> /\ Head(<<face>>) = face
      BY <1>5, <2>2, PileTypes
    <3>4. \A i \in Items \ {j} : board'[i] = board[i]
      BY <1>2, <2>2, <3>1
    <3> QED BY <2>2, <3>1, <3>2, <3>3, <3>4 DEF OnBoard, Card
  <2> QED BY <2>1, <2>2
<1>7. /\ NewestGrows /\ newest'[j].timer = Later(newest[j].timer, e)
      /\ newest'[j].card = newest[j].card /\ newest'[j].text = newest[j].text
      /\ newest[j].timer \in 0 .. Len(log)
  BY <1>2, <1>3, <1>4, PartTold
<1>8. DueAt(j) \subseteq DueAt(j)' /\ log' = log /\ \A x : ToCome(x) => e <= x
  <2>1. ~ Says(log, e, j, {"ITEM_STATUS_CHANGED"})
    BY <1>2 DEF Says
  <2> QED BY <1>1, <1>2, <1>4, <2>1, HandlesNext
<1>9. /\ overtaken \subseteq overtaken'
      /\ \A f \in Fields \ {"timer"} : <<j, f>> \in overtaken' <=> <<j, f>> \in overtaken
      /\ Shows(j, kinds) /\ e < newest[j].timer => <<j, "timer">> \in overtaken'
  BY <1>2
<1>10. ASSUME OnBoard(j), Unarchived(j)
       PROVE  CardFine(log, now, j, Card(j)', newest'[j], overtaken', DueAt(j)')
  <2>1. CardFine(log, now, j, Card(j), newest[j], overtaken, DueAt(j)) /\ Exists(j)
    BY <1>4, <1>10 DEF SyncBoard, CardSync
  <2>2. \A f \in Fields : KnowsCreation(log, j, newest'[j][f])
    BY <1>4, <1>7, <1>8, <2>1, ToldKnows DEF CardFine
  <2>3. PICK c : c = Card(j)'
    OBVIOUS
  <2>4. c.kind = Card(j).kind /\ c.text = Card(j).text /\ c.endAt = Card(j).endAt
    BY <1>5, <1>6, <2>3
  <2>5. ShowsKind(log, j, newest[j].card, Card(j), DueAt(j)) => ShowsKind(log, j, newest'[j].card, c, DueAt(j)')
    BY <1>7, <1>8, <2>4 DEF ShowsKind
  <2>6. ShowsText(log, j, newest[j].text, Card(j)) => ShowsText(log, j, newest'[j].text, c)
    BY <1>7, <2>4 DEF ShowsText
  <2>7. <<j, "timer">> \notin overtaken' => ShowsEnd(log, j, newest'[j].timer, c, DueAt(j)', now)
    <3>1. CASE Card(j).kind = "highlighted"
      <4> SUFFICES ASSUME <<j, "timer">> \notin overtaken'
                   PROVE  /\ OverInTime(c, now)
                          /\ TellsEnd(log, j, newest'[j].timer, c.endAt)
        BY DEF ShowsEnd
      <4>1. <<j, "timer">> \notin overtaken /\ ~ (e < newest[j].timer)
        BY <1>9, <1>10, <3>1 DEF Shows
      <4>2. newest[j].timer \in Int /\ newest[j].timer <= e /\ newest'[j].timer = e
        BY <1>4, <1>7, <4>1 DEF Later
      <4>3. KnowsCreation(log, j, newest[j]["timer"])
        BY <1>3, <2>1 DEF CardFine
      <4>4. Says(log, e, j, {"TIMER_ELAPSED"})
        BY <1>1, <1>2 DEF Says
      <4>5. PICK z : /\ NewestAt(log, z, j, TimerTypes, newest[j].timer)
                     /\ \A x : NewestAt(log, x, j, TimerTypes, e) => x = z
                     /\ log[z].type \in TimerEvents
                     /\ EndOf(log[z]) # 0 /\ EndOf(log[z]) <= now
        BY <1>4, <1>8, <1>10, <2>1, <4>2, <4>3, <4>4, ElapsedTells
      <4>6. \A x : ~ Supersedes(log, j, x, newest[j].timer)
        BY <4>5 DEF Supersedes
      <4>7. Card(j).endAt = EndOf(log[z])
        BY <2>1, <3>1, <4>1, <4>5, <4>6 DEF CardFine, ShowsEnd, TellsEnd
      <4> QED BY <2>4, <4>2, <4>5, <4>7 DEF OverInTime, TellsEnd
    <3>2. CASE Card(j).kind # "highlighted"
      BY <2>4, <3>2 DEF ShowsEnd
    <3> QED BY <3>1, <3>2
  <2>8. /\ <<j, "card">> \in overtaken' <=> <<j, "card">> \in overtaken
        /\ <<j, "text">> \in overtaken' <=> <<j, "text">> \in overtaken
    BY <1>3, <1>9
  <2>9. CardFine(log, now, j, c, newest'[j], overtaken', DueAt(j)')
    BY <2>1, <2>2, <2>4, <2>5, <2>6, <2>7, <2>8 DEF CardFine
  <2> QED BY <2>3, <2>9
<1>11. deadlines'[j] <= newest'[j].timer
  <2>1. deadlines[j] <= newest[j].timer /\ deadlines[j] \in Int
    BY <1>3, <1>4 DEF SyncBoard, CardSync, DeadlinesOK, Places
  <2> QED BY <1>2, <1>4, <1>7, <2>1 DEF Later
<1>12. /\ <<j, "card">> \in overtaken => <<j, "card">> \in overtaken'
       /\ \A i \in Items \ {j} : \A g : <<i, g>> \in overtaken => <<i, g>> \in overtaken'
       /\ \A i \in Items \ {j} : deadlines'[i] = deadlines[i]
       /\ log[e].type # "ITEM_STATUS_CHANGED"
  BY <1>2, <1>9
<1> HIDE DEF kinds
<1> QED BY <1>1, <1>2, <1>4, <1>6, <1>10, <1>11, <1>12, PartChanges

\* An archive takes every card off the board: the cards that are still active
\* were added after it, so they are still to be inserted.
LEMMA BoardRetroArchived ==
    ASSUME BoardInv, TabInv, BoardMoves, SyncLog, TransactionsHidden, SyncStream, SyncBoard, OnRetroArchived
    PROVE  SyncBoard'
<1>1. PICK e : e = Head(queue)
  OBVIOUS
<1>2. /\ queue # << >> /\ Handled /\ log[e].type = "RETRO_ARCHIVED" /\ deadlines' = deadlines
      /\ board' = [i \in Items |-> << >>]
      /\ overtaken' = {x \in Items \X Fields : e < newest[x[1]][x[2]]}
      /\ newest' = [i \in Items |-> [f \in Fields |-> Later(newest[i][f], e)]]
  BY <1>1 DEF OnRetroArchived, Receives, Cleared
<1>3. e \in DOMAIN log /\ e \in Int /\ Queued(e) /\ UNCHANGED <<log, item>>
  BY <1>1, <1>2, HeadIsFirst DEF SyncStream, Handled, vars, boardVars
<1>4. "card" \in Fields /\ "timer" \in Fields
  BY DEF Fields
<1> SUFFICES ASSUME NEW i \in Items PROVE CardSync(i)'
  BY DEF SyncBoard
<1>5. ~ OnBoard(i)'
  BY <1>2 DEF OnBoard
<1>6. Awaited(i)'
  <2> SUFFICES ASSUME Exists(i)', Unarchived(i)', <<i, "card">> \notin overtaken'
               PROVE  \E x \in DOMAIN log' : Says(log', x, i, {"ITEM_CREATED"})
                                             /\ (newest'[i].card < x \/ Asked(i, x)')
    BY DEF Awaited
  <2>1. Exists(i) /\ Unarchived(i)
    BY <1>3 DEF Exists, Unarchived
  <2>2. newest'[i].card = e
    <3>1. newest[i]["card"] \in Int
      BY <1>4, NewestInt
    <3>2. ~ (e < newest[i]["card"])
      BY <1>2, <1>4
    <3>3. newest'[i].card = Later(newest[i]["card"], e)
      BY <1>2, <1>4
    <3> QED BY <1>3, <3>1, <3>2, <3>3 DEF Later
  <2>3. \A q \in Archivers : InTransaction(q) => arch[q].event # e
    BY <1>3 DEF TransactionsHidden
  <2>4. CreatedAfter(i, e)
    BY <1>2, <1>3, <2>1, <2>3 DEF SyncLog, ArchivesOlder
  <2>5. PICK x \in DOMAIN log : Says(log, x, i, {"ITEM_CREATED"}) /\ e < x
    BY <2>4 DEF CreatedAfter
  <2> QED BY <1>3, <2>2, <2>5
<1>7. deadlines'[i] <= newest'[i].timer
  <2>1. newest[i]["timer"] \in Int /\ deadlines[i] \in Int /\ deadlines[i] <= newest[i].timer
    BY <1>4, NewestInt DEF SyncBoard, CardSync, TabInv, DeadlinesOK, Places
  <2>2. newest'[i].timer = Later(newest[i]["timer"], e)
    BY <1>2, <1>4
  <2> QED BY <1>2, <1>3, <2>1, <2>2 DEF Later
<1> QED BY <1>5, <1>6, <1>7 DEF CardSync

\* Every listener keeps the board fine.
LEMMA BoardListener ==
    ASSUME BoardInv, TabInv, BoardMoves, SyncLog, TransactionsHidden, SyncStream, SyncBoard, Listener
    PROVE  SyncBoard'
BY BoardDropOwn, BoardItemCreated, BoardStatusChanged, BoardItemUpdated, BoardTimerUpdated,
   BoardTimerElapsed, BoardRetroArchived DEF Listener

\* Every badge is rendered again, and nothing else changes for card i.
LEMMA CardRendered ==
    ASSUME BoardInv, TabInv, BoardMoves, NEW i \in Items, CardSync(i), NEW b \in [Items -> Pile], NEW o,
           RenderAllTimers(b, o, deadlines), b[i] = board[i], newest'[i] = newest[i],
           \A f \in Fields : <<i, f>> \in overtaken => <<i, f>> \in o, UNCHANGED <<log, item, now, deadlines>>,
           OnBoard(i) => DueAt(i) \subseteq DueAt(i)',
           ~ OnBoard(i) => \A x : Says(log, x, i, {"ITEM_CREATED"}) /\ Asked(i, x) => Asked(i, x)'
    PROVE  CardSync(i)'
<1>1. ShownOK /\ DeadlinesOK /\ newest[i] \in [Fields -> Int] /\ newest[i] \in [Fields -> 0 .. Len(log)]
      /\ deadlines[i] <= newest[i].timer
  BY PlacesInt DEF TabInv, CardSync
<1>2. board'[i] = [k \in DOMAIN b[i] |-> RenderTimer(b[i][k], i, deadlines)]
  BY DEF RenderAllTimers
<1>3. CASE ~ OnBoard(i)
  <2>1. board[i] = << >> /\ DOMAIN b[i] = {}
    BY <1>3 DEF OnBoard
  <2>2. board'[i] = << >>
    BY <1>2, <2>1
  <2>3. b[i] = << >>
    BY <2>1
  <2>4. \A f \in Fields : <<i, f>> \in overtaken => <<i, f>> \in overtaken'
    BY <2>3 DEF RenderAllTimers
  <2> QED BY <1>1, <1>3, <2>1, <2>2, <2>4, CardUntouched
<1>4. CASE OnBoard(i)
  <2>1. PICK face \in Faces : board[i] = <<face>>
    BY <1>1, <1>4 DEF ShownOK, OnBoard, Pile
  <2>2. Card(i) = face /\ Exists(i)
    BY <1>4, <2>1, PileTypes DEF Card, CardSync
  <2>3. OnBoard(i)'
    <3>1. b[i] # << >> /\ 1 \in DOMAIN b[i]
      BY <2>1
    <3>2. 1 \in DOMAIN board'[i] /\ DOMAIN << >> = {}
      BY <1>2, <3>1
    <3> QED BY <3>2 DEF OnBoard
  <2>4. ASSUME Unarchived(i)'
        PROVE  CardFine(log', now', i, Card(i)', newest'[i], overtaken', DueAt(i)')
    <3>1. Unarchived(i)
      BY <2>4 DEF Unarchived
    <3>2. CardFine(log, now, i, face, newest[i], overtaken, DueAt(i)) /\ face.endAt \in Nat
      BY <1>4, <2>2, <3>1 DEF CardSync, Faces
    <3>3. CardFine(log', now', i, face, newest[i], o, DueAt(i)')
      BY <1>1, <1>4, <2>2, <3>2, FineStays
    <3>4. CardFine(log, now, i, Card(i)', newest'[i], overtaken', DueAt(i)')
      BY <1>1, <2>1, <3>3, RenderedCard
    <3> QED BY <3>4
  <2>5. Awaited(i)' /\ Exists(i)'
    BY <2>2, <2>3 DEF Awaited, Exists
  <2> QED BY <1>1, <2>4, <2>5 DEF CardSync
<1> QED BY <1>3, <1>4

\* Settling renders the timers.
LEMMA BoardSettles ==
    ASSUME BoardInv, TabInv, BoardMoves, SyncBoard, Settle
    PROVE  SyncBoard'
<1>1. /\ RenderAllTimers(board, overtaken, deadlines)
      /\ UNCHANGED <<newest, log, item, now, deadlines, queue, cursor, applied, fetches>>
  BY DEF Settle, vars, boardVars, streamVars
<1> SUFFICES ASSUME NEW i \in Items PROVE CardSync(i)'
  BY DEF SyncBoard
<1>2. CardSync(i) /\ board \in [Items -> Pile]
  BY DEF SyncBoard, TabInv, ShownOK
<1>3. DueAt(i)' = DueAt(i) /\ \A x : Asked(i, x)' <=> Asked(i, x)
  BY <1>1 DEF DueAt, ToCome, Queued, Asked
<1> QED BY <1>1, <1>2, <1>3, CardRendered

\* A card is put on the board as an answer brings it.
LEMMA CardPut ==
    ASSUME BoardInv, TabInv, NEW j \in Items, NEW face \in Faces, NEW p \in Int, Exists(j),
           Unarchived(j) => AnswerTells(log, face, j, p),
           UNCHANGED <<log, item, now>>, newest'[j] \in [Fields -> Int],
           \A f \in Fields : newest'[j][f] = Later(newest[j][f], p),
           NEW o, \A f \in Fields : p < newest[j][f] => <<j, f>> \in o
    PROVE  Unarchived(j)' => CardFine(log', now', j, face, newest'[j], o, DueAt(j)')
<1> SUFFICES ASSUME Unarchived(j)'
             PROVE  CardFine(log, now, j, face, newest'[j], o, DueAt(j)')
  OBVIOUS
<1>1. Unarchived(j)
  BY DEF Unarchived
<1>2. newest[j] \in [Fields -> Int]
  BY PlacesInt DEF TabInv
<1>3. PICK m, due : m = newest'[j] /\ due = DueAt(j)'
  OBVIOUS
<1>4. CardFine(log, now, j, face, m, o, due)
  BY <1>1, <1>2, <1>3, PutFine
<1> QED BY <1>3, <1>4

\* The last timer that the tab was told of up to p.
LEMMA ToldTimer ==
    ASSUME BoardInv, NEW j, NEW p \in 0 .. Len(log), NEW told,
           told = LastEvent(SubSeq(log, 1, p), j, {"TIMER_STARTED", "TIMER_EXTENDED"}), told # 0
    PROVE  EventOf(log, told, j, TimerEvents) /\ told <= p
<1>1. PICK l : l = SubSeq(log, 1, p)
  OBVIOUS
<1>2. Len(log) \in Nat /\ DOMAIN log = 1 .. Len(log) /\ \A e \in DOMAIN log : log[e] \in Events
  BY LogType
<1>3. l \in Seq(Events) /\ Len(l) = p /\ \A e \in 1 .. p : l[e] = log[e]
  <2>1. p \in Int /\ 1 \in Int /\ \A e \in 1 .. p : log[e] \in Events
    BY <1>2
  <2>2. /\ l \in Seq(Events) /\ Len(l) = IF 1 <= p THEN p - 1 + 1 ELSE 0
        /\ \A e \in 1 .. p - 1 + 1 : l[e] = log[1 + e - 1]
    BY <1>1, <2>1, SubSeqProperties
  <2> QED BY <1>2, <2>2
<1>4. EventOf(l, told, j, TimerEvents)
  BY <1>1, <1>3, LastEventOf DEF TimerEvents
<1>5. DOMAIN l = 1 .. p
  BY <1>3, LenProperties
<1> QED BY <1>2, <1>3, <1>4, <1>5 DEF EventOf, Says

\* A card that keeps the deadline of the badge it replaces: a timer that the
\* tab was told of after the card was read.
LEMMA CarriedEnd ==
    ASSUME BoardInv, TabInv, NEW j \in Items, NEW p \in Int, NEW x, x <= p, x \in Int,
           Exists(j), KnowsCreation(log, j, newest[j].timer),
           NEW told, told = LastEvent(SubSeq(log, 1, newest[j].timer), j, {"TIMER_STARTED", "TIMER_EXTENDED"}),
           ~ (told < p), 1 <= x
    PROVE  told <= newest[j].timer /\ told \in Int /\ ~ Supersedes(log, j, x, newest[j].timer)
<1>1. newest[j].timer \in 0 .. Len(log) /\ newest[j].timer \in Int
  BY PlacesInt, LogType DEF TabInv
<1>2. told # 0
  BY DEF EventOf
<1>3. EventOf(log, told, j, TimerEvents) /\ told <= newest[j].timer /\ told \in Int
  <2>1. EventOf(log, told, j, TimerEvents) /\ told <= newest[j].timer
    BY <1>1, <1>2, ToldTimer
  <2> QED BY <2>1, LogType DEF EventOf
<1>4. PICK z : NewestAt(log, z, j, TimerTypes, newest[j].timer)
  <2>1. Tells(log, j, {"ITEM_CREATED"})
    BY DEF BoardInv, LogInv, LogTold
  <2>2. "ITEM_CREATED" \in TimerTypes
    BY DEF TimerTypes
  <2> QED BY <2>1, <2>2, LogType, NewestExists
<1>5. told <= z /\ z \in Int
  <2>1. Says(log, told, j, TimerTypes) /\ told \in DOMAIN log
    BY <1>3 DEF EventOf, Says, TimerEvents, TimerTypes
  <2> QED BY <1>3, <1>4, <2>1, LogType DEF NewestAt, EventOf
<1>6. ~ Supersedes(log, j, x, newest[j].timer)
  <2> SUFFICES ASSUME Supersedes(log, j, x, newest[j].timer) PROVE FALSE
    OBVIOUS
  <2>1. z <= x /\ log[z].type \notin TimerEvents
    BY <1>4 DEF Supersedes
  <2>2. z = told
    BY <1>3, <1>5, <2>1
  <2> QED BY <1>3, <2>1, <2>2 DEF EventOf, Says
<1> QED BY <1>3, <1>6

\* An answer has put the only element of card j.
LEMMA CardPlaced ==
    ASSUME BoardInv, TabInv, SyncBoard, NEW j \in Items, NEW face \in Faces, Exists(j),
           UNCHANGED <<log, item, now, deadlines>>, NEW b \in [Items -> Pile], b[j] = <<face>>, NEW o,
           RenderAllTimers(b, o, deadlines), newest'[j] \in [Fields -> Int],
           \A f \in Fields : newest[j][f] <= newest'[j][f],
           Unarchived(j)' => CardFine(log', now', j, face, newest'[j], o, DueAt(j)')
    PROVE  CardSync(j)'
<1>1. /\ "timer" \in Fields /\ newest[j].timer \in Int /\ deadlines[j] \in Int /\ deadlines[j] <= newest[j].timer
      /\ DeadlinesOK
  BY PlacesInt DEF Fields, SyncBoard, CardSync, TabInv, DeadlinesOK, Places
<1>2. deadlines[j] <= newest'[j].timer
  <2>1. newest[j]["timer"] <= newest'[j]["timer"] /\ newest'[j]["timer"] \in Int
    BY <1>1
  <2> QED BY <1>1, <2>1
<1>3. OnBoard(j)'
  <2>1. board'[j] = [k \in DOMAIN b[j] |-> RenderTimer(b[j][k], j, deadlines)] /\ 1 \in DOMAIN b[j]
    BY DEF RenderAllTimers
  <2>2. 1 \in DOMAIN board'[j] /\ DOMAIN << >> = {}
    BY <2>1
  <2> QED BY <2>2 DEF OnBoard
<1>4. ASSUME Unarchived(j)'
      PROVE  CardFine(log', now', j, Card(j)', newest'[j], overtaken', DueAt(j)')
  <2>1. CardFine(log, now, j, face, newest'[j], o, DueAt(j)')
    BY <1>4
  <2>2. CardFine(log, now, j, Card(j)', newest'[j], overtaken', DueAt(j)')
    BY <1>1, <1>2, <2>1, RenderedCard
  <2> QED BY <2>2
<1>5. Exists(j)' /\ Awaited(j)'
  BY <1>3 DEF Exists, Awaited
<1> QED BY <1>2, <1>3, <1>4, <1>5 DEF CardSync

\* replaceCard may keep the deadline of the old badge.
LEMMA CarriedFine ==
    ASSUME BoardInv, TabInv, NEW j \in Items, CardSync(j), OnBoard(j), Exists(j), Unarchived(j),
           NEW old \in Faces, NEW p \in 1 .. Len(log), AnswerTells(log, old, j, p), CarriesOver(Card(j), old),
           NEW face, face = [old EXCEPT !.endAt = Card(j).endAt],
           NEW m \in [Fields -> Int], \A f \in Fields : m[f] = Later(newest[j][f], p),
           NEW due, NEW event, event \in Int, 1 <= event, event <= p, DueAt(j) \subseteq due \cup {event}
    PROVE  CardFine(log, now, j, face, m, Carried(j, p), due)
<1>1. /\ newest[j] \in [Fields -> Int] /\ newest[j].timer \in Int /\ p \in Int
      /\ "card" \in Fields /\ "text" \in Fields /\ "timer" \in Fields /\ {"card", "text"} \in SUBSET Fields
      /\ Fields \in SUBSET Fields
  BY PlacesInt, LogType DEF TabInv, Fields
<1>2. PICK whole, part : whole = Shown(overtaken, j, Fields, p) /\ part = Shown(overtaken, j, {"card", "text"}, p)
  OBVIOUS
<1>3. ASSUME NEW f \in Fields
      PROVE  /\ <<j, f>> \in whole <=> p < newest[j][f]
             /\ f \in {"card", "text"} => (<<j, f>> \in part <=> p < newest[j][f])
             /\ f \notin {"card", "text"} => (<<j, f>> \in part <=> <<j, f>> \in overtaken)
  <2>1. <<j, f>> \in whole <=> IF j = j /\ f \in Fields THEN p < newest[j][f] ELSE <<j, f>> \in overtaken
    BY <1>1, <1>2, ShownField
  <2>2. <<j, f>> \in part <=> IF j = j /\ f \in {"card", "text"} THEN p < newest[j][f] ELSE <<j, f>> \in overtaken
    <3> DEFINE fields == {"card", "text"}
    <3>1. fields \in SUBSET Fields /\ part = Shown(overtaken, j, fields, p)
      BY <1>1, <1>2
    <3> HIDE DEF fields
    <3>2. <<j, f>> \in part <=> IF j = j /\ f \in fields THEN p < newest[j][f] ELSE <<j, f>> \in overtaken
      BY <3>1, ShownField
    <3> QED BY <3>2 DEF fields
  <2> QED BY <2>1, <2>2
<1>4. CardFine(log, now, j, old, m, whole, due)
  BY <1>1, <1>3, PutFine
<1>5. /\ face.kind = old.kind /\ face.text = old.text /\ face.endAt = Card(j).endAt /\ face.over = old.over
      /\ face.elapsed = old.elapsed
  BY DEF Faces
<1>6. face.kind = "highlighted" /\ Card(j).kind = "highlighted" /\ ~ face.elapsed /\ (face.over => face.elapsed)
  BY <1>5 DEF CarriesOver, AnswerTells
<1>7. PICK told : told = LastEvent(SubSeq(log, 1, newest[j].timer), j, {"TIMER_STARTED", "TIMER_EXTENDED"})
  OBVIOUS
<1>8. PICK o : o = Carried(j, p)
  OBVIOUS
<1>9. /\ \A f \in {"card", "text"} : <<j, f>> \in o <=> <<j, f>> \in whole
      /\ <<j, "timer">> \notin o => <<j, "timer">> \notin overtaken /\ ~ (told < p)
  <2>1. o = part \cup {x \in {<<j, "timer">>} : told < p}
    BY <1>2, <1>7, <1>8 DEF Carried
  <2>2. /\ <<j, "card">> \in part <=> <<j, "card">> \in whole
        /\ <<j, "text">> \in part <=> <<j, "text">> \in whole
        /\ <<j, "timer">> \in part <=> <<j, "timer">> \in overtaken
    BY <1>1, <1>3
  <2> QED BY <2>1, <2>2
<1>10. ASSUME <<j, "timer">> \notin o
       PROVE  ShowsEnd(log, j, m.timer, face, due, now)
  <2>1. <<j, "timer">> \notin overtaken /\ ~ (told < p)
    BY <1>9, <1>10
  <2>2. CardFine(log, now, j, Card(j), newest[j], overtaken, DueAt(j))
    BY DEF CardSync
  <2>3. KnowsCreation(log, j, newest[j].timer)
    <3>1. KnowsCreation(log, j, newest[j]["timer"])
      BY <1>1, <2>2 DEF CardFine
    <3> QED BY <3>1
  <2>4. told <= newest[j].timer /\ told \in Int /\ ~ Supersedes(log, j, event, newest[j].timer)
    BY <1>1, <1>7, <2>1, <2>3, CarriedEnd
  <2>5. m.timer = newest[j].timer
    <3>1. m["timer"] = Later(newest[j]["timer"], p)
      BY <1>1
    <3> QED BY <1>1, <2>1, <2>4, <3>1 DEF Later
  <2>6. TellsEnd(log, j, newest[j].timer, Card(j).endAt) \/ \E x \in DueAt(j) : Supersedes(log, j, x, newest[j].timer)
    BY <1>6, <2>1, <2>2 DEF CardFine, ShowsEnd
  <2>7. TellsEnd(log, j, m.timer, face.endAt) \/ \E x \in due : Supersedes(log, j, x, m.timer)
    BY <1>5, <2>4, <2>5, <2>6
  <2> QED BY <1>6, <2>7 DEF ShowsEnd, OverInTime
<1>11. CardFine(log, now, j, face, m, o, due)
  <2>1. /\ face.kind \in BoardKinds /\ \A f \in Fields : KnowsCreation(log, j, m[f])
        /\ <<j, "card">> \notin o => ShowsKind(log, j, m.card, face, due)
        /\ <<j, "text">> \notin o => ShowsText(log, j, m.text, face)
    BY <1>4, <1>5, <1>9 DEF CardFine, ShowsKind, ShowsText
  <2> QED BY <1>10, <2>1 DEF CardFine
<1> QED BY <1>8, <1>11

\* What an answered fetch brings.
LEMMA FetchBrings ==
    ASSUME BoardInv, TabInv, SyncAnswers, NEW f \in fetches, FetchArrives(f)
    PROVE  /\ f.item \in Items /\ f.face \in Faces /\ f.at \in 0 .. Len(log) /\ f.at \in Int
           /\ EventOf(log, f.event, f.item, StatusTypes) /\ f.event \in Int /\ 1 <= f.event
           /\ Exists(f.item)
           /\ Unarchived(f.item) => f.event <= f.at /\ AnswerTells(log, f.face, f.item, f.at)
           /\ fetches' = fetches \ {f}
           /\ UNCHANGED <<log, item, now, deadlines, queue, cursor, applied>>
<1>1. f \in Fetches(Len(log)) /\ FetchSync(f) /\ f.phase = "answered"
  BY DEF TabInv, FetchesOK, SyncAnswers, FetchArrives
<1>2. /\ f.item \in Items /\ f.face \in Faces /\ f.at \in 0 .. Len(log)
      /\ EventOf(log, f.event, f.item, StatusTypes)
      /\ Exists(f.item) /\ (Unarchived(f.item) => f.event <= f.at /\ AnswerTells(log, f.face, f.item, f.at))
  BY <1>1 DEF Fetches, FetchSync, AnswerSync
<1>3. f.event \in 1 .. Len(log) /\ Len(log) \in Nat
  BY <1>2, LogType DEF EventOf
<1>4. fetches' = fetches \ {f} /\ UNCHANGED <<log, item, now, deadlines, queue, cursor, applied>>
  BY DEF FetchArrives, vars, boardVars, streamVars
<1> QED BY <1>2, <1>3, <1>4

\* What is due once fetch f is no longer under way.
LEMMA FetchGone ==
    ASSUME NEW f, fetches' = fetches \ {f}, UNCHANGED <<log, queue, cursor, applied>>, NEW i
    PROVE  /\ i # f.item => DueAt(i) \subseteq DueAt(i)' /\ \A x : Asked(i, x) => Asked(i, x)'
           /\ \A x : x # f.event /\ Asked(i, x) => Asked(i, x)'
           /\ DueAt(i) \subseteq DueAt(i)' \cup {f.event}
<1>1. ASSUME NEW x, Asked(i, x), i # f.item \/ x # f.event
      PROVE  Asked(i, x)'
  <2>1. PICK g \in fetches : g.item = i /\ g.event = x
    BY <1>1 DEF Asked
  <2>2. g \in fetches'
    BY <1>1, <2>1
  <2> QED BY <2>1, <2>2 DEF Asked
<1>2. \A x : ToCome(x)' <=> ToCome(x)
  BY DEF ToCome, Queued
<1> QED BY <1>1, <1>2 DEF DueAt

\* The card of an added item is put on the board, unless it is there.
LEMMA BoardInserts ==
    ASSUME BoardInv, TabInv, BoardMoves, SyncAnswers, SyncBoard, NEW f \in fetches, FetchArrives(f),
           log[f.event].type = "ITEM_CREATED"
    PROVE  SyncBoard'
<1>1. PICK j, face, p, event : j = f.item /\ face = f.face /\ p = f.at /\ event = f.event
  OBVIOUS
<1>2. /\ j \in Items /\ face \in Faces /\ p \in 0 .. Len(log) /\ p \in Int
      /\ Exists(j)
      /\ Unarchived(j) => AnswerTells(log, face, j, p)
      /\ UNCHANGED <<log, item, now, deadlines>>
      /\ \A i : i # j => DueAt(i) \subseteq DueAt(i)' /\ \A x : Asked(i, x) => Asked(i, x)'
      /\ \A x : x # event /\ Asked(j, x) => Asked(j, x)'
      /\ DueAt(j) \subseteq DueAt(j)' \cup {event}
  BY <1>1, FetchBrings, FetchGone
<1>3. InsertCard(f) /\ ShownOK /\ \A i \in Items : CardSync(i)
  BY DEF FetchArrives, TabInv, SyncBoard
<1> SUFFICES ASSUME NEW i \in Items PROVE CardSync(i)'
  BY DEF SyncBoard
<1>4. CASE OnBoard(j)
  <2>1. UNCHANGED <<board, overtaken, newest>>
    BY <1>1, <1>3, <1>4 DEF InsertCard, Inserts
  <2>2. DueAt(i) \subseteq DueAt(i)'
    <3>1. CASE i # j
      BY <1>2, <3>1
    <3>2. CASE i = j
      <4>1. event \notin DueAt(j)
        BY <1>1 DEF DueAt, Says
      <4> QED BY <1>2, <3>2, <4>1
    <3> QED BY <3>1, <3>2
  <2>3. ~ OnBoard(i) => \A x : Asked(i, x) => Asked(i, x)'
    BY <1>2, <1>4
  <2> QED BY <1>2, <1>3, <2>1, <2>2, <2>3, CardUntouched
<1>5. CASE ~ OnBoard(j)
  <2> DEFINE b == [board EXCEPT ![j] = RemoveDuplicateCards(<<face>> \o @)]
             o == Shown(overtaken, j, Fields, p)
  <2>1. newest' = Told(newest, j, Fields, p) /\ RenderAllTimers(b, o, deadlines)
    BY <1>1, <1>3, <1>5 DEF InsertCard, Inserts
  <2>2. b \in [Items -> Pile] /\ b[j] = <<face>> /\ \A k \in Items \ {j} : b[k] = board[k]
    <3>1. board[j] \in Seq(Faces)
      BY <1>2, <1>3, PileTypes DEF ShownOK
    <3>2. RemoveDuplicateCards(<<face>> \o board[j]) = <<face>> /\ <<face>> \in Pile
      BY <1>2, <3>1, RemovesDuplicates, PileTypes
    <3> QED BY <1>2, <1>3, <3>2 DEF ShownOK
  <2>3. Fields \in SUBSET Fields
    OBVIOUS
  <2>4. \A k \in Items \ {j} : \A g : <<k, g>> \in overtaken => <<k, g>> \in o
    BY DEF Shown
  <2>5. \A g \in Fields : p < newest[j][g] => <<j, g>> \in o
    BY <2>3, ShownField
  <2> HIDE DEF b, o
  <2>6. CASE i # j
    <3>1. newest'[i] = newest[i]
      BY <1>3, <2>1, <2>6, ToldOthers
    <3> QED BY <1>2, <1>3, <2>1, <2>2, <2>4, <2>6, <3>1, CardRendered
  <2>7. CASE i = j
    <3>1. newest' \in [Items -> [Fields -> 0 .. Len(log)]] /\ Len(log) \in Nat
      BY <1>2, <1>3, <2>1, LogType, ToldType DEF ShownOK, Places
    <3>2. newest'[j] \in [Fields -> Int] /\ newest[j] \in [Fields -> Int]
      BY <1>2, <1>3, <3>1, PlacesInt
    <3>3. \A g \in Fields : newest'[j][g] = Later(newest[j][g], p)
      BY <1>2, <1>3, <2>1, ToldField
    <3>4. \A g \in Fields : newest[j][g] <= newest'[j][g]
      BY <1>2, <3>2, <3>3 DEF Later
    <3>5. Unarchived(j)' => CardFine(log', now', j, face, newest'[j], o, DueAt(j)')
      BY <1>2, <2>5, <3>2, <3>3, CardPut
    <3>6. CardSync(j)'
      BY <1>2, <2>1, <2>2, <3>2, <3>4, <3>5, CardPlaced
    <3> QED BY <2>7, <3>6
  <2> QED BY <2>6, <2>7
<1> QED BY <1>4, <1>5

\* A changed card takes the place of the one on the board.
LEMMA BoardReplaces ==
    ASSUME BoardInv, TabInv, BoardMoves, SyncAnswers, SyncBoard, NEW f \in fetches, FetchArrives(f),
           log[f.event].type # "ITEM_CREATED"
    PROVE  SyncBoard'
<1>1. PICK j, p, event : j = f.item /\ p = f.at /\ event = f.event
  OBVIOUS
<1>2. /\ j \in Items /\ f.face \in Faces /\ p \in 0 .. Len(log) /\ p \in Int
      /\ EventOf(log, event, j, StatusTypes) /\ event \in Int /\ 1 <= event
      /\ Exists(j)
      /\ Unarchived(j) => event <= p /\ AnswerTells(log, f.face, j, p)
      /\ UNCHANGED <<log, item, now, deadlines>>
      /\ \A i : i # j => DueAt(i) \subseteq DueAt(i)' /\ \A x : Asked(i, x) => Asked(i, x)'
      /\ \A x : x # event /\ Asked(j, x) => Asked(j, x)'
      /\ DueAt(j) \subseteq DueAt(j)' \cup {event}
  BY <1>1, FetchBrings, FetchGone
<1>3. ReplaceCard(f) /\ ShownOK /\ \A i \in Items : CardSync(i)
  BY DEF FetchArrives, TabInv, SyncBoard
<1> SUFFICES ASSUME NEW i \in Items PROVE CardSync(i)'
  BY DEF SyncBoard
<1>4. CASE ~ OnBoard(j)
  <2>1. UNCHANGED <<board, overtaken, newest>>
    BY <1>1, <1>3, <1>4 DEF ReplaceCard
  <2>2. OnBoard(i) => DueAt(i) \subseteq DueAt(i)'
    BY <1>2, <1>4
  <2>3. \A x : Says(log, x, i, {"ITEM_CREATED"}) /\ Asked(i, x) => Asked(i, x)'
    BY <1>1, <1>2 DEF Says
  <2> QED BY <1>2, <1>3, <2>1, <2>2, <2>3, CardUntouched
<1>5. CASE OnBoard(j)
  <2> DEFINE carry == CarriesOver(Card(j), f.face)
             face  == IF carry THEN [f.face EXCEPT !.endAt = Card(j).endAt] ELSE f.face
             b == [board EXCEPT ![j] = <<face>> \o Tail(@)]
             o == IF carry THEN Carried(j, p) ELSE Shown(overtaken, j, Fields, p)
  <2>1. newest' = Told(newest, j, Fields, p) /\ RenderAllTimers(b, o, deadlines)
    BY <1>1, <1>3, <1>5 DEF ReplaceCard
  <2>2. Card(j) \in Faces /\ Tail(board[j]) = << >>
    BY <1>2, <1>3, <1>5, CardType
  <2>3. face \in Faces
    <3>1. Card(j).endAt \in Nat
      BY <2>2 DEF Faces
    <3> QED BY <1>2, <3>1 DEF Faces
  <2>4. \A k \in Items \ {j} : \A g : <<k, g>> \in overtaken => <<k, g>> \in o
    BY DEF Shown, Carried
  <2>5. ~ carry => face = f.face /\ o = Shown(overtaken, j, Fields, p)
    OBVIOUS
  <2>6. carry => face = [f.face EXCEPT !.endAt = Card(j).endAt] /\ o = Carried(j, p)
    OBVIOUS
  <2> HIDE DEF face, o
  <2>7. b \in [Items -> Pile] /\ b[j] = <<face>> /\ \A k \in Items \ {j} : b[k] = board[k]
    <3>1. <<face>> \o Tail(board[j]) = <<face>> /\ <<face>> \in Pile
      BY <2>2, <2>3, PileTypes
    <3> QED BY <1>2, <1>3, <3>1 DEF ShownOK
  <2> HIDE DEF b
  <2>8. CASE i # j
    <3>1. newest'[i] = newest[i]
      BY <1>3, <2>1, <2>8, ToldOthers
    <3> QED BY <1>2, <1>3, <2>1, <2>4, <2>7, <2>8, <3>1, CardRendered
  <2>9. CASE i = j
    <3>1. newest' \in [Items -> [Fields -> 0 .. Len(log)]] /\ Len(log) \in Nat
      BY <1>2, <1>3, <2>1, LogType, ToldType DEF ShownOK, Places
    <3>2. newest'[j] \in [Fields -> Int] /\ newest[j] \in [Fields -> Int]
      BY <1>2, <1>3, <3>1, PlacesInt
    <3>3. \A g \in Fields : newest'[j][g] = Later(newest[j][g], p)
      BY <1>2, <1>3, <2>1, ToldField
    <3>4. \A g \in Fields : newest[j][g] <= newest'[j][g]
      BY <1>2, <3>2, <3>3 DEF Later
    <3>5. Unarchived(j)' => CardFine(log', now', j, face, newest'[j], o, DueAt(j)')
      <4>1. CASE ~ carry
        <5>1. Fields \in SUBSET Fields
          OBVIOUS
        <5>2. \A g \in Fields : p < newest[j][g] => <<j, g>> \in o
          BY <2>5, <4>1, <5>1, ShownField
        <5>3. face = f.face
          BY <2>5, <4>1
        <5> QED BY <1>2, <3>2, <3>3, <2>3, <5>2, <5>3, CardPut
      <4>2. CASE carry
        <5> SUFFICES ASSUME Unarchived(j)'
                     PROVE  CardFine(log, now, j, face, newest'[j], o, DueAt(j)')
          BY <1>2
        <5>1. Unarchived(j) /\ event <= p /\ AnswerTells(log, f.face, j, p)
          BY <1>2 DEF Unarchived
        <5>2. p \in 1 .. Len(log)
          BY <1>2, <3>1, <5>1
        <5>3. PICK m, due, old : m = newest'[j] /\ due = DueAt(j)' /\ old = f.face
          OBVIOUS
        <5>4. CardFine(log, now, j, face, m, Carried(j, p), due)
          BY <1>2, <1>3, <1>5, <2>6, <3>2, <3>3, <4>2, <5>1, <5>2, <5>3, CarriedFine
        <5> QED BY <2>6, <4>2, <5>3, <5>4
      <4> QED BY <4>1, <4>2
    <3>6. CardSync(j)'
      BY <1>2, <2>1, <2>3, <2>7, <3>2, <3>4, <3>5, CardPlaced
    <3> QED BY <2>9, <3>6
  <2> QED BY <2>8, <2>9
<1> QED BY <1>4, <1>5

\* The response to a request takes its place on the board.
LEMMA BoardResponse ==
    ASSUME BoardInv, TabInv, BoardMoves, SyncAnswers, SyncBoard, NEW s \in Slots, ResponseArrives(s)
    PROVE  SyncBoard'
<1>1. PICK r, j, h, p, face : r = req[s] /\ j = r.item /\ h = r.header /\ p = r.at /\ face = r.face
  OBVIOUS
<1>2. UNCHANGED <<log, item, now, deadlines, queue, cursor, fetches>>
  BY DEF ResponseArrives, vars, boardVars
<1>3. r \in Requests(Len(log)) /\ RequestOK(r) /\ RequestSync(r) /\ r.phase = "answered"
  <2>1. r \in Requests(Len(log)) /\ RequestOK(r)
    BY <1>1, ReqRow DEF TabInv
  <2>2. \A x : x = req[s] => RequestSync(x)
    BY DEF SyncAnswers
  <2> QED BY <1>1, <2>1, <2>2 DEF ResponseArrives
<1>4. /\ j \in Items /\ p \in 0 .. Len(log) /\ p \in Int /\ face \in Faces /\ Len(log) \in Nat
      /\ Exists(j) /\ (Unarchived(j) => AnswerTells(log, face, j, p))
      /\ h # 0 => EventOf(log, h, j, CardTypes)
  BY <1>1, <1>3, LogType DEF Requests, RequestOK, RequestSync, AnswerSync
<1>5. CASE ~ r.attached
  <2>1. UNCHANGED <<board, overtaken, newest, applied>>
    BY <1>1, <1>5 DEF ResponseArrives
  <2>2. \A i \in Items : \A x : Asked(i, x) => Asked(i, x)'
    BY <1>2 DEF Asked
  <2> QED BY <1>2, <2>1, <2>2, BoardIdle
<1>6. CASE r.attached
  <2>1. PICK old : /\ old = IF r.kind = "add" THEN board[j] ELSE Tail(board[j])
                   /\ board' = [board EXCEPT ![j] = RemoveDuplicateCards(<<face>> \o old)]
                   /\ overtaken' = Shown(overtaken, j, Fields, p)
                   /\ newest' = Told(newest, j, Fields, p)
                   /\ applied' = IF h = 0 THEN applied ELSE applied \cup {h}
    BY <1>1, <1>6 DEF ResponseArrives
  <2>2. ShownOK /\ Fields \in SUBSET Fields
    BY DEF TabInv
  <2>3. RemoveDuplicateCards(<<face>> \o old) = <<face>>
    <3>1. board[j] \in Pile
      BY <1>4, <2>2 DEF ShownOK
    <3>2. board[j] \in Seq(Faces) /\ Tail(board[j]) \in Seq(Faces)
      <4>1. << >> \in Seq(Faces) /\ Tail(<< >>) \in Seq(Faces)
        OBVIOUS
      <4>2. board[j] # << >> => Tail(board[j]) = << >>
        BY <3>1, PileTypes
      <4>3. board[j] \in Seq(Faces)
        BY <3>1, PileTypes
      <4> QED BY <4>1, <4>2, <4>3
    <3> QED BY <1>4, <2>1, <3>2, RemovesDuplicates
  <2>4. board'[j] = <<face>> /\ \A i \in Items \ {j} : board'[i] = board[i]
    BY <1>4, <2>1, <2>2, <2>3 DEF ShownOK
  <2>5. ASSUME NEW x, NEW i \in Items, i # j, Says(log, x, i, {"ITEM_STATUS_CHANGED"}), ToCome(x)
        PROVE  ToCome(x)'
    <3>1. h # 0 => x # h
      BY <1>4, <2>5 DEF EventOf, Says
    <3> QED BY <1>2, <2>1, <2>5, <3>1 DEF ToCome, Queued
  <2> SUFFICES ASSUME NEW i \in Items PROVE CardSync(i)'
    BY DEF SyncBoard
  <2>6. CardSync(i)
    BY DEF SyncBoard
  <2>7. CASE i # j
    <3>1. newest'[i] = newest[i]
      BY <2>1, <2>2, <2>7, ToldOthers
    <3>2. \A f \in Fields : <<i, f>> \in overtaken => <<i, f>> \in overtaken'
      BY <2>1, <2>7 DEF Shown
    <3>3. \A x : Asked(i, x) => Asked(i, x)'
      BY <1>2 DEF Asked
    <3>4. DueAt(i) \subseteq DueAt(i)'
      BY <1>2, <2>5, <2>7, <3>3 DEF DueAt
    <3> QED BY <1>2, <2>2, <2>4, <2>6, <2>7, <3>1, <3>2, <3>3, <3>4, CardUntouched
  <2>8. CASE i = j
    <3>1. newest' \in [Items -> [Fields -> 0 .. Len(log)]]
      BY <1>4, <2>1, <2>2, ToldType DEF ShownOK, Places
    <3>2. newest'[j] \in [Fields -> Int] /\ newest[j] \in [Fields -> Int]
      BY <1>4, <2>2, <3>1, PlacesInt
    <3>3. \A g \in Fields : newest'[j][g] = Later(newest[j][g], p)
      BY <1>4, <2>1, <2>2, ToldField
    <3>4. \A g \in Fields : p < newest[j][g] => <<j, g>> \in overtaken'
      BY <2>1, <2>2, ShownField
    <3>5. OnBoard(j)' /\ Card(j)' = face
      BY <1>4, <2>4, PileTypes DEF OnBoard, Card
    <3>6. Unarchived(j)' => CardFine(log', now', j, face, newest'[j], overtaken', DueAt(j)')
      BY <1>2, <1>4, <3>2, <3>3, <3>4, CardPut
    <3>7. Exists(j)' /\ Awaited(j)'
      BY <1>2, <1>4, <3>5 DEF Exists, Awaited
    <3>8. deadlines'[j] <= newest'[j].timer
      <4>1. deadlines[j] <= newest[j].timer /\ deadlines[j] \in Int /\ "timer" \in Fields
        BY <1>4, <2>6, <2>8 DEF CardSync, TabInv, DeadlinesOK, Places, Fields
      <4>2. newest'[j]["timer"] = Later(newest[j]["timer"], p) /\ newest[j]["timer"] \in Int
        BY <3>2, <3>3, <4>1
      <4> QED BY <1>2, <1>4, <4>1, <4>2 DEF Later
    <3> QED BY <2>8, <3>5, <3>6, <3>7, <3>8 DEF CardSync
  <2> QED BY <2>7, <2>8
<1> QED BY <1>5, <1>6

\* The answer to a timer request changes the timer of one card at most.
LEMMA TimerChanges ==
    ASSUME BoardInv, TabInv, BoardMoves, SyncStream, SyncBoard, UNCHANGED <<log, item, now, deadlines, fetches>>,
           NEW j \in Items, NEW p \in Int, newest' = Told(newest, j, {"timer"}, p),
           \A i \in Items : DueAt(i) \subseteq DueAt(i)',
           \A i \in Items \ {j} : board'[i] = board[i],
           \A i \in Items \ {j} : \A g : <<i, g>> \in overtaken => <<i, g>> \in overtaken',
           OnBoard(j)' <=> OnBoard(j), <<j, "card">> \in overtaken => <<j, "card">> \in overtaken',
           OnBoard(j) /\ Unarchived(j) =>
              CardFine(log, now, j, Card(j)', newest'[j], overtaken', DueAt(j)')
    PROVE  SyncBoard'
<1> SUFFICES ASSUME NEW i \in Items PROVE CardSync(i)'
  BY DEF SyncBoard
<1>1. ShownOK /\ CardSync(i) /\ \A x : Asked(i, x) => Asked(i, x)'
  BY DEF TabInv, SyncBoard, Asked
<1>2. CASE i # j
  <2>1. newest'[i] = newest[i]
    BY <1>1, <1>2, ToldOthers
  <2> QED BY <1>1, <1>2, <2>1, CardUntouched
<1>3. CASE i = j
  <2>1. newest'[i].card = newest[i].card /\ newest'[i].timer = Later(newest[i].timer, p)
    <3>1. "card" \in Fields /\ "timer" \in Fields
      BY DEF Fields
    <3>2. newest'[i]["card"] = newest[i]["card"] /\ newest'[i]["timer"] = Later(newest[i]["timer"], p)
      BY <1>1, <1>3, <3>1, ToldField
    <3> QED BY <3>2
  <2>2. Awaited(i)'
    BY <1>1, <1>3, <2>1, AwaitedOn DEF CardSync
  <2>3. OnBoard(i)' => Exists(i)'
    BY <1>1, <1>3 DEF CardSync, Exists
  <2>4. OnBoard(i)' /\ Unarchived(i)' => CardFine(log', now', i, Card(i)', newest'[i], overtaken', DueAt(i)')
    BY <1>3 DEF Unarchived
  <2>5. deadlines'[i] <= newest'[i].timer
    <3>1. deadlines[i] <= newest[i].timer /\ deadlines[i] \in Int /\ newest[i].timer \in Int
      BY <1>1, PlacesInt DEF CardSync, TabInv, DeadlinesOK, Places
    <3> QED BY <2>1, <3>1 DEF Later
  <2> QED BY <2>2, <2>3, <2>4, <2>5 DEF CardSync
<1> QED BY <1>2, <1>3

\* The badge that the answer to a timer request brings, or the newer deadline
\* that the tab was told of; what is newer than both will bring the card.
LEMMA BadgeTells ==
    ASSUME BoardInv, TabInv, SyncLog, SyncStream, NEW j \in Items, Exists(j), Unarchived(j),
           deadlines[j] <= newest[j].timer, KnowsCreation(log, j, newest[j].timer),
           NEW at \in 0 .. Len(log), NEW face, face.kind = "highlighted", AnswerTells(log, face, j, at),
           NEW badge \in Faces, badge.kind = "highlighted", badge.endAt = face.endAt, badge.over = badge.elapsed,
           NEW m, m = Later(newest[j].timer, at),
           ~ ((IF FromDeadlines(badge, j, deadlines) THEN deadlines[j] ELSE at) < newest[j].timer)
    PROVE  ShowsEnd(log, j, m, RenderTimer(badge, j, deadlines), DueAt(j), now)
<1>1. PICK r, d, n : r = RenderTimer(badge, j, deadlines) /\ d = deadlines[j] /\ n = newest[j].timer
  OBVIOUS
<1>2. /\ d \in Int /\ n \in Int /\ at \in Int /\ d <= n /\ m = Later(n, at) /\ KnowsCreation(log, j, n)
      /\ DOMAIN log \subseteq Int
  BY <1>1, LogType, PlacesInt DEF TabInv, DeadlinesOK, Places
<1>3. TellsEnd(log, j, at, face.endAt) /\ KnowsCreation(log, j, at)
  BY DEF AnswerTells
<1>4. CASE ~ FromDeadlines(badge, j, deadlines)
  <2>1. r = [badge EXCEPT !.over = badge.elapsed]
    BY <1>1, <1>4 DEF RenderTimer
  <2>2. r.endAt = face.endAt /\ r.over = r.elapsed
    BY <2>1 DEF Faces
  <2>3. m = at
    BY <1>1, <1>2, <1>4 DEF Later
  <2> QED BY <1>1, <1>3, <2>2, <2>3 DEF ShowsEnd, OverInTime
<1>5. CASE FromDeadlines(badge, j, deadlines)
  <2>1. r = [badge EXCEPT !.endAt = Deadline(d), !.over = FALSE]
    BY <1>1, <1>5 DEF RenderTimer
  <2>2. r.endAt = Deadline(d) /\ r.over = FALSE
    BY <2>1 DEF Faces
  <2>3. d = n /\ d # 0 /\ face.endAt = 0
    BY <1>1, <1>2, <1>5 DEF FromDeadlines
  <2>4. d \in DOMAIN log /\ Says(log, d, j, TimerEvents) /\ TellsEnd(log, j, d, Deadline(d))
    BY <1>1, <2>3, DeadlineTells DEF TabInv
  <2>5. CASE at <= d
    <3>1. m = d
      BY <1>2, <2>3, <2>5 DEF Later
    <3> QED BY <1>1, <2>2, <2>4, <3>1 DEF ShowsEnd, OverInTime
  <2>6. CASE ~ (at <= d)
    <3>1. m = at
      BY <1>2, <2>3, <2>6 DEF Later
    <3>2. PICK z : NewestAt(log, z, j, TimerTypes, at)
      <4>1. Tells(log, j, {"ITEM_CREATED"})
        BY DEF BoardInv, LogInv, LogTold
      <4>2. "ITEM_CREATED" \in TimerTypes
        BY DEF TimerTypes
      <4> QED BY <1>3, <4>1, <4>2, LogType, NewestExists
    <3>3. z \in DOMAIN log /\ Says(log, z, j, TimerTypes) /\ z \in Int /\ z <= at
      BY <1>2, <3>2 DEF NewestAt, EventOf
    <3>4. log[z].type \notin TimerEvents
      <4>1. EndOf(log[z]) = 0
        BY <1>3, <2>3, <3>2 DEF TellsEnd
      <4> QED BY <3>3, <4>1 DEF SyncLog, TimersEnd
    <3>5. d < z
      <4>1. Says(log, d, j, TimerTypes) /\ d <= at
        BY <1>2, <2>4, <2>6 DEF Says, TimerTypes, TimerEvents
      <4>2. d <= z
        BY <2>4, <3>2, <4>1 DEF NewestAt
      <4>3. d # z
        BY <2>4, <3>4 DEF Says
      <4> QED BY <1>2, <3>3, <4>2, <4>3
    <3>6. Says(log, z, j, {"ITEM_STATUS_CHANGED"})
      <4>1. ~ Says(log, z, j, {"ITEM_CREATED"})
        BY <1>2, <2>3, <3>3, <3>5 DEF KnowsCreation
      <4> QED BY <3>3, <3>4, <4>1 DEF Says, TimerTypes, TimerEvents
    <3>7. z \in DueAt(j)
      <4>1. Says(log, z, j, NewsTypes("timer")) /\ "timer" \in Fields
        BY <3>6 DEF Says, NewsTypes, Fields
      <4>2. newest[j]["timer"] < z
        BY <1>1, <2>3, <3>5
      <4>3. ToCome(z)
        BY <3>3, <4>1, <4>2 DEF SyncStream, NewsComes
      <4> QED BY <3>3, <3>6, <4>3 DEF DueAt
    <3>8. Supersedes(log, j, z, m)
      <4> SUFFICES ASSUME NEW e, NewestAt(log, e, j, TimerTypes, at)
                   PROVE  e <= z /\ log[e].type \notin TimerEvents
        BY <3>1 DEF Supersedes
      <4>1. e <= z /\ z <= e /\ e \in Int
        BY <1>2, <3>2, <3>3 DEF NewestAt, EventOf
      <4>2. e = z
        BY <3>3, <4>1
      <4> QED BY <3>3, <3>4, <4>2
    <3> QED BY <1>1, <2>2, <3>7, <3>8 DEF ShowsEnd, OverInTime
  <2> QED BY <2>5, <2>6
<1> QED BY <1>4, <1>5

\* What the answer to a timer request brings.
LEMMA PostBrings ==
    ASSUME BoardInv, TabInv, SyncAnswers, NEW p \in posts, PostArrives(p), NEW j, NEW at, NEW h, NEW face,
           j = p.item, at = p.at, h = p.header, face = p.face
    PROVE  /\ j \in Items /\ face \in Faces /\ at \in 0 .. Len(log) /\ at \in Int /\ h \in Int
           /\ Exists(j) /\ (Unarchived(j) => AnswerTells(log, face, j, at))
           /\ UNCHANGED <<log, item, now, deadlines, fetches>>
           /\ \A i \in Items : DueAt(i) \subseteq DueAt(i)'
<1>1. PostOK(p, Len(log)) /\ PostSync(p) /\ p.phase = "answered"
  BY DEF TabInv, PostsOK, SyncAnswers, PostArrives
<1>2. /\ j \in Items /\ face \in Faces /\ at \in 0 .. Len(log) /\ h \in 0 .. Len(log) /\ Len(log) \in Nat
      /\ Exists(j) /\ (Unarchived(j) => AnswerTells(log, face, j, at))
      /\ h # 0 => EventOf(log, h, j, TimerEvents)
  BY <1>1, LogType DEF PostOK, PostSync, AnswerSync
<1>3. /\ UNCHANGED <<log, item, now, deadlines, fetches, queue, cursor>>
      /\ applied' = IF h = 0 THEN applied ELSE applied \cup {h}
  BY DEF PostArrives, vars, boardVars
<1>4. ASSUME NEW i \in Items
      PROVE  DueAt(i) \subseteq DueAt(i)'
  <2>1. \A x : Says(log, x, i, {"ITEM_STATUS_CHANGED"}) /\ h # 0 => x # h
    BY <1>2 DEF EventOf, Says, TimerEvents
  <2> QED BY <1>3, <2>1 DEF DueAt, ToCome, Queued, Asked
<1> QED BY <1>2, <1>3, <1>4

\* The answer of a timer request keeps the board fine.
LEMMA BoardPostArrives ==
    ASSUME BoardInv, TabInv, BoardMoves, SyncLog, SyncStream, SyncAnswers, SyncBoard,
           NEW p \in posts, PostArrives(p)
    PROVE  SyncBoard'
<1>1. PICK j, at, h, face : j = p.item /\ at = p.at /\ h = p.header /\ face = p.face
  OBVIOUS
<1> DEFINE badge == [Card(j) EXCEPT !.endAt = face.endAt, !.elapsed = face.elapsed, !.over = face.elapsed]
           both  == Shows(j, {"highlighted"}) /\ face.kind = "highlighted"
           from  == IF FromDeadlines(badge, j, deadlines) THEN deadlines[j] ELSE at
           new   == RenderTimer(badge, j, deadlines)
<1>2. /\ j \in Items /\ face \in Faces /\ at \in 0 .. Len(log) /\ at \in Int /\ h \in Int
      /\ Exists(j) /\ (Unarchived(j) => AnswerTells(log, face, j, at))
      /\ UNCHANGED <<log, item, now, deadlines, fetches>>
      /\ \A i \in Items : DueAt(i) \subseteq DueAt(i)'
  BY <1>1, PostBrings
<1>3. /\ ShownOK /\ DeadlinesOK /\ CardSync(j) /\ {"timer"} \in SUBSET Fields
      /\ "text" \in Fields /\ "card" \in Fields /\ "timer" \in Fields
  BY <1>2 DEF TabInv, SyncBoard, Fields
<1>4. CASE both
  <2>1. /\ newest' = Told(newest, j, {"timer"}, at)
        /\ board' = [board EXCEPT ![j] = <<new>> \o Tail(@)]
        /\ overtaken' = Shown(overtaken, j, {"timer"}, from)
    BY <1>1, <1>4 DEF PostArrives
  <2>2. Card(j) \in Faces /\ Tail(board[j]) = << >> /\ OnBoard(j) /\ Card(j).kind = "highlighted"
    BY <1>2, <1>3, <1>4, CardType DEF Shows
  <2>3. /\ badge \in Faces
        /\ badge.kind = Card(j).kind /\ badge.text = Card(j).text /\ badge.endAt = face.endAt
        /\ badge.over = badge.elapsed
    <3>1. face.endAt \in Nat /\ face.elapsed \in BOOLEAN
      BY <1>2 DEF Faces
    <3>2. badge \in Faces
      BY <2>2, <3>1 DEF Faces
    <3> QED BY <2>2, <3>1, <3>2 DEF Faces
  <2> HIDE DEF badge
  <2>4. new \in Faces
    BY <1>2, <1>3, <2>3, RenderTimerType
  <2>5. new.kind = Card(j).kind /\ new.text = Card(j).text
    BY <2>3 DEF RenderTimer, Faces
  <2> HIDE DEF new, from
  <2>6. board'[j] = <<new>> /\ \A i \in Items \ {j} : board'[i] = board[i]
    <3>1. <<new>> \o Tail(board[j]) = <<new>>
      BY <2>2, <2>4, PileTypes
    <3> QED BY <1>2, <1>3, <2>1, <3>1 DEF ShownOK
  <2>7. OnBoard(j)' /\ Card(j)' = new
    BY <2>4, <2>6, PileTypes DEF OnBoard, Card
  <2>8. \A g : <<j, g>> \in overtaken' <=> IF g = "timer" THEN from < newest[j][g] ELSE <<j, g>> \in overtaken
    <3> SUFFICES ASSUME NEW g
                 PROVE  <<j, g>> \in overtaken' <=> IF g = "timer" THEN from < newest[j][g] ELSE <<j, g>> \in overtaken
      OBVIOUS
    <3> DEFINE fields == {"timer"}
    <3>1. fields \in SUBSET Fields /\ overtaken' = Shown(overtaken, j, fields, from)
      BY <1>3, <2>1
    <3> HIDE DEF fields
    <3>2. <<j, g>> \in overtaken' <=> IF j = j /\ g \in fields THEN from < newest[j][g] ELSE <<j, g>> \in overtaken
      BY <3>1, ShownField
    <3> QED BY <3>2 DEF fields
  <2>9. \A i \in Items \ {j} : \A g : <<i, g>> \in overtaken => <<i, g>> \in overtaken'
    BY <2>1 DEF Shown
  <2>10. /\ NewestGrows /\ newest'[j].timer = Later(newest[j].timer, at)
         /\ newest'[j].card = newest[j].card /\ newest'[j].text = newest[j].text
    BY <1>2, <1>3, <2>1, PartTold
  <2>11. ASSUME Unarchived(j)
         PROVE  CardFine(log, now, j, Card(j)', newest'[j], overtaken', DueAt(j)')
    <3>1. CardFine(log, now, j, Card(j), newest[j], overtaken, DueAt(j)) /\ deadlines[j] <= newest[j].timer
      BY <1>3, <2>2, <2>11 DEF CardSync
    <3>2. \A f \in Fields : KnowsCreation(log, j, newest'[j][f])
      BY <1>2, <2>10, <3>1, ToldKnows DEF CardFine
    <3>3. DueAt(j) \subseteq DueAt(j)'
      BY <1>2
    <3>4. ShowsKind(log, j, newest[j].card, Card(j), DueAt(j))
          => ShowsKind(log, j, newest'[j].card, new, DueAt(j)')
      BY <2>5, <2>10, <3>3 DEF ShowsKind
    <3>5. ShowsText(log, j, newest[j].text, Card(j)) => ShowsText(log, j, newest'[j].text, new)
      BY <2>5, <2>10 DEF ShowsText
    <3>6. ASSUME <<j, "timer">> \notin overtaken'
          PROVE  ShowsEnd(log, j, newest'[j].timer, new, DueAt(j)', now)
      <4>1. ~ (from < newest[j].timer)
        BY <2>8, <3>6
      <4>2. KnowsCreation(log, j, newest[j].timer)
        <5>1. KnowsCreation(log, j, newest[j]["timer"])
          BY <1>3, <3>1 DEF CardFine
        <5> QED BY <5>1
      <4>3. PICK m : m = newest'[j].timer
        OBVIOUS
      <4>4. ShowsEnd(log, j, m, new, DueAt(j), now)
        <5>1. AnswerTells(log, face, j, at) /\ badge.kind = "highlighted" /\ face.kind = "highlighted"
          BY <1>2, <1>4, <2>2, <2>3, <2>11
        <5>2. m = Later(newest[j].timer, at)
          BY <2>10, <4>3
        <5> QED BY <1>2, <2>3, <2>11, <3>1, <4>1, <4>2, <5>1, <5>2, BadgeTells DEF new, from
      <4> QED BY <3>3, <4>3, <4>4 DEF ShowsEnd
    <3>7. /\ <<j, "card">> \in overtaken' <=> <<j, "card">> \in overtaken
          /\ <<j, "text">> \in overtaken' <=> <<j, "text">> \in overtaken
      BY <2>8
    <3>8. CardFine(log, now, j, new, newest'[j], overtaken', DueAt(j)')
      BY <2>5, <3>1, <3>2, <3>4, <3>5, <3>6, <3>7 DEF CardFine
    <3> QED BY <2>7, <3>8
  <2>12. <<j, "card">> \in overtaken => <<j, "card">> \in overtaken'
    BY <2>8
  <2> QED BY <1>2, <2>1, <2>2, <2>6, <2>7, <2>9, <2>11, <2>12, TimerChanges
<1>5. CASE ~ both
  <2>1. /\ newest' = Told(newest, j, {"timer"}, h)
        /\ overtaken' = overtaken \cup {x \in {<<j, "timer">>} : newest[j].timer < h /\ Shows(j, {"highlighted"})}
        /\ board' = board
    BY <1>1, <1>5 DEF PostArrives
  <2>2. /\ OnBoard(j)' <=> OnBoard(j)
        /\ Card(j)' = Card(j)
        /\ overtaken \subseteq overtaken'
        /\ <<j, "card">> \in overtaken' <=> <<j, "card">> \in overtaken
        /\ <<j, "text">> \in overtaken' <=> <<j, "text">> \in overtaken
        /\ newest[j].timer < h /\ Shows(j, {"highlighted"}) => <<j, "timer">> \in overtaken'
    BY <2>1 DEF OnBoard, Card
  <2>3. /\ NewestGrows /\ newest'[j].timer = Later(newest[j].timer, h)
        /\ newest'[j].card = newest[j].card /\ newest'[j].text = newest[j].text
        /\ newest[j].timer \in Int
    <3>1. newest[j].timer \in Int
      BY <1>2, <1>3, PlacesInt
    <3> QED BY <1>2, <1>3, <2>1, <3>1, PartTold
  <2>4. ASSUME OnBoard(j), Unarchived(j)
        PROVE  CardFine(log, now, j, Card(j)', newest'[j], overtaken', DueAt(j)')
    <3>1. CardFine(log, now, j, Card(j), newest[j], overtaken, DueAt(j))
      BY <1>3, <2>4 DEF CardSync
    <3>2. \A f \in Fields : KnowsCreation(log, j, newest'[j][f])
      BY <1>2, <2>3, <3>1, ToldKnows DEF CardFine
    <3>3. DueAt(j) \subseteq DueAt(j)'
      BY <1>2
    <3>4. ShowsKind(log, j, newest[j].card, Card(j), DueAt(j))
          => ShowsKind(log, j, newest'[j].card, Card(j), DueAt(j)')
      BY <2>3, <3>3 DEF ShowsKind
    <3>5. ASSUME <<j, "timer">> \notin overtaken'
          PROVE  ShowsEnd(log, j, newest'[j].timer, Card(j), DueAt(j)', now)
      <4>1. CASE Card(j).kind = "highlighted"
        <5>1. newest'[j].timer = newest[j].timer
          BY <1>2, <2>2, <2>3, <2>4, <3>5, <4>1 DEF Shows, Later
        <5>2. ShowsEnd(log, j, newest[j].timer, Card(j), DueAt(j), now)
          BY <2>2, <3>1, <3>5 DEF CardFine
        <5> QED BY <3>3, <5>1, <5>2 DEF ShowsEnd
      <4>2. CASE Card(j).kind # "highlighted"
        BY <4>2 DEF ShowsEnd
      <4> QED BY <4>1, <4>2
    <3>6. CardFine(log, now, j, Card(j), newest'[j], overtaken', DueAt(j)')
      BY <2>2, <2>3, <3>1, <3>2, <3>4, <3>5 DEF CardFine
    <3> QED BY <2>2, <3>6
  <2> QED BY <1>2, <2>1, <2>2, <2>4, TimerChanges
<1> QED BY <1>4, <1>5

-----------------------------------------------------------------------------
(* Every step keeps what the tab knows in order.                            *)

\* Every step keeps the part of the invariant that is about the board.
LEMMA SyncBoardStep ==
    ASSUME BoardInv, TabInv, BoardMoves, TransactionsHidden, SyncInv, [BrowserNext]_browserVars
    PROVE  SyncBoard'
<1>0. SyncLog /\ HidesArchives /\ SyncStream /\ SyncAnswers /\ SyncBoard
  BY DEF SyncInv, SyncLog
<1>1. CASE \/ UNCHANGED browserVars
           \/ Elsewhere
           \/ \E f \in fetches : ServeFetch(f)
           \/ \E s \in Slots : Request(s) /\ ~ ResponseArrives(s)
           \/ \E p \in posts : ServePost(p) \/ PostFails(p)
           \/ \E i \in Items : ClickExtend(i) \/ FallbackTick(i)
  BY <1>0, <1>1, BoardLeft
<1>2. CASE Publish \/ Listener \/ Settle
  BY <1>0, <1>2, BoardPublish, BoardListener, BoardSettles
<1>3. CASE \E f \in fetches : FetchArrives(f) \/ FetchFails(f)
  BY <1>0, <1>3, BoardInserts, BoardReplaces, BoardFetchFails
<1>4. CASE \E s \in Slots : ResponseArrives(s)
  BY <1>0, <1>4, BoardResponse
<1>5. CASE \E p \in posts : PostArrives(p)
  BY <1>0, <1>5, BoardPostArrives
<1> QED BY <1>1, <1>2, <1>3, <1>4, <1>5 DEF BrowserNext

\* Every step keeps the invariant.
LEMMA SyncStep ==
    ASSUME CardsAssumption, RetroAssumption, BrowserAssumption, BoardInv, TabInv, (BoardInv /\ TabInv)',
           LeaveInv, SyncInv, [BrowserNext]_browserVars
    PROVE  SyncInv'
<1>1. BoardInv' /\ TabInv' /\ TransactionsHidden
  BY DEF LeaveInv
<1>2. SyncLog /\ HidesArchives /\ SyncStream /\ SyncAnswers /\ SyncBoard
  BY DEF SyncInv, SyncLog
<1>3. BoardMoves /\ SyncLog'
  BY <1>1, <1>2, SyncLogStep
<1>4. HidesArchives'
  BY <1>3 DEF SyncLog
<1>5. SyncStream'
  BY <1>1, <1>2, <1>3, SyncStreamStep
<1>6. SyncAnswers'
  BY <1>1, <1>2, <1>3, <1>4, SyncAnswersStep
<1>7. SyncBoard'
  BY <1>1, <1>3, SyncBoardStep
<1> QED BY <1>3, <1>5, <1>6, <1>7 DEF SyncInv

-----------------------------------------------------------------------------
(* The page as it is loaded.                                                *)

\* The events of the cards that are on the page at first.
LEMMA LoadedEvents ==
    ASSUME CardsAssumption, BrowserAssumption, BrowserInit
    PROVE  \A e \in DOMAIN log :
              /\ log[e].type \in {"ITEM_CREATED", "ITEM_STATUS_CHANGED", "TIMER_STARTED"}
              /\ log[e].type = "TIMER_STARTED" => log[e].started = 1 /\ log[e].duration = MaxDuration
<1>1. PICK text \in [AtLoad -> Texts], created \in SetToSeqs(AtLoad), started \in SetToSeqs(Running) :
          /\ item = [i \in Items |->
                CASE i \in Running -> [NoItem EXCEPT !.status = "HIGHLIGHTED", !.text = text[i],
                                                    !.started = 1, !.duration = MaxDuration]
                  [] i \in AtLoad \ Running -> [NoItem EXCEPT !.status = "CREATED", !.text = text[i]]
                  [] OTHER -> NoItem]
          /\ log = [k \in DOMAIN created |-> [type |-> "ITEM_CREATED", item |-> created[k],
                                              text |-> text[created[k]], status |-> "CREATED"]] \o
                   [k \in DOMAIN started |-> [type |-> "ITEM_STATUS_CHANGED", item |-> started[k],
                                              status |-> "HIGHLIGHTED"]] \o
                   [k \in DOMAIN started |-> [type |-> "TIMER_STARTED", item |-> started[k],
                                              started |-> 1, duration |-> MaxDuration]]
  BY DEF BrowserInit
<1>2. PICK a, b, c : Announces(a, text) /\ Highlights(b) /\ Starts(c) /\ log = (a \o b) \o c
  BY ZenonT(40), <1>1, LoadedLog
<1> DEFINE Ok(e) == /\ e.type \in {"ITEM_CREATED", "ITEM_STATUS_CHANGED", "TIMER_STARTED"}
                    /\ e.type = "TIMER_STARTED" => e.started = 1 /\ e.duration = MaxDuration
           Loaded == {e \in CardEvents : Ok(e)}
<1>3. ASSUME NEW s \in Seq(CardEvents), \A k \in DOMAIN s : Ok(s[k])
      PROVE  s \in Seq(Loaded)
  <2>1. Len(s) \in Nat /\ DOMAIN s = 1 .. Len(s) /\ s = [k \in 1 .. Len(s) |-> s[k]]
    BY LenProperties
  <2>2. \A k \in 1 .. Len(s) : s[k] \in Loaded
    BY <1>3, <2>1, ElementOfSeq
  <2> HIDE DEF Loaded
  <2>3. s \in [1 .. Len(s) -> Loaded]
    BY <2>1, <2>2
  <2> QED BY <2>1, <2>3, SeqDef
<1>4. a \in Seq(CardEvents) /\ b \in Seq(CardEvents) /\ c \in Seq(CardEvents)
  BY <1>2 DEF Announces, Highlights, Starts
<1>5. /\ \A k \in DOMAIN a : Ok(a[k])
      /\ \A k \in DOMAIN b : Ok(b[k])
      /\ \A k \in DOMAIN c : Ok(c[k])
  BY <1>2 DEF Announces, Highlights, Starts
<1>6. a \in Seq(Loaded) /\ b \in Seq(Loaded) /\ c \in Seq(Loaded)
  <2> HIDE DEF Ok, Loaded
  <2> QED BY <1>3, <1>4, <1>5
<1>7. \A e \in DOMAIN log : log[e] \in Loaded
  <2> HIDE DEF Loaded
  <2>1. a \o b \in Seq(Loaded)
    BY <1>6, ConcatProperties
  <2>2. log \in Seq(Loaded)
    BY <1>2, <1>6, <2>1, ConcatProperties
  <2> QED BY <2>2, ElementOfSeq, LenProperties
<1> QED BY <1>7

\* The cards that are there at first are those on the page.
LEMMA LoadedItems ==
    ASSUME CardsAssumption, BrowserAssumption, BrowserInit, NEW i \in Items
    PROVE  Exists(i) <=> i \in AtLoad
<1>1. PICK text \in [AtLoad -> Texts] : item = [j \in Items |->
            CASE j \in Running -> [NoItem EXCEPT !.status = "HIGHLIGHTED", !.text = text[j],
                                                !.started = 1, !.duration = MaxDuration]
              [] j \in AtLoad \ Running -> [NoItem EXCEPT !.status = "CREATED", !.text = text[j]]
              [] OTHER -> NoItem]
  BY DEF BrowserInit
<1>2. Running \subseteq AtLoad
  BY DEF BrowserAssumption
<1>3. CASE i \in Running
  <2>1. item[i] = [NoItem EXCEPT !.status = "HIGHLIGHTED", !.text = text[i],
                                 !.started = 1, !.duration = MaxDuration]
    BY <1>1, <1>3
  <2>2. item[i] = [status |-> "HIGHLIGHTED", text |-> text[i], started |-> 1,
                   duration |-> MaxDuration, elapsed |-> Null, archive |-> Null]
    BY <2>1 DEF NoItem
  <2> QED BY <1>2, <1>3, <2>2 DEF Exists, Status
<1>4. CASE i \in AtLoad \ Running
  <2>1. item[i] = [NoItem EXCEPT !.status = "CREATED", !.text = text[i]]
    BY <1>1, <1>4
  <2>2. item[i] = [status |-> "CREATED", text |-> text[i], started |-> Null,
                   duration |-> Null, elapsed |-> Null, archive |-> Null]
    BY <2>1 DEF NoItem
  <2> QED BY <1>4, <2>2 DEF Exists, Status
<1>5. CASE i \notin AtLoad
  <2>1. item[i] = NoItem
    BY <1>1, <1>2, <1>5
  <2> QED BY <1>5, <2>1 DEF NoItem, Exists, Status, Null
<1> QED BY <1>3, <1>4, <1>5

\* The page shows the board as it is, and knows what the log tells.
LEMMA SyncInit ==
    ASSUME CardsAssumption, BrowserAssumption, BrowserInit
    PROVE  SyncInv
<1>1. BoardInv /\ TabInv
  BY BoardInit, TabInit
<1>2. /\ arch = [q \in Archivers |-> NoArchive]
      /\ board = [i \in Items |-> IF i \in AtLoad THEN <<Face(item[i])>> ELSE << >>]
      /\ newest = [i \in Items |-> [f \in Fields |-> Moment(i, item[i], log)]]
      /\ deadlines = [i \in Items |-> 0] /\ applied = {} /\ queue = << >>
      /\ fetches = {} /\ req = [s \in Slots |-> NoReq] /\ posts = {}
  BY DEF BrowserInit
<1>3. SyncLog
  <2>1. \A e \in DOMAIN log :
              /\ log[e].type \in {"ITEM_CREATED", "ITEM_STATUS_CHANGED", "TIMER_STARTED"}
              /\ log[e].type = "TIMER_STARTED" => log[e].started = 1 /\ log[e].duration = MaxDuration
    BY LoadedEvents
  <2>2. TimersEnd
    <3>1. MaxDuration \in Nat
      BY DEF CardsAssumption
    <3> QED BY <2>1, <3>1 DEF TimersEnd, EndOf, TimerEvents
  <2>3. ElapsedEnded /\ ArchivesOlder
    BY <2>1 DEF ElapsedEnded, ArchivesOlder, Says
  <2>4. LeftOver /\ HidesArchives
    BY <1>2 DEF LeftOver, HidesArchives, NoArchive
  <2> QED BY <2>2, <2>3, <2>4 DEF SyncLog
<1>4. HidesArchives /\ FreshMeaning
  BY <1>1, <1>3, FreshIs DEF SyncLog
<1>5. SyncStream
  <2>1. QueueInOrder
    <3>1. DOMAIN queue = {}
      BY <1>2
    <3> QED BY <3>1 DEF QueueInOrder
  <2>2. NewsComes
    <3> SUFFICES ASSUME NEW i \in Items, Unarchived(i), NEW f \in Fields, NEW e \in DOMAIN log,
                        Says(log, e, i, NewsTypes(f)), newest[i][f] < e
                 PROVE  FALSE
      BY DEF NewsComes
    <3>1. Says(log, e, i, CardTypes)
      BY NewsAreCards DEF Says
    <3>2. e <= newest[i][f]
      BY <1>1, <1>2, <1>4, <3>1, MomentLast
    <3>3. newest[i][f] \in Int /\ e \in Int
      BY <1>1, NewestInt, LogType
    <3> QED BY <3>2, <3>3
  <2> QED BY <2>1, <2>2 DEF SyncStream
<1>6. SyncAnswers
  <2>1. \A s \in Slots : req[s].phase = None /\ req[s].header = 0
    BY <1>2 DEF NoReq
  <2>2. None # "answered" /\ None # "read"
    BY DEF None
  <2>3. \A s \in Slots : RequestSync(req[s])
    BY <2>1, <2>2 DEF RequestSync
  <2>4. EditorsApart
    BY <2>1, <2>2 DEF EditorsApart
  <2> QED BY <1>2, <2>3, <2>4 DEF SyncAnswers
<1>7. ASSUME NEW i \in Items
      PROVE  CardSync(i)
  <2>1. OnBoard(i) <=> i \in AtLoad
    BY <1>2 DEF OnBoard
  <2>2. Exists(i) <=> i \in AtLoad
    BY LoadedItems
  <2>3. newest[i] \in [Fields -> Int] /\ newest[i].timer \in 0 .. Len(log)
    BY <1>1, PlacesInt DEF TabInv
  <2>4. ASSUME OnBoard(i), Unarchived(i)
        PROVE  CardFine(log, now, i, Card(i), newest[i], overtaken, DueAt(i))
    <3>1. PICK p, n, face : p = Moment(i, item[i], log) /\ n = newest[i] /\ face = Card(i)
      OBVIOUS
    <3>2. \A f \in Fields : n[f] = p /\ n[f] \in Int
      BY <1>2, <2>3, <3>1
    <3>3. p \in Int /\ \A f \in Fields : n[f] = Later(n[f], p) /\ ~ (p < n[f])
      <4>1. "card" \in Fields
        BY DEF Fields
      <4> QED BY <3>2, <4>1 DEF Later
    <3>4. face = Face(item[i])
      BY <1>2, <2>1, <2>4, <3>1 DEF Card
    <3>5. AnswerTells(log, face, i, p)
      BY <1>4, <2>1, <2>2, <2>4, <3>1, <3>4 DEF FreshMeaning
    <3>6. n \in [Fields -> Int]
      BY <2>3, <3>1
    <3>7. PICK due : due = DueAt(i)
      OBVIOUS
    <3>8. CardFine(log, now, i, face, n, overtaken, due)
      BY <1>1, <3>3, <3>5, <3>6, PutFine
    <3> QED BY <3>1, <3>7, <3>8
  <2>5. Awaited(i) /\ (OnBoard(i) => Exists(i))
    BY <2>1, <2>2 DEF Awaited
  <2>6. deadlines[i] <= newest[i].timer
    BY <1>2, <2>3
  <2> QED BY <2>4, <2>5, <2>6 DEF CardSync
<1> QED BY <1>3, <1>5, <1>6, <1>7 DEF SyncInv, SyncBoard

-----------------------------------------------------------------------------
(* What a settled board shows.                                              *)

\* All that the log tells of a card is known when nothing is to come.
Known(i) ==
    /\ \A f \in Fields, e \in DOMAIN log : Says(log, e, i, NewsTypes(f)) => e <= newest[i][f]
    /\ DueAt(i) = {} /\ \A x : ~ Asked(i, x)

\* With nothing under way, the tab knows all there is about a card.
LEMMA QuietKnows ==
    ASSUME BoardInv, TabInv, SyncInv, Quiet, NEW i \in Items, Unarchived(i)
    PROVE  Known(i)
<1>1. SyncStream /\ HidesArchives
  BY DEF SyncInv, SyncLog
<1>2. queue = << >> /\ fetches = {} /\ \A e \in DOMAIN log : Visible(log, e) => e <= cursor
  BY DEF Quiet
<1>3. ASSUME NEW e \in DOMAIN log, Says(log, e, i, CardTypes)
      PROVE  ~ ToCome(e)
  <2>1. ~ Queued(e)
    <3>1. DOMAIN queue = {}
      BY <1>2
    <3> QED BY <3>1 DEF Queued
  <2>2. e <= cursor
    BY <1>1, <1>2, <1>3, CardVisible
  <2>3. e \in Int /\ cursor \in Int
    BY LogType DEF TabInv, StreamOK, Places
  <2> QED BY <2>1, <2>2, <2>3 DEF ToCome
<1>4. ASSUME NEW f \in Fields, NEW e \in DOMAIN log, Says(log, e, i, NewsTypes(f))
      PROVE  e <= newest[i][f]
  <2>1. ~ ToCome(e)
    <3>1. Says(log, e, i, CardTypes)
      BY <1>4, NewsAreCards DEF Says
    <3> QED BY <1>3, <3>1
  <2>2. ~ (newest[i][f] < e)
    BY <1>1, <1>4, <2>1 DEF SyncStream, NewsComes
  <2>3. newest[i][f] \in Int /\ e \in Int
    BY NewestInt, LogType
  <2> QED BY <2>2, <2>3
<1>5. \A x : ~ Asked(i, x)
  BY <1>2 DEF Asked
<1>6. DueAt(i) = {}
  <2> SUFFICES ASSUME NEW x \in DOMAIN log, Says(log, x, i, {"ITEM_STATUS_CHANGED"}), ToCome(x)
               PROVE  FALSE
    BY <1>5 DEF DueAt
  <2>1. Says(log, x, i, CardTypes)
    BY CardHeaders DEF Says
  <2> QED BY <1>3, <2>1
<1> QED BY <1>4, <1>5, <1>6 DEF Known


\* The newest event that the card is told by is known.
LEMMA KnownNewest ==
    ASSUME BoardInv, NEW i \in Items, Exists(i), NEW types, "ITEM_CREATED" \in types, NEW p,
           \A e \in DOMAIN log : Says(log, e, i, types) => e <= p
    PROVE  \E z : NewestAt(log, z, i, types, p) /\ log[z] = Newest(log, i, types)
<1>1. log \in Seq(Events) /\ Tells(log, i, {"ITEM_CREATED"})
  BY LogType DEF BoardInv, LogInv, LogTold
<1>2. KnowsCreation(log, i, p)
  BY DEF KnowsCreation, Says
<1>3. PICK z : NewestAt(log, z, i, types, p)
  BY <1>1, <1>2, NewestExists
<1>4. z \in DOMAIN log /\ Says(log, z, i, types) /\ \A x \in DOMAIN log : Says(log, x, i, types) => x <= z
  BY <1>3 DEF NewestAt, EventOf
<1>5. LastEvent(log, i, types) = z
  BY <1>1, <1>4, LastEventIs
<1> QED BY <1>3, <1>5 DEF Newest

\* A card of which all is known shows its row.
LEMMA KnownInSync ==
    ASSUME BoardInv, TabInv, SyncInv, NEW i \in Items, OnBoard(i), Unarchived(i), Known(i),
           NEW f \in Fields, <<i, f>> \notin overtaken
    PROVE  InSync(i, f) \/ (f = "timer" /\ StillMarked(i))
<1> DEFINE row == item[i]
<1>0. PICK n, face : n = newest[i] /\ face = Card(i)
  OBVIOUS
<1>1. Exists(i) /\ CardFine(log, now, i, face, n, overtaken, {})
  BY <1>0 DEF SyncInv, SyncBoard, CardSync, Known
<1>2. \A g \in Fields : KnowsCreation(log, i, n[g])
  BY <1>1 DEF CardFine
<1>3. \A g \in Fields, e \in DOMAIN log : Says(log, e, i, NewsTypes(g) \cup {"ITEM_CREATED"}) => e <= n[g]
  BY <1>0, <1>2 DEF Known, KnowsCreation, Says
<1>4. LogTold(log, i, row) /\ row.status # "ARCHIVED"
  BY <1>1 DEF BoardInv, LogInv, Unarchived
<1>5. /\ Face(row).kind = KindOf(row.status)
      /\ row \in ItemRows /\ now \in Nat
  BY RowOf DEF Face, KindOf, BoardInv, TypeOK, BoardTypeOK
<1>6. f \in {"card", "text", "timer"}
  BY DEF Fields
<1>7. CASE f = "card"
  <2>1. \A e \in DOMAIN log : Says(log, e, i, StatusTypes) => e <= n.card
    BY <1>3, <1>7 DEF NewsTypes, StatusTypes, Says
  <2>2. PICK z : NewestAt(log, z, i, StatusTypes, n.card) /\ log[z] = Newest(log, i, StatusTypes)
    BY <1>1, <2>1, KnownNewest DEF StatusTypes
  <2>3. face.kind = "editing" \/ TellsKind(log, i, n.card, face.kind)
    BY <1>1, <1>7 DEF CardFine, ShowsKind
  <2>4. face.kind \in {Face(row).kind, "editing"}
    BY <1>4, <1>5, <2>2, <2>3 DEF TellsKind, LogTold
  <2> QED BY <1>0, <1>1, <1>7, <2>4 DEF InSync
<1>8. CASE f = "text"
  <2>1. \A e \in DOMAIN log : Says(log, e, i, TextTypes) => e <= n.text
    BY <1>3, <1>8 DEF NewsTypes, TextTypes, Says
  <2>2. PICK z : NewestAt(log, z, i, TextTypes, n.text) /\ log[z] = Newest(log, i, TextTypes)
    BY <1>1, <2>1, KnownNewest DEF TextTypes
  <2>3. face.kind = "editing" \/ TellsText(log, i, n.text, face.text)
    BY <1>1, <1>8 DEF CardFine, ShowsText
  <2>4. face.kind = "editing" \/ face.text = row.text
    BY <1>4, <2>2, <2>3 DEF TellsText, LogTold
  <2> QED BY <1>0, <1>8, <2>4 DEF InSync
<1>9. CASE f = "timer" /\ face.kind = "highlighted"
  <2>1. \A e \in DOMAIN log : Says(log, e, i, TimerTypes) => e <= n.timer
    BY <1>3, <1>9 DEF NewsTypes, TimerTypes, Says
  <2>2. PICK z : NewestAt(log, z, i, TimerTypes, n.timer) /\ log[z] = Newest(log, i, TimerTypes)
    BY <1>1, <2>1, KnownNewest DEF TimerTypes
  <2>3. OverInTime(face, now) /\ TellsEnd(log, i, n.timer, face.endAt)
    BY <1>1, <1>9 DEF CardFine, ShowsEnd
  <2>4. face.endAt = EndOf(log[z]) /\ TimerOf(log[z]) = <<row.started, row.duration>>
    BY <1>4, <2>2, <2>3 DEF TellsEnd, LogTold
  <2>5. TimerOK(row, now)
    BY DEF BoardInv, TimerInv
  <2>6. row.started \in Nat /\ row.duration \in Nat
    BY <1>5 DEF ItemRows
  <2>7. face.endAt = EndsAt(row) /\ (face.endAt # 0 <=> row.started # Null)
    <3>1. CASE log[z].type \in TimerEvents
      <4>1. log[z].started = row.started /\ log[z].duration = row.duration
        BY <2>4, <3>1 DEF TimerOf, TimerEvents
      <4>2. EndOf(log[z]) = EndsAt(row)
        BY <3>1, <4>1 DEF EndOf, EndsAt
      <4>3. EndOf(log[z]) # 0
        BY <2>2, <3>1 DEF NewestAt, EventOf, SyncInv, SyncLog, TimersEnd
      <4>4. row.started = Null => EndsAt(row) = 0
        BY <2>5 DEF EndsAt, TimerOK, Null
      <4> QED BY <2>4, <4>2, <4>3, <4>4
    <3>2. CASE log[z].type \notin TimerEvents
      <4>1. row.started = Null /\ row.duration = Null /\ EndOf(log[z]) = 0
        BY <2>4, <3>2 DEF TimerOf, TimerEvents, EndOf
      <4>2. EndsAt(row) = 0
        BY <4>1 DEF EndsAt, Null
      <4> QED BY <2>4, <4>1, <4>2
    <3> QED BY <3>1, <3>2
  <2>8. CASE face.elapsed
    BY <1>0, <1>9, <2>7, <2>8 DEF StillMarked, Shows
  <2>9. CASE ~ face.elapsed
    <3>1. row.elapsed # Null => row.started # Null /\ EndsAt(row) <= now
      <4>1. row.elapsed \in Nat /\ EndsAt(row) \in Nat
        BY <1>5, <2>6 DEF ItemRows, EndsAt
      <4> HIDE DEF row
      <4> QED BY <1>5, <2>5, <4>1 DEF TimerOK
    <3>2. TimerStored(row) = IF row.started # Null /\ EndsAt(row) <= now THEN -1 ELSE EndsAt(row)
      BY <3>1 DEF TimerStored
    <3>3. TimerShown(face) = IF face.endAt # 0 /\ face.endAt <= now THEN -1 ELSE face.endAt
      BY <2>3, <2>9 DEF TimerShown, OverInTime
    <3>4. TimerShown(face) = TimerStored(row)
      BY <2>7, <3>2, <3>3
    <3> QED BY <1>0, <1>9, <3>4 DEF InSync
  <2> QED BY <2>8, <2>9
<1>10. CASE f = "timer" /\ face.kind # "highlighted"
  BY <1>0, <1>10 DEF InSync, Shows
<1> QED BY <1>6, <1>7, <1>8, <1>9, <1>10

\* A card that is not on a settled board is not in the database.
LEMMA SettledShows == BoardInv /\ TabInv /\ SyncInv => OnlyOvertakenOutOfSync
<1> SUFFICES ASSUME BoardInv, TabInv, SyncInv, Quiet, NEW i \in Items, NEW f \in Fields,
                    ~ Archived(i), <<i, f>> \notin overtaken
             PROVE  InSync(i, f) \/ (f = "timer" /\ StillMarked(i))
  BY DEF OnlyOvertakenOutOfSync
<1>1. CardSync(i)
  BY DEF SyncInv, SyncBoard
<1>2. Exists(i) => Unarchived(i)
  BY DEF Exists, Status, Archived, Unarchived
<1>3. CASE OnBoard(i)
  <2>1. Unarchived(i)
    BY <1>1, <1>2, <1>3 DEF CardSync
  <2> QED BY <1>3, <2>1, QuietKnows, KnownInSync
<1>4. CASE ~ OnBoard(i)
  <2>1. f = "card" => ~ Exists(i)
    <3> SUFFICES ASSUME f = "card", Exists(i)
                 PROVE  FALSE
      OBVIOUS
    <3>1. Known(i)
      BY <1>2, QuietKnows
    <3>2. PICK x \in DOMAIN log : Says(log, x, i, {"ITEM_CREATED"}) /\ newest[i].card < x
      BY <1>1, <1>2, <1>4, <3>1 DEF CardSync, Awaited, Known
    <3>3. x <= newest[i].card
      BY <3>1, <3>2 DEF Known, NewsTypes, Says, Fields
    <3>4. newest[i].card \in Int /\ x \in Int
      BY NewestInt, LogType DEF Fields
    <3> QED BY <3>2, <3>3, <3>4
  <2> QED BY <1>4, <2>1 DEF InSync, Shows, Fields
<1> QED BY <1>3, <1>4

\* When the board has settled, each field of a card that is not archived is what
\* the database has, for all that requests, fetches and events may do in between,
\* unless an older answer or event has overtaken news of it, or its badge is still
\* marked elapsed: no event is lost between the answers and the stream, and none
\* is dropped that nothing else has told.
THEOREM SettledInSync == BrowserSpec => []OnlyOvertakenOutOfSync
<1>1. BrowserInit => LeaveInv /\ SyncInv
  BY CardsAssumption, BrowserAssumption, LeaveInit, SyncInit
<1>2. BoardInv /\ TabInv /\ (BoardInv /\ TabInv)' /\ LeaveInv /\ [BrowserNext]_browserVars => LeaveInv'
  BY CardsAssumption, BrowserAssumption, LeaveStep
<1>3. BoardInv /\ TabInv /\ (BoardInv /\ TabInv)' /\ LeaveInv /\ SyncInv /\ [BrowserNext]_browserVars
      => SyncInv'
  BY CardsAssumption, RetroAssumption, BrowserAssumption, SyncStep
<1>4. BoardInv /\ TabInv /\ SyncInv => OnlyOvertakenOutOfSync
  BY SettledShows
<1> QED BY <1>1, <1>2, <1>3, <1>4, TabAlways, PTL DEF BrowserSpec
=============================================================================
