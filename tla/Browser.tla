------------------------------ MODULE Browser ------------------------------
(***************************************************************************)
(* The board of a retro in one browser tab, as retro.js and htmx keep it,  *)
(* on top of the database of module Cards.  The tab shows a card by three  *)
(* routes: the response to a request of its own, the change an event of    *)
(* the stream carries, and a card it fetches because of an event.  The     *)
(* server answers at one moment and the tab applies the answer at another, *)
(* so the routes overtake each other.                                      *)
(*                                                                         *)
(* The stream is that of EventStream without its failures: events come in  *)
(* the order of their ids, and one that commits after a later one has been *)
(* published does not come.  What other people do is any action of Cards.  *)
(* Their clocks and the tab's agree.  The look of the page, the archive    *)
(* dialog and the like counts are left out; a like is here only for the    *)
(* card that its response puts on the board.                               *)
(***************************************************************************)
EXTENDS Cards

CONSTANTS
    AtLoad,         \* the cards on the board when the tab loads the page
    Running,        \* those of them that are highlighted, with a timer that runs
    Slots,          \* requests of the tab that may be under way at a time
    MaxAttempts,    \* the 10 of armHighlightFallback
    Buttons,        \* bound: the buttons the user of the tab presses
    Failures        \* whether requests of the tab may fail

\* The page is that of one retro, and its stream leaves out the events of others.
ASSUME RetroAssumption == \A r, s \in Retros : r = s

ASSUME BrowserAssumption ==
    /\ MaxAttempts \in Nat \ {0}
    /\ IsFiniteSet(Slots)
    /\ AtLoad \subseteq Items
    /\ Running \subseteq AtLoad
    /\ \A i, j \in Running : Home[i] = Home[j] => i = j
    /\ Failures \in BOOLEAN
    /\ Buttons \subseteq {"highlight", "cancel", "complete", "like", "edit", "show", "update", "add"}

VARIABLES
    board,          \* board[i]: the elements that show card i, in document order
    newest,         \* newest[i][f]: the newest event or answer about field f the tab has got
    overtaken,      \* the <<i, f>> whose field on the board is older than that
    deadlines,      \* timerDeadlines[i]: the event whose deadline it holds, or 0
    applied,        \* appliedEventIds
    cleared,        \* the last RETRO_ARCHIVED it has handled
    queue,          \* the events sent to the tab and not handled yet
    cursor,         \* the last event that was sent
    fetches,        \* the GET /items/{id} that events have caused
    req,            \* req[s]: a request that htmx sends for the tab
    posts,          \* the timer requests that retro.js sends
    pending,        \* pendingTimerPosts
    fallback,       \* highlightFallbacks[i]: 0, or 1 + the attempts it has made
    settling        \* htmx:afterSettle is due

shownVars   == <<board, newest, overtaken, deadlines>>
streamVars  == <<applied, cleared, queue, cursor>>
timerVars   == <<posts, pending, fallback>>
tabVars     == <<shownVars, streamVars, fetches, req, timerVars, settling>>
browserVars == <<vars, tabVars>>

Fields == {"card", "text", "timer"}

\* item_card.html; an archived card looks like one that was just created.
Face(row) ==
    LET lit == row.status = "HIGHLIGHTED"
    IN  [kind    |-> CASE lit -> "highlighted"
                       [] row.status = "COMPLETED" -> "completed"
                       [] OTHER -> "plain",
         text    |-> row.text,
         endAt   |-> IF lit /\ row.started # Null THEN EndsAt(row) ELSE 0,
         elapsed |-> lit /\ row.elapsed # Null,
         over    |-> lit /\ row.elapsed # Null]

\* item_edit.html: no badge, and no text that an event could replace.
EditForm(row) ==
    [kind |-> "editing", text |-> row.text, endAt |-> 0, elapsed |-> FALSE, over |-> FALSE]

NoFace == [kind |-> None, text |-> None, endAt |-> 0, elapsed |-> FALSE, over |-> FALSE]
NoReq  == [kind |-> "idle", item |-> None, text |-> None, editor |-> None, phase |-> None,
           attached |-> FALSE, face |-> NoFace, header |-> 0, at |-> 0]

OnBoard(i) == board[i] # << >>
Card(i)    == Head(board[i])
Shows(i, kinds) == OnBoard(i) /\ Card(i).kind \in kinds

Later(a, b) == IF a < b THEN b ELSE a

\* The tab has been told of these fields of card i up to place p of the log.
Told(n, i, fields, p) ==
    [n EXCEPT ![i] = [f \in Fields |-> IF f \in fields THEN Later(@[f], p) ELSE @[f]]]

\* The same for what is on the board now: is it older than what the tab knows?
Shown(o, i, fields, p) ==
    {x \in o : x[1] # i \/ x[2] \notin fields} \cup {<<i, f>> : f \in {g \in fields : p < newest[i][g]}}

\* The deadline in the payload of TIMER_STARTED and TIMER_EXTENDED.
Deadline(e) == log[e].started + log[e].duration

\* A transaction that has not committed hides its event, a rollback its id.
Visible(l, e) == l[e].type # None /\ \A q \in Archivers : arch[q].event # e

Concerns(event, i) ==
    IF event.type = "RETRO_ARCHIVED" THEN event.retro = Home[i] ELSE event.item = i

\* The n-th of these ids, and all of them in order.
Nth(ids, n)  == CHOOSE e \in ids : Cardinality({x \in ids : x <= e}) = n
InOrder(ids) == [n \in 1 .. Cardinality(ids) |-> Nth(ids, n)]

\* The id that the trigger took for the n-th archive.
ArchiveEvent(n, l) == Nth({e \in DOMAIN l : l[e].type \in {"RETRO_ARCHIVED", None}}, n)

\* How new card i is when it is read as row: as new as the last event it can
\* tell of.  An archived card looks as it did before the archive.
Moment(i, row, l) ==
    IF row.status = "ARCHIVED" THEN ArchiveEvent(row.archive, l) - 1
    ELSE Max({0} \cup {e \in DOMAIN l : Visible(l, e) /\ Concerns(l[e], i)})

-----------------------------------------------------------------------------
(* Showing cards.                                                           *)

\* A badge that has no deadline takes the one the events told.
FromDeadlines(face, i, d) ==
    face.kind = "highlighted" /\ ~ face.elapsed /\ face.endAt = 0 /\ d[i] # 0

\* renderTimer
RenderTimer(face, i, d) ==
    IF face.kind # "highlighted" THEN face
    ELSE IF FromDeadlines(face, i, d) THEN [face EXCEPT !.endAt = Deadline(d[i]), !.over = FALSE]
    ELSE [face EXCEPT !.over = face.elapsed]

\* renderAllTimers on the board b, whose overtaken fields are o.
RenderAllTimers(b, o, d) ==
    LET taken == {i \in Items : b[i] # << >> /\ FromDeadlines(Head(b[i]), i, d)}
    IN  /\ board' = [i \in Items |-> [k \in DOMAIN b[i] |-> RenderTimer(b[i][k], i, d)]]
        /\ overtaken' = {x \in o : x[1] \notin taken \/ x[2] # "timer"} \cup
                        {<<i, "timer">> : i \in {j \in taken : d[j] < newest'[j].timer}}

\* Mutation: duplicates stay.
KeepDuplicates(cards) == cards

\* removeDuplicateCards
RemoveDuplicateCards(cards) == SubSeq(cards, 1, 1)

\* The element that requests of card i were to replace is gone.
Detached(r, i) ==
    [s \in Slots |-> IF r[s].item = i /\ r[s].kind # "add"
                     THEN [r[s] EXCEPT !.attached = FALSE] ELSE r[s]]

\* replaceCard keeps the deadline of the old badge.
CarriesOver(old, new) ==
    /\ old.kind = "highlighted" /\ old.endAt # 0
    /\ new.kind = "highlighted" /\ new.endAt = 0 /\ ~ new.elapsed

\* The old deadline is that of an earlier highlight, unless the tab has been
\* told of a timer that the new card is too old to know.
Carried(i, p) ==
    LET told == LastEvent(SubSeq(log, 1, newest[i].timer), i, {"TIMER_STARTED", "TIMER_EXTENDED"})
    IN  Shown(overtaken, i, {"card", "text"}, p) \cup {x \in {<<i, "timer">>} : told < p}

\* replaceCard with the card that fetch f brings.
ReplaceCard(f) ==
    LET i     == f.item
        carry == CarriesOver(Card(i), f.face)
        face  == IF carry THEN [f.face EXCEPT !.endAt = Card(i).endAt] ELSE f.face
    IN  IF OnBoard(i)
        THEN /\ newest' = Told(newest, i, Fields, f.at)
             /\ RenderAllTimers([board EXCEPT ![i] = <<face>> \o Tail(@)],
                                IF carry THEN Carried(i, f.at) ELSE Shown(overtaken, i, Fields, f.at),
                                deadlines)
             /\ req' = Detached(req, i)
        ELSE UNCHANGED <<board, overtaken, newest, req>>

\* insertCard puts a card on the board only when it is not there.
Inserts(i) == ~ OnBoard(i)

InsertCard(f) ==
    LET i == f.item
    IN  IF Inserts(i)
        THEN /\ newest' = Told(newest, i, Fields, f.at)
             /\ RenderAllTimers([board EXCEPT ![i] = RemoveDuplicateCards(<<f.face>> \o @)],
                                Shown(overtaken, i, Fields, f.at), deadlines)
        ELSE UNCHANGED <<board, overtaken, newest>>

-----------------------------------------------------------------------------
(* The stream.                                                              *)

\* The notifier loads what is visible above its cursor and sends it.
Publish ==
    LET ids == {e \in DOMAIN log : cursor < e /\ Visible(log, e)}
    IN  /\ ids # {}
        /\ queue' = queue \o InOrder(ids)
        /\ cursor' = Max(ids)
        /\ UNCHANGED <<vars, shownVars, applied, cleared, fetches, req, timerVars, settling>>

\* appliedEventIds.has(event.lastEventId)
IsOwn(e) == e \in applied

\* The listener takes the next event, one of these types.
Receives(types) == queue # << >> /\ log[Head(queue)].type \in types
Handled ==
    /\ queue' = Tail(queue)
    /\ cleared' = IF log[Head(queue)].type = "RETRO_ARCHIVED" /\ ~ IsOwn(Head(queue))
                  THEN Head(queue) ELSE cleared
    /\ UNCHANGED <<vars, applied, cursor, timerVars, settling>>

DropOwn ==
    /\ queue # << >>
    /\ IsOwn(Head(queue))
    /\ Handled
    /\ UNCHANGED <<shownVars, fetches, req>>

\* Mutation: no second fetch while one of the card is under way.
FetchOnce(i, e) ==
    fetches' = IF \E f \in fetches : f.item = i THEN fetches
               ELSE fetches \cup {[item |-> i, event |-> e, phase |-> "sent", face |-> NoFace, at |-> 0]}

\* fetchCardHtml
FetchCard(i, e) ==
    fetches' = fetches \cup {[item |-> i, event |-> e, phase |-> "sent", face |-> NoFace, at |-> 0]}

OnItemCreated ==
    LET e == Head(queue)
    IN  /\ Receives({"ITEM_CREATED"})
        /\ ~ IsOwn(e)
        /\ FetchCard(log[e].item, e)
        /\ newest' = Told(newest, log[e].item, {"card"}, e)
        /\ Handled
        /\ UNCHANGED <<board, overtaken, deadlines, req>>

\* sse:timer-reset
ResetDeadline(i) == [deadlines EXCEPT ![i] = 0]

OnItemStatusChanged ==
    LET e == Head(queue)
    IN  /\ Receives({"ITEM_STATUS_CHANGED"})
        /\ ~ IsOwn(e)
        /\ deadlines' = ResetDeadline(log[e].item)
        /\ FetchCard(log[e].item, e)
        /\ newest' = Told(newest, log[e].item, {"card", "timer"}, e)
        /\ Handled
        /\ UNCHANGED <<board, overtaken, req>>

\* An event changes field f of card i in place, if the card has that part.
InPlace(e, i, f, kinds, face) ==
    /\ newest' = Told(newest, i, {f}, e)
    /\ IF Shows(i, kinds)
       THEN /\ board' = [board EXCEPT ![i] = <<face>> \o Tail(@)]
            /\ overtaken' = Shown(overtaken, i, {f}, e)
       ELSE UNCHANGED <<board, overtaken>>

OnItemUpdated ==
    LET e == Head(queue)
        i == log[e].item
    IN  /\ Receives({"ITEM_UPDATED"})
        /\ ~ IsOwn(e)
        /\ InPlace(e, i, "text", {"plain", "highlighted", "completed"},
                   [Card(i) EXCEPT !.text = log[e].text])
        /\ Handled
        /\ UNCHANGED <<deadlines, fetches, req>>

\* Mutation: a countdown that runs is left alone.
FirstDeadlineStays(face, e) ==
    [face EXCEPT !.endAt = IF @ # 0 THEN @ ELSE Deadline(e), !.over = FALSE]

\* setCountdown; the mark of an elapsed timer stays on the badge.
CountdownTo(face, e) == [face EXCEPT !.endAt = Deadline(e), !.over = FALSE]

\* handleTimerPayload and sse:timer-updated
OnTimerUpdated ==
    LET e == Head(queue)
        i == log[e].item
    IN  /\ Receives({"TIMER_STARTED", "TIMER_EXTENDED"})
        /\ ~ IsOwn(e)
        /\ deadlines' = [deadlines EXCEPT ![i] = e]
        /\ InPlace(e, i, "timer", {"highlighted"},
                   CountdownTo(Card(i), e))
        /\ Handled
        /\ UNCHANGED <<fetches, req>>

OnTimerElapsed ==
    LET e == Head(queue)
        i == log[e].item
    IN  /\ Receives({"TIMER_ELAPSED"})
        /\ ~ IsOwn(e)
        /\ newest' = Told(newest, i, {"timer"}, e)
        /\ IF Shows(i, {"highlighted"})
           THEN /\ board' = [board EXCEPT ![i] = <<[Card(i) EXCEPT !.over = TRUE]>> \o Tail(@)]
                /\ overtaken' = overtaken \cup {x \in {<<i, "timer">>} : e < newest[i].timer}
           ELSE UNCHANGED <<board, overtaken>>
        /\ Handled
        /\ UNCHANGED <<deadlines, fetches, req>>

\* Mutation: a card that is being edited stays.
LeavesEdited(b) == [i \in Items |-> IF b[i] # << >> /\ Head(b[i]).kind = "editing" THEN b[i] ELSE << >>]

\* Every card is removed, whatever archive took it.
Cleared(b) == [i \in Items |-> << >>]

OnRetroArchived ==
    LET e == Head(queue)
    IN  /\ Receives({"RETRO_ARCHIVED"})
        /\ ~ IsOwn(e)
        /\ board' = Cleared(board)
        /\ overtaken' = {x \in Items \X Fields : e < newest[x[1]][x[2]]}
        /\ newest' = [i \in Items |-> [f \in Fields |-> Later(newest[i][f], e)]]
        /\ req' = [s \in Slots |-> [req[s] EXCEPT !.attached = req[s].kind = "add"]]
        /\ Handled
        /\ UNCHANGED <<deadlines, fetches>>

\* show_item reads the row.
ServeFetch(f) ==
    /\ f.phase = "sent"
    /\ Exists(f.item)
    /\ fetches' = (fetches \ {f}) \cup
         {[f EXCEPT !.phase = "answered", !.face = Face(item[f.item]), !.at = Moment(f.item, item[f.item], log)]}
    /\ UNCHANGED <<vars, shownVars, streamVars, req, timerVars, settling>>

FetchArrives(f) ==
    /\ f.phase = "answered"
    /\ fetches' = fetches \ {f}
    /\ IF log[f.event].type = "ITEM_CREATED"
       THEN InsertCard(f) /\ UNCHANGED req
       ELSE ReplaceCard(f)
    /\ UNCHANGED <<vars, deadlines, streamVars, timerVars, settling>>

\* The fetch fails, which is only logged: the news stays off the board.
FetchFails(f) ==
    /\ Failures
    /\ fetches' = fetches \ {f}
    /\ overtaken' = overtaken \cup {<<f.item, "card">>, <<f.item, "timer">>}
    /\ UNCHANGED <<vars, board, newest, deadlines, streamVars, req, timerVars, settling>>

-----------------------------------------------------------------------------
(* The requests of htmx.                                                    *)

StatusActions == {"highlight", "cancel", "complete"}

\* What the buttons of a card offer.
Offers(i, kind) ==
    CASE kind = "highlight"            -> Shows(i, {"plain"})
      [] kind \in {"cancel", "complete"} -> Shows(i, {"highlighted"})
      [] kind = "like"                 -> Shows(i, {"plain", "highlighted", "completed"})
      [] kind = "edit"                 -> Shows(i, {"plain", "highlighted"})
      [] kind \in {"show", "update"}   -> Shows(i, {"editing"})

\* htmx:beforeRequest of a highlight forgets the deadline of an earlier one.
ForgetDeadline(i) == [deadlines EXCEPT ![i] = 0]

\* A click on card i, up to htmx:beforeRequest.
Click(s, i, kind, text) ==
    /\ Room
    /\ kind \in Buttons
    /\ req[s].kind = "idle"
    /\ ~ \E x \in Slots : req[x].kind = kind /\ req[x].item = i /\ req[x].attached
    /\ Offers(i, kind)
    /\ req' = [req EXCEPT ![s] = [NoReq EXCEPT !.kind = kind, !.item = i, !.text = text,
                                               !.phase = "sent", !.attached = TRUE]]
    /\ IF kind = "highlight"
       THEN /\ deadlines' = ForgetDeadline(i)
            /\ fallback' = [fallback EXCEPT ![i] = Later(@, 1)]
       ELSE UNCHANGED <<deadlines, fallback>>
    /\ UNCHANGED <<vars, board, newest, overtaken, streamVars, fetches, posts, pending, settling>>

SubmitCard(s, text) ==
    /\ Room
    /\ "add" \in Buttons
    /\ req[s].kind = "idle"
    /\ req' = [req EXCEPT ![s] = [NoReq EXCEPT !.kind = "add", !.text = text,
                                               !.phase = "sent", !.attached = TRUE]]
    /\ UNCHANGED <<vars, shownVars, streamVars, fetches, timerVars, settling>>

\* The request has reached phase; face is the card in its response.
Progress(s, phase, i, face, header) ==
    /\ req' = [req EXCEPT ![s].phase = phase, ![s].item = i, ![s].face = face,
                          ![s].header = header, ![s].at = IF face = NoFace THEN 0 ELSE Moment(i, item'[i], log')]
    /\ UNCHANGED <<shownVars, streamVars, fetches, timerVars, settling>>

\* change_item_status commits, and loads the card afterwards.
ServeStatus(s) ==
    /\ req[s].phase = "sent"
    /\ req[s].kind \in StatusActions
    /\ ChangeItemStatus(req[s].item, req[s].kind)
    /\ Progress(s, "committed", req[s].item, NoFace, answer'.header)

ServeAdd(s) ==
    /\ req[s].phase = "sent"
    /\ req[s].kind = "add"
    /\ \E i \in Items :
          /\ AddItem(i, req[s].text)
          /\ Progress(s, "answered", i, Face(item'[i]), answer'.header)

ServeUpdate(s) ==
    /\ req[s].kind = "update"
    /\ \/ /\ req[s].phase = "sent"
          /\ \E q \in Editors :
                /\ ReadOldText(q, req[s].item, req[s].text)
                /\ req' = [req EXCEPT ![s].phase = "read", ![s].editor = q]
                /\ UNCHANGED <<shownVars, streamVars, fetches, timerVars, settling>>
       \/ /\ req[s].phase = "read"
          /\ UpdateText(req[s].editor)
          /\ Progress(s, "answered", req[s].item, Face(item'[req[s].item]), answer'.header)

\* The card is read: the rest of change_item_status, edit_item, show_item, and
\* like_item, whose toggle is no concern of the board here.
ServeCard(s) ==
    LET i == req[s].item
    IN  /\ \/ req[s].phase = "committed"
           \/ req[s].phase = "sent" /\ req[s].kind \in {"like", "edit", "show"}
        /\ Exists(i)
        /\ UNCHANGED vars
        /\ Progress(s, "answered", i,
                    IF req[s].kind = "edit" THEN EditForm(item[i]) ELSE Face(item[i]),
                    req[s].header)

\* startTimerRequest and extendTimerRequest
Post(ps, i, path) ==
    LET alike == {p.nr : p \in {x \in ps : x.item = i /\ x.path = path}}
    IN  ps \cup {[item |-> i, path |-> path, nr |-> Min((1..Cardinality(alike) + 1) \ alike),
                  phase |-> "sent", face |-> NoFace, header |-> 0, at |-> 0]}

Posting(i, path) == {p \in posts : p.item = i /\ p.path = path}

\* htmx:afterRequest of a highlight that stuck, before anything is rendered.
StartsTimer(s) ==
    LET face == req[s].face
    IN  /\ req[s].kind = "highlight"
        /\ face.kind = "highlighted" /\ face.endAt = 0 /\ ~ face.elapsed

\* The response takes the place of its target and names the event of the
\* request, unless the target is gone: then htmx swaps nothing and the body
\* does not hear of the request.
ResponseArrives(s) ==
    LET r == req[s]
        i == r.item
        old == IF r.kind = "add" THEN board[i] ELSE Tail(board[i])
    IN  /\ r.phase = "answered"
        /\ IF r.attached
           THEN /\ board' = [board EXCEPT ![i] = RemoveDuplicateCards(<<r.face>> \o old)]
                /\ overtaken' = Shown(overtaken, i, Fields, r.at)
                /\ newest' = Told(newest, i, Fields, r.at)
                /\ applied' = IF r.header = 0 THEN applied ELSE applied \cup {r.header}
                /\ settling' = TRUE
                /\ req' = [Detached(req, i) EXCEPT ![s] = NoReq]
                /\ IF StartsTimer(s)
                   THEN posts' = Post(posts, i, "start") /\ pending' = pending \cup {i}
                   ELSE UNCHANGED <<posts, pending>>
           ELSE /\ req' = [req EXCEPT ![s] = NoReq]
                /\ UNCHANGED <<board, overtaken, newest, applied, settling, posts, pending>>
        /\ UNCHANGED <<vars, deadlines, cleared, queue, cursor, fetches, fallback>>

\* htmx:afterSettle
Settle ==
    /\ settling
    /\ settling' = FALSE
    /\ UNCHANGED newest
    /\ RenderAllTimers(board, overtaken, deadlines)
    /\ UNCHANGED <<vars, deadlines, streamVars, fetches, req, timerVars>>

\* An error response or none: nothing is swapped.
RequestFails(s) ==
    /\ Failures
    /\ req[s].phase \in {"sent", "committed", "answered"}
    /\ req' = [req EXCEPT ![s] = NoReq]
    /\ UNCHANGED <<vars, shownVars, streamVars, fetches, timerVars, settling>>

-----------------------------------------------------------------------------
(* The timer requests.                                                      *)

\* The +2 min button is there when the countdown is over.
TimerShown(face) ==
    IF face.over \/ (face.endAt # 0 /\ face.endAt <= now) THEN -1 ELSE face.endAt

ClickExtend(i) ==
    /\ Room
    /\ Shows(i, {"highlighted"})
    /\ TimerShown(Card(i)) = -1
    /\ Posting(i, "extend") = {}
    /\ posts' = Post(posts, i, "extend")
    /\ pending' = pending \cup {i}
    /\ UNCHANGED <<vars, shownVars, streamVars, fetches, req, fallback, settling>>

ServePost(p) ==
    /\ p.phase = "sent"
    /\ IF p.path = "start"
       THEN \E d \in Submitted : StartItemTimer(p.item, d)
       ELSE ExtendItemTimer(p.item)
    /\ posts' = (posts \ {p}) \cup
         {[p EXCEPT !.phase = "answered", !.face = Face(item'[p.item]),
                    !.header = answer'.header, !.at = Moment(p.item, item'[p.item], log')]}
    /\ UNCHANGED <<shownVars, streamVars, fetches, req, pending, fallback, settling>>

\* postTimerAction: the event counts as own and, if both are there, the badge
\* of the response replaces the one of the card.
PostArrives(p) ==
    LET i == p.item
        badge == [Card(i) EXCEPT !.endAt = p.face.endAt, !.elapsed = p.face.elapsed,
                                 !.over = p.face.elapsed]
    IN  /\ p.phase = "answered"
        /\ applied' = IF p.header = 0 THEN applied ELSE applied \cup {p.header}
        /\ IF Shows(i, {"highlighted"}) /\ p.face.kind = "highlighted"
           THEN /\ newest' = Told(newest, i, {"timer"}, p.at)
                /\ board' = [board EXCEPT ![i] = <<RenderTimer(badge, i, deadlines)>> \o Tail(@)]
                /\ overtaken' = Shown(overtaken, i, {"timer"},
                                IF FromDeadlines(badge, i, deadlines) THEN deadlines[i] ELSE p.at)
           ELSE /\ newest' = Told(newest, i, {"timer"}, p.header)
                /\ overtaken' = overtaken \cup
                        {x \in {<<i, "timer">>} : newest[i].timer < p.header /\ Shows(i, {"highlighted"})}
                /\ UNCHANGED board
        /\ posts' = posts \ {p}
        /\ pending' = pending \ {i}
        /\ UNCHANGED <<vars, deadlines, cleared, queue, cursor, fetches, req, fallback, settling>>

\* Mutation: the request counts as pending for ever.
NeverSettled(p) ==
    /\ Failures
    /\ posts' = posts \ {p}
    /\ UNCHANGED <<vars, shownVars, streamVars, fetches, req, pending, fallback, settling>>

\* An error is logged; finally() forgets the request.
PostFails(p) ==
    /\ Failures
    /\ posts' = posts \ {p}
    /\ pending' = pending \ {p.item}
    /\ UNCHANGED <<vars, shownVars, streamVars, fetches, req, fallback, settling>>

\* "already handled or in flight"
HandledOrInFlight(i) == deadlines[i] # 0 \/ i \in pending

\* A tick of the interval that armHighlightFallback has set.
FallbackTick(i) ==
    LET waits == /\ Shows(i, {"highlighted"})
                 /\ Card(i).endAt = 0 /\ ~ Card(i).elapsed
        starts == waits /\ ~ HandledOrInFlight(i) /\ fallback[i] < MaxAttempts
    IN  /\ fallback[i] # 0
        /\ fallback' = [fallback EXCEPT ![i] =
              IF ~ waits \/ (~ HandledOrInFlight(i) /\ ~ starts) THEN 0
              ELSE IF @ < MaxAttempts THEN @ + 1 ELSE @]
        /\ IF starts
           THEN posts' = Post(posts, i, "start") /\ pending' = pending \cup {i}
           ELSE UNCHANGED <<posts, pending>>
        /\ UNCHANGED <<vars, shownVars, streamVars, fetches, req, settling>>

-----------------------------------------------------------------------------
\* What the other members of the team and the server do meanwhile.
Elsewhere ==
    /\ \/ \E i \in Items : ItemHandler(i)
       \/ \E q \in Editors : ~ (\E s \in Slots : req[s].editor = q) /\ UpdateItem(q)
       \/ \E q \in Archivers : ArchiveRetro(q)
       \/ TimerSweep
       \/ Tick
    /\ UNCHANGED tabVars

\* show_retro has rendered the cards, whose events will not come again, and the
\* stream is open.
BrowserInit ==
    /\ \E text \in [AtLoad -> Texts], created \in SetToSeqs(AtLoad), started \in SetToSeqs(Running) :
          /\ item = [i \in Items |->
                CASE i \in Running -> [NoItem EXCEPT !.status = "HIGHLIGHTED", !.text = text[i],
                                                    !.started = 1, !.duration = MaxDuration]
                  [] i \in AtLoad \ Running -> [NoItem EXCEPT !.status = "CREATED", !.text = text[i]]
                  [] OTHER -> NoItem]
          /\ log = [k \in DOMAIN created |-> [type |-> "ITEM_CREATED", item |-> created[k],
                                              text |-> text[created[k]], status |-> "CREATED"]] \o
                   [k \in DOMAIN started |-> [type |-> "ITEM_STATUS_CHANGED", item |-> started[k],
                                              status |-> "HIGHLIGHTED"]] \o
                   [k \in DOMAIN started |-> [type |-> "TIMER_STARTED", item |-> started[k],
                                              started |-> 1, duration |-> MaxDuration]]
    /\ actionItem = [a \in ActionItems |-> NoActionItem]
    /\ archives = << >>
    /\ deleted = {}
    /\ edit = [q \in Editors |-> NoEdit]
    /\ arch = [q \in Archivers |-> NoArchive]
    /\ now = 1
    /\ answer = NoAnswer
    /\ board = [i \in Items |-> IF i \in AtLoad THEN <<Face(item[i])>> ELSE << >>]
    /\ overtaken = {}
    /\ newest = [i \in Items |-> [f \in Fields |-> Moment(i, item[i], log)]]
    /\ deadlines = [i \in Items |-> 0]
    /\ applied = {}
    /\ cleared = 0
    /\ queue = << >>
    /\ cursor = Len(log)
    /\ fetches = {}
    /\ req = [s \in Slots |-> NoReq]
    /\ posts = {}
    /\ pending = {}
    /\ fallback = [i \in Items |-> 0]
    /\ settling = FALSE

Listener ==
    \/ DropOwn
    \/ OnItemCreated
    \/ OnItemStatusChanged
    \/ OnItemUpdated
    \/ OnTimerUpdated
    \/ OnTimerElapsed
    \/ OnRetroArchived

Request(s) ==
    \/ \E i \in Items, kind \in StatusActions \cup {"like", "edit", "show"} : Click(s, i, kind, None)
    \/ \E i \in Items, text \in Texts : Click(s, i, "update", text)
    \/ \E text \in Texts : SubmitCard(s, text)
    \/ ServeStatus(s)
    \/ ServeAdd(s)
    \/ ServeUpdate(s)
    \/ ServeCard(s)
    \/ ResponseArrives(s)
    \/ RequestFails(s)

BrowserNext ==
    \/ Elsewhere
    \/ Publish
    \/ Listener
    \/ \E f \in fetches : ServeFetch(f) \/ FetchArrives(f) \/ FetchFails(f)
    \/ \E s \in Slots : Request(s)
    \/ Settle
    \/ \E p \in posts : ServePost(p) \/ PostArrives(p) \/ PostFails(p)
    \/ \E i \in Items : ClickExtend(i) \/ FallbackTick(i)

BrowserSpec == BrowserInit /\ [][BrowserNext]_browserVars

-----------------------------------------------------------------------------
Faces ==
    [kind : {"plain", "highlighted", "completed", "editing", None}, text : Texts \cup {None},
     endAt : Nat, elapsed : BOOLEAN, over : BOOLEAN]

Places == 0..Len(log)

\* Every part of the tab has its type; a deadline is that of a timer event of
\* the card, and pendingTimerPosts names cards whose request is under way: a
\* name left behind would hold back the automatic start for ever.
BrowserTypeOK ==
    /\ board \in [Items -> Seq(Faces)]
    /\ newest \in [Items -> [Fields -> Places]]
    /\ overtaken \subseteq Items \X Fields
    /\ \A i \in Items : deadlines[i] # 0 =>
          /\ log[deadlines[i]].type \in {"TIMER_STARTED", "TIMER_EXTENDED"}
          /\ log[deadlines[i]].item = i
    /\ applied \subseteq DOMAIN log
    /\ queue \in Seq(DOMAIN log)
    /\ {cursor, cleared} \subseteq Places
    /\ \A f \in fetches : f.item \in Items /\ f.face \in Faces /\ {f.event, f.at} \subseteq Places
    /\ \A s \in Slots : req[s].face \in Faces /\ {req[s].header, req[s].at} \subseteq Places
    /\ \A p \in posts : p.item \in Items /\ p.face \in Faces /\ {p.header, p.at} \subseteq Places
    /\ pending \subseteq {p.item : p \in posts}
    /\ fallback \in [Items -> 0..MaxAttempts]
    /\ settling \in BOOLEAN

\* Nothing that was sent or asked for is still to come.
Quiet ==
    /\ queue = << >> /\ fetches = {} /\ posts = {} /\ ~ settling
    /\ \A s \in Slots : req[s].kind = "idle"
    /\ \A e \in DOMAIN log : Visible(log, e) => e <= cursor

\* removeDuplicateCards: "The HTMX swap and the SSE delivery of the same mutation
\* can arrive in either order, so keep the board free of duplicate cards."
NoDuplicateCards == \A i \in Items : Len(board[i]) <= 1

TimerStored(row) ==
    IF row.elapsed # Null \/ (row.started # Null /\ EndsAt(row) <= now) THEN -1
    ELSE EndsAt(row)

Archived(i) == item[i].status = "ARCHIVED"

\* What the board shows of card i is what the database has.
InSync(i, f) ==
    LET row == item[i]
    IN  CASE f = "card"  -> /\ OnBoard(i) <=> Exists(i)
                            /\ OnBoard(i) => Card(i).kind \in {Face(row).kind, "editing"}
          [] f = "text"  -> OnBoard(i) => Card(i).kind = "editing" \/ Card(i).text = row.text
          [] f = "timer" -> Shows(i, {"highlighted"}) => TimerShown(Card(i)) = TimerStored(row)

\* setCountdown leaves data-elapsed on the badge of a timer that has been
\* extended, and the next rendering goes by it.
StillMarked(i) == Shows(i, {"highlighted"}) /\ Card(i).elapsed /\ Card(i).endAt = EndsAt(item[i])

\* Dropping own events, carrying deadlines over and remembering them is enough
\* but for one thing: when the board has settled on something the database does
\* not have, then it shows an answer that came after newer news of that field,
\* an older event that came after the response, or news whose fetch failed.  No
\* event is lost between the three routes, and no deadline of an earlier
\* highlight shows.
OnlyOvertakenOutOfSync ==
    Quiet => \A i \in Items, f \in Fields :
        \/ Archived(i) \/ <<i, f>> \in overtaken \/ InSync(i, f)
        \/ f = "timer" /\ StillMarked(i)

\* An archived card that is still on a settled board came in with an answer that
\* was overtaken, or its RETRO_ARCHIVED was not handled: not sent, as it
\* committed after a later event, or sent before the event of the card.
ArchivedCardsLeave ==
    Quiet => \A i \in Items : Archived(i) /\ OnBoard(i) =>
        \/ <<i, "card">> \in overtaken
        \/ cleared < ArchiveEvent(item[i].archive, log)
        \/ newest[i].card > ArchiveEvent(item[i].archive, log)
=============================================================================
