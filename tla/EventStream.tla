---------------------------- MODULE EventStream ----------------------------
(***************************************************************************)
(* The real-time path of rostfacto, from the row a trigger writes to the   *)
(* frame a browser receives:                                               *)
(*                                                                         *)
(*   transaction -> events table + NOTIFY -> notifier task -> EventHub     *)
(*               -> SSE handler of one connection -> EventSource           *)
(*                                                                         *)
(* Event ids come from a sequence when the row is INSERTed, rows become    *)
(* visible when their transaction COMMITs: ids can become visible out of   *)
(* order.  Every await of src/events.rs separates two actions here.        *)
(***************************************************************************)
EXTENDS Integers, Sequences, Functions

CONSTANTS
    Retros,     \* the retros
    Clients,    \* browser tabs, each showing one board
    Board,      \* Board[c]: the retro tab c shows
    Writers,    \* database connections that run mutating transactions
    MaxEvents   \* bound: how many ids the sequence may hand out

ASSUME StreamAssumption ==
    /\ Board \in [Clients -> Retros]
    /\ MaxEvents \in Nat
    /\ "none" \notin Retros

VARIABLES
    \* the database
    issued,         \* issued[e]: the retro of the event with id e
    tx,             \* tx[w]: rows inserted and channels notified, not yet committed
    committed,      \* ids whose transaction has committed
    deleted,        \* retros deleted, and with them (CASCADE) their events
    \* the notifier task and its LISTEN connection
    listener,       \* the LISTEN connection: "up" or "down"
    notifications,  \* retro ids notified and not yet received
    phase,          \* where notifier_loop is
    target,         \* the retro whose events are loaded or published, or NoRetro
    batch,          \* loaded and not yet published
    lastId,         \* last_id, the cursor
    \* the browsers and the SSE handler that serves each of them
    page,           \* page[c]: events the rendered page already reflects
    conn,           \* conn[c]: where the connection of c is
    inbox,          \* inbox[c]: the handler's receiver
    since,          \* since[c]: the Last-Event-ID header, 0 when absent
    maxId,          \* maxId[c]: the newest event at connect time
    replay,         \* replay[c]: loaded for replay and not yet sent
    received,       \* received[c]: frames the browser got since it rendered
    \* history, read by properties only
    published,      \* ids this notifier handed to the hub
    bootId,         \* the cursor this notifier started from
    late,           \* ids that became visible after a higher id of their retro
    lost            \* unpublished ids whose notification was dropped

dbVars       == <<issued, tx, committed, deleted>>
listenVars   == <<listener, notifications>>
notifierVars == <<phase, target, batch, lastId>>
clientVars   == <<page, conn, inbox, since, maxId, replay, received>>
historyVars  == <<published, bootId, late, lost>>
vars == <<dbVars, listenVars, notifierVars, clientVars, historyVars>>

Phases == {"boot", "idle", "loading", "publishing", "disabled"}
Conns  == {"waiting", "admitted", "subscribed", "bounded", "streaming", "failed"}

\* Mutation: the handler subscribes only after it has loaded the replay.
LiveAfterReplay == {"streaming"}

\* The connections whose handler holds a receiver of the hub.
Live == {"subscribed", "bounded", "streaming"}

Ids == 1 .. Len(issued)

NoRetro == "none"

NoTx == [ids |-> {}, notes |-> << >>]

\* What SELECT ... FROM events WHERE retro_id = r sees.
Rows(r) == IF r \in deleted THEN {} ELSE {e \in committed : issued[e] = r}

AllRows == {e \in committed : issued[e] \notin deleted}

\* COALESCE(MAX(id), 0)
IsMaxId(m, S) == m \in S \cup {0} /\ \A e \in S : e <= m

\* Mutation: the query has no ORDER BY.
IsAny(e, S) == e \in S

\* e is the row an ORDER BY id yields first.
IsNext(e, S) == e \in S /\ \A f \in S : e <= f

\* Committed events above the cursor, of the retros in rs.
Unpublished(rs) == {e \in committed : e > lastId /\ issued[e] \in rs}

-----------------------------------------------------------------------------
(* The database: the triggers of migrations 021 and 022 run inside the      *)
(* transaction of the handler (or of the timer sweep) that fires them.      *)

\* Mutation: the id is one the sequence has not reached.
SkippedId == Len(issued) + 2

\* The next value of the identity column.
NextId == Len(issued) + 1

\* A trigger inserts an event row and calls pg_notify, which keeps one copy
\* of equal notifications per transaction.
EmitEvent(w, r) ==
    /\ Len(issued) < MaxEvents
    /\ r \notin deleted
    /\ issued' = Append(issued, r)
    /\ tx' = [tx EXCEPT ![w] =
                [ids   |-> @.ids \cup {NextId},
                 notes |-> IF r \in Range(@.notes) THEN @.notes
                           ELSE Append(@.notes, r)]]
    /\ UNCHANGED <<committed, deleted, listenVars, notifierVars, clientVars, historyVars>>

\* Mutation: a trigger that inserts its row and does not notify.
SilentCommit(w) == notifications

\* The notifications of a transaction are delivered as it commits.
Notified(w) == IF listener = "up" THEN notifications \o tx[w].notes ELSE notifications

Commit(w) ==
    /\ tx[w].ids # {}
    /\ committed' = committed \cup tx[w].ids
    /\ tx' = [tx EXCEPT ![w] = NoTx]
    /\ notifications' = Notified(w)
    /\ lost' = IF listener = "up" THEN lost ELSE lost \cup tx[w].ids
    /\ late' = late \cup {e \in tx[w].ids :
                            \E f \in committed : e < f /\ issued[f] = issued[e]}
    /\ UNCHANGED <<issued, deleted, listener, notifierVars, clientVars, published, bootId>>

\* The ids of a rolled back transaction are never used again.
Rollback(w) ==
    /\ tx[w].ids # {}
    /\ tx' = [tx EXCEPT ![w] = NoTx]
    /\ UNCHANGED <<issued, committed, deleted, listenVars, notifierVars, clientVars, historyVars>>

\* The foreign key of an uncommitted event row makes the DELETE wait.
DeleteRetro(r) ==
    /\ r \notin deleted
    /\ \A w \in Writers : r \notin Range(tx[w].notes)
    /\ deleted' = deleted \cup {r}
    /\ UNCHANGED <<issued, tx, committed, listenVars, notifierVars, clientVars, historyVars>>

-----------------------------------------------------------------------------
(* The notifier task.                                                       *)

ReadCursor ==
    /\ phase = "boot"
    /\ \E m \in Ids \cup {0} :
          /\ IsMaxId(m, AllRows)
          /\ lastId' = m
          /\ bootId' = m
    /\ phase' = "idle"
    /\ UNCHANGED <<dbVars, listenVars, target, batch, clientVars, published, late, lost>>

\* "failed to read initial event cursor; notifier disabled"
ReadCursorFails ==
    /\ phase = "boot"
    /\ phase' = "disabled"
    /\ UNCHANGED <<dbVars, listenVars, target, batch, lastId, clientVars, historyVars>>

Listen ==
    /\ phase = "idle"
    /\ listener = "down"
    /\ listener' = "up"
    /\ UNCHANGED <<dbVars, notifications, notifierVars, clientVars, historyVars>>

\* Notifications are transient: what was queued on the connection is gone.
DropListener(rs) ==
    /\ listener' = "down"
    /\ notifications' = << >>
    /\ lost' = lost \cup Unpublished(rs)

ConnectionLost ==
    /\ listener = "up"
    /\ DropListener(Range(notifications))
    /\ UNCHANGED <<dbVars, notifierVars, clientVars, published, bootId, late>>

Recv ==
    /\ phase = "idle"
    /\ listener = "up"
    /\ notifications # << >>
    /\ target' = Head(notifications)
    /\ notifications' = Tail(notifications)
    /\ phase' = "loading"
    /\ UNCHANGED <<dbVars, listener, batch, lastId, clientVars, historyVars>>

\* The loop receives again once the batch is published.
AfterBatch ==
    IF batch' = {} THEN phase' = "idle" /\ target' = NoRetro
                   ELSE phase' = "publishing" /\ target' = target

\* Mutation: the cursor is taken for the next id to load.
UnreadOffByOne(r) == {e \in Rows(r) : e > lastId + 1}

\* load_events(pool, retro_id, *last_id, i64::MAX)
Unread(r) == {e \in Rows(r) : e > lastId}

LoadEvents ==
    /\ phase = "loading"
    /\ batch' = Unread(target)
    /\ AfterBatch
    /\ UNCHANGED <<dbVars, listenVars, lastId, clientVars, historyVars>>

\* The error leaves notify_once: its listener is dropped, last_id is kept.
LoadEventsFails ==
    /\ phase = "loading"
    /\ DropListener(Range(notifications) \cup {target})
    /\ phase' = "idle"
    /\ target' = NoRetro
    /\ UNCHANGED <<dbVars, batch, lastId, clientVars, published, bootId, late>>

Publish ==
    /\ phase = "publishing"
    /\ \E e \in batch :
          /\ IsNext(e, batch)
          /\ inbox' = [c \in Clients |->
                         IF Board[c] = target /\ conn[c] \in Live
                         THEN Append(inbox[c], e) ELSE inbox[c]]
          /\ lastId' = IF e > lastId THEN e ELSE lastId
          /\ batch' = batch \ {e}
          /\ published' = published \cup {e}
    /\ AfterBatch
    /\ UNCHANGED <<dbVars, listenVars, page, conn, since, maxId, replay, received,
                   bootId, late, lost>>

-----------------------------------------------------------------------------
(* The SSE handler and the browser.                                         *)

\* show_retro renders the board from the rows of the moment.
PageLoad(c) ==
    /\ Board[c] \notin deleted
    /\ page' = [page EXCEPT ![c] = Rows(Board[c])]
    /\ conn' = [conn EXCEPT ![c] = "waiting"]
    /\ inbox' = [inbox EXCEPT ![c] = << >>]
    /\ since' = [since EXCEPT ![c] = 0]
    /\ maxId' = [maxId EXCEPT ![c] = 0]
    /\ replay' = [replay EXCEPT ![c] = {}]
    /\ received' = [received EXCEPT ![c] = << >>]
    /\ UNCHANGED <<dbVars, listenVars, notifierVars, historyVars>>

\* The EventSource connects, at first or again, and passes require_retro_access.
Admit(c) ==
    /\ conn[c] = "waiting"
    /\ Board[c] \notin deleted
    /\ since' = [since EXCEPT ![c] =
                   IF received[c] = << >> THEN 0 ELSE received[c][Len(received[c])]]
    /\ conn' = [conn EXCEPT ![c] = "admitted"]
    /\ UNCHANGED <<dbVars, listenVars, notifierVars, page, inbox, maxId, replay, received,
                   historyVars>>

Subscribe(c) ==
    /\ conn[c] = "admitted"
    /\ conn' = [conn EXCEPT ![c] = "subscribed"]
    /\ UNCHANGED <<dbVars, listenVars, notifierVars, page, inbox, since, maxId, replay,
                   received, historyVars>>

ReadMaxId(c) ==
    /\ conn[c] = "subscribed"
    /\ \E m \in Ids \cup {0} :
          /\ IsMaxId(m, Rows(Board[c]))
          /\ maxId' = [maxId EXCEPT ![c] = m]
    /\ conn' = [conn EXCEPT ![c] = "bounded"]
    /\ UNCHANGED <<dbVars, listenVars, notifierVars, page, inbox, since, replay, received,
                   historyVars>>

\* Mutations: the event of the header is sent again; the newest one is left out.
ReplayInclusive(c) ==
    IF since[c] = 0 THEN {}
    ELSE {e \in Rows(Board[c]) : since[c] <= e /\ e <= maxId[c]}
ReplayExclusive(c) ==
    IF since[c] = 0 THEN {}
    ELSE {e \in Rows(Board[c]) : since[c] < e /\ e < maxId[c]}

\* load_events(pool, retro_id, since, max_id); nothing without the header.
ReplayRows(c) ==
    IF since[c] = 0 THEN {}
    ELSE {e \in Rows(Board[c]) : since[c] < e /\ e <= maxId[c]}

LoadReplay(c) ==
    /\ conn[c] = "bounded"
    /\ replay' = [replay EXCEPT ![c] = ReplayRows(c)]
    /\ conn' = [conn EXCEPT ![c] = "streaming"]
    /\ UNCHANGED <<dbVars, listenVars, notifierVars, page, inbox, since, maxId, received,
                   historyVars>>

SendReplay(c) ==
    /\ conn[c] = "streaming"
    /\ \E e \in replay[c] :
          /\ IsNext(e, replay[c])
          /\ received' = [received EXCEPT ![c] = Append(@, e)]
          /\ replay' = [replay EXCEPT ![c] = @ \ {e}]
    /\ UNCHANGED <<dbVars, listenVars, notifierVars, page, conn, inbox, since, maxId,
                   historyVars>>

\* Mutation: the event right after the bound is taken for a replayed one.
BeyondBoundOffByOne(c, e) == e > maxId[c] + 1

\* Some(event) if event.id > max_id; others are "already covered by the replay".
BeyondBound(c, e) == e > maxId[c]

SendLive(c) ==
    /\ conn[c] = "streaming"
    /\ replay[c] = {}
    /\ inbox[c] # << >>
    /\ received' = [received EXCEPT ![c] =
                      IF BeyondBound(c, Head(inbox[c])) THEN Append(@, Head(inbox[c])) ELSE @]
    /\ inbox' = [inbox EXCEPT ![c] = Tail(@)]
    /\ UNCHANGED <<dbVars, listenVars, notifierVars, page, conn, since, maxId, replay,
                   historyVars>>

\* The handler of c is gone, and with it its receiver and its replay.
Close(c, state) ==
    /\ conn' = [conn EXCEPT ![c] = state]
    /\ inbox' = [inbox EXCEPT ![c] = << >>]
    /\ since' = [since EXCEPT ![c] = 0]
    /\ maxId' = [maxId EXCEPT ![c] = 0]
    /\ replay' = [replay EXCEPT ![c] = {}]
    /\ UNCHANGED <<page, received>>

\* The network breaks: the EventSource will connect again by itself.
Disconnect(c) ==
    /\ conn[c] \in {"admitted"} \cup Live
    /\ Close(c, "waiting")
    /\ UNCHANGED <<dbVars, listenVars, notifierVars, historyVars>>

\* 403, 404 or 500: an EventSource gives up on an answer that is not 200.
Refuse(c) ==
    /\ conn[c] \in {"waiting", "admitted", "subscribed", "bounded"}
    /\ Close(c, "failed")
    /\ UNCHANGED <<dbVars, listenVars, notifierVars, historyVars>>

\* The process dies and is started again; open transactions stay with the
\* database, which commits or rolls them back.
Restart ==
    /\ phase' = "boot"
    /\ target' = NoRetro
    /\ batch' = {}
    /\ DropListener(Retros)
    /\ published' = {}
    /\ conn' = [c \in Clients |-> IF conn[c] = "failed" THEN "failed" ELSE "waiting"]
    /\ inbox' = [c \in Clients |-> << >>]
    /\ since' = [c \in Clients |-> 0]
    /\ maxId' = [c \in Clients |-> 0]
    /\ replay' = [c \in Clients |-> {}]
    /\ UNCHANGED <<dbVars, lastId, page, received, bootId, late>>

-----------------------------------------------------------------------------
Init ==
    /\ issued = << >>
    /\ tx = [w \in Writers |-> NoTx]
    /\ committed = {}
    /\ deleted = {}
    /\ listener = "down"
    /\ notifications = << >>
    /\ phase = "boot"
    /\ target = NoRetro
    /\ batch = {}
    /\ lastId = 0
    /\ page = [c \in Clients |-> {}]
    /\ conn = [c \in Clients |-> "waiting"]
    /\ inbox = [c \in Clients |-> << >>]
    /\ since = [c \in Clients |-> 0]
    /\ maxId = [c \in Clients |-> 0]
    /\ replay = [c \in Clients |-> {}]
    /\ received = [c \in Clients |-> << >>]
    /\ published = {}
    /\ bootId = 0
    /\ late = {}
    /\ lost = {}

Database ==
    \/ \E w \in Writers, r \in Retros : EmitEvent(w, r)
    \/ \E w \in Writers : Commit(w) \/ Rollback(w)
    \/ \E r \in Retros : DeleteRetro(r)

Notifier ==
    \/ ReadCursor
    \/ ReadCursorFails
    \/ Listen
    \/ ConnectionLost
    \/ Recv
    \/ LoadEvents
    \/ LoadEventsFails
    \/ Publish

Browser(c) ==
    \/ PageLoad(c)
    \/ Admit(c)
    \/ Subscribe(c)
    \/ ReadMaxId(c)
    \/ LoadReplay(c)
    \/ SendReplay(c)
    \/ SendLive(c)
    \/ Disconnect(c)
    \/ Refuse(c)

Next ==
    \/ Database
    \/ Notifier
    \/ \E c \in Clients : Browser(c)
    \/ Restart

Spec == Init /\ [][Next]_vars

\* The tokio tasks and the database make progress; nothing makes a mutation,
\* a failure, a page load or a restart happen.
Fairness ==
    /\ WF_vars(ReadCursor)
    /\ WF_vars(Listen)
    /\ WF_vars(Recv)
    /\ WF_vars(LoadEvents)
    /\ WF_vars(Publish)
    /\ \A c \in Clients : WF_vars(SendReplay(c) \/ SendLive(c))

FairSpec == Spec /\ Fairness

-----------------------------------------------------------------------------
Increasing(s) == \A i, j \in DOMAIN s : i < j => s[i] < s[j]

DbTypeOK ==
    /\ issued \in Seq(Retros)
    /\ tx \in [Writers -> [ids : SUBSET Ids, notes : Seq(Retros)]]
    /\ committed \subseteq Ids
    /\ deleted \subseteq Retros

NotifierTypeOK ==
    /\ listener \in {"up", "down"}
    /\ notifications \in Seq(Retros)
    /\ phase \in Phases
    /\ target \in Retros \cup {NoRetro}
    /\ batch \subseteq Nat
    /\ lastId \in Nat

ClientTypeOK ==
    /\ page \in [Clients -> SUBSET Nat]
    /\ conn \in [Clients -> Conns]
    /\ inbox \in [Clients -> Seq(Nat)]
    /\ since \in [Clients -> Nat]
    /\ maxId \in [Clients -> Nat]
    /\ replay \in [Clients -> SUBSET Nat]
    /\ received \in [Clients -> Seq(Nat)]

HistoryTypeOK ==
    /\ published \subseteq Nat
    /\ bootId \in Nat
    /\ late \subseteq Nat
    /\ lost \subseteq Nat

TypeOK == DbTypeOK /\ NotifierTypeOK /\ ClientTypeOK /\ HistoryTypeOK

\* While its retro exists, the frames a tab receives have strictly increasing
\* ids, across any number of reconnects and server restarts, and all of them
\* are newer than what the page was rendered from: no event is applied twice
\* and none out of order (retro_events: replay bound, live filter, header).
FeedOrdered ==
    \A c \in Clients : Board[c] \notin deleted =>
        /\ Increasing(received[c])
        /\ \A x \in page[c], y \in Range(received[c]) : x < y

\* The feed a tab sees is the abstract one: committed events of its own retro,
\* each newer than all it has seen.
Feed == INSTANCE OrderedFeed WITH
            log  <- {[id |-> e, retro |-> issued[e]] : e \in committed},
            gone <- deleted,
            base <- page,
            feed <- received

RefinesOrderedFeed == Feed!FeedSpec

\* notify_once never goes back to sleep on an event: a committed event above
\* the cursor whose notification was not dropped is still in the batch, or its
\* retro is still notified or about to be loaded.
NoLostWakeup ==
    \A e \in committed \ lost :
        e > lastId /\ issued[e] \notin deleted /\ phase \notin {"boot", "disabled"} =>
            \/ e \in batch
            \/ issued[e] \in Range(notifications)
            \/ phase = "loading" /\ issued[e] = target

\* Subscribing before the bound is read leaves no gap between replay and live:
\* every event published above a connection's bound reached its receiver, at
\* whatever moment between the handler's awaits it was published.
NoLiveGap ==
    \A c \in Clients : Board[c] \notin deleted /\ conn[c] \in {"bounded", "streaming"} =>
        \A e \in published :
            issued[e] = Board[c] /\ e > maxId[c] =>
                e \in Range(inbox[c]) \cup Range(received[c])

\* A replay leaves out only what became visible out of order: of the events
\* between the header and the bound it holds every one that did not commit
\* after a higher id of its retro.
ReplayComplete ==
    \A c \in Clients : conn[c] = "streaming" /\ since[c] > 0 =>
        \A e \in Rows(Board[c]) \ late :
            since[c] < e /\ e <= maxId[c] => e \in replay[c] \cup Range(received[c])

\* Which events the live path never sends: the cursor passes an unpublished
\* event only if it is from before this process started, or committed after a
\* higher id of its retro, or if the cursor, which is one for all retros, was
\* moved on by an event of another retro.
SkipsExplained ==
    \A e \in committed :
        /\ phase \notin {"boot", "disabled"}
        /\ issued[e] \notin deleted
        /\ e <= lastId
        /\ e \notin published
        => \/ e <= bootId
           \/ e \in late
           \/ \E f \in published : e < f /\ issued[f] # issued[e]

\* notify_once, the comment on its load: "Reading from the durable events
\* table (...) also catches up on events that were committed while this task
\* was disconnected."
CatchesUpAfterDisconnect ==
    \A e \in lost : e <= lastId /\ e > bootId => e \in published

\* Every committed event is eventually behind the cursor, however commits,
\* connection losses and restarts interleave, unless its notification was
\* dropped or the notifier could not read its initial cursor.
EventuallySettled ==
    \A e \in 1 .. MaxEvents :
        e \in committed ~> \/ e <= lastId
                           \/ e \in lost
                           \/ phase = "disabled"
                           \/ e \notin AllRows

\* A tab whose stream stays up receives every event of its board above its
\* bound that the notifier publishes.
LiveDelivery ==
    \A c \in Clients, e \in 1 .. MaxEvents :
        /\ conn[c] = "streaming"
        /\ e \in published
        /\ issued[e] = Board[c]
        /\ e > maxId[c]
        ~> e \in Range(received[c]) \/ conn[c] # "streaming" \/ Board[c] \in deleted
=============================================================================
