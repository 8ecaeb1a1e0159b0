------------------------------- MODULE Likes -------------------------------
(***************************************************************************)
(* Likes of the cards of one retro: like_item of handlers.rs, the likes    *)
(* table of migration 018 and its trigger of migration 021.                *)
(*                                                                         *)
(* like_item is one transaction of several statements, and READ COMMITTED  *)
(* gives each of them a view of its own: what has been committed, and what *)
(* the transaction itself has done.  A row that a transaction has inserted *)
(* or deleted is locked until its end; a statement that needs it waits and *)
(* then looks again.                                                       *)
(***************************************************************************)
EXTENDS Integers, Sequences, FiniteSets, SequencesExt

CONSTANTS
    Items,      \* the cards of the retro
    Users,      \* the users of the team
    Tabs,       \* the tabs they have open; a tab sends one request at a time
    Owner,      \* Owner[t]: the user of tab t
    MaxEvents   \* bound: like requests sent

ASSUME LikesAssumption ==
    /\ IsFiniteSet(Items)
    /\ IsFiniteSet(Users)
    /\ Owner \in [Tabs -> Users]
    /\ MaxEvents \in Nat
    /\ "none" \notin Items

VARIABLES
    board,      \* whether the retro, and so its cards, exist
    likes,      \* the committed rows of likes
    log,        \* log[e]: the ITEM_LIKED or ITEM_UNLIKED event with id e
    committed,  \* the ids that have been committed
    tx,         \* tx[t]: the request of tab t and its transaction
    requests,   \* how many requests were sent
    overlap     \* ids of events whose toggle was open with another of the card

vars == <<board, likes, log, committed, tx, requests, overlap>>

None == "none"

\* No event id.
Null == 0

Idle == [pc |-> "idle", item |-> None, had |-> FALSE, own |-> Null, header |-> Null,
         shown |-> 0]

Row(t) == [item |-> tx[t].item, user |-> Owner[t]]

\* The transactions that have written a row, and hold its lock.
Writers == {t \in Tabs : tx[t].own # Null}

RowLocked(t) == \E s \in Writers : s # t /\ Row(s) = Row(t)

\* What a statement of tab t sees.
Visible(t) ==
    IF t \notin Writers THEN likes
    ELSE IF tx[t].had THEN likes \ {Row(t)} ELSE likes \cup {Row(t)}

Count(rows, i) == Cardinality({l \in rows : l.item = i})

\* Mutation: the lookup runs on another connection than the transaction.
CommittedEvents(t) == committed

\* The events that a statement of tab t sees.
EventsSeen(t) == committed \cup ({tx[t].own} \ {Null})

-----------------------------------------------------------------------------
\* Mutation: the count is taken before the row is written.
CountBefore(t) == Count(likes, tx[t].item)

\* SELECT COUNT(*) FROM likes WHERE item_id = v_item_id
CountAfter(t) ==
    Count(IF tx[t].had THEN likes \ {Row(t)} ELSE likes \cup {Row(t)}, tx[t].item)

\* emit_like_event, after a row was inserted or deleted.
EmitLikeEvent(t) ==
    LET e == Len(log) + 1
        others == {s \in Writers : tx[s].item = tx[t].item}
    IN  /\ log' = Append(log, [type |-> IF tx[t].had THEN "ITEM_UNLIKED" ELSE "ITEM_LIKED",
                               item |-> tx[t].item, by |-> Owner[t],
                               count |-> CountAfter(t)])
        /\ tx' = [tx EXCEPT ![t].pc = "lookup", ![t].own = e]
        /\ overlap' = IF others = {} THEN overlap
                      ELSE overlap \cup {e} \cup {tx[s].own : s \in others}

\* The card is found and the user is of its team: the transaction begins.
LikeItem(t) ==
    /\ tx[t].pc = "idle"
    /\ board
    /\ requests < MaxEvents
    /\ requests' = requests + 1
    /\ \E i \in Items : tx' = [tx EXCEPT ![t] = [Idle EXCEPT !.pc = "check", !.item = i]]
    /\ UNCHANGED <<board, likes, log, committed, overlap>>

\* SELECT EXISTS(...)
CheckExisting(t) ==
    /\ tx[t].pc = "check"
    /\ tx' = [tx EXCEPT ![t].pc = "write", ![t].had = (Row(t) \in likes)]
    /\ UNCHANGED <<board, likes, log, committed, requests, overlap>>

\* Mutation: every tab of the user that saw the row deletes it and says so.
AlwaysDeletes(t) == TRUE

\* Whether there is a row to delete.
Deletes(t) == Row(t) \in likes

DeleteLike(t) ==
    /\ tx[t].pc = "write" /\ tx[t].had
    /\ ~RowLocked(t)
    /\ IF Deletes(t)
       THEN EmitLikeEvent(t)
       ELSE /\ tx' = [tx EXCEPT ![t].pc = "lookup"]
            /\ UNCHANGED <<log, overlap>>
    /\ UNCHANGED <<board, likes, committed, requests>>

\* The primary key and the foreign key let the row in.
InsertLike(t) ==
    /\ tx[t].pc = "write" /\ ~tx[t].had
    /\ ~RowLocked(t)
    /\ board /\ Row(t) \notin likes
    /\ EmitLikeEvent(t)
    /\ UNCHANGED <<board, likes, committed, requests>>

OfType(t) == IF tx[t].had THEN {"ITEM_UNLIKED"} ELSE {"ITEM_LIKED"}

\* SELECT id FROM events WHERE item_id = $1 AND event_type = $2 ORDER BY id DESC LIMIT 1
LookupEvent(t) ==
    /\ tx[t].pc = "lookup"
    /\ \E h \in EventsSeen(t) \cup {Null} :
          LET found == {e \in EventsSeen(t) : log[e].item = tx[t].item
                                              /\ log[e].type \in OfType(t)}
          IN  /\ IF found = {} THEN h = Null ELSE h \in found /\ \A e \in found : e <= h
              /\ tx' = [tx EXCEPT ![t].pc = "load", ![t].header = h]
    /\ UNCHANGED <<board, likes, log, committed, requests, overlap>>

\* load_item_with_initials: the card as the response shows it.
LoadItem(t) ==
    /\ tx[t].pc = "load"
    /\ board
    /\ tx' = [tx EXCEPT ![t].pc = "commit", ![t].shown = Count(Visible(t), tx[t].item)]
    /\ UNCHANGED <<board, likes, log, committed, requests, overlap>>

Commit(t) ==
    /\ tx[t].pc = "commit"
    /\ likes' = Visible(t)
    /\ committed' = committed \cup ({tx[t].own} \ {Null})
    /\ tx' = [tx EXCEPT ![t] = Idle]
    /\ UNCHANGED <<board, log, requests, overlap>>

\* The transaction is dropped with what it wrote; its event id is not used again.
RollBack(t) ==
    /\ tx' = [tx EXCEPT ![t] = Idle]
    /\ UNCHANGED <<board, likes, log, committed, requests, overlap>>

\* Mutation: that the card is gone is not an error, and the request hangs.
ClashOnly(t) == tx[t].pc = "write" /\ ~tx[t].had /\ ~RowLocked(t) /\ Row(t) \in likes

\* The row to insert is there already, or the card to like or to show is gone.
Clash(t) ==
    \/ /\ tx[t].pc = "write" /\ ~tx[t].had
       /\ ~RowLocked(t)
       /\ Row(t) \in likes \/ ~board
    \/ tx[t].pc = "load" /\ ~board

\* A statement is refused by the database: error 500.
Rejected(t) == Clash(t) /\ RollBack(t)

\* The connection is lost, or the tab gives up the request.
Fails(t) == tx[t].pc # "idle" /\ RollBack(t)

\* The retro goes, and with it its cards, their likes and the events.  A like
\* that is being written references the card, so that the deletion waits for it.
\* The trigger finds no card and writes nothing.
DeleteRetro ==
    /\ board
    /\ Writers = {}
    /\ board' = FALSE
    /\ likes' = {}
    /\ committed' = {}
    /\ UNCHANGED <<log, tx, requests, overlap>>

-----------------------------------------------------------------------------
Init ==
    /\ board = TRUE
    /\ likes = {}
    /\ log = << >>
    /\ committed = {}
    /\ tx = [t \in Tabs |-> Idle]
    /\ requests = 0
    /\ overlap = {}

Step(t) ==
    \/ CheckExisting(t)
    \/ DeleteLike(t)
    \/ InsertLike(t)
    \/ LookupEvent(t)
    \/ LoadItem(t)
    \/ Commit(t)
    \/ Rejected(t)

Next ==
    \/ \E t \in Tabs : LikeItem(t) \/ Step(t) \/ Fails(t)
    \/ DeleteRetro

Spec == Init /\ [][Next]_vars

\* The server runs a request that it has begun.
FairSpec == Spec /\ \A t \in Tabs : WF_vars(Step(t))

-----------------------------------------------------------------------------
Events(i, type, u) ==
    {e \in committed : log[e].item = i /\ log[e].type = type /\ log[e].by = u}

\* The likes of a card are what its events add up to: every like and every
\* unlike that took effect is told once, and nothing else is told, also when two
\* tabs of a user toggle the same card at the same time.
LikesMatchLog ==
    board => \A i \in Items, u \in Users :
        Cardinality(Events(i, "ITEM_LIKED", u)) - Cardinality(Events(i, "ITEM_UNLIKED", u))
            = IF [item |-> i, user |-> u] \in likes THEN 1 ELSE 0

\* The newest event that the browsers of the retro get for card i.
IsLastTold(i, e) ==
    /\ e \in committed /\ log[e].item = i
    /\ \A f \in committed : log[f].item = i => f <= e

Settled(i) == \A t \in Writers : tx[t].item # i

\* The count that a card settles on in the browsers, the one of its newest event,
\* is right when the toggle behind that event was open with no other of the card.
CountToldAlone ==
    \A i \in Items : Settled(i) =>
        \A e \in committed \ overlap : IsLastTold(i, e) => log[e].count = Count(likes, i)

\* A response names the event of its own toggle, which the browser then leaves
\* out, unless a concurrent toggle of the card committed a newer one in between.
HeaderOwnOrConcurrent ==
    \A t \in Writers : tx[t].pc \in {"load", "commit"} =>
        /\ tx[t].header >= tx[t].own
        /\ tx[t].header # tx[t].own => {tx[t].own, tx[t].header} \subseteq overlap

\* Every like request is answered: transactions that wait for each other's rows
\* do not block for good.
Answered == \A t \in Tabs : tx[t].pc # "idle" ~> tx[t].pc = "idle"
=============================================================================
