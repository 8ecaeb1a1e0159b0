------------------------------- MODULE Cards -------------------------------
(***************************************************************************)
(* The board of a retro as the database keeps it: cards with their status  *)
(* and highlight timer, action items and archives, the handlers of         *)
(* handlers.rs that change them, the timer sweep, and the event row that   *)
(* the triggers of migrations 021 and 022 write for every change.          *)
(*                                                                         *)
(* A handler that runs one statement, or one transaction around a single   *)
(* row, is one action: the row lock orders it with the others.  The two    *)
(* handlers that read before their transaction and act on what they read,  *)
(* update_item and archive_retro, take several.  The archive transaction   *)
(* locks the rows it has changed until it ends, so what would change them  *)
(* waits; a waiting statement re-reads the row, as READ COMMITTED does.    *)
(***************************************************************************)
EXTENDS Integers, Sequences, FiniteSets, SequencesExt

CONSTANTS
    Retros,         \* the retros
    Items,          \* ids of cards
    ActionItems,    \* ids of action items
    Home,           \* Home[i]: the retro that card or action item i is added to
    Texts,          \* texts of cards and action items
    Editors,        \* requests that may run update_item at the same time
    Archivers,      \* requests that may run archive_retro at the same time
    Submitted,      \* durations a client may submit, in seconds
    MaxDuration,    \* the 3600 of clamp(1, 3600)
    Extension,      \* the 120 of the +2 min button
    MaxNow,         \* bound: the last second of the clock
    MaxEvents       \* bound: requests change the board while fewer events are written

ASSUME CardsAssumption ==
    /\ Home \in [Items \cup ActionItems -> Retros]
    /\ IsFiniteSet(Items)
    /\ Submitted \subseteq Int
    /\ MaxDuration \in Nat \ {0}
    /\ Extension \in Nat \ {0}
    /\ MaxNow \in Nat
    /\ MaxEvents \in Nat
    /\ "none" \notin Retros \cup Items \cup Texts

VARIABLES
    item,           \* the rows of items
    actionItem,     \* the rows of action_items
    archives,       \* archives[n]: the retro of archive n, NoRetro if rolled back
    deleted,        \* the retros that have been deleted
    log,            \* log[e]: the event with id e
    edit,           \* edit[q]: what update_item has read
    arch,           \* arch[q]: how far archive_retro is, and its uncommitted work
    now,            \* NOW(), in seconds
    answer          \* the response sent in the last step, if it was one

boardVars == <<item, actionItem, archives, deleted>>
vars == <<boardVars, log, edit, arch, now, answer>>

None == "none"

\* SQL NULL, for a timestamp, a duration and an archive_id.
Null == 0

Status == {"CREATED", "HIGHLIGHTED", "COMPLETED", "ARCHIVED"}

\* No such row yet.
NoItem == [status |-> "absent", text |-> None, started |-> Null, duration |-> Null,
           elapsed |-> Null, archive |-> Null]
NoActionItem == [state |-> "absent", text |-> None, completed |-> Null, archive |-> Null]

NoEdit    == [item |-> None, text |-> None, old |-> None]
NoArchive == [pc |-> "idle", retro |-> None, seen |-> {}, id |-> 0, event |-> 0,
              items |-> {}, actionItems |-> {}]
NoEvent   == [type |-> None]
NoAnswer  == [to |-> None, own |-> 0, header |-> 0]

Exists(i)   == item[i].status \in Status
Present(a)  == actionItem[a].state = "present"
EndsAt(row) == row.started + row.duration
Room        == Len(log) < MaxEvents

Active(r)            == {i \in Items : Home[i] = r /\ Exists(i) /\ item[i].archive = Null}
ActiveActionItems(r) == {a \in ActionItems :
                           Home[a] = r /\ Present(a) /\ actionItem[a].archive = Null}

\* Rows that an uncommitted archive has changed.
Locked(i)           == \E q \in Archivers : i \in arch[q].items
LockedActionItem(a) == \E q \in Archivers : a \in arch[q].actionItems

-----------------------------------------------------------------------------
(* The triggers.                                                            *)

\* Mutation: a start on a running timer is no change worth an event.
SilentRestart(old, new) ==
    \/ old.duration # new.duration
    \/ old.elapsed # new.elapsed

\* Any timer column IS DISTINCT FROM its old value.
TimerChanged(old, new) ==
    \/ old.started # new.started
    \/ old.duration # new.duration
    \/ old.elapsed # new.elapsed

\* emit_item_event for an UPDATE of row i: no event or one, the first that
\* applies, and none when the archive_id changes (items_update_event).
ItemEvent(i, old, new) ==
    IF old.archive # new.archive THEN << >>
    ELSE IF old.status # new.status THEN
            << [type |-> "ITEM_STATUS_CHANGED", item |-> i, status |-> new.status] >>
    ELSE IF old.elapsed = Null /\ new.elapsed # Null THEN
            << [type |-> "TIMER_ELAPSED", item |-> i] >>
    ELSE IF old.started = Null /\ new.started # Null THEN
            << [type |-> "TIMER_STARTED", item |-> i,
                started |-> new.started, duration |-> new.duration] >>
    ELSE IF TimerChanged(old, new) THEN
            << [type |-> "TIMER_EXTENDED", item |-> i,
                started |-> new.started, duration |-> new.duration] >>
    ELSE IF old.text # new.text THEN
            << [type |-> "ITEM_UPDATED", item |-> i, text |-> new.text] >>
    ELSE << >>

\* An UPDATE of row i, its trigger included.
Write(i, new) ==
    /\ item' = [item EXCEPT ![i] = new]
    /\ log' = log \o ItemEvent(i, item[i], new)

\* The id of the event that writing new to row i emits, 0 when it emits none.
OwnEvent(i, new) == IF ItemEvent(i, item[i], new) = << >> THEN 0 ELSE Len(log) + 1

\* SELECT id FROM events WHERE item_id = i AND event_type IN types
\* ORDER BY id DESC LIMIT 1
LastEvent(l, i, types) ==
    LET ids == {e \in DOMAIN l : l[e].type \in types /\ l[e].item = i}
    IN  IF ids = {} THEN 0 ELSE CHOOSE e \in ids : \A f \in ids : f <= e

\* The response and the X-Event-Id it carries; own is the event of the request.
Respond(to, own, header) == answer' = [to |-> to, own |-> own, header |-> header]

Silent == answer' = NoAnswer

-----------------------------------------------------------------------------
(* Cards.                                                                   *)

AddItem(i, text) ==
    /\ Room
    /\ item[i].status = "absent"
    /\ Home[i] \notin deleted
    /\ item' = [item EXCEPT ![i] = [NoItem EXCEPT !.status = "CREATED", !.text = text]]
    /\ log' = Append(log, [type |-> "ITEM_CREATED", item |-> i, text |-> text,
                           status |-> "CREATED"])
    /\ Respond("add_item", Len(log) + 1, LastEvent(log', i, {"ITEM_CREATED"}))
    /\ UNCHANGED <<actionItem, archives, deleted, edit, arch, now>>

\* Mutation: the CASE lets an archived card be highlighted again.
ReviveArchived(status, action) ==
    CASE status \in {"CREATED", "ARCHIVED"} /\ action = "highlight" -> "HIGHLIGHTED"
      [] status = "HIGHLIGHTED" /\ action = "complete" -> "COMPLETED"
      [] status = "HIGHLIGHTED" /\ action = "cancel" -> "CREATED"
      [] OTHER -> status

NextStatus(status, action) ==
    CASE status = "CREATED" /\ action = "highlight" -> "HIGHLIGHTED"
      [] status = "HIGHLIGHTED" /\ action = "complete" -> "COMPLETED"
      [] status = "HIGHLIGHTED" /\ action = "cancel" -> "CREATED"
      [] OTHER -> status

\* Mutation: only the start of the timer is reset.
PartialReset(row) == [row EXCEPT !.started = Null, !.elapsed = Null]

ResetTimer(row) == [row EXCEPT !.started = Null, !.duration = Null, !.elapsed = Null]

\* The row that change_item_status writes.
Changed(row, action) ==
    LET reset == row.status = "HIGHLIGHTED" /\ action \in {"cancel", "complete"}
    IN  [(IF reset THEN ResetTimer(row) ELSE row)
           EXCEPT !.status = NextStatus(row.status, action)]

\* Mutation: nothing stops a second highlight.
AnyHighlights(i) == {}

\* The other highlighted cards of the retro of i: the unique index
\* single_highlighted_item_per_retro admits one.
OtherHighlights(i) ==
    {j \in Items \ {i} : Home[j] = Home[i] /\ item[j].status = "HIGHLIGHTED"}

\* Mutation: a no-op status change names the event before it.
HeaderOfNoOp(i, new) == LastEvent(log \o ItemEvent(i, item[i], new), i, {"ITEM_STATUS_CHANGED"})

\* "A no-op status change emits no event": then the response has no header.
StatusHeader(i, new) ==
    IF new.status = item[i].status THEN 0
    ELSE LastEvent(log \o ItemEvent(i, item[i], new), i, {"ITEM_STATUS_CHANGED"})

ChangeItemStatus(i, action) ==
    /\ Room
    /\ Exists(i)
    /\ ~ Locked(i)
    /\ LET new == Changed(item[i], action)
           conflicts == IF new.status = "HIGHLIGHTED" THEN OtherHighlights(i) ELSE {}
       IN  /\ \A j \in conflicts : ~ Locked(j)
           /\ IF conflicts = {}
              THEN /\ Write(i, new)
                   /\ Respond("change_item_status", OwnEvent(i, new), StatusHeader(i, new))
              ELSE /\ Respond("change_item_status", 0, 0)
                   /\ UNCHANGED <<item, log>>
    /\ UNCHANGED <<actionItem, archives, deleted, edit, arch, now>>

\* update_item loads the card and keeps its text.
ReadOldText(q, i, text) ==
    /\ edit[q].item = None
    /\ Exists(i)
    /\ edit' = [edit EXCEPT ![q] = [item |-> i, text |-> text, old |-> item[i].text]]
    /\ Silent
    /\ UNCHANGED <<boardVars, log, arch, now>>

UpdateText(q) ==
    LET i      == edit[q].item
        new    == [item[i] EXCEPT !.text = edit[q].text]
        header == IF edit[q].old # edit[q].text THEN LastEvent(log', i, {"ITEM_UPDATED"}) ELSE 0
    IN  /\ Room
        /\ edit[q].item # None
        /\ Exists(i)
        /\ ~ Locked(i)
        /\ Write(i, new)
        /\ Respond("update_item", OwnEvent(i, new), header)
        /\ edit' = [edit EXCEPT ![q] = NoEdit]
        /\ UNCHANGED <<actionItem, archives, deleted, arch, now>>

\* The text is refused, the database fails, or the retro was deleted meanwhile.
AbandonEdit(q) ==
    /\ edit[q].item # None
    /\ edit' = [edit EXCEPT ![q] = NoEdit]
    /\ Silent
    /\ UNCHANGED <<boardVars, log, arch, now>>

-----------------------------------------------------------------------------
(* The highlight timer.                                                     *)

\* Mutation: what the form says is stored as it is.
Unclamped(d) == d

\* form.duration.unwrap_or(300).clamp(1, 3600)
Clamp(d) == IF d < 1 THEN 1 ELSE IF d > MaxDuration THEN MaxDuration ELSE d

\* WHERE id = $1 AND status = 'HIGHLIGHTED'
Highlighted(i) == item[i].status = "HIGHLIGHTED"

StartItemTimer(i, d) ==
    /\ Room
    /\ Exists(i)
    /\ ~ Locked(i)
    /\ LET new == [item[i] EXCEPT !.started = now, !.duration = Clamp(d), !.elapsed = Null]
       IN  IF Highlighted(i)
           THEN /\ Write(i, new)
                /\ Respond("start_item_timer", OwnEvent(i, new), LastEvent(log', i, {"TIMER_STARTED"}))
           ELSE /\ Respond("start_item_timer", 0, 0)
                /\ UNCHANGED <<item, log>>
    /\ UNCHANGED <<actionItem, archives, deleted, edit, arch, now>>

\* Mutation: the elapsed mark stays.
ExtendedOnly(row) == [row EXCEPT !.duration = @ + Extension]

Extended(row) == [row EXCEPT !.duration = @ + Extension, !.elapsed = Null]

\* WHERE timer_started_at IS NOT NULL, whatever the status.
ExtendItemTimer(i) ==
    /\ Room
    /\ Exists(i)
    /\ ~ Locked(i)
    /\ IF item[i].started # Null
       THEN /\ Write(i, Extended(item[i]))
            /\ Respond("extend_item_timer", OwnEvent(i, Extended(item[i])),
                       LastEvent(log', i, {"TIMER_EXTENDED"}))
       ELSE /\ Respond("extend_item_timer", 0, 0)
            /\ UNCHANGED <<item, log>>
    /\ UNCHANGED <<actionItem, archives, deleted, edit, arch, now>>

\* Mutation: a timer that was extended after it elapsed is not swept again.
DueOnce == {i \in Items : /\ Highlighted(i)
                          /\ item[i].started # Null
                          /\ EndsAt(item[i]) <= now
                          /\ item[i].elapsed = Null
                          /\ LastEvent(log, i, {"TIMER_ELAPSED"}) = 0}

\* The rows of the UPDATE of timer_sweep_loop.
Due == {i \in Items : /\ Highlighted(i)
                      /\ item[i].started # Null
                      /\ EndsAt(item[i]) <= now
                      /\ item[i].elapsed = Null}

\* One tick of timer_sweep_loop that the database does not refuse.
TimerSweep ==
    /\ \A i \in Due : ~ Locked(i)
    /\ item' = [i \in Items |-> IF i \in Due THEN [item[i] EXCEPT !.elapsed = now] ELSE item[i]]
    /\ \E rows \in SetToSeqs(Due) :
          log' = log \o [k \in DOMAIN rows |-> [type |-> "TIMER_ELAPSED", item |-> rows[k]]]
    /\ Silent
    /\ UNCHANGED <<actionItem, archives, deleted, edit, arch, now>>

Tick ==
    /\ now < MaxNow
    /\ now' = now + 1
    /\ Silent
    /\ UNCHANGED <<boardVars, log, edit, arch>>

-----------------------------------------------------------------------------
(* Action items; their changes emit no events.                              *)

AddActionItem(a, text) ==
    /\ actionItem[a].state = "absent"
    /\ Home[a] \notin deleted
    /\ actionItem' = [actionItem EXCEPT ![a] =
                        [NoActionItem EXCEPT !.state = "present", !.text = text]]
    /\ Silent
    /\ UNCHANGED <<item, archives, deleted, log, edit, arch, now>>

UpdateActionItem(a, text) ==
    /\ Present(a)
    /\ ~ LockedActionItem(a)
    /\ actionItem' = [actionItem EXCEPT ![a].text = text]
    /\ Silent
    /\ UNCHANGED <<item, archives, deleted, log, edit, arch, now>>

\* COALESCE(completed_at, NOW())
FirstCompletion(a) ==
    IF actionItem[a].completed = Null THEN now ELSE actionItem[a].completed

CompleteActionItem(a) ==
    /\ Present(a)
    /\ ~ LockedActionItem(a)
    /\ actionItem' = [actionItem EXCEPT ![a].completed = FirstCompletion(a)]
    /\ Silent
    /\ UNCHANGED <<item, archives, deleted, log, edit, arch, now>>

DeleteActionItem(a) ==
    /\ Present(a)
    /\ ~ LockedActionItem(a)
    /\ actionItem' = [actionItem EXCEPT ![a] = [NoActionItem EXCEPT !.state = "deleted"]]
    /\ Silent
    /\ UNCHANGED <<item, archives, deleted, log, edit, arch, now>>

-----------------------------------------------------------------------------
(* Archives.                                                                *)

\* archive_retro counts, and redirects when there is nothing to archive.
CountActive(q, r) ==
    /\ arch[q].pc = "idle"
    /\ r \notin deleted
    /\ Active(r) \cup ActiveActionItems(r) # {}
    /\ arch' = [arch EXCEPT ![q] = [NoArchive EXCEPT !.pc = "counted", !.retro = r,
                                                     !.seen = Active(r)]]
    /\ Silent
    /\ UNCHANGED <<boardVars, log, edit, now>>

\* The transaction begins: INSERT INTO archives, whose trigger takes an id for
\* RETRO_ARCHIVED now.  The row of the retro must be there, and stays.
InsertArchive(q) ==
    /\ Room
    /\ arch[q].pc = "counted"
    /\ arch[q].retro \notin deleted
    /\ archives' = Append(archives, arch[q].retro)
    /\ log' = Append(log, [type |-> "RETRO_ARCHIVED", retro |-> arch[q].retro])
    /\ arch' = [arch EXCEPT ![q].pc = "inserted", ![q].id = Len(archives) + 1,
                            ![q].event = Len(log) + 1]
    /\ Silent
    /\ UNCHANGED <<item, actionItem, deleted, edit, now>>

\* Mutation: only completed cards are archived.
ArchivableCompleted(r) == {i \in Active(r) : item[i].status = "COMPLETED"}

\* WHERE retro_id = $2 AND archive_id IS NULL
Archivable(r) == Active(r)

\* The UPDATE of items; it waits for rows another archive has changed.
ArchiveItems(q) ==
    /\ arch[q].pc = "inserted"
    /\ \A i \in Archivable(arch[q].retro) : ~ Locked(i)
    /\ arch' = [arch EXCEPT ![q].pc = "items", ![q].items = Archivable(arch[q].retro)]
    /\ Silent
    /\ UNCHANGED <<boardVars, log, edit, now>>

\* The UPDATE of action_items.
ArchiveActionItems(q) ==
    /\ arch[q].pc = "items"
    /\ \A a \in ActiveActionItems(arch[q].retro) : ~ LockedActionItem(a)
    /\ arch' = [arch EXCEPT ![q].pc = "action_items",
                            ![q].actionItems = ActiveActionItems(arch[q].retro)]
    /\ Silent
    /\ UNCHANGED <<boardVars, log, edit, now>>

\* What the two UPDATEs wrote becomes visible.
CommitArchive(q) ==
    LET id == arch[q].id
    IN  /\ arch[q].pc = "action_items"
        /\ item' = [i \in Items |->
                      IF i \in arch[q].items
                      THEN [item[i] EXCEPT !.status = "ARCHIVED", !.archive = id]
                      ELSE item[i]]
        /\ actionItem' = [a \in ActionItems |->
                            IF a \in arch[q].actionItems
                            THEN [actionItem[a] EXCEPT !.archive = id]
                            ELSE actionItem[a]]
        /\ arch' = [arch EXCEPT ![q] = NoArchive]
        /\ Silent
        /\ UNCHANGED <<archives, deleted, log, edit, now>>

\* An error of any of the steps, or the end of the process: the transaction is
\* rolled back, its archive id and event id are never used again.
AbortArchive(q) ==
    /\ arch[q].pc # "idle"
    /\ IF arch[q].pc = "counted"
       THEN UNCHANGED <<archives, log>>
       ELSE /\ archives' = [archives EXCEPT ![arch[q].id] = None]
            /\ log' = [log EXCEPT ![arch[q].event] = NoEvent]
    /\ arch' = [arch EXCEPT ![q] = NoArchive]
    /\ Silent
    /\ UNCHANGED <<item, actionItem, deleted, edit, now>>

InTransaction(q) == arch[q].pc \in {"inserted", "items", "action_items"}

\* delete_retro, with the rows that go by ON DELETE CASCADE; an uncommitted
\* archive holds the row of its retro.
DeleteRetro(r) ==
    /\ r \notin deleted
    /\ \A q \in Archivers : InTransaction(q) => arch[q].retro # r
    /\ deleted' = deleted \cup {r}
    /\ item' = [i \in Items |-> IF Home[i] = r THEN [NoItem EXCEPT !.status = "deleted"]
                                ELSE item[i]]
    /\ actionItem' = [a \in ActionItems |->
                        IF Home[a] = r THEN [NoActionItem EXCEPT !.state = "deleted"]
                        ELSE actionItem[a]]
    /\ archives' = [n \in DOMAIN archives |-> IF archives[n] = r THEN None ELSE archives[n]]
    /\ Silent
    /\ UNCHANGED <<log, edit, arch, now>>

-----------------------------------------------------------------------------
Init ==
    /\ item = [i \in Items |-> NoItem]
    /\ actionItem = [a \in ActionItems |-> NoActionItem]
    /\ archives = << >>
    /\ deleted = {}
    /\ log = << >>
    /\ edit = [q \in Editors |-> NoEdit]
    /\ arch = [q \in Archivers |-> NoArchive]
    /\ now = 1
    /\ answer = NoAnswer

ItemHandler(i) ==
    \/ \E text \in Texts : AddItem(i, text)
    \/ \E action \in {"highlight", "cancel", "complete"} : ChangeItemStatus(i, action)
    \/ \E d \in Submitted : StartItemTimer(i, d)
    \/ ExtendItemTimer(i)

UpdateItem(q) ==
    \/ \E i \in Items, text \in Texts : ReadOldText(q, i, text)
    \/ UpdateText(q)
    \/ AbandonEdit(q)

ActionItemHandler(a) ==
    \/ \E text \in Texts : AddActionItem(a, text) \/ UpdateActionItem(a, text)
    \/ CompleteActionItem(a)
    \/ DeleteActionItem(a)

\* The transaction of archive_retro once it has begun.
ArchiveStep(q) == ArchiveItems(q) \/ ArchiveActionItems(q) \/ CommitArchive(q)

ArchiveRetro(q) ==
    \/ \E r \in Retros : CountActive(q, r)
    \/ InsertArchive(q)
    \/ ArchiveStep(q)
    \/ AbortArchive(q)

Next ==
    \/ \E i \in Items : ItemHandler(i)
    \/ \E q \in Editors : UpdateItem(q)
    \/ \E a \in ActionItems : ActionItemHandler(a)
    \/ \E q \in Archivers : ArchiveRetro(q)
    \/ \E r \in Retros : DeleteRetro(r)
    \/ TimerSweep
    \/ Tick

Spec == Init /\ [][Next]_vars

\* The sweep runs every second, and a transaction that has begun ends; nobody
\* needs to click, and time need not pass.
FairSpec ==
    /\ Spec
    /\ WF_vars(TimerSweep)
    /\ \A q \in Archivers : WF_vars(ArchiveStep(q))

-----------------------------------------------------------------------------
Events ==
    [type : {None}] \cup
    [type : {"ITEM_CREATED"}, item : Items, text : Texts \cup {None}, status : Status] \cup
    [type : {"ITEM_STATUS_CHANGED"}, item : Items, status : Status] \cup
    [type : {"ITEM_UPDATED"}, item : Items, text : Texts \cup {None}] \cup
    [type : {"TIMER_ELAPSED"}, item : Items] \cup
    [type : {"TIMER_STARTED", "TIMER_EXTENDED"}, item : Items,
     started : Nat, duration : Nat] \cup
    [type : {"RETRO_ARCHIVED"}, retro : Retros \cup {None}]

ItemRows ==
    [status : Status \cup {"absent", "deleted"}, text : Texts \cup {None},
     started : Nat, duration : Nat, elapsed : Nat, archive : Nat]

ActionItemRows ==
    [state : {"absent", "present", "deleted"}, text : Texts \cup {None},
     completed : Nat, archive : Nat]

EditStates ==
    [item : Items \cup {None}, text : Texts \cup {None}, old : Texts \cup {None}]

ArchiveStates ==
    [pc : {"idle", "counted", "inserted", "items", "action_items"},
     retro : Retros \cup {None}, seen : SUBSET Items, id : Nat, event : Nat,
     items : SUBSET Items, actionItems : SUBSET ActionItems]

Answers ==
    [to : {None, "add_item", "change_item_status", "update_item", "start_item_timer",
           "extend_item_timer"}, own : Nat, header : Nat]

BoardTypeOK ==
    /\ item \in [Items -> ItemRows]
    /\ actionItem \in [ActionItems -> ActionItemRows]
    /\ archives \in Seq(Retros \cup {None})
    /\ deleted \subseteq Retros
    /\ log \in Seq(Events)
    /\ now \in Nat \ {0}

RequestTypeOK ==
    /\ edit \in [Editors -> EditStates]
    /\ arch \in [Archivers -> ArchiveStates]
    /\ answer \in Answers

TypeOK == BoardTypeOK /\ RequestTypeOK

\* A timer is set or reset as a whole, elapses only when it was started, and
\* belongs to a highlighted card or to one archived while it was highlighted:
\* no order of start, extend, sweep, cancel, complete and archive leaves a
\* timer on a card that the sweep would ignore.
TimerOfHighlight ==
    \A i \in Items :
        LET row == item[i]
        IN  /\ row.started = Null <=> row.duration = Null
            /\ row.elapsed # Null => row.started # Null
            /\ row.started # Null => row.status \in {"HIGHLIGHTED", "ARCHIVED"}

\* A card is ARCHIVED exactly when it has an archive, the archive is there and
\* it is one of the retro of the card.
ArchivedInOwnRetro ==
    /\ \A i \in Items :
          /\ item[i].status = "ARCHIVED" <=> item[i].archive # Null
          /\ item[i].archive # Null =>
                item[i].archive \in DOMAIN archives /\ archives[item[i].archive] = Home[i]
    /\ \A a \in ActionItems :
          actionItem[a].archive # Null =>
                actionItem[a].archive \in DOMAIN archives
                /\ archives[actionItem[a].archive] = Home[a]

\* The mark that stops the countdown at 0:00 is never early: whatever
\* restarts and extensions came after the sweep, the deadline of a timer that
\* is marked elapsed had passed at the time of the mark.
ElapsedWasDue ==
    \A i \in Items : item[i].elapsed # Null =>
        EndsAt(item[i]) <= item[i].elapsed /\ item[i].elapsed <= now

\* What the events of a card say, read in the order of their ids.
StatusTold(i) == log[LastEvent(log, i, {"ITEM_CREATED", "ITEM_STATUS_CHANGED"})].status
TextTold(i)   == log[LastEvent(log, i, {"ITEM_CREATED", "ITEM_UPDATED"})].text
TimerTold(i)  ==
    LET e == log[LastEvent(log, i, {"ITEM_CREATED", "ITEM_STATUS_CHANGED",
                                    "TIMER_STARTED", "TIMER_EXTENDED"})]
    IN  IF e.type \in {"TIMER_STARTED", "TIMER_EXTENDED"} THEN <<e.started, e.duration>>
        ELSE <<Null, Null>>
ElapsedTold(i) ==
    log[LastEvent(log, i, {"ITEM_CREATED", "ITEM_STATUS_CHANGED", "TIMER_STARTED",
                           "TIMER_EXTENDED", "TIMER_ELAPSED"})].type = "TIMER_ELAPSED"

\* "every mutation (...) is pushed": the events of a card tell its text, its
\* timer and, until it is archived, its status.  The triggers announce at most
\* one thing per UPDATE, by precedence, and this loses nothing.
LogTellsBoard ==
    \A i \in Items : Exists(i) =>
        /\ item[i].status # "ARCHIVED" => StatusTold(i) = item[i].status
        /\ TextTold(i) = item[i].text
        /\ TimerTold(i) = <<item[i].started, item[i].duration>>
        /\ ElapsedTold(i) <=> item[i].elapsed # Null

\* X-Event-Id makes a browser drop an event as its own.  In the response to an
\* added card, a status change and an extension it is the event of the request
\* and none when the request changed nothing, never the event of another.
HeaderIsOwnEvent ==
    answer.to \in {"add_item", "change_item_status", "extend_item_timer"} =>
        answer.header = answer.own

\* When an archive commits, every card that its request counted has left the
\* board: with it, with another archive or with the retro.
NothingCountedStays ==
    \A q \in Archivers : arch[q].pc = "action_items" =>
        \A i \in arch[q].seen : i \in arch[q].items \/ item[i].status = "ARCHIVED"

\* Cards live as the abstract lifecycle says.
Lifecycle == INSTANCE CardLifecycle WITH
                Cards <- Items, status <- [i \in Items |-> item[i].status]

RefinesLifecycle == Lifecycle!LifecycleSpec

Overdue(i) ==
    /\ item[i].status = "HIGHLIGHTED"
    /\ item[i].started # Null
    /\ EndsAt(item[i]) <= now
    /\ item[i].elapsed = Null

\* A timer whose deadline has passed is eventually marked elapsed, unless it is
\* extended, restarted or ended first, also while archives hold its row.
DueTimerElapses == \A i \in Items : Overdue(i) ~> ~ Overdue(i)
=============================================================================
