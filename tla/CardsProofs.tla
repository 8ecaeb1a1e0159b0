---------------------------- MODULE CardsProofs ----------------------------
(***************************************************************************)
(* Theorems about Cards, for any number of retros, cards, action items and *)
(* concurrent requests: types, timers and archives, the refinement of      *)
(* CardLifecycle, and what the event log and the headers tell.             *)
(***************************************************************************)
EXTENDS Cards, FiniteSetTheorems, SequenceTheorems, WellFoundedInduction, TLAPS

-----------------------------------------------------------------------------
(* Operators.                                                               *)

\* A non-empty set of numbers up to n has a largest one.
LEMMA HasMax ==
    ASSUME NEW n \in Nat, NEW S \in SUBSET (0 .. n), S # {}
    PROVE  \E m \in S : \A x \in S : x <= m
<1> DEFINE R == {ss \in Nat \X Nat : ss[1] < ss[2]}
           T == {n - x : x \in S}
<1>1. IsWellFoundedOn(R, Nat)
  BY NatLessThanWellFounded DEF OpToRel
<1>2. T \subseteq Nat /\ T # {}
  <2>1. \A x \in S : n - x \in Nat
    OBVIOUS
  <2> QED BY <2>1
<1>3. PICK y \in T : \A z \in T : ~ (<<z, y>> \in R)
  <2> HIDE DEF R, T
  <2> QED BY <1>1, <1>2, WFMin
<1>4. \A z \in T : y <= z
  <2> TAKE z \in T
  <2>1. z \in Nat /\ y \in Nat
    BY <1>2, <1>3
  <2>2. <<z, y>> \notin R
    <3> HIDE DEF R
    <3> QED BY <1>3
  <2> QED BY <2>1, <2>2
<1>5. PICK m \in S : y = n - m
  BY <1>3
<1>6. \A x \in S : x <= m
  BY <1>4, <1>5
<1> QED BY <1>6

\* Overwriting an element keeps a sequence one.
LEMMA SeqExcept ==
    ASSUME NEW S, NEW s \in Seq(S), NEW i, NEW e \in S
    PROVE  /\ [s EXCEPT ![i] = e] \in Seq(S)
           /\ DOMAIN [s EXCEPT ![i] = e] = DOMAIN s
<1>1. CASE i \in 1 .. Len(s)
  BY <1>1, ExceptSeq
<1>2. CASE i \notin 1 .. Len(s)
  <2>1. s \in [1 .. Len(s) -> S]
    OBVIOUS
  <2>2. [s EXCEPT ![i] = e] = s
    BY <1>2, <2>1
  <2> QED BY <2>2
<1> QED BY <1>1, <1>2

\* The event id that a lookup returns is 0 or the id of an event.
LEMMA LastEventType ==
    ASSUME NEW l \in Seq(Events), NEW i, NEW types
    PROVE  LastEvent(l, i, types) \in Nat
<1> DEFINE ids == {e \in DOMAIN l : l[e].type \in types /\ l[e].item = i}
<1>1. ids \in SUBSET (0 .. Len(l)) /\ Len(l) \in Nat
  BY LenProperties
<1>2. CASE ids = {}
  BY <1>2 DEF LastEvent
<1>3. CASE ids # {}
  <2>1. \E m \in ids : \A x \in ids : x <= m
    <3> HIDE DEF ids
    <3> QED BY <1>1, <1>3, HasMax
  <2>2. LastEvent(l, i, types) \in ids
    BY <1>3, <2>1 DEF LastEvent
  <2> QED BY <1>1, <2>2
<1> QED BY <1>2, <1>3

\* The trigger writes events.
LEMMA ItemEventType ==
    ASSUME NEW i \in Items, NEW old \in ItemRows, NEW new \in ItemRows,
           new.status \in Status
    PROVE  /\ ItemEvent(i, old, new) \in Seq(Events)
           /\ ItemEvent(i, old, new) = << >> \/ Len(ItemEvent(i, old, new)) = 1
<1>1. << >> \in Seq(Events)
  OBVIOUS
<1>2. \A e \in Events : << e >> \in Seq(Events) /\ Len(<< e >>) = 1
  OBVIOUS
<1>3. /\ [type |-> "ITEM_STATUS_CHANGED", item |-> i, status |-> new.status] \in Events
      /\ [type |-> "TIMER_ELAPSED", item |-> i] \in Events
      /\ [type |-> "TIMER_STARTED", item |-> i, started |-> new.started,
          duration |-> new.duration] \in Events
      /\ [type |-> "TIMER_EXTENDED", item |-> i, started |-> new.started,
          duration |-> new.duration] \in Events
      /\ [type |-> "ITEM_UPDATED", item |-> i, text |-> new.text] \in Events
  BY DEF Events, ItemRows
<1> HIDE DEF Events
<1> QED BY <1>1, <1>2, <1>3 DEF ItemEvent

-----------------------------------------------------------------------------
(* Types.                                                                   *)

\* Rows that handlers write are rows.
LEMMA RowTypes ==
    ASSUME CardsAssumption, NEW row \in ItemRows
    PROVE  /\ \A action : row.status \in Status =>
                 Changed(row, action) \in ItemRows /\ Changed(row, action).status \in Status
           /\ Extended(row) \in ItemRows /\ Extended(row).status = row.status
           /\ ResetTimer(row) \in ItemRows
           /\ \A d \in Int : Clamp(d) \in Nat \ {0}
<1>1. ResetTimer(row) \in ItemRows
  BY DEF ResetTimer, ItemRows, Null
<1>2. ASSUME NEW action, row.status \in Status
      PROVE  NextStatus(row.status, action) \in Status
  BY <1>2 DEF NextStatus, Status
<1>3. ASSUME NEW action, row.status \in Status
      PROVE  Changed(row, action) \in ItemRows /\ Changed(row, action).status \in Status
  BY <1>1, <1>2, <1>3 DEF Changed, ItemRows
<1>4. Extended(row) \in ItemRows /\ Extended(row).status = row.status
  <2>1. row.duration + Extension \in Nat
    BY DEF ItemRows, CardsAssumption
  <2>2. ASSUME NEW d \in Nat, NEW e \in Nat
        PROVE  LET new == [row EXCEPT !.duration = d, !.elapsed = e]
               IN  new \in ItemRows /\ new.status = row.status
    BY DEF ItemRows
  <2>3. Null \in Nat
    BY DEF Null
  <2> QED BY <2>1, <2>2, <2>3 DEF Extended
<1>5. \A d \in Int : Clamp(d) \in Nat \ {0}
  BY DEF Clamp, CardsAssumption
<1> QED BY <1>1, <1>3, <1>4, <1>5

\* An UPDATE keeps the types of the tables it writes.
LEMMA WriteType ==
    ASSUME TypeOK, NEW i \in Items, NEW new \in ItemRows, new.status \in Status,
           Write(i, new)
    PROVE  /\ item' \in [Items -> ItemRows]
           /\ log' \in Seq(Events)
           /\ log' = log \o ItemEvent(i, item[i], new)
           /\ OwnEvent(i, new) \in Nat
           /\ StatusHeader(i, new) \in Nat
<1>1. item \in [Items -> ItemRows] /\ log \in Seq(Events)
  BY DEF TypeOK, BoardTypeOK
<1>2. ItemEvent(i, item[i], new) \in Seq(Events)
  BY <1>1, ItemEventType
<1>3. item' \in [Items -> ItemRows]
  BY <1>1 DEF Write
<1>4. log' = log \o ItemEvent(i, item[i], new) /\ log' \in Seq(Events)
  BY <1>1, <1>2, ConcatProperties DEF Write
<1>5. OwnEvent(i, new) \in Nat
  BY <1>1, LenProperties DEF OwnEvent
<1>6. StatusHeader(i, new) \in Nat
  BY <1>4, LastEventType DEF StatusHeader
<1> QED BY <1>3, <1>4, <1>5, <1>6

\* The empty board, before any request, is well typed.
THEOREM TypeInit == ASSUME CardsAssumption PROVE Init => TypeOK
<1> SUFFICES ASSUME Init PROVE TypeOK
  OBVIOUS
<1>1. BoardTypeOK
  BY DEF Init, BoardTypeOK, ItemRows, ActionItemRows, NoItem, NoActionItem, Null
<1>2. RequestTypeOK
  BY DEF Init, RequestTypeOK, EditStates, ArchiveStates, NoEdit, NoArchive, NoAnswer, Answers
<1> QED BY <1>1, <1>2 DEF TypeOK

\* What a request on a single card has to establish.
LEMMA CardRequestType ==
    ASSUME TypeOK, item' \in [Items -> ItemRows], log' \in Seq(Events), answer' \in Answers,
           UNCHANGED <<actionItem, archives, deleted, edit, arch, now>>
    PROVE  TypeOK'
<1>1. BoardTypeOK'
  BY DEF TypeOK, BoardTypeOK
<1>2. RequestTypeOK'
  BY DEF TypeOK, RequestTypeOK
<1> QED BY <1>1, <1>2 DEF TypeOK

\* What a handler answers, an HTTP result with or without a header, is an answer.
LEMMA AnswerTypes ==
    ASSUME NEW own \in Nat, NEW header \in Nat,
           NEW to \in {"add_item", "change_item_status", "update_item", "start_item_timer",
                       "extend_item_timer"}
    PROVE  Respond(to, own, header) => answer' \in Answers
BY DEF Respond, Answers

\* A step that answers no request leaves a well-typed answer.
LEMMA SilentType == Silent => answer' \in Answers
BY DEF Silent, NoAnswer, Answers

\* Adding, highlighting, extending, cancelling, completing and deleting a card keep the types.
LEMMA ItemHandlerType ==
    ASSUME CardsAssumption, TypeOK, NEW i \in Items, ItemHandler(i)
    PROVE  TypeOK'
<1>0. item \in [Items -> ItemRows] /\ log \in Seq(Events) /\ Len(log) \in Nat /\ now \in Nat
  BY LenProperties DEF TypeOK, BoardTypeOK
<1>1. ASSUME NEW text \in Texts, AddItem(i, text)
      PROVE  TypeOK'
  <2>1. [NoItem EXCEPT !.status = "CREATED", !.text = text] \in ItemRows
    BY DEF NoItem, ItemRows, Null, Status
  <2>2. [type |-> "ITEM_CREATED", item |-> i, text |-> text, status |-> "CREATED"] \in Events
    BY DEF Events, Status
  <2>3. item' \in [Items -> ItemRows] /\ log' \in Seq(Events)
    BY <1>0, <1>1, <2>1, <2>2, AppendProperties DEF AddItem
  <2>4. LastEvent(log', i, {"ITEM_CREATED"}) \in Nat
    BY <2>3, LastEventType
  <2>5. answer' \in Answers
    <3>1. Len(log) + 1 \in Nat
      BY <1>0
    <3> QED BY <1>1, <2>4, <3>1, AnswerTypes DEF AddItem
  <2> QED BY <1>1, <2>3, <2>5, CardRequestType DEF AddItem
<1>2. ASSUME NEW action \in {"highlight", "cancel", "complete"}, ChangeItemStatus(i, action)
      PROVE  TypeOK'
  <2> DEFINE new == Changed(item[i], action)
  <2>1. item[i] \in ItemRows /\ item[i].status \in Status
    BY <1>0, <1>2 DEF ChangeItemStatus, Exists
  <2>2. new \in ItemRows /\ new.status \in Status
    BY <2>1, RowTypes
  <2>3. UNCHANGED <<actionItem, archives, deleted, edit, arch, now>>
    BY <1>2 DEF ChangeItemStatus
  <2>4. \/ Write(i, new) /\ Respond("change_item_status", OwnEvent(i, new), StatusHeader(i, new))
        \/ Respond("change_item_status", 0, 0) /\ UNCHANGED <<item, log>>
    BY <1>2 DEF ChangeItemStatus
  <2> HIDE DEF new
  <2>5. CASE Write(i, new) /\ Respond("change_item_status", OwnEvent(i, new), StatusHeader(i, new))
    <3>1. item' \in [Items -> ItemRows] /\ log' \in Seq(Events)
            /\ OwnEvent(i, new) \in Nat /\ StatusHeader(i, new) \in Nat
      BY <2>2, <2>5, WriteType
    <3> QED BY <2>3, <2>5, <3>1, AnswerTypes, CardRequestType
  <2>6. CASE Respond("change_item_status", 0, 0) /\ UNCHANGED <<item, log>>
    BY <1>0, <2>3, <2>6, AnswerTypes, CardRequestType
  <2> QED BY <2>4, <2>5, <2>6
<1>3. ASSUME NEW d \in Submitted, StartItemTimer(i, d)
      PROVE  TypeOK'
  <2> DEFINE new == [item[i] EXCEPT !.started = now, !.duration = Clamp(d), !.elapsed = Null]
  <2>1. item[i] \in ItemRows /\ item[i].status \in Status
    BY <1>0, <1>3 DEF StartItemTimer, Exists
  <2>2. new \in ItemRows /\ new.status \in Status
    <3>1. Clamp(d) \in Nat
      BY <2>1, RowTypes DEF CardsAssumption
    <3> QED BY <1>0, <2>1, <3>1 DEF ItemRows, Null
  <2>3. UNCHANGED <<actionItem, archives, deleted, edit, arch, now>>
    BY <1>3 DEF StartItemTimer
  <2>4. \/ Write(i, new) /\ Respond("start_item_timer", OwnEvent(i, new),
                               LastEvent(log', i, {"TIMER_STARTED"}))
        \/ Respond("start_item_timer", 0, 0) /\ UNCHANGED <<item, log>>
    BY <1>3 DEF StartItemTimer
  <2> HIDE DEF new
  <2>5. CASE Write(i, new) /\ Respond("start_item_timer", OwnEvent(i, new),
                                       LastEvent(log', i, {"TIMER_STARTED"}))
    <3>1. item' \in [Items -> ItemRows] /\ log' \in Seq(Events) /\ OwnEvent(i, new) \in Nat
      BY <2>2, <2>5, WriteType
    <3>2. LastEvent(log', i, {"TIMER_STARTED"}) \in Nat
      BY <3>1, LastEventType
    <3> QED BY <2>3, <2>5, <3>1, <3>2, AnswerTypes, CardRequestType
  <2>6. CASE Respond("start_item_timer", 0, 0) /\ UNCHANGED <<item, log>>
    BY <1>0, <2>3, <2>6, AnswerTypes, CardRequestType
  <2> QED BY <2>4, <2>5, <2>6
<1>4. ASSUME ExtendItemTimer(i)
      PROVE  TypeOK'
  <2> DEFINE new == Extended(item[i])
  <2>1. item[i] \in ItemRows /\ item[i].status \in Status
    BY <1>0, <1>4 DEF ExtendItemTimer, Exists
  <2>2. new \in ItemRows /\ new.status \in Status
    BY <2>1, RowTypes
  <2>3. UNCHANGED <<actionItem, archives, deleted, edit, arch, now>>
    BY <1>4 DEF ExtendItemTimer
  <2>4. \/ Write(i, new) /\ Respond("extend_item_timer", OwnEvent(i, new),
                                    LastEvent(log', i, {"TIMER_EXTENDED"}))
        \/ Respond("extend_item_timer", 0, 0) /\ UNCHANGED <<item, log>>
    BY <1>4 DEF ExtendItemTimer
  <2> HIDE DEF new
  <2>5. CASE Write(i, new) /\ Respond("extend_item_timer", OwnEvent(i, new),
                                      LastEvent(log', i, {"TIMER_EXTENDED"}))
    <3>1. item' \in [Items -> ItemRows] /\ log' \in Seq(Events) /\ OwnEvent(i, new) \in Nat
      BY <2>2, <2>5, WriteType
    <3>2. LastEvent(log', i, {"TIMER_EXTENDED"}) \in Nat
      BY <3>1, LastEventType
    <3> QED BY <2>3, <2>5, <3>1, <3>2, AnswerTypes, CardRequestType
  <2>6. CASE Respond("extend_item_timer", 0, 0) /\ UNCHANGED <<item, log>>
    BY <1>0, <2>3, <2>6, AnswerTypes, CardRequestType
  <2> QED BY <2>4, <2>5, <2>6
<1> QED BY <1>1, <1>2, <1>3, <1>4 DEF ItemHandler

\* Editing the text of a card keeps the types.
LEMMA UpdateItemType ==
    ASSUME CardsAssumption, TypeOK, NEW q \in Editors, UpdateItem(q)
    PROVE  TypeOK'
<1>0. /\ item \in [Items -> ItemRows] /\ log \in Seq(Events)
      /\ edit \in [Editors -> EditStates]
  BY DEF TypeOK, BoardTypeOK, RequestTypeOK
<1>1. ASSUME edit' \in [Editors -> EditStates], Silent, UNCHANGED <<boardVars, log, arch, now>>
      PROVE  TypeOK'
  <2>1. BoardTypeOK'
    BY <1>1 DEF TypeOK, BoardTypeOK, boardVars
  <2>2. RequestTypeOK'
    BY <1>1, SilentType DEF TypeOK, RequestTypeOK
  <2> QED BY <2>1, <2>2 DEF TypeOK
<1>2. ASSUME NEW i \in Items, NEW text \in Texts, ReadOldText(q, i, text)
      PROVE  TypeOK'
  <2>1. item[i].text \in Texts \cup {None}
    BY <1>0 DEF ItemRows
  <2>2. [item |-> i, text |-> text, old |-> item[i].text] \in EditStates
    BY <2>1 DEF EditStates
  <2>3. edit' \in [Editors -> EditStates]
    BY <1>0, <1>2, <2>2 DEF ReadOldText
  <2> QED BY <1>1, <1>2, <2>3 DEF ReadOldText
<1>3. NoEdit \in EditStates
  BY DEF NoEdit, EditStates
<1>4. ASSUME UpdateText(q)
      PROVE  TypeOK'
  <2> DEFINE i      == edit[q].item
             new    == [item[i] EXCEPT !.text = edit[q].text]
             header == IF edit[q].old # edit[q].text
                       THEN LastEvent(log', i, {"ITEM_UPDATED"}) ELSE 0
  <2>1. i \in Items /\ edit[q].text \in Texts \cup {None}
    BY <1>0, <1>4 DEF UpdateText, EditStates
  <2>2. item[i] \in ItemRows /\ item[i].status \in Status
    BY <1>0, <1>4, <2>1 DEF UpdateText, Exists
  <2>3. new \in ItemRows /\ new.status \in Status
    BY <2>1, <2>2 DEF ItemRows
  <2>4. Write(i, new) /\ Respond("update_item", OwnEvent(i, new), header)
    BY <1>4 DEF UpdateText
  <2>5. edit' \in [Editors -> EditStates]
    BY <1>0, <1>3, <1>4 DEF UpdateText
  <2>6. UNCHANGED <<actionItem, archives, deleted, arch, now>>
    BY <1>4 DEF UpdateText
  <2> HIDE DEF new
  <2>7. item' \in [Items -> ItemRows] /\ log' \in Seq(Events) /\ OwnEvent(i, new) \in Nat
    <3> HIDE DEF i
    <3> QED BY <2>1, <2>3, <2>4, WriteType
  <2>8. header \in Nat
    BY <2>7, LastEventType
  <2> HIDE DEF header
  <2>9. answer' \in Answers
    BY <2>4, <2>7, <2>8, AnswerTypes
  <2>10. BoardTypeOK'
    BY <2>6, <2>7 DEF TypeOK, BoardTypeOK
  <2>11. RequestTypeOK'
    BY <2>5, <2>6, <2>9 DEF TypeOK, RequestTypeOK
  <2> QED BY <2>10, <2>11 DEF TypeOK
<1>5. ASSUME AbandonEdit(q)
      PROVE  TypeOK'
  <2>1. edit' \in [Editors -> EditStates]
    BY <1>0, <1>3, <1>5 DEF AbandonEdit
  <2> QED BY <1>1, <1>5, <2>1 DEF AbandonEdit
<1> QED BY <1>2, <1>4, <1>5 DEF UpdateItem

\* The requests about action items keep the types.
LEMMA ActionItemHandlerType ==
    ASSUME TypeOK, NEW a \in ActionItems, ActionItemHandler(a)
    PROVE  TypeOK'
<1>0. actionItem \in [ActionItems -> ActionItemRows] /\ now \in Nat
  BY DEF TypeOK, BoardTypeOK
<1>1. actionItem[a] \in ActionItemRows
  BY <1>0
<1>2. ASSUME NEW row \in ActionItemRows, actionItem' = [actionItem EXCEPT ![a] = row], Silent,
             UNCHANGED <<item, archives, deleted, log, edit, arch, now>>
      PROVE  TypeOK'
  <2>1. BoardTypeOK'
    BY <1>2 DEF TypeOK, BoardTypeOK
  <2>2. RequestTypeOK'
    BY <1>2, SilentType DEF TypeOK, RequestTypeOK
  <2> QED BY <2>1, <2>2 DEF TypeOK
<1>3. ASSUME NEW text \in Texts, AddActionItem(a, text)
      PROVE  TypeOK'
  <2> DEFINE row == [NoActionItem EXCEPT !.state = "present", !.text = text]
  <2>1. row \in ActionItemRows
    BY DEF NoActionItem, ActionItemRows, Null
  <2>2. actionItem' = [actionItem EXCEPT ![a] = row]
    BY <1>3 DEF AddActionItem
  <2> HIDE DEF row
  <2> QED BY <1>2, <1>3, <2>1, <2>2 DEF AddActionItem
<1>4. ASSUME NEW text \in Texts, UpdateActionItem(a, text)
      PROVE  TypeOK'
  <2> DEFINE row == [actionItem[a] EXCEPT !.text = text]
  <2>1. row \in ActionItemRows
    BY <1>1 DEF ActionItemRows
  <2>2. actionItem' = [actionItem EXCEPT ![a] = row]
    BY <1>0, <1>4 DEF UpdateActionItem
  <2> HIDE DEF row
  <2> QED BY <1>2, <1>4, <2>1, <2>2 DEF UpdateActionItem
<1>5. ASSUME CompleteActionItem(a)
      PROVE  TypeOK'
  <2> DEFINE row == [actionItem[a] EXCEPT !.completed = FirstCompletion(a)]
  <2>1. FirstCompletion(a) \in Nat
    BY <1>0, <1>1 DEF FirstCompletion, ActionItemRows
  <2>2. row \in ActionItemRows
    BY <1>1, <2>1 DEF ActionItemRows
  <2>3. actionItem' = [actionItem EXCEPT ![a] = row]
    BY <1>0, <1>5 DEF CompleteActionItem
  <2> HIDE DEF row
  <2> QED BY <1>2, <1>5, <2>2, <2>3 DEF CompleteActionItem
<1>6. ASSUME DeleteActionItem(a)
      PROVE  TypeOK'
  <2> DEFINE row == [NoActionItem EXCEPT !.state = "deleted"]
  <2>1. row \in ActionItemRows
    BY DEF NoActionItem, ActionItemRows, Null
  <2>2. actionItem' = [actionItem EXCEPT ![a] = row]
    BY <1>6 DEF DeleteActionItem
  <2> HIDE DEF row
  <2> QED BY <1>2, <1>6, <2>1, <2>2 DEF DeleteActionItem
<1> QED BY <1>3, <1>4, <1>5, <1>6 DEF ActionItemHandler

\* Each step of the archive transaction keeps the types.
LEMMA ArchiveRetroType ==
    ASSUME CardsAssumption, TypeOK, NEW q \in Archivers, ArchiveRetro(q)
    PROVE  TypeOK'
<1>0. /\ item \in [Items -> ItemRows] /\ actionItem \in [ActionItems -> ActionItemRows]
      /\ archives \in Seq(Retros \cup {None}) /\ log \in Seq(Events)
      /\ arch \in [Archivers -> ArchiveStates] /\ arch[q] \in ArchiveStates
  BY DEF TypeOK, BoardTypeOK, RequestTypeOK
<1>1. Active(arch[q].retro) \subseteq Items /\ ActiveActionItems(arch[q].retro) \subseteq ActionItems
  BY DEF Active, ActiveActionItems
<1>2. NoArchive \in ArchiveStates
  BY DEF NoArchive, ArchiveStates
\* The step changes the request and no table.
<1>3. ASSUME arch' \in [Archivers -> ArchiveStates], Silent, UNCHANGED <<boardVars, log, edit, now>>
      PROVE  TypeOK'
  <2>1. BoardTypeOK'
    BY <1>3 DEF TypeOK, BoardTypeOK, boardVars
  <2>2. RequestTypeOK'
    BY <1>3, SilentType DEF TypeOK, RequestTypeOK
  <2> QED BY <2>1, <2>2 DEF TypeOK
<1>4. ASSUME NEW r \in Retros, CountActive(q, r)
      PROVE  TypeOK'
  <2> DEFINE state == [NoArchive EXCEPT !.pc = "counted", !.retro = r, !.seen = Active(r)]
  <2>1. state \in ArchiveStates
    <3>1. Active(r) \in SUBSET Items
      BY DEF Active
    <3> QED BY <3>1 DEF NoArchive, ArchiveStates
  <2>2. arch' = [arch EXCEPT ![q] = state]
    BY <1>4 DEF CountActive
  <2> HIDE DEF state
  <2>3. arch' \in [Archivers -> ArchiveStates]
    BY <1>0, <2>1, <2>2
  <2> QED BY <1>3, <1>4, <2>3 DEF CountActive
<1>5. ASSUME InsertArchive(q)
      PROVE  TypeOK'
  <2>1. arch[q].retro \in Retros \cup {None}
    BY <1>0 DEF ArchiveStates
  <2>2. archives' \in Seq(Retros \cup {None})
    BY <1>0, <1>5, <2>1, AppendProperties DEF InsertArchive
  <2>3. [type |-> "RETRO_ARCHIVED", retro |-> arch[q].retro] \in Events
    BY <2>1 DEF Events
  <2>4. log' \in Seq(Events)
    BY <1>0, <1>5, <2>3, AppendProperties DEF InsertArchive
  <2> DEFINE state == [arch[q] EXCEPT !.pc = "inserted", !.id = Len(archives) + 1,
                                      !.event = Len(log) + 1]
  <2>5. state \in ArchiveStates
    <3>1. Len(archives) + 1 \in Nat /\ Len(log) + 1 \in Nat
      BY <1>0, LenProperties
    <3> QED BY <1>0, <3>1 DEF ArchiveStates
  <2>6. arch' = [arch EXCEPT ![q] = state]
    BY <1>0, <1>5 DEF InsertArchive
  <2> HIDE DEF state
  <2>7. BoardTypeOK'
    BY <1>5, <2>2, <2>4 DEF InsertArchive, TypeOK, BoardTypeOK
  <2>8. arch' \in [Archivers -> ArchiveStates] /\ answer' \in Answers /\ edit' = edit
    <3>1. arch' \in [Archivers -> ArchiveStates]
      BY <1>0, <2>5, <2>6
    <3>2. Silent /\ edit' = edit
      BY <1>5 DEF InsertArchive
    <3> QED BY <3>1, <3>2, SilentType
  <2>9. RequestTypeOK'
    BY <2>8 DEF TypeOK, RequestTypeOK
  <2> QED BY <2>7, <2>9 DEF TypeOK
<1>6. ASSUME ArchiveItems(q)
      PROVE  TypeOK'
  <2> DEFINE state == [arch[q] EXCEPT !.pc = "items", !.items = Archivable(arch[q].retro)]
  <2>1. state \in ArchiveStates
    BY <1>0, <1>1 DEF ArchiveStates, Archivable
  <2>2. arch' = [arch EXCEPT ![q] = state]
    BY <1>0, <1>6 DEF ArchiveItems
  <2> HIDE DEF state
  <2>3. arch' \in [Archivers -> ArchiveStates]
    BY <1>0, <2>1, <2>2
  <2> QED BY <1>3, <1>6, <2>3 DEF ArchiveItems
<1>7. ASSUME ArchiveActionItems(q)
      PROVE  TypeOK'
  <2> DEFINE state == [arch[q] EXCEPT !.pc = "action_items",
                                      !.actionItems = ActiveActionItems(arch[q].retro)]
  <2>1. state \in ArchiveStates
    BY <1>0, <1>1 DEF ArchiveStates
  <2>2. arch' = [arch EXCEPT ![q] = state]
    BY <1>0, <1>7 DEF ArchiveActionItems
  <2> HIDE DEF state
  <2>3. arch' \in [Archivers -> ArchiveStates]
    BY <1>0, <2>1, <2>2
  <2> QED BY <1>3, <1>7, <2>3 DEF ArchiveActionItems
<1>8. ASSUME CommitArchive(q)
      PROVE  TypeOK'
  <2>1. arch[q].id \in Nat
    BY <1>0 DEF ArchiveStates
  <2>2. ASSUME NEW i \in Items
        PROVE  [item[i] EXCEPT !.status = "ARCHIVED", !.archive = arch[q].id] \in ItemRows
    <3>1. item[i] \in ItemRows
      BY <1>0
    <3> QED BY <2>1, <3>1 DEF ItemRows, Status
  <2>3. item' \in [Items -> ItemRows]
    BY <1>0, <1>8, <2>2 DEF CommitArchive
  <2>4. ASSUME NEW a \in ActionItems
        PROVE  [actionItem[a] EXCEPT !.archive = arch[q].id] \in ActionItemRows
    <3>1. actionItem[a] \in ActionItemRows
      BY <1>0
    <3> QED BY <2>1, <3>1 DEF ActionItemRows
  <2>5. actionItem' \in [ActionItems -> ActionItemRows]
    BY <1>0, <1>8, <2>4 DEF CommitArchive
  <2>6. BoardTypeOK'
    BY <1>8, <2>3, <2>5 DEF CommitArchive, TypeOK, BoardTypeOK
  <2>7. RequestTypeOK'
    BY <1>0, <1>2, <1>8, SilentType DEF CommitArchive, TypeOK, RequestTypeOK
  <2> QED BY <2>6, <2>7 DEF TypeOK
<1>9. ASSUME AbortArchive(q)
      PROVE  TypeOK'
  <2>1. archives' \in Seq(Retros \cup {None})
    BY <1>0, <1>9, SeqExcept DEF AbortArchive
  <2>2. NoEvent \in Events
    BY DEF NoEvent, Events
  <2>3. log' \in Seq(Events)
    BY <1>0, <1>9, <2>2, SeqExcept DEF AbortArchive
  <2>4. BoardTypeOK'
    BY <1>9, <2>1, <2>3 DEF AbortArchive, TypeOK, BoardTypeOK
  <2>5. RequestTypeOK'
    BY <1>0, <1>2, <1>9, SilentType DEF AbortArchive, TypeOK, RequestTypeOK
  <2> QED BY <2>4, <2>5 DEF TypeOK
<1> QED BY <1>4, <1>5, <1>6, <1>7, <1>8, <1>9 DEF ArchiveRetro, ArchiveStep

\* Deleting a retro, with all that cascades, keeps the types.
LEMMA DeleteRetroType ==
    ASSUME CardsAssumption, TypeOK, NEW r \in Retros, DeleteRetro(r)
    PROVE  TypeOK'
<1>0. /\ item \in [Items -> ItemRows] /\ actionItem \in [ActionItems -> ActionItemRows]
      /\ archives \in Seq(Retros \cup {None})
  BY DEF TypeOK, BoardTypeOK
<1>1. item' \in [Items -> ItemRows]
  <2>1. [NoItem EXCEPT !.status = "deleted"] \in ItemRows
    BY DEF NoItem, ItemRows, Null
  <2> QED BY <1>0, <2>1 DEF DeleteRetro
<1>2. actionItem' \in [ActionItems -> ActionItemRows]
  <2>1. [NoActionItem EXCEPT !.state = "deleted"] \in ActionItemRows
    BY DEF NoActionItem, ActionItemRows, Null
  <2> QED BY <1>0, <2>1 DEF DeleteRetro
<1>3. archives' \in Seq(Retros \cup {None})
  <2>1. DOMAIN archives = 1 .. Len(archives) /\ Len(archives) \in Nat
    BY <1>0, LenProperties
  <2>2. \A n \in DOMAIN archives : archives[n] \in Retros \cup {None}
    BY <1>0, ElementOfSeq
  <2>3. archives' \in [1 .. Len(archives) -> Retros \cup {None}]
    BY <2>1, <2>2 DEF DeleteRetro
  <2> QED BY <2>1, <2>3, SeqDef
<1>4. BoardTypeOK'
  BY <1>1, <1>2, <1>3 DEF DeleteRetro, TypeOK, BoardTypeOK
<1>5. RequestTypeOK'
  BY SilentType DEF DeleteRetro, TypeOK, RequestTypeOK
<1> QED BY <1>4, <1>5 DEF TypeOK

\* The sweep of elapsed timers keeps the types.
LEMMA TimerSweepType ==
    ASSUME CardsAssumption, TypeOK, TimerSweep
    PROVE  TypeOK'
<1>0. item \in [Items -> ItemRows] /\ log \in Seq(Events) /\ now \in Nat
  BY DEF TypeOK, BoardTypeOK
<1>1. item' \in [Items -> ItemRows]
  <2>1. ASSUME NEW i \in Items
        PROVE  [item[i] EXCEPT !.elapsed = now] \in ItemRows
    <3>1. item[i] \in ItemRows
      BY <1>0
    <3> QED BY <1>0, <3>1 DEF ItemRows
  <2> QED BY <1>0, <2>1 DEF TimerSweep
<1>2. log' \in Seq(Events)
  <2>1. PICK rows \in SetToSeqs(Due) :
            log' = log \o [k \in DOMAIN rows |-> [type |-> "TIMER_ELAPSED", item |-> rows[k]]]
    BY DEF TimerSweep
  <2>2. Due \subseteq Items /\ IsFiniteSet(Items)
    BY DEF Due, CardsAssumption
  <2>3. Cardinality(Due) \in Nat
    BY <2>2, FS_Subset, FS_CardinalityType
  <2>4. rows \in [1 .. Cardinality(Due) -> Items]
    BY <2>2 DEF SetToSeqs
  <2> DEFINE events == [k \in DOMAIN rows |-> [type |-> "TIMER_ELAPSED", item |-> rows[k]]]
  <2>5. \A i \in Items : [type |-> "TIMER_ELAPSED", item |-> i] \in Events
    BY DEF Events
  <2>6. events \in [1 .. Cardinality(Due) -> Events]
    BY <2>4, <2>5
  <2>7. events \in Seq(Events)
    <3> HIDE DEF events
    <3> QED BY <2>3, <2>6, SeqDef
  <2> HIDE DEF events
  <2>8. log' = log \o events
    BY <2>1 DEF events
  <2> QED BY <1>0, <2>7, <2>8, ConcatProperties
<1>3. BoardTypeOK'
  BY <1>1, <1>2 DEF TimerSweep, TypeOK, BoardTypeOK
<1>4. RequestTypeOK'
  BY SilentType DEF TimerSweep, TypeOK, RequestTypeOK
<1> QED BY <1>3, <1>4 DEF TypeOK

\* Time passing keeps the types.
LEMMA TickType ==
    ASSUME TypeOK, Tick
    PROVE  TypeOK'
<1>1. BoardTypeOK'
  BY DEF Tick, TypeOK, BoardTypeOK, boardVars
<1>2. RequestTypeOK'
  BY SilentType DEF Tick, TypeOK, RequestTypeOK
<1> QED BY <1>1, <1>2 DEF TypeOK

\* Every step of the board keeps the types.
THEOREM TypeStep ==
    ASSUME CardsAssumption, TypeOK, [Next]_vars
    PROVE  TypeOK'
<1>1. CASE Next
  BY <1>1, ItemHandlerType, UpdateItemType, ActionItemHandlerType, ArchiveRetroType,
     DeleteRetroType, TimerSweepType, TickType DEF Next
<1>2. CASE UNCHANGED vars
  BY <1>2 DEF vars, boardVars, TypeOK, BoardTypeOK, RequestTypeOK
<1> QED BY <1>1, <1>2

\* Every table, request and response keeps its type; rows and events of the
\* triggers are well formed whatever the board does.
THEOREM CardsTypeCorrect == Spec => []TypeOK
<1> USE CardsAssumption
<1> QED BY TypeInit, TypeStep, PTL DEF Spec

-----------------------------------------------------------------------------
(* Timers.                                                                  *)

\* What TimerOfHighlight and ElapsedWasDue say of one row at time t.
TimerOK(row, t) ==
    /\ row.started = Null <=> row.duration = Null
    /\ row.elapsed # Null => row.started # Null
    /\ row.started # Null => row.status \in {"HIGHLIGHTED", "ARCHIVED"}
    /\ row.elapsed # Null => EndsAt(row) <= row.elapsed /\ row.elapsed <= t

TimerInv == \A i \in Items : TimerOK(item[i], now)

\* The invariant of the rows says what the two checked properties say.
LEMMA TimerInvMeaning == TimerInv <=> TimerOfHighlight /\ ElapsedWasDue
BY DEF TimerInv, TimerOK, TimerOfHighlight, ElapsedWasDue

\* Each kind of UPDATE keeps the timer of its row in order.
LEMMA TimerRows ==
    ASSUME CardsAssumption, NEW row \in ItemRows, NEW t \in Nat \ {0}, TimerOK(row, t)
    PROVE  /\ \A action : TimerOK(Changed(row, action), t)
           /\ row.status = "HIGHLIGHTED" =>
                 \A d \in Int : TimerOK([row EXCEPT !.started = t, !.duration = Clamp(d),
                                                    !.elapsed = Null], t)
           /\ row.started # Null => TimerOK(Extended(row), t)
           /\ \A text : TimerOK([row EXCEPT !.text = text], t)
           /\ \A n \in Nat : TimerOK([row EXCEPT !.status = "ARCHIVED", !.archive = n], t)
           /\ row.started # Null /\ EndsAt(row) <= t => TimerOK([row EXCEPT !.elapsed = t], t)
           /\ TimerOK(row, t + 1)
<1>0. row.started \in Nat /\ row.duration \in Nat /\ row.elapsed \in Nat
  BY DEF ItemRows
<1>1. ASSUME NEW action
      PROVE  TimerOK(Changed(row, action), t)
  <2>1. CASE row.status = "HIGHLIGHTED" /\ action \in {"cancel", "complete"}
    <3>1. Changed(row, action) = [ResetTimer(row) EXCEPT !.status = NextStatus(row.status, action)]
      BY <2>1 DEF Changed
    <3>2. /\ Changed(row, action).started = Null
          /\ Changed(row, action).duration = Null
          /\ Changed(row, action).elapsed = Null
      BY <3>1 DEF ResetTimer, ItemRows
    <3> QED BY <3>2 DEF TimerOK
  <2>2. CASE ~ (row.status = "HIGHLIGHTED" /\ action \in {"cancel", "complete"})
    <3>1. Changed(row, action) = [row EXCEPT !.status = NextStatus(row.status, action)]
      BY <2>2 DEF Changed
    <3>2. row.status \in {"HIGHLIGHTED", "ARCHIVED"} => NextStatus(row.status, action) = row.status
      BY <2>2 DEF NextStatus
    <3>3. /\ Changed(row, action).started = row.started
          /\ Changed(row, action).duration = row.duration
          /\ Changed(row, action).elapsed = row.elapsed
          /\ Changed(row, action).status = NextStatus(row.status, action)
      BY <3>1 DEF ItemRows
    <3> QED BY <3>2, <3>3 DEF TimerOK, EndsAt
  <2> QED BY <2>1, <2>2
<1>2. ASSUME row.status = "HIGHLIGHTED", NEW d \in Int
      PROVE  TimerOK([row EXCEPT !.started = t, !.duration = Clamp(d), !.elapsed = Null], t)
  <2>1. Clamp(d) \in Nat \ {0}
    BY RowTypes
  <2> QED BY <1>2, <2>1 DEF TimerOK, ItemRows, Null
<1>3. ASSUME row.started # Null
      PROVE  TimerOK(Extended(row), t)
  <2>1. row.duration + Extension # Null /\ row.duration # Null
    BY <1>0, <1>3 DEF CardsAssumption, Null, TimerOK
  <2>2. /\ Extended(row).started = row.started
        /\ Extended(row).duration = row.duration + Extension
        /\ Extended(row).elapsed = Null
        /\ Extended(row).status = row.status
    BY DEF Extended, ItemRows
  <2> QED BY <1>3, <2>1, <2>2 DEF TimerOK
<1>4. \A text : TimerOK([row EXCEPT !.text = text], t)
  BY DEF TimerOK, ItemRows, EndsAt
<1>5. \A n \in Nat : TimerOK([row EXCEPT !.status = "ARCHIVED", !.archive = n], t)
  BY DEF TimerOK, ItemRows, EndsAt
<1>6. ASSUME row.started # Null, EndsAt(row) <= t
      PROVE  TimerOK([row EXCEPT !.elapsed = t], t)
  BY <1>0, <1>6 DEF TimerOK, ItemRows, EndsAt
<1>7. TimerOK(row, t + 1)
  BY <1>0 DEF TimerOK
<1> QED BY <1>1, <1>2, <1>3, <1>4, <1>5, <1>6, <1>7

\* A row without a timer is in order, at any time.
LEMMA NoTimer ==
    \A t, s : TimerOK([NoItem EXCEPT !.status = s], t)
BY DEF TimerOK, NoItem

\* A step that replaces one row by a row in order.
LEMMA TimerOfWrite ==
    ASSUME TypeOK, TimerInv, NEW i \in Items, NEW new, TimerOK(new, now),
           item' = [item EXCEPT ![i] = new], now' = now
    PROVE  TimerInv'
BY DEF TimerInv, TypeOK, BoardTypeOK

\* The requests about one card leave the timer of each card in order.
LEMMA TimerItemHandler ==
    ASSUME CardsAssumption, TypeOK, TimerInv, NEW i \in Items, ItemHandler(i)
    PROVE  TimerInv'
<1>0. item[i] \in ItemRows /\ now \in Nat \ {0} /\ TimerOK(item[i], now)
  BY DEF TypeOK, BoardTypeOK, TimerInv
<1>1. ASSUME NEW text \in Texts, AddItem(i, text)
      PROVE  TimerInv'
  <2> DEFINE new == [NoItem EXCEPT !.status = "CREATED", !.text = text]
  <2>1. TimerOK(new, now)
    BY DEF TimerOK, NoItem
  <2>2. item' = [item EXCEPT ![i] = new] /\ now' = now
    BY <1>1 DEF AddItem
  <2> HIDE DEF new
  <2> QED BY <2>1, <2>2, TimerOfWrite
<1>2. ASSUME NEW action \in {"highlight", "cancel", "complete"}, ChangeItemStatus(i, action)
      PROVE  TimerInv'
  <2>1. TimerOK(Changed(item[i], action), now)
    BY <1>0, TimerRows
  <2>2. \/ item' = [item EXCEPT ![i] = Changed(item[i], action)]
        \/ item' = item
    BY <1>2 DEF ChangeItemStatus, Write
  <2>3. now' = now
    BY <1>2 DEF ChangeItemStatus
  <2>4. CASE item' = item
    BY <2>3, <2>4 DEF TimerInv
  <2> QED BY <2>1, <2>2, <2>3, <2>4, TimerOfWrite
<1>3. ASSUME NEW d \in Submitted, StartItemTimer(i, d)
      PROVE  TimerInv'
  <2> DEFINE new == [item[i] EXCEPT !.started = now, !.duration = Clamp(d), !.elapsed = Null]
  <2>1. \/ item[i].status = "HIGHLIGHTED" /\ item' = [item EXCEPT ![i] = new]
        \/ item' = item
    BY <1>3 DEF StartItemTimer, Write, Highlighted
  <2>2. item[i].status = "HIGHLIGHTED" => TimerOK(new, now)
    BY <1>0, TimerRows DEF CardsAssumption
  <2>3. now' = now
    BY <1>3 DEF StartItemTimer
  <2>4. CASE item' = item
    BY <2>3, <2>4 DEF TimerInv
  <2> HIDE DEF new
  <2> QED BY <2>1, <2>2, <2>3, <2>4, TimerOfWrite
<1>4. ASSUME ExtendItemTimer(i)
      PROVE  TimerInv'
  <2>1. \/ item[i].started # Null /\ item' = [item EXCEPT ![i] = Extended(item[i])]
        \/ item' = item
    BY <1>4 DEF ExtendItemTimer, Write
  <2>2. item[i].started # Null => TimerOK(Extended(item[i]), now)
    BY <1>0, TimerRows
  <2>3. now' = now
    BY <1>4 DEF ExtendItemTimer
  <2>4. CASE item' = item
    BY <2>3, <2>4 DEF TimerInv
  <2> QED BY <2>1, <2>2, <2>3, <2>4, TimerOfWrite
<1> QED BY <1>1, <1>2, <1>3, <1>4 DEF ItemHandler

\* Editing a text leaves the timers alone.
LEMMA TimerUpdateItem ==
    ASSUME CardsAssumption, TypeOK, TimerInv, NEW q \in Editors, UpdateItem(q)
    PROVE  TimerInv'
<1>1. ASSUME item' = item, now' = now
      PROVE  TimerInv'
  BY <1>1 DEF TimerInv
<1>2. ASSUME UpdateText(q)
      PROVE  TimerInv'
  <2> DEFINE i   == edit[q].item
             new == [item[i] EXCEPT !.text = edit[q].text]
  <2>1. i \in Items
    BY <1>2 DEF UpdateText, TypeOK, RequestTypeOK, EditStates
  <2>2. item[i] \in ItemRows /\ now \in Nat \ {0} /\ TimerOK(item[i], now)
    BY <2>1 DEF TypeOK, BoardTypeOK, TimerInv
  <2>3. TimerOK(new, now)
    BY <2>2, TimerRows
  <2>4. item' = [item EXCEPT ![i] = new] /\ now' = now
    BY <1>2 DEF UpdateText, Write
  <2> HIDE DEF new, i
  <2> QED BY <2>1, <2>3, <2>4, TimerOfWrite
<1> QED BY <1>1, <1>2 DEF UpdateItem, ReadOldText, AbandonEdit, boardVars

\* Archiving leaves the timers alone, a highlighted card keeps its own.
LEMMA TimerArchiveRetro ==
    ASSUME CardsAssumption, TypeOK, TimerInv, NEW q \in Archivers, ArchiveRetro(q)
    PROVE  TimerInv'
<1>1. ASSUME item' = item, now' = now
      PROVE  TimerInv'
  BY <1>1 DEF TimerInv
<1>2. ASSUME CommitArchive(q)
      PROVE  TimerInv'
  <2>1. arch[q].id \in Nat
    BY DEF TypeOK, RequestTypeOK, ArchiveStates
  <2>2. ASSUME NEW i \in Items
        PROVE  TimerOK(item'[i], now)
    <3> DEFINE new == [item[i] EXCEPT !.status = "ARCHIVED", !.archive = arch[q].id]
    <3>1. item[i] \in ItemRows /\ now \in Nat \ {0} /\ TimerOK(item[i], now)
      BY DEF TypeOK, BoardTypeOK, TimerInv
    <3>2. TimerOK(new, now)
      BY <2>1, <3>1, TimerRows
    <3>3. item'[i] = IF i \in arch[q].items THEN new ELSE item[i]
      BY <1>2 DEF CommitArchive
    <3> HIDE DEF new
    <3> QED BY <3>1, <3>2, <3>3
  <2> QED BY <1>2, <2>2 DEF CommitArchive, TimerInv
<1> QED BY <1>1, <1>2 DEF ArchiveRetro, ArchiveStep, CountActive, InsertArchive, ArchiveItems,
                          ArchiveActionItems, AbortArchive, boardVars

\* A deleted card has no timer left.
LEMMA TimerDeleteRetro ==
    ASSUME TypeOK, TimerInv, NEW r \in Retros, DeleteRetro(r)
    PROVE  TimerInv'
<1>1. ASSUME NEW i \in Items
      PROVE  TimerOK(item'[i], now)
  <2>1. item'[i] = IF Home[i] = r THEN [NoItem EXCEPT !.status = "deleted"] ELSE item[i]
    BY DEF DeleteRetro
  <2> QED BY <2>1, NoTimer DEF TimerInv
<1> QED BY <1>1 DEF DeleteRetro, TimerInv

\* The sweep marks only timers that are over.
LEMMA TimerTimerSweep ==
    ASSUME CardsAssumption, TypeOK, TimerInv, TimerSweep
    PROVE  TimerInv'
<1>1. ASSUME NEW i \in Items
      PROVE  TimerOK(item'[i], now)
  <2>1. item[i] \in ItemRows /\ now \in Nat \ {0} /\ TimerOK(item[i], now)
    BY DEF TypeOK, BoardTypeOK, TimerInv
  <2>2. i \in Due => item[i].started # Null /\ EndsAt(item[i]) <= now
    BY DEF Due
  <2>3. i \in Due => TimerOK([item[i] EXCEPT !.elapsed = now], now)
    BY <2>1, <2>2, TimerRows
  <2>4. item'[i] = IF i \in Due THEN [item[i] EXCEPT !.elapsed = now] ELSE item[i]
    BY DEF TimerSweep
  <2> QED BY <2>1, <2>3, <2>4
<1> QED BY <1>1 DEF TimerSweep, TimerInv

\* Every step of the board leaves the timers in order.
THEOREM TimerStep ==
    ASSUME CardsAssumption, TypeOK, TimerInv, [Next]_vars
    PROVE  TimerInv'
<1>1. ASSUME NEW a \in ActionItems, ActionItemHandler(a)
      PROVE  TimerInv'
  BY <1>1 DEF ActionItemHandler, AddActionItem, UpdateActionItem, CompleteActionItem,
              DeleteActionItem, TimerInv
<1>2. CASE Tick
  <2>1. \A i \in Items : TimerOK(item[i], now + 1)
    <3> TAKE i \in Items
    <3>1. item[i] \in ItemRows /\ now \in Nat \ {0} /\ TimerOK(item[i], now)
      BY DEF TypeOK, BoardTypeOK, TimerInv
    <3> QED BY <3>1, TimerRows
  <2> QED BY <1>2, <2>1 DEF Tick, boardVars, TimerInv
<1>3. CASE UNCHANGED vars
  BY <1>3 DEF vars, boardVars, TimerInv
<1> QED BY <1>1, <1>2, <1>3, TimerItemHandler, TimerUpdateItem, TimerArchiveRetro,
           TimerDeleteRetro, TimerTimerSweep DEF Next

\* No card has a timer at first.
THEOREM TimerInit == Init => TimerInv
BY DEF Init, TimerInv, TimerOK, NoItem

\* The timer of every card is in order in every reachable state.
THEOREM TimersInOrder == Spec => []TimerInv
<1> USE CardsAssumption
<1> QED BY TypeInit, TypeStep, TimerInit, TimerStep, PTL DEF Spec

\* A timer belongs to a highlighted card, or to one archived while highlighted,
\* whatever order start, extend, cancel, complete, archive and sweep come in.
THEOREM TimersBelongToHighlights == Spec => []TimerOfHighlight
BY TimersInOrder, TimerInvMeaning, PTL

\* No timer is marked elapsed before its deadline.
THEOREM ElapsedIsDue == Spec => []ElapsedWasDue
BY TimersInOrder, TimerInvMeaning, PTL

-----------------------------------------------------------------------------
(* Archives.  archive_retro counts outside its transaction, and several may *)
(* run at the same time.  On top of that, the refinement of CardLifecycle    *)
(* and what the event log and the headers of the responses tell.             *)

\* An open transaction has an archive of its own, of a retro that is there, and
\* no row points at it yet.
OpenArchive(q) ==
    InTransaction(q) =>
        /\ arch[q].id \in DOMAIN archives
        /\ archives[arch[q].id] = arch[q].retro
        /\ arch[q].retro \in Retros \ deleted
        /\ \A i \in Items : item[i].archive # arch[q].id
        /\ \A a \in ActionItems : actionItem[a].archive # arch[q].id
        /\ \A p \in Archivers \ {q} : InTransaction(p) => arch[p].id # arch[q].id

\* The rows it holds are active, of its retro, and no other transaction holds them.
Holds(q) ==
    /\ arch[q].items # {} => arch[q].pc \in {"items", "action_items"}
    /\ arch[q].actionItems # {} => arch[q].pc = "action_items"
    /\ \A i \in arch[q].items :
          Exists(i) /\ item[i].archive = Null /\ Home[i] = arch[q].retro
    /\ \A a \in arch[q].actionItems :
          Present(a) /\ actionItem[a].archive = Null /\ Home[a] = arch[q].retro
    /\ \A p \in Archivers \ {q} :
          /\ arch[p].items \cap arch[q].items = {}
          /\ arch[p].actionItems \cap arch[q].actionItems = {}

\* The cards that were counted were there, in a retro that was.
Counted(q) ==
    arch[q].pc # "idle" =>
        /\ arch[q].retro \in Retros
        /\ \A i \in arch[q].seen : Home[i] = arch[q].retro /\ item[i].status # "absent"

\* After the UPDATE of items, those it did not find have been archived before.
Left(q) ==
    arch[q].pc \in {"items", "action_items"} =>
        \A i \in arch[q].seen : i \in arch[q].items \/ item[i].status = "ARCHIVED"

DeletedGone == \A i \in Items : item[i].status = "deleted" => Home[i] \in deleted

RowsInv == ArchivedInOwnRetro /\ DeletedGone

RequestInv(q) == OpenArchive(q) /\ Holds(q) /\ Counted(q) /\ Left(q)

ArchiveInv == RowsInv /\ \A q \in Archivers : RequestInv(q)

-----------------------------------------------------------------------------
LEMMA ArchTypes ==
    ASSUME TypeOK, NEW q \in Archivers
    PROVE  /\ arch[q] \in ArchiveStates
           /\ arch[q].pc \in {"idle", "counted", "inserted", "items", "action_items"}
           /\ arch[q].retro \in Retros \cup {None}
           /\ arch[q].seen \subseteq Items /\ arch[q].items \subseteq Items
           /\ arch[q].actionItems \subseteq ActionItems
           /\ DOMAIN archives = 1 .. Len(archives) /\ Len(archives) \in Nat
  BY DEF TypeOK, RequestTypeOK, BoardTypeOK, ArchiveStates

LEMMA HomeType ==
    ASSUME CardsAssumption
    PROVE  /\ \A i \in Items : Home[i] \in Retros /\ Home[i] # None
           /\ \A a \in ActionItems : Home[a] \in Retros /\ Home[a] # None
  BY DEF CardsAssumption, None

-----------------------------------------------------------------------------
(* Steps that leave the requests alone.                                     *)

\* What everything but an archive and a deletion may do to a card.
CardKept(i) ==
    /\ item'[i].archive = item[i].archive
    /\ item'[i].status = "ARCHIVED" <=> item[i].status = "ARCHIVED"
    /\ Exists(i) => Exists(i)'
    /\ item'[i].status = "absent" => item[i].status = "absent"
    /\ item'[i].status = "deleted" => item[i].status = "deleted"

ActionItemKept(a) ==
    /\ actionItem'[a].archive \in {actionItem[a].archive, Null}
    /\ LockedActionItem(a) => actionItem'[a] = actionItem[a]

LEMMA KeptKeeps ==
    ASSUME TypeOK, ArchiveInv, UNCHANGED <<arch, archives, deleted>>,
           \A i \in Items : CardKept(i),
           \A a \in ActionItems : ActionItemKept(a)
    PROVE  ArchiveInv'
<1>1. RowsInv'
  <2>1. ArchivedInOwnRetro'
    BY DEF ArchiveInv, RowsInv, ArchivedInOwnRetro, CardKept, ActionItemKept
  <2>2. DeletedGone'
    BY DEF ArchiveInv, RowsInv, DeletedGone, CardKept
  <2> QED BY <2>1, <2>2 DEF RowsInv
<1>2. ASSUME NEW q \in Archivers
      PROVE  RequestInv(q)'
  <2>1. RequestInv(q)
    BY DEF ArchiveInv
  <2>2. OpenArchive(q)'
    <3>1. InTransaction(q) => arch[q].id # Null
      BY <2>1, ArchTypes DEF RequestInv, OpenArchive, Null
    <3> QED BY <2>1, <3>1 DEF RequestInv, OpenArchive, InTransaction, CardKept, ActionItemKept
  <2>3. Holds(q)'
    <3>1. \A a \in arch[q].actionItems : a \in ActionItems /\ actionItem'[a] = actionItem[a]
      BY ArchTypes DEF ActionItemKept, LockedActionItem
    <3>2. \A i \in arch[q].items : i \in Items /\ CardKept(i)
      BY ArchTypes
    <3> QED BY <2>1, <3>1, <3>2 DEF RequestInv, Holds, Present, CardKept
  <2>4. Counted(q)' /\ Left(q)'
    BY <2>1, ArchTypes DEF RequestInv, Counted, Left, CardKept
  <2> QED BY <2>2, <2>3, <2>4 DEF RequestInv
<1> QED BY <1>1, <1>2 DEF ArchiveInv

\* Rows of cards that handlers write.
LEMMA KeptRows ==
    ASSUME NEW row \in ItemRows
    PROVE  /\ \A action : LET new == Changed(row, action) IN
                 /\ new.archive = row.archive
                 /\ new.status = "ARCHIVED" <=> row.status = "ARCHIVED"
                 /\ row.status \in Status => new.status \in Status
           /\ Extended(row).archive = row.archive /\ Extended(row).status = row.status
           /\ \A text : /\ [row EXCEPT !.text = text].archive = row.archive
                        /\ [row EXCEPT !.text = text].status = row.status
           /\ \A t : /\ [row EXCEPT !.elapsed = t].archive = row.archive
                     /\ [row EXCEPT !.elapsed = t].status = row.status
           /\ \A s, d, e :
                 /\ [row EXCEPT !.started = s, !.duration = d, !.elapsed = e].archive = row.archive
                 /\ [row EXCEPT !.started = s, !.duration = d, !.elapsed = e].status = row.status
<1>1. ASSUME NEW action
      PROVE  /\ Changed(row, action).archive = row.archive
             /\ Changed(row, action).status = NextStatus(row.status, action)
  <2>1. CASE row.status = "HIGHLIGHTED" /\ action \in {"cancel", "complete"}
    BY <2>1 DEF Changed, ResetTimer, ItemRows
  <2>2. CASE ~ (row.status = "HIGHLIGHTED" /\ action \in {"cancel", "complete"})
    BY <2>2 DEF Changed, ItemRows
  <2> QED BY <2>1, <2>2
<1>2. ASSUME NEW action, NEW s
      PROVE  /\ NextStatus(s, action) = "ARCHIVED" <=> s = "ARCHIVED"
             /\ s \in Status => NextStatus(s, action) \in Status
  BY DEF NextStatus, Status
<1>3. Extended(row).archive = row.archive /\ Extended(row).status = row.status
  BY DEF Extended, ItemRows
<1>4. /\ \A text : /\ [row EXCEPT !.text = text].archive = row.archive
                   /\ [row EXCEPT !.text = text].status = row.status
      /\ \A t : /\ [row EXCEPT !.elapsed = t].archive = row.archive
                /\ [row EXCEPT !.elapsed = t].status = row.status
      /\ \A s, d, e :
            /\ [row EXCEPT !.started = s, !.duration = d, !.elapsed = e].archive = row.archive
            /\ [row EXCEPT !.started = s, !.duration = d, !.elapsed = e].status = row.status
  BY DEF ItemRows
<1> QED BY <1>1, <1>2, <1>3, <1>4

\* A step that writes one existing card and keeps its archive and whether it is
\* archived.
LEMMA KeptWrite ==
    ASSUME TypeOK, ArchiveInv, UNCHANGED <<actionItem, arch, archives, deleted>>,
           NEW i \in Items, Exists(i), NEW new,
           new.archive = item[i].archive,
           new.status = "ARCHIVED" <=> item[i].status = "ARCHIVED",
           new.status \in Status,
           item' = [item EXCEPT ![i] = new]
    PROVE  ArchiveInv'
<1>1. item'[i] = new /\ \A j \in Items \ {i} : item'[j] = item[j]
  BY DEF TypeOK, BoardTypeOK
<1>2. CardKept(i)
  BY <1>1 DEF CardKept, Exists, Status
<1>3. \A j \in Items \ {i} : CardKept(j)
  BY <1>1 DEF CardKept, Exists
<1>4. \A a \in ActionItems : ActionItemKept(a)
  BY DEF ActionItemKept
<1> QED BY <1>2, <1>3, <1>4, KeptKeeps

\* A step that writes no row of the board.
LEMMA KeptIdle ==
    ASSUME TypeOK, ArchiveInv, UNCHANGED <<item, actionItem, arch, archives, deleted>>
    PROVE  ArchiveInv'
  BY KeptKeeps DEF CardKept, ActionItemKept, Exists

LEMMA ArchiveItemHandler ==
    ASSUME CardsAssumption, TypeOK, ArchiveInv, NEW i \in Items, ItemHandler(i)
    PROVE  ArchiveInv'
<1>0. item[i] \in ItemRows
  BY DEF TypeOK, BoardTypeOK
<1>1. ASSUME NEW text \in Texts, AddItem(i, text)
      PROVE  ArchiveInv'
  <2> DEFINE new == [NoItem EXCEPT !.status = "CREATED", !.text = text]
  <2>1. /\ item[i].status = "absent" /\ item' = [item EXCEPT ![i] = new]
        /\ UNCHANGED <<actionItem, arch, archives, deleted>>
    BY <1>1 DEF AddItem
  <2>2. new.archive = Null /\ new.status = "CREATED"
    BY DEF NoItem
  <2>3. item[i].archive = Null
    BY <2>1 DEF ArchiveInv, RowsInv, ArchivedInOwnRetro
  <2> HIDE DEF new
  <2>4. item'[i] = new /\ \A j \in Items \ {i} : item'[j] = item[j]
    BY <2>1 DEF TypeOK, BoardTypeOK
  <2>5. CardKept(i)
    BY <2>1, <2>2, <2>3, <2>4 DEF CardKept, Exists, Status
  <2>6. \A j \in Items \ {i} : CardKept(j)
    BY <2>4 DEF CardKept, Exists
  <2>7. \A a \in ActionItems : ActionItemKept(a)
    BY <2>1 DEF ActionItemKept
  <2> QED BY <2>1, <2>5, <2>6, <2>7, KeptKeeps
<1>2. ASSUME NEW action \in {"highlight", "cancel", "complete"}, ChangeItemStatus(i, action)
      PROVE  ArchiveInv'
  <2>1. /\ Exists(i) /\ UNCHANGED <<actionItem, arch, archives, deleted>>
        /\ \/ item' = [item EXCEPT ![i] = Changed(item[i], action)]
           \/ item' = item
    BY <1>2 DEF ChangeItemStatus, Write
  <2>2. CASE item' = item
    BY <2>1, <2>2, KeptIdle
  <2>3. CASE item' = [item EXCEPT ![i] = Changed(item[i], action)]
    <3>1. /\ Changed(item[i], action).archive = item[i].archive
          /\ Changed(item[i], action).status = "ARCHIVED" <=> item[i].status = "ARCHIVED"
          /\ Changed(item[i], action).status \in Status
      BY <1>0, <2>1, KeptRows DEF Exists
    <3> QED BY <2>1, <2>3, <3>1, KeptWrite
  <2> QED BY <2>1, <2>2, <2>3
<1>3. ASSUME NEW d \in Submitted, StartItemTimer(i, d)
      PROVE  ArchiveInv'
  <2> DEFINE new == [item[i] EXCEPT !.started = now, !.duration = Clamp(d), !.elapsed = Null]
  <2>1. /\ Exists(i) /\ UNCHANGED <<actionItem, arch, archives, deleted>>
        /\ item' = [item EXCEPT ![i] = new] \/ item' = item
    BY <1>3 DEF StartItemTimer, Write
  <2>2. new.archive = item[i].archive /\ new.status = item[i].status
    BY <1>0, KeptRows
  <2> HIDE DEF new
  <2> QED BY <2>1, <2>2, KeptIdle, KeptWrite DEF Exists
<1>4. ASSUME ExtendItemTimer(i)
      PROVE  ArchiveInv'
  <2>1. /\ Exists(i) /\ UNCHANGED <<actionItem, arch, archives, deleted>>
        /\ item' = [item EXCEPT ![i] = Extended(item[i])] \/ item' = item
    BY <1>4 DEF ExtendItemTimer, Write
  <2>2. Extended(item[i]).archive = item[i].archive /\ Extended(item[i]).status = item[i].status
    BY <1>0, KeptRows
  <2> QED BY <2>1, <2>2, KeptIdle, KeptWrite DEF Exists
<1> QED BY <1>1, <1>2, <1>3, <1>4 DEF ItemHandler

LEMMA ArchiveUpdateItem ==
    ASSUME CardsAssumption, TypeOK, ArchiveInv, NEW q \in Editors, UpdateItem(q)
    PROVE  ArchiveInv'
<1>1. ASSUME UpdateText(q)
      PROVE  ArchiveInv'
  <2> DEFINE i   == edit[q].item
             new == [item[i] EXCEPT !.text = edit[q].text]
  <2>1. i \in Items /\ item[i] \in ItemRows
    BY <1>1 DEF UpdateText, TypeOK, BoardTypeOK, RequestTypeOK, EditStates
  <2>2. /\ Exists(i) /\ UNCHANGED <<actionItem, arch, archives, deleted>>
        /\ item' = [item EXCEPT ![i] = new]
    BY <1>1 DEF UpdateText, Write
  <2>3. new.archive = item[i].archive /\ new.status = item[i].status
    BY <2>1, KeptRows
  <2> HIDE DEF new, i
  <2> QED BY <2>1, <2>2, <2>3, KeptWrite DEF Exists
<1>2. CASE UNCHANGED <<item, actionItem, arch, archives, deleted>>
  BY <1>2, KeptIdle
<1> QED BY <1>1, <1>2 DEF UpdateItem, ReadOldText, AbandonEdit, boardVars

LEMMA ArchiveTimerSweep ==
    ASSUME CardsAssumption, TypeOK, ArchiveInv, TimerSweep
    PROVE  ArchiveInv'
<1>1. UNCHANGED <<actionItem, arch, archives, deleted>>
  BY DEF TimerSweep
<1>2. ASSUME NEW i \in Items
      PROVE  CardKept(i)
  <2>1. item'[i] = IF i \in Due THEN [item[i] EXCEPT !.elapsed = now] ELSE item[i]
    BY DEF TimerSweep
  <2>2. item'[i].archive = item[i].archive /\ item'[i].status = item[i].status
    BY <2>1, KeptRows DEF TypeOK, BoardTypeOK
  <2> QED BY <2>2 DEF CardKept, Exists
<1>3. \A a \in ActionItems : ActionItemKept(a)
  BY <1>1 DEF ActionItemKept
<1> QED BY <1>1, <1>2, <1>3, KeptKeeps

LEMMA ArchiveActionItemHandler ==
    ASSUME CardsAssumption, TypeOK, ArchiveInv, NEW a \in ActionItems, ActionItemHandler(a)
    PROVE  ArchiveInv'
<1>0. actionItem[a] \in ActionItemRows /\ actionItem \in [ActionItems -> ActionItemRows]
  BY DEF TypeOK, BoardTypeOK
<1>1. PICK new : /\ actionItem' = [actionItem EXCEPT ![a] = new]
                 /\ new.archive \in {actionItem[a].archive, Null}
  <2>1. ASSUME NEW text \in Texts, AddActionItem(a, text)
        PROVE  \E new : /\ actionItem' = [actionItem EXCEPT ![a] = new]
                        /\ new.archive \in {actionItem[a].archive, Null}
    <3>1. [NoActionItem EXCEPT !.state = "present", !.text = text].archive = Null
      BY DEF NoActionItem
    <3> QED BY <2>1, <3>1 DEF AddActionItem
  <2>4. ASSUME NEW text \in Texts, UpdateActionItem(a, text)
        PROVE  \E new : /\ actionItem' = [actionItem EXCEPT ![a] = new]
                        /\ new.archive \in {actionItem[a].archive, Null}
    <3>1. [actionItem[a] EXCEPT !.text = text].archive = actionItem[a].archive
      BY <1>0 DEF ActionItemRows
    <3> QED BY <2>4, <3>1 DEF UpdateActionItem
  <2>2. CASE CompleteActionItem(a)
    <3>1. [actionItem[a] EXCEPT !.completed = FirstCompletion(a)].archive = actionItem[a].archive
      BY <1>0 DEF ActionItemRows
    <3> QED BY <2>2, <3>1 DEF CompleteActionItem
  <2>3. CASE DeleteActionItem(a)
    <3>1. [NoActionItem EXCEPT !.state = "deleted"].archive = Null
      BY DEF NoActionItem
    <3> QED BY <2>3, <3>1 DEF DeleteActionItem
  <2> QED BY <2>1, <2>2, <2>3, <2>4 DEF ActionItemHandler
<1>2. UNCHANGED <<item, arch, archives, deleted>>
  BY DEF ActionItemHandler, AddActionItem, UpdateActionItem, CompleteActionItem, DeleteActionItem
<1>3. ~ LockedActionItem(a)
  <2>1. ASSUME NEW text \in Texts, AddActionItem(a, text)
        PROVE  ~ LockedActionItem(a)
    BY <2>1 DEF AddActionItem, LockedActionItem, ArchiveInv, RequestInv, Holds, Present
  <2> QED BY <2>1 DEF ActionItemHandler, UpdateActionItem, CompleteActionItem, DeleteActionItem
<1>4. ASSUME NEW b \in ActionItems
      PROVE  ActionItemKept(b)
  BY <1>0, <1>1, <1>3 DEF ActionItemKept
<1>5. \A i \in Items : CardKept(i)
  BY <1>2 DEF CardKept, Exists
<1> QED BY <1>2, <1>4, <1>5, KeptKeeps

-----------------------------------------------------------------------------
(* The steps of archive_retro.                                              *)

\* A request that counts holds nothing yet.
LEMMA CountKeeps ==
    ASSUME CardsAssumption, TypeOK, ArchiveInv,
           NEW q \in Archivers, NEW r \in Retros, CountActive(q, r)
    PROVE  ArchiveInv'
<1> DEFINE new == [NoArchive EXCEPT !.pc = "counted", !.retro = r, !.seen = Active(r)]
<1>1. /\ arch' = [arch EXCEPT ![q] = new]
      /\ UNCHANGED <<item, actionItem, archives, deleted>>
  BY DEF CountActive, boardVars
<1>2. /\ new.pc = "counted" /\ new.retro = r /\ new.seen = Active(r)
      /\ new.items = {} /\ new.actionItems = {}
  BY DEF NoArchive
<1> HIDE DEF new
<1>3. arch'[q] = new /\ \A p \in Archivers \ {q} : arch'[p] = arch[p]
  BY <1>1 DEF TypeOK, RequestTypeOK
<1>4. RowsInv'
  BY <1>1 DEF ArchiveInv, RowsInv, ArchivedInOwnRetro, DeletedGone
<1>5. RequestInv(q)'
  <2>1. OpenArchive(q)' /\ Left(q)'
    BY <1>2, <1>3 DEF OpenArchive, Left, InTransaction
  <2>2. Holds(q)'
    BY <1>2, <1>3 DEF Holds
  <2>3. Counted(q)'
    BY <1>1, <1>2, <1>3 DEF Counted, Active, Exists, Status
  <2> QED BY <2>1, <2>2, <2>3 DEF RequestInv
<1>6. ASSUME NEW p \in Archivers \ {q}
      PROVE  RequestInv(p)'
  <2>1. RequestInv(p)
    BY DEF ArchiveInv
  <2>2. OpenArchive(p)'
    BY <2>1, <1>1, <1>2, <1>3 DEF RequestInv, OpenArchive, InTransaction
  <2>3. Holds(p)'
    BY <2>1, <1>1, <1>2, <1>3 DEF RequestInv, Holds, Exists, Present
  <2>4. Counted(p)' /\ Left(p)'
    BY <2>1, <1>1, <1>3 DEF RequestInv, Counted, Left
  <2> QED BY <2>2, <2>3, <2>4 DEF RequestInv
<1> QED BY <1>4, <1>5, <1>6 DEF ArchiveInv

\* The id of a new archive is one that no row and no other transaction has.
LEMMA InsertKeeps ==
    ASSUME CardsAssumption, TypeOK, ArchiveInv, NEW q \in Archivers, InsertArchive(q)
    PROVE  ArchiveInv'
<1> DEFINE id == Len(archives) + 1
<1>0. arch[q] \in ArchiveStates /\ archives \in Seq(Retros \cup {None}) /\ id \in Nat \ {0}
  BY DEF TypeOK, BoardTypeOK, RequestTypeOK
<1>1. /\ archives' = Append(archives, arch[q].retro)
      /\ arch[q].pc = "counted" /\ arch[q].retro \notin deleted
      /\ UNCHANGED <<item, actionItem, deleted>>
  BY DEF InsertArchive
<1>2. /\ arch'[q].pc = "inserted" /\ arch'[q].id = id /\ arch'[q].retro = arch[q].retro
      /\ arch'[q].seen = arch[q].seen /\ arch'[q].items = arch[q].items
      /\ arch'[q].actionItems = arch[q].actionItems
      /\ \A p \in Archivers \ {q} : arch'[p] = arch[p]
  BY DEF InsertArchive, TypeOK, RequestTypeOK, ArchiveStates
<1>3. /\ DOMAIN archives = 1 .. Len(archives)
      /\ DOMAIN archives' = 1 .. id
      /\ archives'[id] = arch[q].retro
      /\ \A n \in DOMAIN archives : archives'[n] = archives[n] /\ n \in DOMAIN archives'
      /\ id \notin DOMAIN archives /\ id \in DOMAIN archives'
  BY <1>0, <1>1
<1> HIDE DEF id
<1>4. RowsInv'
  BY <1>1, <1>3 DEF ArchiveInv, RowsInv, ArchivedInOwnRetro, DeletedGone
<1>5. RequestInv(q)
  BY DEF ArchiveInv
<1>6. /\ \A i \in Items : item[i].archive # id
      /\ \A a \in ActionItems : actionItem[a].archive # id
  BY <1>0, <1>3 DEF ArchiveInv, RowsInv, ArchivedInOwnRetro, Null
<1>7. \A p \in Archivers \ {q} : InTransaction(p) => arch[p].id # id
  BY <1>3 DEF ArchiveInv, RequestInv, OpenArchive
<1>8. RequestInv(q)'
  <2>1. OpenArchive(q)'
    <3>1. arch[q].retro \in Retros
      BY <1>1, <1>5 DEF RequestInv, Counted
    <3> QED BY <3>1, <1>1, <1>2, <1>3, <1>6, <1>7 DEF OpenArchive, InTransaction
  <2>2. Holds(q)'
    BY <1>1, <1>2, <1>5 DEF RequestInv, Holds
  <2>3. Counted(q)' /\ Left(q)'
    BY <1>1, <1>2, <1>5 DEF RequestInv, Counted, Left
  <2> QED BY <2>1, <2>2, <2>3 DEF RequestInv
<1>9. ASSUME NEW p \in Archivers \ {q}
      PROVE  RequestInv(p)'
  <2>1. RequestInv(p)
    BY DEF ArchiveInv
  <2>2. OpenArchive(p)'
    BY <2>1, <1>1, <1>2, <1>3, <1>7 DEF RequestInv, OpenArchive, InTransaction
  <2>3. Holds(p)'
    BY <2>1, <1>1, <1>2 DEF RequestInv, Holds, Exists, Present
  <2>4. Counted(p)' /\ Left(p)'
    BY <2>1, <1>1, <1>2 DEF RequestInv, Counted, Left
  <2> QED BY <2>2, <2>3, <2>4 DEF RequestInv
<1> QED BY <1>4, <1>8, <1>9 DEF ArchiveInv

\* What was counted and is not found by the UPDATE has been archived: the retro
\* is there, so the card was not deleted with it.
LEMMA ArchiveItemsKeeps ==
    ASSUME CardsAssumption, TypeOK, ArchiveInv, NEW q \in Archivers, ArchiveItems(q)
    PROVE  ArchiveInv'
<1> DEFINE found == Active(arch[q].retro)
<1>1. /\ arch[q].pc = "inserted" /\ \A i \in found : ~ Locked(i)
      /\ UNCHANGED <<item, actionItem, archives, deleted>>
  BY DEF ArchiveItems, Archivable, boardVars
<1>2. /\ arch'[q].pc = "items" /\ arch'[q].id = arch[q].id /\ arch'[q].retro = arch[q].retro
      /\ arch'[q].seen = arch[q].seen /\ arch'[q].items = found
      /\ arch'[q].actionItems = arch[q].actionItems
      /\ \A p \in Archivers \ {q} : arch'[p] = arch[p]
  BY DEF ArchiveItems, Archivable, TypeOK, RequestTypeOK, ArchiveStates
<1>3. found = {i \in Items : Home[i] = arch[q].retro /\ Exists(i) /\ item[i].archive = Null}
  BY DEF Active
<1> HIDE DEF found
<1>4. RowsInv'
  BY <1>1 DEF ArchiveInv, RowsInv, ArchivedInOwnRetro, DeletedGone
<1>5. RequestInv(q)
  BY DEF ArchiveInv
<1>6. \A p \in Archivers \ {q} : arch[p].items \cap found = {}
  BY <1>1 DEF Locked
<1>7. RequestInv(q)'
  <2>1. OpenArchive(q)'
    BY <1>1, <1>2, <1>5 DEF RequestInv, OpenArchive, InTransaction
  <2>2. Holds(q)'
    BY <1>1, <1>2, <1>3, <1>5, <1>6 DEF RequestInv, Holds, Exists, Present
  <2>3. Counted(q)'
    BY <1>1, <1>2, <1>5 DEF RequestInv, Counted
  <2>4. ASSUME NEW i \in arch[q].seen, i \notin found
        PROVE  item[i].status = "ARCHIVED"
    <3>1. i \in Items /\ Home[i] = arch[q].retro /\ item[i].status # "absent"
      BY <1>1, <1>5, ArchTypes DEF RequestInv, Counted
    <3>2. item[i].status # "deleted"
      BY <1>1, <1>5, <3>1 DEF ArchiveInv, RowsInv, DeletedGone, RequestInv, OpenArchive,
                             InTransaction
    <3>3. item[i].status \in Status
      BY <3>1, <3>2 DEF TypeOK, BoardTypeOK, ItemRows
    <3>4. item[i].archive # Null
      BY <1>3, <2>4, <3>1, <3>3 DEF Exists
    <3> QED BY <3>1, <3>4 DEF ArchiveInv, RowsInv, ArchivedInOwnRetro
  <2>5. Left(q)'
    BY <1>1, <1>2, <2>4 DEF Left
  <2> QED BY <2>1, <2>2, <2>3, <2>5 DEF RequestInv
<1>8. ASSUME NEW p \in Archivers \ {q}
      PROVE  RequestInv(p)'
  <2>1. RequestInv(p)
    BY DEF ArchiveInv
  <2>2. OpenArchive(p)'
    BY <2>1, <1>1, <1>2 DEF RequestInv, OpenArchive, InTransaction
  <2>3. Holds(p)'
    BY <2>1, <1>1, <1>2, <1>6 DEF RequestInv, Holds, Exists, Present
  <2>4. Counted(p)' /\ Left(p)'
    BY <2>1, <1>1, <1>2 DEF RequestInv, Counted, Left
  <2> QED BY <2>2, <2>3, <2>4 DEF RequestInv
<1> QED BY <1>4, <1>7, <1>8 DEF ArchiveInv

LEMMA ArchiveActionItemsKeeps ==
    ASSUME CardsAssumption, TypeOK, ArchiveInv, NEW q \in Archivers, ArchiveActionItems(q)
    PROVE  ArchiveInv'
<1> DEFINE found == ActiveActionItems(arch[q].retro)
<1>1. /\ arch[q].pc = "items" /\ \A a \in found : ~ LockedActionItem(a)
      /\ UNCHANGED <<item, actionItem, archives, deleted>>
  BY DEF ArchiveActionItems, boardVars
<1>2. /\ arch'[q].pc = "action_items" /\ arch'[q].id = arch[q].id
      /\ arch'[q].retro = arch[q].retro /\ arch'[q].seen = arch[q].seen
      /\ arch'[q].items = arch[q].items /\ arch'[q].actionItems = found
      /\ \A p \in Archivers \ {q} : arch'[p] = arch[p]
  BY DEF ArchiveActionItems, TypeOK, RequestTypeOK, ArchiveStates
<1>3. found = {a \in ActionItems :
                 Home[a] = arch[q].retro /\ Present(a) /\ actionItem[a].archive = Null}
  BY DEF ActiveActionItems
<1> HIDE DEF found
<1>4. RowsInv'
  BY <1>1 DEF ArchiveInv, RowsInv, ArchivedInOwnRetro, DeletedGone
<1>5. RequestInv(q)
  BY DEF ArchiveInv
<1>6. \A p \in Archivers \ {q} : arch[p].actionItems \cap found = {}
  BY <1>1 DEF LockedActionItem
<1>7. RequestInv(q)'
  <2>1. OpenArchive(q)'
    BY <1>1, <1>2, <1>5 DEF RequestInv, OpenArchive, InTransaction
  <2>2. Holds(q)'
    BY <1>1, <1>2, <1>3, <1>5, <1>6 DEF RequestInv, Holds, Exists, Present
  <2>3. Counted(q)' /\ Left(q)'
    BY <1>1, <1>2, <1>5 DEF RequestInv, Counted, Left
  <2> QED BY <2>1, <2>2, <2>3 DEF RequestInv
<1>8. ASSUME NEW p \in Archivers \ {q}
      PROVE  RequestInv(p)'
  <2>1. RequestInv(p)
    BY DEF ArchiveInv
  <2>2. OpenArchive(p)'
    BY <2>1, <1>1, <1>2 DEF RequestInv, OpenArchive, InTransaction
  <2>3. Holds(p)'
    BY <2>1, <1>1, <1>2, <1>6 DEF RequestInv, Holds, Exists, Present
  <2>4. Counted(p)' /\ Left(p)'
    BY <2>1, <1>1, <1>2 DEF RequestInv, Counted, Left
  <2> QED BY <2>2, <2>3, <2>4 DEF RequestInv
<1> QED BY <1>4, <1>7, <1>8 DEF ArchiveInv

\* A request that is done holds nothing.
LEMMA IdleRequest ==
    ASSUME NEW q, arch'[q] = NoArchive
    PROVE  RequestInv(q)'
  BY DEF RequestInv, OpenArchive, Holds, Counted, Left, InTransaction, NoArchive

LEMMA CommitKeeps ==
    ASSUME CardsAssumption, TypeOK, ArchiveInv, NEW q \in Archivers, CommitArchive(q)
    PROVE  ArchiveInv'
<1> DEFINE id == arch[q].id
<1>0. /\ arch[q] \in ArchiveStates /\ item \in [Items -> ItemRows]
      /\ actionItem \in [ActionItems -> ActionItemRows]
      /\ DOMAIN archives = 1 .. Len(archives)
  BY ArchTypes DEF TypeOK, BoardTypeOK
<1>1. /\ arch[q].pc = "action_items" /\ UNCHANGED <<archives, deleted>>
      /\ arch'[q] = NoArchive /\ \A p \in Archivers \ {q} : arch'[p] = arch[p]
  BY DEF CommitArchive, TypeOK, RequestTypeOK
<1>2. /\ \A i \in arch[q].items :
            i \in Items /\ item'[i].status = "ARCHIVED" /\ item'[i].archive = id
      /\ \A i \in Items \ arch[q].items : item'[i] = item[i]
      /\ \A a \in arch[q].actionItems :
            /\ a \in ActionItems /\ actionItem'[a].archive = id
            /\ actionItem'[a].state = actionItem[a].state
      /\ \A a \in ActionItems \ arch[q].actionItems : actionItem'[a] = actionItem[a]
  <2>1. arch[q].items \subseteq Items /\ arch[q].actionItems \subseteq ActionItems
    BY ArchTypes
  <2>2. ASSUME NEW i \in Items
        PROVE  /\ i \in arch[q].items => item'[i].status = "ARCHIVED" /\ item'[i].archive = id
               /\ i \notin arch[q].items => item'[i] = item[i]
    <3>1. /\ item[i] \in ItemRows
          /\ item'[i] = IF i \in arch[q].items
                        THEN [item[i] EXCEPT !.status = "ARCHIVED", !.archive = id]
                        ELSE item[i]
      BY <1>0 DEF CommitArchive
    <3> QED BY <3>1 DEF ItemRows
  <2>3. ASSUME NEW a \in ActionItems
        PROVE  /\ a \in arch[q].actionItems =>
                    actionItem'[a].archive = id /\ actionItem'[a].state = actionItem[a].state
               /\ a \notin arch[q].actionItems => actionItem'[a] = actionItem[a]
    <3>1. /\ actionItem[a] \in ActionItemRows
          /\ actionItem'[a] = IF a \in arch[q].actionItems
                              THEN [actionItem[a] EXCEPT !.archive = id]
                              ELSE actionItem[a]
      BY <1>0 DEF CommitArchive
    <3> QED BY <3>1 DEF ActionItemRows
  <2> QED BY <2>1, <2>2, <2>3
<1>3. RequestInv(q)
  BY DEF ArchiveInv
<1>4. id \in DOMAIN archives /\ archives[id] = arch[q].retro /\ id # Null
  BY <1>0, <1>1, <1>3 DEF RequestInv, OpenArchive, InTransaction, Null
<1> HIDE DEF id
<1>5. RowsInv'
  <2>1. ArchivedInOwnRetro'
    BY <1>1, <1>2, <1>3, <1>4 DEF ArchiveInv, RowsInv, ArchivedInOwnRetro, RequestInv, Holds
  <2>2. DeletedGone'
    BY <1>1, <1>2 DEF ArchiveInv, RowsInv, DeletedGone
  <2> QED BY <2>1, <2>2 DEF RowsInv
<1>6. RequestInv(q)'
  BY <1>1, IdleRequest
<1>7. ASSUME NEW p \in Archivers \ {q}
      PROVE  RequestInv(p)'
  <2>1. RequestInv(p) /\ arch'[p] = arch[p]
    BY <1>1 DEF ArchiveInv
  <2>2. /\ arch[p].items \cap arch[q].items = {}
        /\ arch[p].actionItems \cap arch[q].actionItems = {}
        /\ arch[p].items \subseteq Items /\ arch[p].actionItems \subseteq ActionItems
        /\ arch[p].seen \subseteq Items
    BY <1>3, ArchTypes DEF RequestInv, Holds
  <2>3. OpenArchive(p)'
    <3>1. InTransaction(p) => arch[p].id # id
      BY <1>1, <1>3 DEF RequestInv, OpenArchive, InTransaction, id
    <3>2. ASSUME NEW o \in Archivers \ {p}, InTransaction(o)'
          PROVE  InTransaction(o) /\ arch'[o] = arch[o]
      BY <1>1, <3>2 DEF InTransaction, NoArchive
    <3> QED BY <2>1, <1>1, <1>2, <3>1, <3>2 DEF RequestInv, OpenArchive, InTransaction
  <2>4. Holds(p)'
    <3>1. \A o \in Archivers \ {p} : /\ arch'[o].items \subseteq arch[o].items
                                     /\ arch'[o].actionItems \subseteq arch[o].actionItems
      BY <1>1 DEF NoArchive
    <3> QED BY <2>1, <2>2, <1>2, <3>1 DEF RequestInv, Holds, Exists, Present
  <2>5. Counted(p)' /\ Left(p)'
    BY <2>1, <2>2, <1>2 DEF RequestInv, Counted, Left
  <2> QED BY <2>3, <2>4, <2>5 DEF RequestInv
<1> QED BY <1>5, <1>6, <1>7 DEF ArchiveInv

\* No row points at the archive that is rolled back.
LEMMA AbortKeeps ==
    ASSUME CardsAssumption, TypeOK, ArchiveInv, NEW q \in Archivers, AbortArchive(q)
    PROVE  ArchiveInv'
<1>0. /\ arch[q] \in ArchiveStates /\ archives \in Seq(Retros \cup {None})
      /\ DOMAIN archives = 1 .. Len(archives)
  BY ArchTypes DEF TypeOK, BoardTypeOK
<1>1. /\ UNCHANGED <<item, actionItem, deleted>>
      /\ arch'[q] = NoArchive /\ \A p \in Archivers \ {q} : arch'[p] = arch[p]
      /\ arch[q].pc # "idle"
      /\ \/ archives' = archives
         \/ arch[q].pc # "counted" /\ archives' = [archives EXCEPT ![arch[q].id] = None]
  BY DEF AbortArchive, TypeOK, RequestTypeOK
<1>2. RequestInv(q)
  BY DEF ArchiveInv
<1>3. /\ DOMAIN archives' = DOMAIN archives
      /\ \A n \in DOMAIN archives :
            archives'[n] = archives[n] \/ (InTransaction(q) /\ n = arch[q].id)
  <2>1. arch[q].pc # "counted" => InTransaction(q)
    BY <1>0, <1>1 DEF InTransaction, ArchiveStates
  <2>2. CASE archives' = archives
    BY <2>2
  <2>3. CASE InTransaction(q) /\ archives' = [archives EXCEPT ![arch[q].id] = None]
    BY <1>0, <2>3, Zenon
  <2> QED BY <1>1, <2>1, <2>2, <2>3
<1>4. RowsInv'
  BY <1>1, <1>2, <1>3 DEF ArchiveInv, RowsInv, ArchivedInOwnRetro, DeletedGone,
                          RequestInv, OpenArchive
<1>5. RequestInv(q)'
  BY <1>1, IdleRequest
<1>6. ASSUME NEW p \in Archivers \ {q}
      PROVE  RequestInv(p)'
  <2>1. RequestInv(p) /\ arch'[p] = arch[p]
    BY <1>1 DEF ArchiveInv
  <2>2. OpenArchive(p)'
    <3>1. InTransaction(p) /\ InTransaction(q) => arch[p].id # arch[q].id
      BY <1>2 DEF RequestInv, OpenArchive
    <3>2. ASSUME NEW o \in Archivers \ {p}, InTransaction(o)'
          PROVE  InTransaction(o) /\ arch'[o] = arch[o]
      BY <1>1, <3>2 DEF InTransaction, NoArchive
    <3> QED BY <2>1, <1>1, <1>3, <3>1, <3>2 DEF RequestInv, OpenArchive, InTransaction
  <2>3. Holds(p)'
    <3>1. \A o \in Archivers \ {p} : /\ arch'[o].items \subseteq arch[o].items
                                     /\ arch'[o].actionItems \subseteq arch[o].actionItems
      BY <1>1 DEF NoArchive
    <3> QED BY <2>1, <1>1, <3>1 DEF RequestInv, Holds, Exists, Present
  <2>4. Counted(p)' /\ Left(p)'
    BY <2>1, <1>1 DEF RequestInv, Counted, Left
  <2> QED BY <2>2, <2>3, <2>4 DEF RequestInv
<1> QED BY <1>4, <1>5, <1>6 DEF ArchiveInv

\* A transaction keeps the row of its retro; what goes with another retro is not
\* what it holds.
LEMMA DeleteKeeps ==
    ASSUME CardsAssumption, TypeOK, ArchiveInv, NEW r \in Retros, DeleteRetro(r)
    PROVE  ArchiveInv'
<1>0. /\ archives \in Seq(Retros \cup {None}) /\ r # None
      /\ \A i \in Items : Home[i] # None
      /\ \A a \in ActionItems : Home[a] # None
  BY HomeType DEF TypeOK, BoardTypeOK, CardsAssumption, None
<1>1. /\ arch' = arch /\ deleted' = deleted \cup {r}
      /\ DOMAIN archives' = DOMAIN archives
      /\ \A n \in DOMAIN archives : archives[n] # r => archives'[n] = archives[n]
      /\ \A q \in Archivers : InTransaction(q) => arch[q].retro # r
  BY DEF DeleteRetro
<1>2. /\ \A i \in Items : Home[i] = r => item'[i].status = "deleted" /\ item'[i].archive = Null
      /\ \A i \in Items : Home[i] # r => item'[i] = item[i]
      /\ \A a \in ActionItems : Home[a] = r => actionItem'[a].archive = Null
      /\ \A a \in ActionItems : Home[a] # r => actionItem'[a] = actionItem[a]
  BY DEF DeleteRetro, NoItem, NoActionItem
<1>3. RowsInv'
  <2>1. ArchivedInOwnRetro'
    BY <1>1, <1>2 DEF ArchiveInv, RowsInv, ArchivedInOwnRetro
  <2>2. DeletedGone'
    BY <1>1, <1>2 DEF ArchiveInv, RowsInv, DeletedGone
  <2> QED BY <2>1, <2>2 DEF RowsInv
<1>4. ASSUME NEW q \in Archivers
      PROVE  RequestInv(q)'
  <2>1. RequestInv(q) /\ (InTransaction(q) => arch[q].retro # r)
    BY <1>1 DEF ArchiveInv
  <2>2. OpenArchive(q)'
    <3>1. InTransaction(q) => arch[q].id # Null
      BY <2>1, ArchTypes DEF RequestInv, OpenArchive, Null
    <3>2. SUFFICES ASSUME InTransaction(q)'
                   PROVE  /\ arch[q].id \in DOMAIN archives'
                          /\ archives'[arch[q].id] = arch[q].retro
                          /\ arch[q].retro \in Retros \ deleted'
                          /\ \A i \in Items : item'[i].archive # arch[q].id
                          /\ \A a \in ActionItems : actionItem'[a].archive # arch[q].id
                          /\ \A p \in Archivers \ {q} : InTransaction(p)' => arch[p].id # arch[q].id
      BY <1>1 DEF OpenArchive
    <3> QED BY <2>1, <1>1, <1>2, <3>1, <3>2 DEF RequestInv, OpenArchive, InTransaction
  <2>3. Holds(q)'
    <3>1. /\ \A i \in arch[q].items : i \in Items /\ item'[i] = item[i]
          /\ \A a \in arch[q].actionItems : a \in ActionItems /\ actionItem'[a] = actionItem[a]
      BY <2>1, <1>2, ArchTypes DEF RequestInv, Holds, InTransaction
    <3> QED BY <2>1, <1>1, <3>1 DEF RequestInv, Holds, Exists, Present
  <2>4. Counted(q)'
    BY <2>1, <1>1, <1>2, ArchTypes DEF RequestInv, Counted
  <2>5. Left(q)'
    <3>1. arch[q].pc \in {"items", "action_items"} =>
            \A i \in arch[q].seen : i \in Items /\ item'[i] = item[i]
      BY <2>1, <1>2, ArchTypes DEF RequestInv, Counted, InTransaction
    <3> QED BY <2>1, <1>1, <3>1 DEF RequestInv, Left
  <2> QED BY <2>2, <2>3, <2>4, <2>5 DEF RequestInv
<1> QED BY <1>3, <1>4 DEF ArchiveInv

-----------------------------------------------------------------------------
LEMMA ArchiveInit ==
    ASSUME Init
    PROVE  ArchiveInv
<1>1. RowsInv
  BY DEF Init, RowsInv, ArchivedInOwnRetro, DeletedGone, NoItem, NoActionItem
<1>2. ASSUME NEW q \in Archivers
      PROVE  RequestInv(q)
  BY DEF Init, RequestInv, OpenArchive, Holds, Counted, Left, InTransaction, NoArchive
<1> QED BY <1>1, <1>2 DEF ArchiveInv

LEMMA ArchiveNext ==
    ASSUME CardsAssumption, TypeOK, ArchiveInv, [Next]_vars
    PROVE  ArchiveInv'
<1>1. ASSUME NEW i \in Items, ItemHandler(i)
      PROVE  ArchiveInv'
  BY <1>1, ArchiveItemHandler
<1>2. ASSUME NEW q \in Editors, UpdateItem(q)
      PROVE  ArchiveInv'
  BY <1>2, ArchiveUpdateItem
<1>3. ASSUME NEW a \in ActionItems, ActionItemHandler(a)
      PROVE  ArchiveInv'
  BY <1>3, ArchiveActionItemHandler
<1>4. ASSUME NEW q \in Archivers, ArchiveRetro(q)
      PROVE  ArchiveInv'
  <2>1. ASSUME NEW r \in Retros, CountActive(q, r)
        PROVE  ArchiveInv'
    BY <2>1, CountKeeps
  <2>2. CASE InsertArchive(q)
    BY <2>2, InsertKeeps
  <2>3. CASE ArchiveItems(q)
    BY <2>3, ArchiveItemsKeeps
  <2>4. CASE ArchiveActionItems(q)
    BY <2>4, ArchiveActionItemsKeeps
  <2>5. CASE CommitArchive(q)
    BY <2>5, CommitKeeps
  <2>6. CASE AbortArchive(q)
    BY <2>6, AbortKeeps
  <2> QED BY <1>4, <2>1, <2>2, <2>3, <2>4, <2>5, <2>6 DEF ArchiveRetro, ArchiveStep
<1>5. ASSUME NEW r \in Retros, DeleteRetro(r)
      PROVE  ArchiveInv'
  BY <1>5, DeleteKeeps
<1>6. CASE TimerSweep
  BY <1>6, ArchiveTimerSweep
<1>7. CASE Tick
  BY <1>7, KeptIdle DEF Tick, boardVars
<1>8. CASE UNCHANGED vars
  BY <1>8, KeptIdle DEF vars, boardVars
<1> QED BY <1>1, <1>2, <1>3, <1>4, <1>5, <1>6, <1>7, <1>8 DEF Next

-----------------------------------------------------------------------------
\* However many archives run at the same time, and whichever fail: a card is
\* ARCHIVED exactly when it has an archive, and a row points at an archive that
\* is there and belongs to its own retro.
THEOREM ArchivesOfOwnRetro == Spec => []ArchivedInOwnRetro
<1>1. Init => ArchiveInv
  BY ArchiveInit
<1>2. ArchiveInv /\ TypeOK /\ [Next]_vars => ArchiveInv'
  BY ArchiveNext, CardsAssumption
<1>3. ArchiveInv => ArchivedInOwnRetro
  BY DEF ArchiveInv, RowsInv
<1> QED BY <1>1, <1>2, <1>3, CardsTypeCorrect, PTL DEF Spec

\* An archive that commits leaves none of the cards it counted on the board,
\* although it counts before its transaction begins.
THEOREM CountedCardsLeave == Spec => []NothingCountedStays
<1>1. Init => ArchiveInv
  BY ArchiveInit
<1>2. ArchiveInv /\ TypeOK /\ [Next]_vars => ArchiveInv'
  BY ArchiveNext, CardsAssumption
<1>3. ArchiveInv => NothingCountedStays
  BY DEF ArchiveInv, RequestInv, Left, NothingCountedStays
<1> QED BY <1>1, <1>2, <1>3, CardsTypeCorrect, PTL DEF Spec

-----------------------------------------------------------------------------
(* The refinement of CardLifecycle.                                         *)

\* The abstract status of the cards.
Statuses == [i \in Items |-> item[i].status]

\* A step that changes no status is a stutter.
LEMMA SameStatuses ==
    ASSUME \A i \in Items : item'[i].status = item[i].status
    PROVE  UNCHANGED Statuses
  BY DEF Statuses

\* A step that writes one card changes one status.
LEMMA OneStatus ==
    ASSUME TypeOK, NEW i \in Items, NEW new, item' = [item EXCEPT ![i] = new]
    PROVE  /\ Statuses' = [Statuses EXCEPT ![i] = new.status]
           /\ Statuses[i] = item[i].status
           /\ new.status = item[i].status => UNCHANGED Statuses
<1>1. item'[i] = new /\ \A j \in Items \ {i} : item'[j] = item[j]
  BY DEF TypeOK, BoardTypeOK
<1> DEFINE old == [j \in Items |-> item[j].status]
           written == [j \in Items |-> item'[j].status]
<1>2. /\ \A j \in Items : written[j] = IF j = i THEN new.status ELSE old[j]
      /\ old[i] = item[i].status
  BY <1>1
<1>3. written = [old EXCEPT ![i] = new.status]
  BY <1>2
<1>4. new.status = item[i].status => written = old
  BY <1>2
<1> QED BY <1>2, <1>3, <1>4 DEF Statuses

\* A card that exists is highlighted, cancelled or completed as the lifecycle
\* says, or its status stays.
LEMMA LifecycleStatus ==
    ASSUME TypeOK, NEW i \in Items, NEW action \in {"highlight", "cancel", "complete"},
           ChangeItemStatus(i, action)
    PROVE  \/ Lifecycle!Highlight(i)
           \/ Lifecycle!Cancel(i)
           \/ Lifecycle!Complete(i)
           \/ UNCHANGED Statuses
<1> DEFINE new == Changed(item[i], action)
<1>1. CASE UNCHANGED item
  BY <1>1, SameStatuses
<1>2. CASE ~ UNCHANGED item
  <2>1. /\ item' = [item EXCEPT ![i] = new]
        /\ new.status = "HIGHLIGHTED" => OtherHighlights(i) = {}
    BY <1>2 DEF ChangeItemStatus, Write
  <2>2. new.status = NextStatus(item[i].status, action)
    <3>1. item[i] \in ItemRows
      BY DEF TypeOK, BoardTypeOK
    <3> QED BY <3>1 DEF Changed, ResetTimer, ItemRows
  <2> HIDE DEF new
  <2>3. /\ Statuses' = [Statuses EXCEPT ![i] = new.status] /\ Statuses[i] = item[i].status
        /\ new.status = item[i].status => UNCHANGED Statuses
    BY <2>1, OneStatus
  <2>4. CASE item[i].status = "CREATED" /\ action = "highlight"
    <3>1. new.status = "HIGHLIGHTED"
      BY <2>2, <2>4 DEF NextStatus
    <3>2. \A j \in Lifecycle!OfRetro(Home[i]) : Statuses[j] # "HIGHLIGHTED"
      BY <2>1, <2>4, <3>1 DEF OtherHighlights, Lifecycle!OfRetro, Statuses
    <3> QED BY <2>3, <2>4, <3>1, <3>2 DEF Lifecycle!Highlight, Lifecycle!Step, Statuses
  <2>5. CASE item[i].status = "HIGHLIGHTED" /\ action = "cancel"
    BY <2>2, <2>3, <2>5 DEF NextStatus, Lifecycle!Cancel, Lifecycle!Step, Statuses
  <2>6. CASE item[i].status = "HIGHLIGHTED" /\ action = "complete"
    BY <2>2, <2>3, <2>6 DEF NextStatus, Lifecycle!Complete, Lifecycle!Step, Statuses
  <2> QED BY <2>2, <2>3, <2>4, <2>5, <2>6 DEF NextStatus
<1> QED BY <1>1, <1>2

LEMMA LifecycleItemHandler ==
    ASSUME TypeOK, NEW i \in Items, ItemHandler(i)
    PROVE  [Lifecycle!LifecycleNext]_Statuses
<1>0. item[i] \in ItemRows
  BY DEF TypeOK, BoardTypeOK
<1>1. ASSUME NEW text \in Texts, AddItem(i, text)
      PROVE  Lifecycle!Create(i)
  <2> DEFINE new == [NoItem EXCEPT !.status = "CREATED", !.text = text]
  <2>1. item' = [item EXCEPT ![i] = new] /\ item[i].status = "absent" /\ new.status = "CREATED"
    BY <1>1 DEF AddItem, NoItem
  <2> HIDE DEF new
  <2>2. Statuses' = [Statuses EXCEPT ![i] = new.status] /\ Statuses[i] = item[i].status
    BY <2>1, OneStatus
  <2> QED BY <2>1, <2>2 DEF Lifecycle!Create, Lifecycle!Step, Statuses
<1>2. ASSUME NEW d \in Submitted, StartItemTimer(i, d)
      PROVE  UNCHANGED Statuses
  <2> DEFINE new == [item[i] EXCEPT !.started = now, !.duration = Clamp(d), !.elapsed = Null]
  <2>1. UNCHANGED item \/ item' = [item EXCEPT ![i] = new]
    BY <1>2 DEF StartItemTimer, Write
  <2>2. new.status = item[i].status
    BY <1>0, KeptRows
  <2> HIDE DEF new
  <2> QED BY <2>1, <2>2, OneStatus, SameStatuses
<1>3. CASE ExtendItemTimer(i)
  <2>1. UNCHANGED item \/ item' = [item EXCEPT ![i] = Extended(item[i])]
    BY <1>3 DEF ExtendItemTimer, Write
  <2>2. Extended(item[i]).status = item[i].status
    BY <1>0, KeptRows
  <2> QED BY <2>1, <2>2, OneStatus, SameStatuses
<1> QED BY <1>1, <1>2, <1>3, LifecycleStatus DEF ItemHandler, Lifecycle!LifecycleNext

\* The commit of an archive takes its cards off the board in one step.
LEMMA LifecycleCommit ==
    ASSUME CardsAssumption, TypeOK, ArchiveInv, NEW q \in Archivers, CommitArchive(q)
    PROVE  Lifecycle!LifecycleNext
<1>1. /\ RequestInv(q) /\ ArchivedInOwnRetro
      /\ arch[q].items \subseteq Items /\ arch[q].pc = "action_items"
  BY ArchTypes DEF ArchiveInv, RowsInv, CommitArchive
<1>2. PICK r \in Retros, taken \in SUBSET Items : r = arch[q].retro /\ taken = arch[q].items
  BY <1>1 DEF RequestInv, Counted
<1>3. ASSUME NEW i \in taken
      PROVE  Home[i] = r /\ Statuses[i] \in {"CREATED", "HIGHLIGHTED", "COMPLETED"}
  BY <1>1, <1>2 DEF RequestInv, Holds, ArchivedInOwnRetro, Exists, Status, Statuses
<1>4. Statuses' = [i \in Items |-> IF i \in taken THEN "ARCHIVED" ELSE Statuses[i]]
  <2>1. \A i \in Items : item[i] \in ItemRows
    BY DEF TypeOK, BoardTypeOK
  <2>2. \A i \in Items : item'[i].status = IF i \in taken THEN "ARCHIVED" ELSE item[i].status
    BY <1>2, <2>1 DEF CommitArchive, ItemRows
  <2> QED BY <2>2 DEF Statuses
<1>5. Lifecycle!Archive(r, taken)
  BY <1>3, <1>4 DEF Lifecycle!Archive, Statuses
<1>6. taken \in SUBSET Lifecycle!OfRetro(r)
  BY <1>3 DEF Lifecycle!OfRetro
<1> QED BY <1>5, <1>6 DEF Lifecycle!LifecycleNext

LEMMA LifecycleStep ==
    ASSUME CardsAssumption, TypeOK, ArchiveInv, [Next]_vars
    PROVE  [Lifecycle!LifecycleNext]_Statuses
<1>0. \A i \in Items : item[i] \in ItemRows
  BY DEF TypeOK, BoardTypeOK
<1>1. ASSUME NEW i \in Items, ItemHandler(i)
      PROVE  [Lifecycle!LifecycleNext]_Statuses
  BY <1>1, LifecycleItemHandler
<1>2. ASSUME NEW q \in Editors, UpdateItem(q)
      PROVE  UNCHANGED Statuses
  <2>1. CASE UpdateText(q)
    <3> DEFINE i == edit[q].item
               new == [item[i] EXCEPT !.text = edit[q].text]
    <3>1. i \in Items /\ item' = [item EXCEPT ![i] = new]
      BY <2>1 DEF UpdateText, Write, TypeOK, RequestTypeOK, EditStates
    <3>2. new.status = item[i].status
      BY <1>0, <3>1, KeptRows
    <3> HIDE DEF i, new
    <3> QED BY <3>1, <3>2, OneStatus
  <2>2. CASE ~ UpdateText(q)
    <3>1. UNCHANGED item
      BY <1>2, <2>2 DEF UpdateItem, ReadOldText, AbandonEdit, boardVars
    <3> QED BY <3>1, SameStatuses
  <2> QED BY <2>1, <2>2
<1>3. ASSUME NEW a \in ActionItems, ActionItemHandler(a)
      PROVE  UNCHANGED Statuses
  BY <1>3, SameStatuses DEF ActionItemHandler, AddActionItem, UpdateActionItem,
                            CompleteActionItem, DeleteActionItem
<1>4. ASSUME NEW q \in Archivers, ArchiveRetro(q)
      PROVE  [Lifecycle!LifecycleNext]_Statuses
  <2>1. CASE CommitArchive(q)
    BY <2>1, LifecycleCommit
  <2>2. CASE ~ CommitArchive(q)
    <3>1. UNCHANGED item
      BY <1>4, <2>2 DEF ArchiveRetro, ArchiveStep, CountActive, InsertArchive, ArchiveItems,
                        ArchiveActionItems, AbortArchive, boardVars
    <3> QED BY <3>1, SameStatuses
  <2> QED BY <2>1, <2>2
<1>5. ASSUME NEW r \in Retros, DeleteRetro(r)
      PROVE  Lifecycle!LifecycleNext
  <2>1. Lifecycle!DeleteRetro(r)
    BY <1>5 DEF DeleteRetro, Lifecycle!DeleteRetro, Lifecycle!OfRetro, Statuses, NoItem
  <2> QED BY <2>1 DEF Lifecycle!LifecycleNext
<1>6. CASE TimerSweep
  BY <1>0, <1>6, SameStatuses DEF TimerSweep, ItemRows
<1>7. CASE Tick \/ UNCHANGED vars
  BY <1>7, SameStatuses DEF Tick, vars, boardVars
<1> QED BY <1>1, <1>2, <1>3, <1>4, <1>5, <1>6, <1>7 DEF Next

\* Cards live as the abstract lifecycle says: every step of the handlers, the
\* sweep and the archives changes no status or takes one of its steps.
THEOREM ImplementsLifecycle == Spec => RefinesLifecycle
<1>1. Init => ArchiveInv /\ Lifecycle!LifecycleInit
  BY ArchiveInit DEF Init, Lifecycle!LifecycleInit, NoItem
<1>2. ArchiveInv /\ TypeOK /\ [Next]_vars => ArchiveInv'
  BY ArchiveNext, CardsAssumption
<1>3. ArchiveInv /\ TypeOK /\ [Next]_vars
        => [Lifecycle!LifecycleNext]_[i \in Items |-> item[i].status]
  BY LifecycleStep, CardsAssumption DEF Statuses
<1> QED BY <1>1, <1>2, <1>3, CardsTypeCorrect, PTL
        DEF Spec, RefinesLifecycle, Lifecycle!LifecycleSpec

-----------------------------------------------------------------------------
(* What the log tells.                                                      *)

Says(l, e, i, types) == l[e].type \in types /\ l[e].item = i

Tells(l, i, types) == \E e \in DOMAIN l : Says(l, e, i, types)

\* The newest event of card i, of those types.
Newest(l, i, types) == l[LastEvent(l, i, types)]

\* A lookup returns the match that no later one follows.
LEMMA LastEventIs ==
    ASSUME NEW l \in Seq(Events), NEW i, NEW types, NEW m \in DOMAIN l,
           Says(l, m, i, types), \A f \in DOMAIN l : Says(l, f, i, types) => f <= m
    PROVE  LastEvent(l, i, types) = m
<1> DEFINE ids == {e \in DOMAIN l : l[e].type \in types /\ l[e].item = i}
<1>1. ids \subseteq Nat
  BY LenProperties
<1>2. m \in ids /\ \A f \in ids : f <= m
  BY DEF Says
<1>3. LastEvent(l, i, types) = CHOOSE e \in ids : \A f \in ids : f <= e
  BY <1>2 DEF LastEvent
<1> HIDE DEF ids
<1>4. \A e \in ids : (\A f \in ids : f <= e) => e = m
  BY <1>1, <1>2
<1> QED BY <1>2, <1>3, <1>4

\* When there is a match, a lookup returns one, and the last.
LEMMA LastEventLast ==
    ASSUME NEW l \in Seq(Events), NEW i, NEW types, Tells(l, i, types)
    PROVE  /\ LastEvent(l, i, types) \in DOMAIN l
           /\ Says(l, LastEvent(l, i, types), i, types)
           /\ \A f \in DOMAIN l : Says(l, f, i, types) => f <= LastEvent(l, i, types)
<1> DEFINE ids == {e \in DOMAIN l : l[e].type \in types /\ l[e].item = i}
<1>1. ids \in SUBSET (0 .. Len(l)) /\ Len(l) \in Nat
  BY LenProperties
<1>2. ids # {}
  BY DEF Tells, Says
<1>3. PICK m \in ids : \A x \in ids : x <= m
  <2> HIDE DEF ids
  <2> QED BY <1>1, <1>2, HasMax
<1>4. m \in DOMAIN l /\ Says(l, m, i, types) /\ \A f \in DOMAIN l : Says(l, f, i, types) => f <= m
  BY <1>3 DEF Says
<1>5. LastEvent(l, i, types) = m
  BY <1>4, LastEventIs
<1> QED BY <1>4, <1>5

\* Events that do not match leave the newest match what it was.
LEMMA NothingSaid ==
    ASSUME NEW l \in Seq(Events), NEW s \in Seq(Events), NEW i, NEW types,
           Tells(l, i, types), \A k \in DOMAIN s : ~ Says(s, k, i, types)
    PROVE  /\ Tells(l \o s, i, types)
           /\ Newest(l \o s, i, types) = Newest(l, i, types)
<1> DEFINE m == LastEvent(l, i, types)
           ls == l \o s
<1>1. m \in DOMAIN l /\ Says(l, m, i, types) /\ \A f \in DOMAIN l : Says(l, f, i, types) => f <= m
  BY LastEventLast
<1>2. /\ ls \in Seq(Events)
      /\ Len(ls) = Len(l) + Len(s)
      /\ Len(l) \in Nat /\ Len(s) \in Nat
      /\ DOMAIN l = 1 .. Len(l) /\ DOMAIN s = 1 .. Len(s) /\ DOMAIN ls = 1 .. Len(l) + Len(s)
      /\ \A n \in 1 .. Len(l) + Len(s) : ls[n] = IF n <= Len(l) THEN l[n] ELSE s[n - Len(l)]
  BY ConcatProperties, LenProperties
<1> HIDE DEF m, ls
<1>3. m \in DOMAIN ls /\ ls[m] = l[m]
  BY <1>1, <1>2
<1>4. Says(ls, m, i, types)
  BY <1>1, <1>3 DEF Says
<1>5. ASSUME NEW f \in DOMAIN ls, Says(ls, f, i, types)
      PROVE  f <= m
  <2>1. CASE f <= Len(l)
    BY <1>1, <1>2, <1>5, <2>1 DEF Says
  <2>2. CASE f > Len(l)
    <3>1. f - Len(l) \in DOMAIN s /\ ls[f] = s[f - Len(l)]
      BY <1>2, <2>2
    <3> QED BY <1>5, <3>1 DEF Says
  <2> QED BY <1>2, <2>1, <2>2
<1>6. LastEvent(ls, i, types) = m
  BY <1>2, <1>3, <1>4, <1>5, LastEventIs
<1> QED BY <1>3, <1>4, <1>6 DEF Newest, Tells, m, ls

\* A new match is the newest one, at its place behind the log.
LEMMA NewlySaid ==
    ASSUME NEW l \in Seq(Events), NEW s \in Seq(Events), NEW i, NEW types, Tells(s, i, types)
    PROVE  /\ Tells(l \o s, i, types)
           /\ \E k \in DOMAIN s : /\ Says(s, k, i, types)
                                  /\ LastEvent(l \o s, i, types) = Len(l) + k
                                  /\ Newest(l \o s, i, types) = s[k]
<1> DEFINE k == LastEvent(s, i, types)
           ls == l \o s
<1>1. k \in DOMAIN s /\ Says(s, k, i, types) /\ \A f \in DOMAIN s : Says(s, f, i, types) => f <= k
  BY LastEventLast
<1>2. /\ ls \in Seq(Events)
      /\ Len(ls) = Len(l) + Len(s)
      /\ Len(l) \in Nat /\ Len(s) \in Nat
      /\ DOMAIN l = 1 .. Len(l) /\ DOMAIN s = 1 .. Len(s) /\ DOMAIN ls = 1 .. Len(l) + Len(s)
      /\ \A n \in 1 .. Len(l) + Len(s) : ls[n] = IF n <= Len(l) THEN l[n] ELSE s[n - Len(l)]
  BY ConcatProperties, LenProperties
<1> HIDE DEF k, ls
<1> DEFINE m == Len(l) + k
<1>3. m \in DOMAIN ls /\ ls[m] = s[k]
  BY <1>1, <1>2
<1>4. Says(ls, m, i, types)
  BY <1>1, <1>3 DEF Says
<1>5. ASSUME NEW f \in DOMAIN ls, Says(ls, f, i, types)
      PROVE  f <= m
  <2>1. CASE f <= Len(l)
    BY <1>1, <1>2, <2>1
  <2>2. CASE f > Len(l)
    <3>1. f - Len(l) \in DOMAIN s /\ ls[f] = s[f - Len(l)]
      BY <1>2, <2>2
    <3>2. f - Len(l) <= k
      BY <1>1, <1>5, <3>1 DEF Says
    <3> QED BY <1>1, <1>2, <3>2
  <2> QED BY <1>2, <2>1, <2>2
<1> HIDE DEF m
<1>6. LastEvent(ls, i, types) = m
  BY <1>2, <1>3, <1>4, <1>5, LastEventIs
<1> QED BY <1>1, <1>3, <1>4, <1>6 DEF Newest, Tells, m, ls

\* The event of an archive that is taken back was no event of a card.
LEMMA TakenBack ==
    ASSUME NEW l \in Seq(Events), NEW i, NEW types, Tells(l, i, types), NEW n \in DOMAIN l,
           l[n].type \notin types, None \notin types
    PROVE  LET t == [l EXCEPT ![n] = NoEvent]
           IN  Tells(t, i, types) /\ Newest(t, i, types) = Newest(l, i, types)
<1> DEFINE t == [l EXCEPT ![n] = NoEvent]
           m == LastEvent(l, i, types)
<1>1. m \in DOMAIN l /\ Says(l, m, i, types) /\ \A f \in DOMAIN l : Says(l, f, i, types) => f <= m
  BY LastEventLast
<1>2. t \in Seq(Events) /\ DOMAIN t = DOMAIN l
  <2>1. NoEvent \in Events
    BY DEF NoEvent, Events
  <2> QED BY <2>1, SeqExcept
<1>3. \A f \in DOMAIN l : t[f] = IF f = n THEN NoEvent ELSE l[f]
  OBVIOUS
<1> HIDE DEF t, m
<1>4. m # n /\ t[m] = l[m]
  BY <1>1, <1>3 DEF Says
<1>5. m \in DOMAIN t /\ Says(t, m, i, types)
  BY <1>1, <1>2, <1>4 DEF Says
<1>6. ASSUME NEW f \in DOMAIN t, Says(t, f, i, types)
      PROVE  f <= m
  <2>1. f # n
    BY <1>2, <1>3, <1>6 DEF Says, NoEvent
  <2> QED BY <1>1, <1>2, <1>3, <1>6, <2>1 DEF Says
<1>7. LastEvent(t, i, types) = m
  BY <1>2, <1>5, <1>6, LastEventIs
<1> QED BY <1>4, <1>5, <1>7 DEF Newest, Tells, t, m

StatusTypes  == {"ITEM_CREATED", "ITEM_STATUS_CHANGED"}
TextTypes    == {"ITEM_CREATED", "ITEM_UPDATED"}
TimerTypes   == {"ITEM_CREATED", "ITEM_STATUS_CHANGED", "TIMER_STARTED", "TIMER_EXTENDED"}
ElapsedTypes == {"ITEM_CREATED", "ITEM_STATUS_CHANGED", "TIMER_STARTED", "TIMER_EXTENDED",
                 "TIMER_ELAPSED"}
CardTypes    == ElapsedTypes \cup TextTypes

TimerOf(e) ==
    IF e.type \in {"TIMER_STARTED", "TIMER_EXTENDED"} THEN <<e.started, e.duration>>
    ELSE <<Null, Null>>

\* The log l tells row of card i.
LogTold(l, i, row) ==
    /\ Tells(l, i, {"ITEM_CREATED"})
    /\ row.status # "ARCHIVED" => Newest(l, i, StatusTypes).status = row.status
    /\ Newest(l, i, TextTypes).text = row.text
    /\ TimerOf(Newest(l, i, TimerTypes)) = <<row.started, row.duration>>
    /\ Newest(l, i, ElapsedTypes).type = "TIMER_ELAPSED" <=> row.elapsed # Null

\* An open transaction has written its archive event, which no card is told by.
OpenEvent ==
    \A q \in Archivers : InTransaction(q) =>
        arch[q].event \in DOMAIN log /\ log[arch[q].event].type \in {"RETRO_ARCHIVED", None}

LogInv == (\A i \in Items : Exists(i) => LogTold(log, i, item[i])) /\ OpenEvent

\* The invariant says what the checked property says.
LEMMA LogInvMeaning == LogInv => LogTellsBoard
BY DEF LogInv, LogTold, Newest, TimerOf, LogTellsBoard, StatusTold, TextTold, TimerTold, ElapsedTold,
       StatusTypes, TextTypes, TimerTypes, ElapsedTypes

\* A card that was announced is found by every lookup.
LEMMA CreatedIsFound ==
    ASSUME NEW l, NEW i, Tells(l, i, {"ITEM_CREATED"})
    PROVE  /\ Tells(l, i, StatusTypes) /\ Tells(l, i, TextTypes)
           /\ Tells(l, i, TimerTypes) /\ Tells(l, i, ElapsedTypes)
BY DEF Tells, Says, StatusTypes, TextTypes, TimerTypes, ElapsedTypes

\* What is told stays told when the newest events of all kinds are the same.
LEMMA ToldSame ==
    ASSUME NEW l, NEW t, NEW i, NEW row, LogTold(l, i, row), Tells(t, i, {"ITEM_CREATED"}),
           Newest(t, i, StatusTypes) = Newest(l, i, StatusTypes),
           Newest(t, i, TextTypes) = Newest(l, i, TextTypes),
           Newest(t, i, TimerTypes) = Newest(l, i, TimerTypes),
           Newest(t, i, ElapsedTypes) = Newest(l, i, ElapsedTypes)
    PROVE  LogTold(t, i, row)
BY DEF LogTold

\* Events about other things leave what is told about a card.
LEMMA ToldUnsaid ==
    ASSUME NEW l \in Seq(Events), NEW s \in Seq(Events), NEW i, NEW row, LogTold(l, i, row),
           \A k \in DOMAIN s : ~ Says(s, k, i, CardTypes)
    PROVE  LogTold(l \o s, i, row)
<1>1. Tells(l, i, {"ITEM_CREATED"})
  BY DEF LogTold
<1>2. ASSUME NEW types \in SUBSET CardTypes, Tells(l, i, types)
      PROVE  Tells(l \o s, i, types) /\ Newest(l \o s, i, types) = Newest(l, i, types)
  <2>1. \A k \in DOMAIN s : ~ Says(s, k, i, types)
    BY DEF Says
  <2> QED BY <1>2, <2>1, NothingSaid
<1>3. /\ {"ITEM_CREATED"} \in SUBSET CardTypes
      /\ StatusTypes \in SUBSET CardTypes /\ TextTypes \in SUBSET CardTypes
      /\ TimerTypes \in SUBSET CardTypes /\ ElapsedTypes \in SUBSET CardTypes
  BY DEF CardTypes, StatusTypes, TextTypes, TimerTypes, ElapsedTypes
<1> QED BY <1>1, <1>2, <1>3, CreatedIsFound, ToldSame

\* One event about a card is the newest of its kind, and leaves the other kinds.
LEMMA OneSaid ==
    ASSUME NEW l \in Seq(Events), NEW i, NEW e \in Events, e.item = i, NEW types
    PROVE  /\ e.type \in types =>
                /\ LastEvent(l \o <<e>>, i, types) = Len(l) + 1
                /\ Newest(l \o <<e>>, i, types) = e
                /\ Tells(l \o <<e>>, i, types)
           /\ e.type \notin types /\ Tells(l, i, types) =>
                /\ Newest(l \o <<e>>, i, types) = Newest(l, i, types)
                /\ Tells(l \o <<e>>, i, types)
<1> DEFINE s == <<e>>
<1>1. s \in Seq(Events) /\ DOMAIN s = {1} /\ s[1] = e
  OBVIOUS
<1> HIDE DEF s
<1>2. ASSUME e.type \in types
      PROVE  LastEvent(l \o s, i, types) = Len(l) + 1 /\ Newest(l \o s, i, types) = e
             /\ Tells(l \o s, i, types)
  <2>1. Tells(s, i, types)
    BY <1>1, <1>2 DEF Tells, Says
  <2>2. Tells(l \o s, i, types)
        /\ \E k \in DOMAIN s : /\ Says(s, k, i, types)
                               /\ LastEvent(l \o s, i, types) = Len(l) + k
                               /\ Newest(l \o s, i, types) = s[k]
    BY <1>1, <2>1, NewlySaid
  <2> QED BY <1>1, <2>2
<1>3. ASSUME e.type \notin types, Tells(l, i, types)
      PROVE  Newest(l \o s, i, types) = Newest(l, i, types) /\ Tells(l \o s, i, types)
  <2>1. \A k \in DOMAIN s : ~ Says(s, k, i, types)
    BY <1>1, <1>3 DEF Says
  <2> QED BY <1>1, <1>3, <2>1, NothingSaid
<1> QED BY <1>2, <1>3 DEF s

\* An UPDATE changes one thing: the status and then no timer is left, or the
\* timer which then runs, or is marked as it is, or the text.
OneThing(old, new) ==
    /\ new.archive = old.archive
    /\ new.status # old.status =>
          /\ new.text = old.text
          /\ new.started = Null /\ new.duration = Null /\ new.elapsed = Null
    /\ TimerChanged(old, new) =>
          /\ new.text = old.text
          /\ \/ new.elapsed = Null
             \/ /\ old.elapsed = Null
                /\ new.started = old.started /\ new.duration = old.duration

\* The trigger tells an UPDATE that changes one thing.
LEMMA ToldWrite ==
    ASSUME NEW l \in Seq(Events), NEW i \in Items, NEW old \in ItemRows, NEW new \in ItemRows,
           new.status \in Status,
           LogTold(l, i, old), OneThing(old, new)
    PROVE  LogTold(l \o ItemEvent(i, old, new), i, new)
<1> DEFINE e1 == [type |-> "ITEM_STATUS_CHANGED", item |-> i, status |-> new.status]
           e2 == [type |-> "TIMER_ELAPSED", item |-> i]
           e3 == [type |-> "TIMER_STARTED", item |-> i,
                  started |-> new.started, duration |-> new.duration]
           e4 == [type |-> "TIMER_EXTENDED", item |-> i,
                  started |-> new.started, duration |-> new.duration]
           e5 == [type |-> "ITEM_UPDATED", item |-> i, text |-> new.text]
<1>0. /\ Tells(l, i, {"ITEM_CREATED"})
      /\ Tells(l, i, StatusTypes) /\ Tells(l, i, TextTypes)
      /\ Tells(l, i, TimerTypes) /\ Tells(l, i, ElapsedTypes)
  BY CreatedIsFound DEF LogTold
<1>1. /\ e1 \in Events /\ e2 \in Events /\ e3 \in Events /\ e4 \in Events /\ e5 \in Events
  BY DEF Events, ItemRows
<1>2. ASSUME NEW e \in Events, e.item = i, e.type \in CardTypes, e.type # "ITEM_CREATED"
      PROVE  LET t == l \o <<e>>
             IN  /\ Tells(t, i, {"ITEM_CREATED"})
                 /\ Newest(t, i, StatusTypes) =
                      IF e.type \in StatusTypes THEN e ELSE Newest(l, i, StatusTypes)
                 /\ Newest(t, i, TextTypes) =
                      IF e.type \in TextTypes THEN e ELSE Newest(l, i, TextTypes)
                 /\ Newest(t, i, TimerTypes) =
                      IF e.type \in TimerTypes THEN e ELSE Newest(l, i, TimerTypes)
                 /\ Newest(t, i, ElapsedTypes) =
                      IF e.type \in ElapsedTypes THEN e ELSE Newest(l, i, ElapsedTypes)
  <2> DEFINE t == l \o <<e>>
  <2>1. e.type \notin {"ITEM_CREATED"}
    BY <1>2
  <2>2. ASSUME NEW types, Tells(l, i, types)
        PROVE  /\ Tells(t, i, types)
               /\ Newest(t, i, types) = IF e.type \in types THEN e ELSE Newest(l, i, types)
    BY <1>2, <2>2, OneSaid
  <2> HIDE DEF t
  <2>3. /\ Tells(t, i, {"ITEM_CREATED"})
        /\ Newest(t, i, StatusTypes) =
             IF e.type \in StatusTypes THEN e ELSE Newest(l, i, StatusTypes)
        /\ Newest(t, i, TextTypes) =
             IF e.type \in TextTypes THEN e ELSE Newest(l, i, TextTypes)
        /\ Newest(t, i, TimerTypes) =
             IF e.type \in TimerTypes THEN e ELSE Newest(l, i, TimerTypes)
        /\ Newest(t, i, ElapsedTypes) =
             IF e.type \in ElapsedTypes THEN e ELSE Newest(l, i, ElapsedTypes)
    BY <1>0, <2>2
  <2> QED BY <2>3 DEF t
<1>3. CASE new.status # old.status
  <2>0. new.archive = old.archive
    BY DEF OneThing
  <2>1. ItemEvent(i, old, new) = <<e1>>
    BY <1>3, <2>0 DEF ItemEvent
  <2>2. e1.type = "ITEM_STATUS_CHANGED" /\ e1.item = i /\ e1.status = new.status
    OBVIOUS
  <2>3. /\ new.text = old.text
        /\ new.started = Null /\ new.duration = Null /\ new.elapsed = Null
    BY <1>3 DEF OneThing
  <2> HIDE DEF e1
  <2> QED BY <1>1, <1>2, <2>1, <2>2, <2>3
          DEF LogTold, TimerOf, CardTypes, StatusTypes, TextTypes, TimerTypes, ElapsedTypes
<1>4. CASE new.status = old.status /\ old.elapsed = Null /\ new.elapsed # Null
  <2>1. ItemEvent(i, old, new) = <<e2>>
    BY <1>4 DEF ItemEvent, OneThing
  <2>2. e2.type = "TIMER_ELAPSED" /\ e2.item = i
    OBVIOUS
  <2>3. new.text = old.text /\ new.started = old.started /\ new.duration = old.duration
    BY <1>4 DEF OneThing, TimerChanged
  <2> HIDE DEF e2
  <2> QED BY <1>1, <1>2, <1>4, <2>1, <2>2, <2>3
          DEF LogTold, TimerOf, CardTypes, StatusTypes, TextTypes, TimerTypes, ElapsedTypes
<1>5. CASE /\ new.status = old.status /\ ~ (old.elapsed = Null /\ new.elapsed # Null)
           /\ TimerChanged(old, new)
  <2>1. PICK e \in {e3, e4} : ItemEvent(i, old, new) = <<e>>
    BY <1>5 DEF ItemEvent, OneThing
  <2>2. /\ e.type \in {"TIMER_STARTED", "TIMER_EXTENDED"} /\ e.item = i
        /\ e.started = new.started /\ e.duration = new.duration
    OBVIOUS
  <2>3. new.text = old.text /\ new.elapsed = Null
    BY <1>5 DEF OneThing
  <2>4. e \in Events
    BY <1>1, <2>1
  <2> HIDE DEF e3, e4
  <2> QED BY <1>2, <1>5, <2>1, <2>2, <2>3, <2>4
          DEF LogTold, TimerOf, CardTypes, StatusTypes, TextTypes, TimerTypes, ElapsedTypes
<1>6. CASE new.status = old.status /\ ~ TimerChanged(old, new)
  <2>1. new.started = old.started /\ new.duration = old.duration /\ new.elapsed = old.elapsed
    BY <1>6 DEF TimerChanged
  <2>2. CASE new.text # old.text
    <3>1. ItemEvent(i, old, new) = <<e5>>
      BY <1>6, <2>1, <2>2 DEF ItemEvent, OneThing
    <3>2. e5.type = "ITEM_UPDATED" /\ e5.item = i /\ e5.text = new.text
      OBVIOUS
    <3> HIDE DEF e5
    <3> QED BY <1>1, <1>2, <1>6, <2>1, <3>1, <3>2
            DEF LogTold, TimerOf, CardTypes, StatusTypes, TextTypes, TimerTypes, ElapsedTypes
  <2>3. CASE new.text = old.text
    <3>1. ItemEvent(i, old, new) = << >>
      BY <1>6, <2>1, <2>3 DEF ItemEvent, OneThing
    <3>2. l \o << >> = l
      BY ConcatEmptySeq
    <3> QED BY <1>6, <2>1, <2>3, <3>1, <3>2 DEF LogTold
  <2> QED BY <2>2, <2>3
<1>7. old.elapsed = Null /\ new.elapsed # Null => TimerChanged(old, new)
  BY DEF TimerChanged
<1> QED BY <1>3, <1>4, <1>5, <1>6

\* The trigger writes events about its card.
LEMMA ItemEventItem ==
    ASSUME NEW i, NEW old, NEW new, NEW k \in DOMAIN ItemEvent(i, old, new)
    PROVE  ItemEvent(i, old, new)[k].item = i
<1> DEFINE s == ItemEvent(i, old, new)
<1>1. s = << >> \/ \E e : s = <<e>> /\ e.item = i
  BY DEF ItemEvent
<1> HIDE DEF s
<1> SUFFICES ASSUME NEW n \in DOMAIN s PROVE s[n].item = i
  BY DEF s
<1>2. CASE s = << >>
  BY <1>2
<1>3. ASSUME NEW e, s = <<e>>, e.item = i
      PROVE  s[n].item = i
  BY <1>3
<1> QED BY <1>1, <1>2, <1>3

\* Requests that write at the end of the log leave the open archives alone.
LEMMA OpenEventStays ==
    ASSUME TypeOK, OpenEvent, NEW s \in Seq(Events), log' = log \o s, arch' = arch
    PROVE  OpenEvent'
<1>1. log \in Seq(Events)
  BY DEF TypeOK, BoardTypeOK
<1>2. \A e \in DOMAIN log : e \in DOMAIN log' /\ log'[e] = log[e]
  BY <1>1, ConcatProperties, LenProperties
<1> QED BY <1>2 DEF OpenEvent, InTransaction

\* An UPDATE of one card that changes one thing is told.
LEMMA LogWrite ==
    ASSUME TypeOK, LogInv, NEW i \in Items, Exists(i), NEW new \in ItemRows, new.status \in Status,
           OneThing(item[i], new), Write(i, new), arch' = arch
    PROVE  LogInv'
<1> DEFINE s == ItemEvent(i, item[i], new)
<1>0. item \in [Items -> ItemRows] /\ log \in Seq(Events)
  BY DEF TypeOK, BoardTypeOK
<1>1. item[i] \in ItemRows /\ LogTold(log, i, item[i])
  BY <1>0 DEF LogInv
<1>2. s \in Seq(Events)
  BY <1>1, ItemEventType
<1>3. LogTold(log \o s, i, new)
  BY <1>0, <1>1, ToldWrite
<1>4. \A k \in DOMAIN s : s[k].item = i
  BY ItemEventItem
<1>5. item' = [item EXCEPT ![i] = new] /\ log' = log \o s
  BY DEF Write
<1> HIDE DEF s
<1>6. OpenEvent'
  BY <1>2, <1>5, OpenEventStays DEF LogInv
<1>7. ASSUME NEW j \in Items, Exists(j)'
      PROVE  LogTold(log', j, item'[j])
  <2>1. CASE j = i
    BY <1>0, <1>3, <1>5, <2>1
  <2>2. CASE j # i
    <3>1. item'[j] = item[j] /\ LogTold(log, j, item[j])
      BY <1>5, <1>7, <2>2 DEF Exists, LogInv
    <3>2. \A k \in DOMAIN s : ~ Says(s, k, j, CardTypes)
      BY <1>4, <2>2 DEF Says
    <3> QED BY <1>0, <1>2, <1>5, <3>1, <3>2, ToldUnsaid
  <2> QED BY <2>1, <2>2
<1> QED BY <1>6, <1>7 DEF LogInv

\* A step that changes neither the cards nor the log, nor opens an archive.
LEMMA LogSame ==
    ASSUME LogInv, item' = item, log' = log,
           \A q \in Archivers : InTransaction(q)' => InTransaction(q) /\ arch'[q].event = arch[q].event
    PROVE  LogInv'
BY DEF LogInv, OpenEvent, Exists

\* A card that is added is told by the event that announces it.
LEMMA LogAddItem ==
    ASSUME TypeOK, LogInv, NEW i \in Items, NEW text \in Texts, AddItem(i, text)
    PROVE  LogInv'
<1> DEFINE e == [type |-> "ITEM_CREATED", item |-> i, text |-> text, status |-> "CREATED"]
           new == [NoItem EXCEPT !.status = "CREATED", !.text = text]
<1>0. item \in [Items -> ItemRows] /\ log \in Seq(Events)
  BY DEF TypeOK, BoardTypeOK
<1>1. e \in Events
  BY DEF Events, Status
<1>2. <<e>> \in Seq(Events) /\ log' = log \o <<e>>
  BY <1>0, <1>1, AppendIsConcat DEF AddItem
<1>3. item' = [item EXCEPT ![i] = new] /\ arch' = arch
  BY DEF AddItem
<1>4. e.type = "ITEM_CREATED" /\ e.item = i /\ e.text = text /\ e.status = "CREATED"
  OBVIOUS
<1>5. /\ new.status = "CREATED" /\ new.text = text /\ new.started = Null
      /\ new.duration = Null /\ new.elapsed = Null
  BY DEF NoItem
<1> HIDE DEF e, new
<1>6. OpenEvent'
  BY <1>2, <1>3, OpenEventStays DEF LogInv
<1>7. \A types : "ITEM_CREATED" \in types => Newest(log', i, types) = e /\ Tells(log', i, types)
  BY <1>0, <1>1, <1>2, <1>4, OneSaid
<1>8. LogTold(log', i, new)
  <2>1. /\ "ITEM_CREATED" \in StatusTypes /\ "ITEM_CREATED" \in TextTypes
        /\ "ITEM_CREATED" \in TimerTypes /\ "ITEM_CREATED" \in ElapsedTypes
    BY DEF StatusTypes, TextTypes, TimerTypes, ElapsedTypes
  <2>2. Tells(log', i, {"ITEM_CREATED"})
    BY <1>7
  <2>3. /\ Newest(log', i, StatusTypes) = e /\ Newest(log', i, TextTypes) = e
        /\ Newest(log', i, TimerTypes) = e /\ Newest(log', i, ElapsedTypes) = e
    BY <1>7, <2>1
  <2> QED BY <1>4, <1>5, <2>2, <2>3 DEF LogTold, TimerOf
<1>9. ASSUME NEW j \in Items, Exists(j)', j # i
      PROVE  LogTold(log', j, item'[j])
  <2>1. item'[j] = item[j] /\ LogTold(log, j, item[j])
    BY <1>3, <1>9 DEF Exists, LogInv
  <2>2. \A k \in DOMAIN <<e>> : ~ Says(<<e>>, k, j, CardTypes)
    BY <1>4, <1>9 DEF Says
  <2> QED BY <1>0, <1>2, <2>1, <2>2, ToldUnsaid
<1>10. item'[i] = new
  BY <1>0, <1>3
<1> QED BY <1>6, <1>8, <1>9, <1>10 DEF LogInv

\* The rows that the handlers of a card write change one thing.
LEMMA RowsChangeOneThing ==
    ASSUME CardsAssumption, NEW row \in ItemRows, NEW t, TimerOK(row, t), row.status \in Status
    PROVE  /\ \A action : OneThing(row, Changed(row, action))
           /\ \A started, d : OneThing(row, [row EXCEPT !.started = started, !.duration = d,
                                                        !.elapsed = Null])
           /\ OneThing(row, Extended(row))
           /\ \A text : OneThing(row, [row EXCEPT !.text = text])
<1>1. ASSUME NEW action
      PROVE  OneThing(row, Changed(row, action))
  <2>1. CASE row.status = "HIGHLIGHTED" /\ action \in {"cancel", "complete"}
    <3>1. Changed(row, action) = [ResetTimer(row) EXCEPT !.status = NextStatus(row.status, action)]
      BY <2>1 DEF Changed
    <3>2. /\ Changed(row, action).started = Null
          /\ Changed(row, action).duration = Null
          /\ Changed(row, action).elapsed = Null
          /\ Changed(row, action).text = row.text
          /\ Changed(row, action).archive = row.archive
      BY <3>1 DEF ResetTimer, ItemRows
    <3> QED BY <3>2 DEF OneThing
  <2>2. CASE ~ (row.status = "HIGHLIGHTED" /\ action \in {"cancel", "complete"})
    <3>1. Changed(row, action) = [row EXCEPT !.status = NextStatus(row.status, action)]
      BY <2>2 DEF Changed
    <3>2. NextStatus(row.status, action) = row.status \/ row.status = "CREATED"
      BY <2>2 DEF NextStatus, Status
    <3>3. row.status = "CREATED" =>
            row.started = Null /\ row.duration = Null /\ row.elapsed = Null
      BY DEF TimerOK
    <3>4. /\ Changed(row, action).started = row.started
          /\ Changed(row, action).duration = row.duration
          /\ Changed(row, action).elapsed = row.elapsed
          /\ Changed(row, action).text = row.text
          /\ Changed(row, action).archive = row.archive
          /\ Changed(row, action).status = NextStatus(row.status, action)
      BY <3>1 DEF ItemRows
    <3> QED BY <3>2, <3>3, <3>4 DEF OneThing, TimerChanged
  <2> QED BY <2>1, <2>2
<1>2. \A started, d : OneThing(row, [row EXCEPT !.started = started, !.duration = d,
                                                !.elapsed = Null])
  BY DEF OneThing, ItemRows
<1>3. OneThing(row, Extended(row))
  BY DEF OneThing, Extended, ItemRows
<1>4. \A text : OneThing(row, [row EXCEPT !.text = text])
  BY DEF OneThing, TimerChanged, ItemRows
<1> QED BY <1>1, <1>2, <1>3, <1>4

\* The requests about one card are told.
LEMMA LogItemHandler ==
    ASSUME CardsAssumption, TypeOK, TimerInv, LogInv, NEW i \in Items, ItemHandler(i)
    PROVE  LogInv'
<1>0. item[i] \in ItemRows /\ now \in Nat \ {0} /\ TimerOK(item[i], now)
  BY DEF TypeOK, BoardTypeOK, TimerInv
<1>1. ASSUME NEW action \in {"highlight", "cancel", "complete"}, ChangeItemStatus(i, action)
      PROVE  LogInv'
  <2> DEFINE new == Changed(item[i], action)
  <2>1. Exists(i) /\ arch' = arch
    BY <1>1 DEF ChangeItemStatus
  <2>2. new \in ItemRows /\ new.status \in Status /\ OneThing(item[i], new)
    BY <1>0, <2>1, RowTypes, RowsChangeOneThing DEF Exists
  <2>3. Write(i, new) \/ (item' = item /\ log' = log)
    BY <1>1 DEF ChangeItemStatus
  <2> HIDE DEF new
  <2>4. CASE item' = item /\ log' = log
    BY <2>1, <2>4, LogSame DEF InTransaction
  <2> QED BY <2>1, <2>2, <2>3, <2>4, LogWrite
<1>2. ASSUME NEW d \in Submitted, StartItemTimer(i, d)
      PROVE  LogInv'
  <2> DEFINE new == [item[i] EXCEPT !.started = now, !.duration = Clamp(d), !.elapsed = Null]
  <2>1. Exists(i) /\ arch' = arch
    BY <1>2 DEF StartItemTimer
  <2>2. Clamp(d) \in Nat
    BY <1>0, RowTypes DEF CardsAssumption
  <2>3. new \in ItemRows /\ new.status \in Status
    BY <1>0, <2>1, <2>2 DEF ItemRows, Null, Exists
  <2>4. OneThing(item[i], new)
    BY <1>0, <2>1, RowsChangeOneThing DEF Exists
  <2>5. Write(i, new) \/ (item' = item /\ log' = log)
    BY <1>2 DEF StartItemTimer
  <2> HIDE DEF new
  <2>6. CASE item' = item /\ log' = log
    BY <2>1, <2>6, LogSame DEF InTransaction
  <2> QED BY <2>1, <2>3, <2>4, <2>5, <2>6, LogWrite
<1>3. ASSUME ExtendItemTimer(i)
      PROVE  LogInv'
  <2> DEFINE new == Extended(item[i])
  <2>1. Exists(i) /\ arch' = arch
    BY <1>3 DEF ExtendItemTimer
  <2>2. new \in ItemRows /\ new.status \in Status /\ OneThing(item[i], new)
    BY <1>0, <2>1, RowTypes, RowsChangeOneThing DEF Exists
  <2>3. Write(i, new) \/ (item' = item /\ log' = log)
    BY <1>3 DEF ExtendItemTimer
  <2> HIDE DEF new
  <2>4. CASE item' = item /\ log' = log
    BY <2>1, <2>4, LogSame DEF InTransaction
  <2> QED BY <2>1, <2>2, <2>3, <2>4, LogWrite
<1> QED BY <1>1, <1>2, <1>3, LogAddItem DEF ItemHandler

\* Editing a text is told.
LEMMA LogUpdateItem ==
    ASSUME CardsAssumption, TypeOK, TimerInv, LogInv, NEW q \in Editors, UpdateItem(q)
    PROVE  LogInv'
<1>1. ASSUME UpdateText(q)
      PROVE  LogInv'
  <2> DEFINE i   == edit[q].item
             new == [item[i] EXCEPT !.text = edit[q].text]
  <2>1. i \in Items /\ edit[q].text \in Texts \cup {None}
    BY <1>1 DEF UpdateText, TypeOK, RequestTypeOK, EditStates
  <2>2. item[i] \in ItemRows /\ TimerOK(item[i], now) /\ item[i].status \in Status
    BY <1>1, <2>1 DEF TypeOK, BoardTypeOK, TimerInv, UpdateText, Exists
  <2>3. new \in ItemRows /\ new.status \in Status
    BY <2>1, <2>2 DEF ItemRows
  <2>4. OneThing(item[i], new)
    BY <2>2, RowsChangeOneThing
  <2>5. Exists(i) /\ Write(i, new) /\ arch' = arch
    BY <1>1 DEF UpdateText
  <2> HIDE DEF new, i
  <2> QED BY <2>1, <2>3, <2>4, <2>5, LogWrite
<1>2. ASSUME item' = item, log' = log, arch' = arch
      PROVE  LogInv'
  BY <1>2, LogSame DEF InTransaction
<1> QED BY <1>1, <1>2 DEF UpdateItem, ReadOldText, AbandonEdit, boardVars

\* Archiving: its own event tells no card, whether it commits or not, and what
\* is archived keeps its text and its timer.
LEMMA LogArchiveRetro ==
    ASSUME CardsAssumption, TypeOK, ArchiveInv, LogInv, NEW q \in Archivers, ArchiveRetro(q)
    PROVE  LogInv'
<1>0. /\ log \in Seq(Events) /\ arch \in [Archivers -> ArchiveStates]
      /\ item \in [Items -> ItemRows]
  BY DEF TypeOK, BoardTypeOK, RequestTypeOK
<1>1. ASSUME NEW r \in Retros, CountActive(q, r)
      PROVE  LogInv'
  <2>1. item' = item /\ log' = log
    BY <1>1 DEF CountActive, boardVars
  <2>2. arch' = [arch EXCEPT ![q] = [NoArchive EXCEPT !.pc = "counted", !.retro = r,
                                                     !.seen = Active(r)]]
    BY <1>1 DEF CountActive
  <2>3. arch'[q].pc = "counted"
    BY <1>0, <2>2 DEF NoArchive
  <2> QED BY <1>0, <2>1, <2>2, <2>3, LogSame DEF InTransaction
<1>2. ASSUME InsertArchive(q)
      PROVE  LogInv'
  <2> DEFINE e == [type |-> "RETRO_ARCHIVED", retro |-> arch[q].retro]
  <2>1. e \in Events /\ e.type = "RETRO_ARCHIVED"
    BY <1>0 DEF Events, ArchiveStates
  <2>2. <<e>> \in Seq(Events) /\ log' = log \o <<e>>
    BY <1>0, <1>2, <2>1, AppendIsConcat DEF InsertArchive
  <2>3. item' = item
    BY <1>2 DEF InsertArchive
  <2>4. /\ arch'[q].event = Len(log) + 1
        /\ \A p \in Archivers \ {q} : arch'[p] = arch[p]
    BY <1>0, <1>2 DEF InsertArchive, ArchiveStates
  <2> HIDE DEF e
  <2>5. /\ \A n \in DOMAIN log : n \in DOMAIN log' /\ log'[n] = log[n]
        /\ Len(log) + 1 \in DOMAIN log' /\ log'[Len(log) + 1] = e
    BY <1>0, <2>1, <1>2, AppendProperties, LenProperties DEF InsertArchive, e
  <2>6. OpenEvent'
    BY <2>1, <2>4, <2>5 DEF OpenEvent, InTransaction, LogInv
  <2>7. ASSUME NEW i \in Items, Exists(i)'
        PROVE  LogTold(log', i, item'[i])
    <3>1. \A k \in DOMAIN <<e>> : ~ Says(<<e>>, k, i, CardTypes)
      BY <2>1 DEF Says, CardTypes, ElapsedTypes, TextTypes
    <3>2. LogTold(log, i, item[i])
      BY <2>3, <2>7 DEF LogInv, Exists
    <3> QED BY <1>0, <2>2, <2>3, <3>1, <3>2, ToldUnsaid
  <2> QED BY <2>6, <2>7 DEF LogInv
<1>3. ASSUME ArchiveItems(q) \/ ArchiveActionItems(q)
      PROVE  LogInv'
  <2>1. item' = item /\ log' = log
    BY <1>3 DEF ArchiveItems, ArchiveActionItems, boardVars
  <2>2. InTransaction(q) /\ arch'[q].event = arch[q].event
    BY <1>0, <1>3 DEF ArchiveItems, ArchiveActionItems, ArchiveStates, InTransaction
  <2>3. \A p \in Archivers \ {q} : arch'[p] = arch[p]
    BY <1>0, <1>3 DEF ArchiveItems, ArchiveActionItems
  <2> QED BY <2>1, <2>2, <2>3, LogSame DEF InTransaction
<1>4. ASSUME CommitArchive(q)
      PROVE  LogInv'
  <2>1. log' = log /\ arch' = [arch EXCEPT ![q] = NoArchive]
    BY <1>4 DEF CommitArchive
  <2>2. OpenEvent'
    BY <1>0, <2>1 DEF OpenEvent, LogInv, InTransaction, NoArchive
  <2>3. ASSUME NEW i \in Items, Exists(i)'
        PROVE  LogTold(log', i, item'[i])
    <3> DEFINE new == [item[i] EXCEPT !.status = "ARCHIVED", !.archive = arch[q].id]
    <3>1. item'[i] = IF i \in arch[q].items THEN new ELSE item[i]
      BY <1>4 DEF CommitArchive
    <3>2. CASE i \notin arch[q].items
      BY <2>1, <2>3, <3>1, <3>2 DEF LogInv, Exists
    <3>3. CASE i \in arch[q].items
      <4>1. /\ new.status = "ARCHIVED" /\ new.text = item[i].text /\ new.started = item[i].started
            /\ new.duration = item[i].duration /\ new.elapsed = item[i].elapsed
        BY <1>0 DEF ItemRows
      <4>2. Exists(i)
        BY <3>3 DEF ArchiveInv, RequestInv, Holds
      <4> HIDE DEF new
      <4> QED BY <2>1, <3>1, <3>3, <4>1, <4>2 DEF LogInv, LogTold
    <3> QED BY <3>2, <3>3
  <2> QED BY <2>2, <2>3 DEF LogInv
<1>5. ASSUME AbortArchive(q)
      PROVE  LogInv'
  <2>1. item' = item /\ arch' = [arch EXCEPT ![q] = NoArchive]
    BY <1>5 DEF AbortArchive
  <2>2. CASE arch[q].pc = "counted"
    BY <1>0, <1>5, <2>1, <2>2, LogSame DEF AbortArchive, InTransaction, NoArchive
  <2>3. CASE arch[q].pc # "counted"
    <3> DEFINE n == arch[q].event
    <3>1. InTransaction(q) /\ log' = [log EXCEPT ![n] = NoEvent]
      BY <1>0, <1>5, <2>3 DEF AbortArchive, InTransaction, ArchiveStates
    <3>2. n \in DOMAIN log /\ log[n].type \in {"RETRO_ARCHIVED", None}
      BY <3>1 DEF LogInv, OpenEvent
    <3> HIDE DEF n
    <3>3. DOMAIN log' = DOMAIN log /\ \A m \in DOMAIN log : log'[m] \in {log[m], NoEvent}
      BY <3>1
    <3>4. OpenEvent'
      <4>1. ASSUME NEW p \in Archivers, InTransaction(p)'
            PROVE  InTransaction(p) /\ arch'[p] = arch[p]
        BY <1>0, <2>1, <4>1 DEF InTransaction, NoArchive
      <4>2. NoEvent.type = None
        BY DEF NoEvent
      <4> QED BY <3>3, <4>1, <4>2 DEF OpenEvent, LogInv
    <3>5. ASSUME NEW i \in Items, Exists(i)'
          PROVE  LogTold(log', i, item'[i])
      <4>1. LogTold(log, i, item[i]) /\ item'[i] = item[i]
        BY <2>1, <3>5 DEF LogInv, Exists
      <4>2. /\ Tells(log, i, {"ITEM_CREATED"})
            /\ Tells(log, i, StatusTypes) /\ Tells(log, i, TextTypes)
            /\ Tells(log, i, TimerTypes) /\ Tells(log, i, ElapsedTypes)
        BY <4>1, CreatedIsFound DEF LogTold
      <4>3. /\ None \notin {"ITEM_CREATED"} /\ log[n].type \notin {"ITEM_CREATED"}
            /\ None \notin StatusTypes /\ log[n].type \notin StatusTypes
            /\ None \notin TextTypes /\ log[n].type \notin TextTypes
            /\ None \notin TimerTypes /\ log[n].type \notin TimerTypes
            /\ None \notin ElapsedTypes /\ log[n].type \notin ElapsedTypes
        BY <3>2 DEF StatusTypes, TextTypes, TimerTypes, ElapsedTypes, None
      <4>4. ASSUME NEW types, Tells(log, i, types), None \notin types, log[n].type \notin types
            PROVE  Tells(log', i, types) /\ Newest(log', i, types) = Newest(log, i, types)
        BY ZenonT(40), <1>0, <3>1, <3>2, <4>4, TakenBack
      <4>5. /\ Tells(log', i, {"ITEM_CREATED"})
            /\ Newest(log', i, StatusTypes) = Newest(log, i, StatusTypes)
            /\ Newest(log', i, TextTypes) = Newest(log, i, TextTypes)
            /\ Newest(log', i, TimerTypes) = Newest(log, i, TimerTypes)
            /\ Newest(log', i, ElapsedTypes) = Newest(log, i, ElapsedTypes)
        BY <4>2, <4>3, <4>4
      <4> QED BY <4>1, <4>5, ToldSame
    <3> QED BY <3>4, <3>5 DEF LogInv
  <2> QED BY <2>2, <2>3
<1> QED BY <1>1, <1>2, <1>3, <1>4, <1>5 DEF ArchiveRetro, ArchiveStep

\* A retro that is deleted takes its cards with it; the others are told as before.
LEMMA LogDeleteRetro ==
    ASSUME LogInv, NEW r \in Retros, DeleteRetro(r)
    PROVE  LogInv'
<1>1. log' = log /\ arch' = arch
  BY DEF DeleteRetro
<1>2. ASSUME NEW i \in Items, Exists(i)'
      PROVE  Exists(i) /\ item'[i] = item[i]
  <2>1. item'[i] = IF Home[i] = r THEN [NoItem EXCEPT !.status = "deleted"] ELSE item[i]
    BY DEF DeleteRetro
  <2>2. [NoItem EXCEPT !.status = "deleted"].status = "deleted"
    BY DEF NoItem
  <2> QED BY <1>2, <2>1, <2>2 DEF Exists, Status
<1> QED BY <1>1, <1>2 DEF LogInv, OpenEvent, InTransaction

\* Every row of a sequence of a set's elements is one of them, and all are there.
LEMMA SetToSeqsProperties ==
    ASSUME NEW S, IsFiniteSet(S), NEW s \in SetToSeqs(S)
    PROVE  /\ s \in Seq(S)
           /\ \A x \in S : \E k \in DOMAIN s : s[k] = x
<1> DEFINE D == 1 .. Cardinality(S)
<1>1. Cardinality(S) \in Nat
  BY FS_CardinalityType
<1>2. s \in [D -> S] /\ \A i, j \in D : i # j => s[i] # s[j]
  BY DEF SetToSeqs
<1>3. IsFiniteSet(D) /\ Cardinality(D) = Cardinality(S)
  BY <1>1, FS_Interval
<1>4. s \in Injection(D, S)
  BY <1>2 DEF Injection, IsInjective
<1>5. s \in Surjection(D, S)
  <2> HIDE DEF D
  <2> QED BY <1>3, <1>4, FS_Injection
<1>6. \A x \in S : \E k \in D : s[k] = x
  <2> HIDE DEF D
  <2> QED BY <1>5 DEF Surjection
<1>7. s \in Seq(S)
  BY <1>1, <1>2, SeqDef
<1> QED BY <1>2, <1>6, <1>7

\* The sweep tells of every timer that it marks, and of no other.
LEMMA LogTimerSweep ==
    ASSUME CardsAssumption, TypeOK, LogInv, TimerSweep
    PROVE  LogInv'
<1>0. item \in [Items -> ItemRows] /\ log \in Seq(Events) /\ now \in Nat \ {0}
  BY DEF TypeOK, BoardTypeOK
<1>1. PICK rows \in SetToSeqs(Due) :
          log' = log \o [k \in DOMAIN rows |-> [type |-> "TIMER_ELAPSED", item |-> rows[k]]]
  BY DEF TimerSweep
<1> DEFINE s == [k \in DOMAIN rows |-> [type |-> "TIMER_ELAPSED", item |-> rows[k]]]
<1>2. Due \subseteq Items /\ IsFiniteSet(Due)
  BY FS_Subset DEF Due, CardsAssumption
<1>3. rows \in Seq(Due) /\ \A i \in Due : \E k \in DOMAIN rows : rows[k] = i
  BY <1>1, <1>2, SetToSeqsProperties
<1>4. s \in Seq(Events) /\ DOMAIN s = DOMAIN rows
  <2>1. \A i \in Items : [type |-> "TIMER_ELAPSED", item |-> i] \in Events
    BY DEF Events
  <2>2. rows \in [1 .. Len(rows) -> Items] /\ Len(rows) \in Nat
    BY <1>2, <1>3, LenProperties
  <2>3. s \in [1 .. Len(rows) -> Events]
    BY <2>1, <2>2
  <2> HIDE DEF s
  <2>4. s \in Seq(Events)
    BY <2>2, <2>3, SeqDef
  <2> QED BY <2>2, <2>3, <2>4
<1>5. \A k \in DOMAIN s : s[k].type = "TIMER_ELAPSED" /\ s[k].item = rows[k] /\ rows[k] \in Due
  BY <1>3, <1>4, LenProperties, ElementOfSeq
<1>6. log' = log \o s
  BY <1>1
<1> HIDE DEF s
<1>7. item' = [i \in Items |-> IF i \in Due THEN [item[i] EXCEPT !.elapsed = now] ELSE item[i]]
      /\ arch' = arch
  BY DEF TimerSweep
<1>8. OpenEvent'
  BY <1>4, <1>6, <1>7, OpenEventStays DEF LogInv
<1>9. ASSUME NEW i \in Items, Exists(i)'
      PROVE  LogTold(log', i, item'[i])
  <2> DEFINE new == [item[i] EXCEPT !.elapsed = now]
  <2>1. item'[i] = IF i \in Due THEN new ELSE item[i]
    BY <1>7
  <2>2. /\ new.status = item[i].status /\ new.text = item[i].text
        /\ new.started = item[i].started /\ new.duration = item[i].duration
        /\ new.elapsed = now
    BY <1>0 DEF ItemRows
  <2> HIDE DEF new
  <2>3. LogTold(log, i, item[i])
    BY <1>9, <2>1, <2>2 DEF LogInv, Exists
  <2>4. CASE i \notin Due
    <3>1. \A k \in DOMAIN s : ~ Says(s, k, i, CardTypes)
      BY <1>5, <2>4 DEF Says
    <3> QED BY <1>0, <1>4, <1>6, <2>1, <2>3, <2>4, <3>1, ToldUnsaid
  <2>5. CASE i \in Due
    <3>1. /\ Tells(log, i, {"ITEM_CREATED"})
          /\ Tells(log, i, StatusTypes) /\ Tells(log, i, TextTypes) /\ Tells(log, i, TimerTypes)
      BY <2>3, CreatedIsFound DEF LogTold
    <3>2. \A types : "TIMER_ELAPSED" \notin types => \A k \in DOMAIN s : ~ Says(s, k, i, types)
      BY <1>5 DEF Says
    <3>3. /\ "TIMER_ELAPSED" \notin {"ITEM_CREATED"} /\ "TIMER_ELAPSED" \notin StatusTypes
          /\ "TIMER_ELAPSED" \notin TextTypes /\ "TIMER_ELAPSED" \notin TimerTypes
      BY DEF StatusTypes, TextTypes, TimerTypes
    <3>4. ASSUME NEW types, Tells(log, i, types), "TIMER_ELAPSED" \notin types
          PROVE  Tells(log', i, types) /\ Newest(log', i, types) = Newest(log, i, types)
      BY <1>0, <1>4, <1>6, <3>2, <3>4, NothingSaid
    <3>5. Tells(s, i, ElapsedTypes)
      BY <1>3, <1>4, <1>5, <2>5 DEF Tells, Says, ElapsedTypes
    <3>6. Newest(log', i, ElapsedTypes).type = "TIMER_ELAPSED"
      <4>1. \E k \in DOMAIN s : Newest(log \o s, i, ElapsedTypes) = s[k]
        BY <1>0, <1>4, <3>5, NewlySaid
      <4> QED BY <1>5, <1>6, <4>1
    <3>7. item'[i] = new /\ new.elapsed # Null
      BY <1>0, <2>1, <2>2, <2>5 DEF Null
    <3> QED BY <2>2, <2>3, <3>1, <3>3, <3>4, <3>6, <3>7 DEF LogTold
  <2> QED BY <2>4, <2>5
<1> QED BY <1>8, <1>9 DEF LogInv

\* Every step of the board is told.
THEOREM LogStep ==
    ASSUME CardsAssumption, TypeOK, TimerInv, ArchiveInv, LogInv, [Next]_vars
    PROVE  LogInv'
<1>1. ASSUME NEW a \in ActionItems, ActionItemHandler(a)
      PROVE  LogInv'
  <2>1. item' = item /\ log' = log /\ arch' = arch
    BY <1>1 DEF ActionItemHandler, AddActionItem, UpdateActionItem, CompleteActionItem,
                DeleteActionItem
  <2> QED BY <2>1, LogSame DEF InTransaction
<1>2. CASE Tick
  BY <1>2, LogSame DEF Tick, boardVars, InTransaction
<1>3. CASE UNCHANGED vars
  BY <1>3, LogSame DEF vars, boardVars, InTransaction
<1> QED BY <1>1, <1>2, <1>3, LogItemHandler, LogUpdateItem, LogArchiveRetro, LogDeleteRetro,
           LogTimerSweep DEF Next

\* There is nothing to tell at first.
THEOREM LogInit == Init => LogInv
BY DEF Init, LogInv, OpenEvent, InTransaction, NoArchive, Exists, NoItem, Status

\* "every mutation is pushed": in every reachable state the events of a card
\* tell its text, its timer and, until it is archived, its status.
THEOREM LogTells == Spec => []LogTellsBoard
<1> USE CardsAssumption
<1>1. Spec => []LogInv
  BY TypeInit, TypeStep, TimerInit, TimerStep, ArchiveInit, ArchiveNext, LogInit, LogStep, PTL DEF Spec
<1> QED BY <1>1, LogInvMeaning, PTL

-----------------------------------------------------------------------------
(* The header of a response.                                                *)

\* What a handler reads back is the event of its own statement.
LEMMA ReadsBackOwn ==
    ASSUME NEW l \in Seq(Events), NEW i, NEW e \in Events, e.item = i
    PROVE  LastEvent(l \o <<e>>, i, {e.type}) = Len(l) + 1
BY OneSaid

\* The response to a status change names the event of the change, or nothing
\* when the status stays as it was.
LEMMA StatusHeaderOwn ==
    ASSUME TypeOK, NEW i \in Items, Exists(i), NEW action
    PROVE  LET new == Changed(item[i], action)
           IN  StatusHeader(i, new) = OwnEvent(i, new)
<1> DEFINE row == item[i]
           new == Changed(row, action)
           e   == [type |-> "ITEM_STATUS_CHANGED", item |-> i, status |-> new.status]
<1>0. log \in Seq(Events) /\ row \in ItemRows /\ row.status \in Status
  BY DEF TypeOK, BoardTypeOK, Exists
<1>1. new.archive = row.archive /\ new.status \in Status
  BY <1>0, KeptRows
<1>2. CASE new.status # row.status
  <2>1. ItemEvent(i, row, new) = <<e>>
    BY <1>1, <1>2 DEF ItemEvent
  <2>2. e \in Events /\ e.item = i /\ e.type = "ITEM_STATUS_CHANGED"
    BY <1>1 DEF Events
  <2> HIDE DEF new, e
  <2>3. LastEvent(log \o <<e>>, i, {"ITEM_STATUS_CHANGED"}) = Len(log) + 1
    BY <1>0, <2>2, ReadsBackOwn
  <2>4. <<e>> # << >>
    OBVIOUS
  <2> QED BY <1>2, <2>1, <2>3, <2>4 DEF StatusHeader, OwnEvent, new
<1>3. CASE new.status = row.status
  <2>1. ~ (row.status = "HIGHLIGHTED" /\ action \in {"cancel", "complete"})
    <3> SUFFICES ASSUME row.status = "HIGHLIGHTED", action \in {"cancel", "complete"}
                 PROVE  new.status # row.status
      BY <1>3
    <3>1. new = [ResetTimer(row) EXCEPT !.status = NextStatus(row.status, action)]
      BY DEF Changed
    <3>2. new.status = NextStatus(row.status, action)
      BY <1>0, <3>1 DEF ResetTimer, ItemRows
    <3> QED BY <3>2 DEF NextStatus
  <2>2. new = [row EXCEPT !.status = NextStatus(row.status, action)]
    BY <2>1 DEF Changed
  <2>3. new.text = row.text /\ new.started = row.started /\ new.duration = row.duration
        /\ new.elapsed = row.elapsed
    BY <1>0, <2>2 DEF ItemRows
  <2> HIDE DEF new
  <2>4. ItemEvent(i, row, new) = << >>
    BY <1>1, <1>3, <2>3 DEF ItemEvent, TimerChanged
  <2> QED BY <1>3, <2>4 DEF StatusHeader, OwnEvent, new
<1> QED BY <1>2, <1>3

\* An extension changes the timer, and so writes an event of its own.
LEMMA ExtensionHeaderOwn ==
    ASSUME CardsAssumption, TypeOK, NEW i \in Items, item[i].started # Null
    PROVE  LET e == ItemEvent(i, item[i], Extended(item[i]))
           IN  LastEvent(log \o e, i, {"TIMER_EXTENDED"}) = OwnEvent(i, Extended(item[i]))
<1> DEFINE row == item[i]
           new == Extended(row)
           e   == [type |-> "TIMER_EXTENDED", item |-> i,
                   started |-> new.started, duration |-> new.duration]
<1>0. log \in Seq(Events) /\ row \in ItemRows
  BY DEF TypeOK, BoardTypeOK
<1>1. new \in ItemRows
  BY <1>0, RowTypes
<1>2. /\ new.archive = row.archive /\ new.status = row.status /\ new.started = row.started
      /\ new.duration = row.duration + Extension /\ new.elapsed = Null
  BY <1>0 DEF Extended, ItemRows
<1>3. e \in Events /\ e.item = i /\ e.type = "TIMER_EXTENDED"
  BY <1>1 DEF Events, ItemRows
<1>4. row.duration # new.duration
  <2>1. row.duration \in Nat /\ Extension \in Nat \ {0}
    BY <1>0 DEF ItemRows, CardsAssumption
  <2> QED BY <1>2, <2>1
<1>5. ItemEvent(i, row, new) = <<e>>
  BY <1>2, <1>4 DEF ItemEvent, TimerChanged
<1> HIDE DEF new, e
<1>6. LastEvent(log \o <<e>>, i, {"TIMER_EXTENDED"}) = Len(log) + 1
  BY <1>0, <1>3, ReadsBackOwn
<1>7. <<e>> # << >>
  OBVIOUS
<1> QED BY <1>5, <1>6, <1>7 DEF OwnEvent, new

\* In every step that answers such a request, the header is the event of the request.
LEMMA HeaderStep ==
    ASSUME CardsAssumption, TypeOK, HeaderIsOwnEvent, [Next]_vars
    PROVE  HeaderIsOwnEvent'
<1>0. log \in Seq(Events) /\ Len(log) \in Nat
  BY LenProperties DEF TypeOK, BoardTypeOK
<1>1. ASSUME Silent
      PROVE  HeaderIsOwnEvent'
  BY <1>1 DEF Silent, NoAnswer, None, HeaderIsOwnEvent
<1>2. ASSUME NEW to, NEW own, NEW header, Respond(to, own, header),
             to \in {"add_item", "change_item_status", "extend_item_timer"} => header = own
      PROVE  HeaderIsOwnEvent'
  BY <1>2 DEF Respond, HeaderIsOwnEvent
<1>3. ASSUME NEW i \in Items, NEW text \in Texts, AddItem(i, text)
      PROVE  HeaderIsOwnEvent'
  <2> DEFINE e == [type |-> "ITEM_CREATED", item |-> i, text |-> text, status |-> "CREATED"]
  <2>1. e \in Events /\ e.item = i /\ e.type = "ITEM_CREATED"
    BY DEF Events, Status
  <2>2. log' = log \o <<e>>
    BY <1>0, <1>3, <2>1, AppendIsConcat DEF AddItem
  <2> HIDE DEF e
  <2>3. LastEvent(log', i, {"ITEM_CREATED"}) = Len(log) + 1
    BY <1>0, <2>1, <2>2, ReadsBackOwn
  <2> QED BY <1>2, <1>3, <2>3 DEF AddItem
<1>4. ASSUME NEW i \in Items, NEW action, ChangeItemStatus(i, action)
      PROVE  HeaderIsOwnEvent'
  <2> DEFINE new == Changed(item[i], action)
  <2>1. StatusHeader(i, new) = OwnEvent(i, new)
    BY <1>4, StatusHeaderOwn DEF ChangeItemStatus
  <2>2. \/ Respond("change_item_status", OwnEvent(i, new), StatusHeader(i, new))
        \/ Respond("change_item_status", 0, 0)
    BY <1>4 DEF ChangeItemStatus
  <2> HIDE DEF new
  <2> QED BY <1>2, <2>1, <2>2
<1>5. ASSUME NEW i \in Items, ExtendItemTimer(i)
      PROVE  HeaderIsOwnEvent'
  <2> DEFINE new == Extended(item[i])
  <2>1. CASE item[i].started = Null
    BY <1>2, <1>5, <2>1 DEF ExtendItemTimer
  <2>2. CASE item[i].started # Null
    <3>1. log' = log \o ItemEvent(i, item[i], new)
      BY <1>5, <2>2 DEF ExtendItemTimer, Write
    <3>2. LastEvent(log', i, {"TIMER_EXTENDED"}) = OwnEvent(i, new)
      BY <2>2, <3>1, ExtensionHeaderOwn
    <3>3. Respond("extend_item_timer", OwnEvent(i, new), LastEvent(log', i, {"TIMER_EXTENDED"}))
      BY <1>5, <2>2 DEF ExtendItemTimer
    <3> HIDE DEF new
    <3> QED BY <1>2, <3>2, <3>3
  <2> QED BY <2>1, <2>2
<1>6. ASSUME NEW i \in Items, NEW d \in Submitted, StartItemTimer(i, d)
      PROVE  HeaderIsOwnEvent'
  <2>1. answer'.to = "start_item_timer"
    BY <1>6 DEF StartItemTimer, Respond
  <2> QED BY <2>1 DEF HeaderIsOwnEvent
<1>7. ASSUME NEW q \in Editors, UpdateText(q)
      PROVE  HeaderIsOwnEvent'
  <2>1. answer'.to = "update_item"
    BY <1>7 DEF UpdateText, Respond
  <2> QED BY <2>1 DEF HeaderIsOwnEvent
<1>8. ASSUME NEW i \in Items, ItemHandler(i)
      PROVE  HeaderIsOwnEvent'
  BY <1>3, <1>4, <1>5, <1>6, <1>8 DEF ItemHandler
<1>9. ASSUME NEW q \in Editors, UpdateItem(q)
      PROVE  HeaderIsOwnEvent'
  BY <1>1, <1>7, <1>9 DEF UpdateItem, ReadOldText, AbandonEdit
<1>10. ASSUME NEW a \in ActionItems, ActionItemHandler(a)
       PROVE  HeaderIsOwnEvent'
  BY <1>1, <1>10 DEF ActionItemHandler, AddActionItem, UpdateActionItem, CompleteActionItem,
                     DeleteActionItem
<1>11. ASSUME NEW q \in Archivers, ArchiveRetro(q)
       PROVE  HeaderIsOwnEvent'
  BY <1>1, <1>11 DEF ArchiveRetro, ArchiveStep, CountActive, InsertArchive, ArchiveItems,
                     ArchiveActionItems, CommitArchive, AbortArchive
<1>12. ASSUME (\E r \in Retros : DeleteRetro(r)) \/ TimerSweep \/ Tick
       PROVE  HeaderIsOwnEvent'
  BY <1>1, <1>12 DEF DeleteRetro, TimerSweep, Tick
<1>13. CASE UNCHANGED vars
  BY <1>13 DEF vars, HeaderIsOwnEvent
<1> QED BY <1>8, <1>9, <1>10, <1>11, <1>12, <1>13 DEF Next

\* In the response to an added card, a status change and an extension X-Event-Id is
\* the event that the request itself has written, or missing if it wrote none,
\* whatever other requests write.
THEOREM HeadersAreOwn == Spec => []HeaderIsOwnEvent
<1> USE CardsAssumption
<1>1. Init => HeaderIsOwnEvent
  BY DEF Init, NoAnswer, None, HeaderIsOwnEvent
<1> QED BY <1>1, HeaderStep, CardsTypeCorrect, PTL DEF Spec
=============================================================================
