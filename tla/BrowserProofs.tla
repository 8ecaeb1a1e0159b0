--------------------------- MODULE BrowserProofs ---------------------------
(***************************************************************************)
(* Theorems about Browser, for any number of retros, cards, requests of    *)
(* the tab and other people: what the database does is the board of Cards, *)
(* so its invariants hold here too, and the tab rests on them.             *)
(***************************************************************************)
EXTENDS Browser, CardsProofs

-----------------------------------------------------------------------------
(* Ids in their order.                                                      *)

UpTo(ids, e) == {x \in ids : x <= e}

LEMMA Countable ==
    ASSUME NEW m \in Nat, NEW ids \in SUBSET (0 .. m)
    PROVE  IsFiniteSet(ids) /\ Cardinality(ids) \in Nat
<1>1. IsFiniteSet(0 .. m)
  BY FS_Interval
<1>2. IsFiniteSet(ids)
  BY <1>1, FS_Subset
<1> QED BY <1>2, FS_CardinalityType

\* Ids are counted by the numbers up to the largest.
LEMMA UpToCount ==
    ASSUME NEW m \in Nat, NEW ids \in SUBSET (0 .. m)
    PROVE  /\ IsFiniteSet(ids) /\ Cardinality(ids) \in Nat
           /\ \A e : IsFiniteSet(UpTo(ids, e)) /\ Cardinality(UpTo(ids, e)) \in Nat
<1>1. \A e : UpTo(ids, e) \in SUBSET (0 .. m)
  BY DEF UpTo
<1> QED BY <1>1, Countable

\* There is an n-th id for each n up to their number.
LEMMA NthIs ==
    ASSUME NEW m \in Nat, NEW ids \in SUBSET (0 .. m), NEW n \in 1 .. Cardinality(ids)
    PROVE  Nth(ids, n) \in ids /\ Cardinality(UpTo(ids, Nth(ids, n))) = n
<1> DEFINE R == {ss \in Nat \X Nat : ss[1] < ss[2]}
           T == {e \in ids : n <= Cardinality(UpTo(ids, e))}
<1>a. /\ IsFiniteSet(ids) /\ Cardinality(ids) \in Nat
      /\ \A e : IsFiniteSet(UpTo(ids, e)) /\ Cardinality(UpTo(ids, e)) \in Nat
  BY UpToCount
<1>b. n \in Nat \ {0} /\ n <= Cardinality(ids)
  BY <1>a
<1>0. \A x \in ids : x \in Nat
  OBVIOUS
<1>1. IsWellFoundedOn(R, Nat)
  BY NatLessThanWellFounded DEF OpToRel
<1>2. ids # {}
  BY <1>a, <1>b, FS_EmptySet
<1>3. PICK g \in ids : \A x \in ids : x <= g
  BY <1>2, HasMax
<1>4. T \subseteq Nat /\ g \in T
  <2>1. UpTo(ids, g) = ids
    BY <1>3 DEF UpTo
  <2>2. n <= Cardinality(UpTo(ids, g))
    BY <1>b, <2>1
  <2> QED BY <1>0, <2>2
<1>5. PICK e \in T : \A z \in T : ~ (<<z, e>> \in R)
  <2> HIDE DEF R, T
  <2> QED BY <1>1, <1>4, WFMin
<1>6. e \in ids /\ e \in Nat /\ n <= Cardinality(UpTo(ids, e))
  BY <1>0
<1>7. \A z \in ids : z < e => Cardinality(UpTo(ids, z)) < n
  <2> TAKE z \in ids
  <2>1. z \in Nat /\ (<<z, e>> \in R <=> z < e)
    BY <1>0, <1>6
  <2>2. z \in T <=> n <= Cardinality(UpTo(ids, z))
    OBVIOUS
  <2> HIDE DEF R, T
  <2> QED BY <1>a, <1>b, <1>5, <2>1, <2>2
<1> HIDE DEF R, T
<1>8. Cardinality(UpTo(ids, e)) = n
  <2> DEFINE B == UpTo(ids, e) \ {e}
  <2>1. IsFiniteSet(B) /\ Cardinality(B) = Cardinality(UpTo(ids, e)) - 1
    <3>1. e \in UpTo(ids, e)
      BY <1>6 DEF UpTo
    <3> QED BY <1>a, <3>1, FS_RemoveElement
  <2>2. CASE B = {}
    <3>1. Cardinality(B) = 0
      BY <2>2, FS_EmptySet
    <3> HIDE DEF B
    <3> QED BY <1>a, <1>b, <1>6, <2>1, <3>1
  <2>3. CASE B # {}
    <3>1. B \in SUBSET (0 .. m)
      BY DEF UpTo
    <3>2. PICK z \in B : \A x \in B : x <= z
      <4> HIDE DEF B
      <4> QED BY <2>3, <3>1, HasMax
    <3>3. z \in ids /\ z < e
      BY <1>0, <1>6 DEF UpTo
    <3>4. UpTo(ids, z) = B
      <4>1. ASSUME NEW x \in ids
            PROVE  x <= z <=> x <= e /\ x # e
        <5>1. x \in Nat /\ z \in Nat
          BY <1>0, <3>3
        <5>2. x <= e /\ x # e => x <= z
          BY <3>2 DEF UpTo
        <5> QED BY <1>6, <3>3, <5>1, <5>2
      <4> QED BY <4>1 DEF UpTo
    <3> HIDE DEF B
    <3> QED BY <1>a, <1>b, <1>6, <1>7, <2>1, <3>3, <3>4
  <2> QED BY <2>2, <2>3
<1> QED BY <1>6, <1>8 DEF Nth, UpTo

\* Two ids that as many ids precede are the same.
LEMMA NthIsOne ==
    ASSUME NEW m \in Nat, NEW ids \in SUBSET (0 .. m), NEW a \in ids, NEW b \in ids,
           Cardinality(UpTo(ids, a)) = Cardinality(UpTo(ids, b))
    PROVE  a = b
<1>1. \A x : IsFiniteSet(UpTo(ids, x))
  BY UpToCount
<1>2. ASSUME NEW x \in ids, NEW y \in ids, x < y,
             Cardinality(UpTo(ids, x)) = Cardinality(UpTo(ids, y))
      PROVE  FALSE
  <2>0. \A z \in ids : z \in Nat
    OBVIOUS
  <2>1. UpTo(ids, x) \in SUBSET UpTo(ids, y)
    <3>1. \A z \in ids : z <= x => z <= y
      BY <1>2, <2>0
    <3> QED BY <3>1 DEF UpTo
  <2>2. UpTo(ids, x) = UpTo(ids, y)
    BY <1>1, <1>2, <2>1, FS_Subset
  <2>3. y \in UpTo(ids, y) /\ y \notin UpTo(ids, x)
    BY <1>2 DEF UpTo
  <2> QED BY <2>2, <2>3
<1> QED BY <1>2

\* An id is the n-th when n ids are not above it.
LEMMA IsNth ==
    ASSUME NEW m \in Nat, NEW ids \in SUBSET (0 .. m), NEW e \in ids
    PROVE  /\ Cardinality(UpTo(ids, e)) \in 1 .. Cardinality(ids)
           /\ Nth(ids, Cardinality(UpTo(ids, e))) = e
<1>1. UpTo(ids, e) \in SUBSET ids /\ e \in UpTo(ids, e)
  BY DEF UpTo
<1>2. IsFiniteSet(ids) /\ IsFiniteSet(UpTo(ids, e))
  BY UpToCount
<1>3. Cardinality(UpTo(ids, e)) \in 1 .. Cardinality(ids)
  BY <1>1, <1>2, FS_Subset, FS_EmptySet, FS_CardinalityType
<1> DEFINE n == Cardinality(UpTo(ids, e))
<1>4. Nth(ids, n) \in ids /\ Cardinality(UpTo(ids, Nth(ids, n))) = n
  <2> HIDE DEF n
  <2> QED BY <1>3, NthIs DEF n
<1> QED BY <1>3, <1>4, NthIsOne

\* Ids in their order are a sequence of these ids.
LEMMA InOrderType ==
    ASSUME NEW m \in Nat, NEW ids \in SUBSET (0 .. m)
    PROVE  InOrder(ids) \in Seq(ids)
<1>1. Cardinality(ids) \in Nat
  BY UpToCount
<1>2. \A n \in 1 .. Cardinality(ids) : Nth(ids, n) \in ids
  BY NthIs
<1> QED BY <1>1, <1>2, SeqDef DEF InOrder

\* Ids that are added above leave the n-th what it was.
LEMMA NthStays ==
    ASSUME NEW m \in Nat, NEW ids \in SUBSET (0 .. m), NEW k \in Nat, NEW more \in SUBSET (0 .. k),
           ids \subseteq more, \A x \in more \ ids : \A y \in ids : y < x,
           NEW n \in 1 .. Cardinality(ids)
    PROVE  Nth(more, n) = Nth(ids, n)
<1> DEFINE e == Nth(ids, n)
<1>1. e \in ids /\ Cardinality(UpTo(ids, e)) = n
  BY NthIs
<1> HIDE DEF e
<1>2. UpTo(more, e) = UpTo(ids, e)
  <2>1. \A x \in more : x \in Nat
    OBVIOUS
  <2>2. \A x \in more : x \notin ids => ~ (x <= e)
    BY <1>1, <2>1
  <2> QED BY <2>2 DEF UpTo
<1>3. Nth(more, Cardinality(UpTo(more, e))) = e
  BY <1>1, IsNth
<1> QED BY <1>1, <1>2, <1>3 DEF e

-----------------------------------------------------------------------------
(* How the log grows.                                                       *)

Closing == {"RETRO_ARCHIVED", None}

\* The places that archives have taken, committed or not.
Archiving(l) == {e \in DOMAIN l : l[e].type \in Closing}

\* Events that are none of an archive are added at the end.
Appends == \E s \in Seq(Events) : log' = log \o s /\ \A k \in DOMAIN s : s[k].type \notin Closing

AppendsOnly == Appends /\ Len(archives') = Len(archives)

\* An archive fails after its event took its id.
TakesBack(q) ==
    /\ InTransaction(q)
    /\ log' = [log EXCEPT ![arch[q].event] = NoEvent]
    /\ archives' = [archives EXCEPT ![arch[q].id] = None]
    /\ arch' = [arch EXCEPT ![q] = NoArchive]

LEMMA AppendsNothing ==
    ASSUME TypeOK, log' = log
    PROVE  Appends
<1>1. log \in Seq(Events)
  BY DEF TypeOK, BoardTypeOK
<1>2. << >> \in Seq(Events) /\ log \o << >> = log /\ \A k \in DOMAIN << >> : FALSE
  <2>1. DOMAIN << >> = {}
    OBVIOUS
  <2> QED BY <1>1, <2>1, ConcatEmptySeq
<1> QED BY <1>2 DEF Appends

\* The trigger of a card writes no event of an archive.
LEMMA WriteAppends ==
    ASSUME TypeOK, NEW i \in Items, NEW new \in ItemRows, new.status \in Status, Write(i, new)
    PROVE  Appends
<1> DEFINE s == ItemEvent(i, item[i], new)
<1>1. item[i] \in ItemRows /\ log' = log \o s
  BY DEF TypeOK, BoardTypeOK, Write
<1>2. s \in Seq(Events)
  BY <1>1, ItemEventType
<1>3. s = << >> \/ \E e : s = <<e>> /\ e.type \notin Closing
  BY DEF ItemEvent, Closing, None
<1> HIDE DEF s
<1>4. ASSUME NEW k \in DOMAIN s
      PROVE  s[k].type \notin Closing
  <2>1. CASE s = << >>
    BY <2>1
  <2>2. ASSUME NEW e, s = <<e>>, e.type \notin Closing
        PROVE  s[k].type \notin Closing
    BY <2>2
  <2> QED BY <1>3, <2>1, <2>2
<1> QED BY <1>1, <1>2, <1>4 DEF Appends

LEMMA ItemHandlerAppends ==
    ASSUME CardsAssumption, TypeOK, NEW i \in Items, ItemHandler(i)
    PROVE  Appends
<1>0. item[i] \in ItemRows /\ now \in Nat \ {0} /\ log \in Seq(Events)
  BY DEF TypeOK, BoardTypeOK
<1>1. ASSUME NEW action \in {"highlight", "cancel", "complete"}, ChangeItemStatus(i, action)
      PROVE  Appends
  <2>1. Changed(item[i], action) \in ItemRows /\ Changed(item[i], action).status \in Status
    BY <1>0, <1>1, RowTypes DEF ChangeItemStatus, Exists
  <2>2. Write(i, Changed(item[i], action)) \/ log' = log
    BY <1>1 DEF ChangeItemStatus
  <2> QED BY <2>1, <2>2, AppendsNothing, WriteAppends
<1>2. ASSUME NEW d \in Submitted, StartItemTimer(i, d)
      PROVE  Appends
  <2> DEFINE new == [item[i] EXCEPT !.started = now, !.duration = Clamp(d), !.elapsed = Null]
  <2>1. Clamp(d) \in Nat
    BY <1>0, RowTypes DEF CardsAssumption
  <2>2. new \in ItemRows /\ new.status \in Status
    BY <1>0, <1>2, <2>1 DEF ItemRows, Null, Exists, StartItemTimer
  <2>3. Write(i, new) \/ log' = log
    BY <1>2 DEF StartItemTimer
  <2> HIDE DEF new
  <2> QED BY <2>2, <2>3, AppendsNothing, WriteAppends
<1>3. ASSUME ExtendItemTimer(i)
      PROVE  Appends
  <2>1. Extended(item[i]) \in ItemRows /\ Extended(item[i]).status \in Status
    BY <1>0, <1>3, RowTypes DEF ExtendItemTimer, Exists
  <2>2. Write(i, Extended(item[i])) \/ log' = log
    BY <1>3 DEF ExtendItemTimer
  <2> QED BY <2>1, <2>2, AppendsNothing, WriteAppends
<1>4. ASSUME NEW text \in Texts, AddItem(i, text)
      PROVE  Appends
  <2> DEFINE e == [type |-> "ITEM_CREATED", item |-> i, text |-> text, status |-> "CREATED"]
  <2>1. e \in Events /\ e.type \notin Closing
    BY DEF Events, Status, Closing, None
  <2>2. log' = Append(log, e)
    BY <1>4 DEF AddItem
  <2> HIDE DEF e
  <2>3. <<e>> \in Seq(Events) /\ log' = log \o <<e>> /\ \A k \in DOMAIN <<e>> : <<e>>[k] = e
    BY <1>0, <2>1, <2>2, AppendIsConcat
  <2> QED BY <2>1, <2>3 DEF Appends
<1> QED BY <1>1, <1>2, <1>3, <1>4 DEF ItemHandler

LEMMA UpdateItemAppends ==
    ASSUME TypeOK, NEW q \in Editors, UpdateItem(q)
    PROVE  Appends
<1>1. ASSUME UpdateText(q)
      PROVE  Appends
  <2> DEFINE i   == edit[q].item
             new == [item[i] EXCEPT !.text = edit[q].text]
  <2>1. i \in Items /\ edit[q].text \in Texts \cup {None}
    BY <1>1 DEF UpdateText, TypeOK, RequestTypeOK, EditStates
  <2>2. item[i] \in ItemRows /\ item[i].status \in Status /\ Write(i, new)
    BY <1>1, <2>1 DEF TypeOK, BoardTypeOK, UpdateText, Exists
  <2>3. new \in ItemRows /\ new.status \in Status
    BY <2>1, <2>2 DEF ItemRows
  <2> HIDE DEF new, i
  <2> QED BY <2>1, <2>2, <2>3, WriteAppends
<1>2. UpdateText(q) \/ log' = log
  BY DEF UpdateItem, ReadOldText, AbandonEdit
<1> QED BY <1>1, <1>2, AppendsNothing

LEMMA TimerSweepAppends ==
    ASSUME CardsAssumption, TypeOK, TimerSweep
    PROVE  Appends
<1>1. PICK rows \in SetToSeqs(Due) :
          log' = log \o [k \in DOMAIN rows |-> [type |-> "TIMER_ELAPSED", item |-> rows[k]]]
  BY DEF TimerSweep
<1> DEFINE s == [k \in DOMAIN rows |-> [type |-> "TIMER_ELAPSED", item |-> rows[k]]]
<1>2. Due \subseteq Items /\ IsFiniteSet(Due)
  BY FS_Subset DEF Due, CardsAssumption
<1>3. rows \in Seq(Due)
  BY <1>1, <1>2, SetToSeqsProperties
<1>4. \A i \in Items : [type |-> "TIMER_ELAPSED", item |-> i] \in Events
  BY DEF Events
<1>5. rows \in [1 .. Len(rows) -> Items] /\ Len(rows) \in Nat
  BY <1>2, <1>3, LenProperties
<1>6. s \in [1 .. Len(rows) -> Events] /\ \A k \in DOMAIN s : s[k].type = "TIMER_ELAPSED"
  BY <1>4, <1>5
<1>7. log' = log \o s
  BY <1>1
<1> HIDE DEF s
<1>8. s \in Seq(Events)
  BY <1>5, <1>6, SeqDef
<1> QED BY <1>6, <1>7, <1>8 DEF Appends, Closing, None

\* A step adds events of cards, or an archive takes an id or gives one up.
LEMMA LogChanges ==
    ASSUME CardsAssumption, TypeOK, [Next]_vars
    PROVE  \/ AppendsOnly
           \/ \E q \in Archivers : InsertArchive(q)
           \/ \E q \in Archivers : TakesBack(q)
<1>1. ASSUME log' = log, archives' = archives
      PROVE  AppendsOnly
  BY <1>1, AppendsNothing DEF AppendsOnly
<1>2. ASSUME NEW i \in Items, ItemHandler(i)
      PROVE  AppendsOnly
  <2>1. archives' = archives
    BY <1>2 DEF ItemHandler, AddItem, ChangeItemStatus, StartItemTimer, ExtendItemTimer
  <2> QED BY <1>2, <2>1, ItemHandlerAppends DEF AppendsOnly
<1>3. ASSUME NEW q \in Editors, UpdateItem(q)
      PROVE  AppendsOnly
  <2>1. archives' = archives
    BY <1>3 DEF UpdateItem, ReadOldText, UpdateText, AbandonEdit, boardVars
  <2> QED BY <1>3, <2>1, UpdateItemAppends DEF AppendsOnly
<1>4. ASSUME NEW a \in ActionItems, ActionItemHandler(a)
      PROVE  AppendsOnly
  <2>1. archives' = archives /\ log' = log
    BY <1>4 DEF ActionItemHandler, AddActionItem, UpdateActionItem, CompleteActionItem,
                DeleteActionItem
  <2> QED BY <1>1, <2>1
<1>5. ASSUME NEW q \in Archivers, ArchiveRetro(q)
      PROVE  AppendsOnly \/ InsertArchive(q) \/ TakesBack(q)
  <2>1. CASE AbortArchive(q)
    <3>1. CASE arch[q].pc = "counted"
      BY <1>1, <2>1, <3>1 DEF AbortArchive
    <3>2. CASE arch[q].pc # "counted"
      <4>1. InTransaction(q)
        BY <2>1, <3>2, ArchTypes DEF AbortArchive, InTransaction
      <4> QED BY <2>1, <3>2, <4>1 DEF AbortArchive, TakesBack
    <3> QED BY <3>1, <3>2
  <2>2. CASE InsertArchive(q)
    BY <2>2
  <2>3. CASE ~ AbortArchive(q) /\ ~ InsertArchive(q)
    <3>1. archives' = archives /\ log' = log
      BY <1>5, <2>3 DEF ArchiveRetro, ArchiveStep, CountActive, ArchiveItems, ArchiveActionItems,
                        CommitArchive, boardVars
    <3> QED BY <1>1, <3>1
  <2> QED BY <2>1, <2>2, <2>3
<1>6. ASSUME NEW r \in Retros, DeleteRetro(r)
      PROVE  AppendsOnly
  <2>1. log' = log /\ archives' = [n \in DOMAIN archives |-> IF archives[n] = r THEN None ELSE archives[n]]
    BY <1>6 DEF DeleteRetro
  <2>2. archives \in Seq(Retros \cup {None})
    BY DEF TypeOK, BoardTypeOK
  <2>3. Len(archives') = Len(archives)
    BY <2>1, <2>2
  <2> QED BY <2>1, <2>3, AppendsNothing DEF AppendsOnly
<1>7. ASSUME TimerSweep
      PROVE  AppendsOnly
  <2>1. archives' = archives
    BY <1>7 DEF TimerSweep
  <2> QED BY <1>7, <2>1, TimerSweepAppends DEF AppendsOnly
<1>8. CASE Tick
  BY <1>1, <1>8 DEF Tick, boardVars
<1>9. CASE UNCHANGED vars
  BY <1>1, <1>9 DEF vars, boardVars
<1>10. Next => AppendsOnly \/ \E q \in Archivers : InsertArchive(q) \/ TakesBack(q)
  BY <1>2, <1>3, <1>4, <1>5, <1>6, <1>7, <1>8, Zenon DEF Next
<1> QED BY <1>9, <1>10

\* The log keeps its events, but those of archives that fail.
LEMMA LogKeeps ==
    ASSUME CardsAssumption, TypeOK, OpenEvent, [Next]_vars
    PROVE  /\ Len(log) <= Len(log') /\ DOMAIN log \subseteq DOMAIN log'
           /\ \A e \in DOMAIN log :
                 log'[e] = log[e] \/ (log[e].type \in Closing /\ log'[e].type = None)
<1>0. log \in Seq(Events) /\ Len(log) \in Nat /\ DOMAIN log = 1 .. Len(log)
  BY LenProperties DEF TypeOK, BoardTypeOK
<1>1. CASE AppendsOnly
  <2>1. PICK s \in Seq(Events) : log' = log \o s
    BY <1>1 DEF AppendsOnly, Appends
  <2> QED BY <1>0, <2>1, ConcatProperties, LenProperties
<1>2. ASSUME NEW q \in Archivers, InsertArchive(q)
      PROVE  /\ Len(log) <= Len(log') /\ DOMAIN log \subseteq DOMAIN log'
             /\ \A e \in DOMAIN log : log'[e] = log[e]
  <2> DEFINE e == [type |-> "RETRO_ARCHIVED", retro |-> arch[q].retro]
  <2>1. log' = Append(log, e)
    BY <1>2 DEF InsertArchive
  <2>2. e \in Events
    BY ArchTypes DEF Events
  <2> HIDE DEF e
  <2> QED BY <1>0, <2>1, <2>2, AppendProperties
<1>3. ASSUME NEW q \in Archivers, TakesBack(q)
      PROVE  /\ Len(log') = Len(log) /\ DOMAIN log' = DOMAIN log
             /\ \A e \in DOMAIN log :
                   log'[e] = log[e] \/ (log[e].type \in Closing /\ log'[e].type = None)
  <2>1. /\ log' = [log EXCEPT ![arch[q].event] = NoEvent] /\ NoEvent.type = None
        /\ arch[q].event \in DOMAIN log /\ log[arch[q].event].type \in Closing
    BY <1>3 DEF TakesBack, OpenEvent, Closing, NoEvent
  <2>2. NoEvent \in Events
    BY DEF NoEvent, Events
  <2>3. log' \in Seq(Events) /\ DOMAIN log' = DOMAIN log
    BY <1>0, <2>1, <2>2, SeqExcept
  <2>4. Len(log') = Len(log)
    BY <1>0, <2>3, LenProperties
  <2>5. \A e \in DOMAIN log : log'[e] = IF e = arch[q].event THEN NoEvent ELSE log[e]
    BY <1>0, <2>1
  <2> QED BY <2>1, <2>3, <2>4, <2>5
<1> QED BY <1>0, <1>1, <1>2, <1>3, LogChanges

LEMMA ArchivingType ==
    ASSUME NEW l \in Seq(Events)
    PROVE  Len(l) \in Nat /\ DOMAIN l = 1 .. Len(l) /\ Archiving(l) \in SUBSET (0 .. Len(l))
<1>1. Len(l) \in Nat /\ DOMAIN l = 1 .. Len(l)
  BY LenProperties
<1>2. Archiving(l) \subseteq 0 .. Len(l)
  BY <1>1 DEF Archiving
<1> QED BY <1>1, <1>2

\* Only the beginning of an archive takes a place for it.
LEMMA ArchivingStep ==
    ASSUME CardsAssumption, TypeOK, OpenEvent, [Next]_vars
    PROVE  \/ Archiving(log') = Archiving(log) /\ Len(archives') = Len(archives)
           \/ \E q \in Archivers : /\ InsertArchive(q)
                                   /\ Archiving(log') = Archiving(log) \cup {Len(log) + 1}
                                   /\ Len(archives') = Len(archives) + 1
<1>0. /\ log \in Seq(Events) /\ Len(log) \in Nat /\ DOMAIN log = 1 .. Len(log)
      /\ archives \in Seq(Retros \cup {None})
  BY LenProperties DEF TypeOK, BoardTypeOK
<1>1. ASSUME AppendsOnly
      PROVE  Archiving(log') = Archiving(log) /\ Len(archives') = Len(archives)
  <2>1. PICK s \in Seq(Events) : log' = log \o s /\ \A k \in DOMAIN s : s[k].type \notin Closing
    BY <1>1 DEF AppendsOnly, Appends
  <2>2. /\ Len(s) \in Nat /\ DOMAIN s = 1 .. Len(s) /\ DOMAIN log' = 1 .. Len(log) + Len(s)
        /\ \A e \in DOMAIN log' : log'[e] = IF e <= Len(log) THEN log[e] ELSE s[e - Len(log)]
    BY <1>0, <2>1, ConcatProperties, LenProperties
  <2>3. ASSUME NEW e \in DOMAIN log', log'[e].type \in Closing
        PROVE  e \in DOMAIN log /\ log[e].type \in Closing
    <3>1. CASE e <= Len(log)
      BY <1>0, <2>2, <2>3, <3>1
    <3>2. CASE ~ (e <= Len(log))
      <4>1. e - Len(log) \in DOMAIN s
        BY <1>0, <2>2, <3>2
      <4> QED BY <2>1, <2>2, <2>3, <3>2, <4>1
    <3> QED BY <3>1, <3>2
  <2>4. \A e \in DOMAIN log : e \in DOMAIN log' /\ log'[e] = log[e]
    BY <1>0, <2>2
  <2>5. Archiving(log') = Archiving(log)
    BY <2>3, <2>4 DEF Archiving
  <2> QED BY <1>1, <2>5 DEF AppendsOnly
<1>2. ASSUME NEW q \in Archivers, InsertArchive(q)
      PROVE  /\ Archiving(log') = Archiving(log) \cup {Len(log) + 1}
             /\ Len(archives') = Len(archives) + 1
  <2> DEFINE e == [type |-> "RETRO_ARCHIVED", retro |-> arch[q].retro]
  <2>1. log' = Append(log, e) /\ archives' = Append(archives, arch[q].retro)
    BY <1>2 DEF InsertArchive
  <2>2. e \in Events /\ e.type \in Closing /\ arch[q].retro \in Retros \cup {None}
    BY ArchTypes DEF Events, Closing
  <2> HIDE DEF e
  <2>3. /\ DOMAIN log' = 1 .. Len(log) + 1
        /\ \A k \in 1 .. Len(log) : log'[k] = log[k]
        /\ log'[Len(log) + 1] = e
    BY <1>0, <2>1, <2>2, AppendProperties, LenProperties
  <2>4. \A k \in DOMAIN log' : k \in DOMAIN log \/ k = Len(log) + 1
    BY <1>0, <2>3
  <2>5. Archiving(log') = Archiving(log) \cup {Len(log) + 1}
    BY <1>0, <2>2, <2>3, <2>4 DEF Archiving
  <2>6. Len(archives') = Len(archives) + 1
    BY <1>0, <2>1, <2>2, AppendProperties
  <2> QED BY <2>5, <2>6
<1>3. ASSUME NEW q \in Archivers, TakesBack(q)
      PROVE  Archiving(log') = Archiving(log) /\ Len(archives') = Len(archives)
  <2>1. /\ log' = [log EXCEPT ![arch[q].event] = NoEvent] /\ NoEvent.type \in Closing
        /\ log[arch[q].event].type \in Closing
    BY <1>3 DEF TakesBack, OpenEvent, Closing, NoEvent
  <2>2. NoEvent \in Events
    BY DEF NoEvent, Events
  <2>3. DOMAIN log' = DOMAIN log
    BY <1>0, <2>1, <2>2, SeqExcept
  <2>4. \A e \in DOMAIN log : log'[e] = IF e = arch[q].event THEN NoEvent ELSE log[e]
    BY <1>0, <2>1
  <2>5. Archiving(log') = Archiving(log)
    BY <2>1, <2>3, <2>4 DEF Archiving
  <2>6. archives' = [archives EXCEPT ![arch[q].id] = None]
    BY <1>3 DEF TakesBack
  <2>7. archives' \in Seq(Retros \cup {None}) /\ DOMAIN archives' = DOMAIN archives
    BY <1>0, <2>6, SeqExcept
  <2>8. Len(archives') = Len(archives)
    BY <1>0, <2>7, LenProperties
  <2> QED BY <2>5, <2>8
<1>4. AppendsOnly \/ \E q \in Archivers : InsertArchive(q) \/ TakesBack(q)
  BY LogChanges
<1> QED BY <1>1, <1>2, <1>3, <1>4

\* Every archive has a place in the log, in the order of the archives, and an
\* open transaction knows its own.
PlacesInv ==
    /\ Cardinality(Archiving(log)) = Len(archives)
    /\ \A q \in Archivers : InTransaction(q) => ArchiveEvent(arch[q].id, log) = arch[q].event

LEMMA ArchiveEventIs == \A n, l : ArchiveEvent(n, l) = Nth(Archiving(l), n)
  BY DEF ArchiveEvent, Archiving, Closing

\* The place of an archive that has begun does not change.
LEMMA ArchiveEventStays ==
    ASSUME CardsAssumption, TypeOK, TypeOK', OpenEvent, PlacesInv, [Next]_vars,
           NEW n \in 1 .. Len(archives)
    PROVE  ArchiveEvent(n, log') = ArchiveEvent(n, log)
<1>0. log \in Seq(Events) /\ log' \in Seq(Events) /\ archives \in Seq(Retros \cup {None})
  BY DEF TypeOK, BoardTypeOK
<1>1. /\ Len(log) \in Nat /\ Archiving(log) \in SUBSET (0 .. Len(log))
      /\ Len(log') \in Nat /\ Archiving(log') \in SUBSET (0 .. Len(log'))
  BY <1>0, ArchivingType
<1>2. n \in 1 .. Cardinality(Archiving(log))
  BY DEF PlacesInv
<1>3. CASE Archiving(log') = Archiving(log)
  BY <1>3, ArchiveEventIs
<1>4. CASE Archiving(log') = Archiving(log) \cup {Len(log) + 1}
  <2>1. \A x \in Archiving(log') \ Archiving(log) : \A y \in Archiving(log) : y < x
    BY <1>1, <1>4
  <2>2. Archiving(log) \subseteq Archiving(log')
    BY <1>4
  <2>3. Nth(Archiving(log'), n) = Nth(Archiving(log), n)
    BY ZenonT(40), <1>1, <1>2, <2>1, <2>2, NthStays
  <2> QED BY <2>3, ArchiveEventIs
<1> QED BY <1>3, <1>4, ArchivingStep

\* A request is in a transaction because it was, or because it begins one.
LEMMA InTransactionStep ==
    ASSUME TypeOK, [Next]_vars, NEW q \in Archivers, InTransaction(q)'
    PROVE  \/ /\ InTransaction(q)
              /\ arch'[q].id = arch[q].id /\ arch'[q].event = arch[q].event
              /\ arch'[q].retro = arch[q].retro
           \/ InsertArchive(q)
<1>0. arch \in [Archivers -> ArchiveStates]
  BY DEF TypeOK, RequestTypeOK
<1>1. CASE arch' = arch
  BY <1>1 DEF InTransaction
<1>2. ASSUME NEW p \in Archivers, ArchiveRetro(p)
      PROVE  \/ /\ InTransaction(q)
                /\ arch'[q].id = arch[q].id /\ arch'[q].event = arch[q].event
                /\ arch'[q].retro = arch[q].retro
             \/ InsertArchive(q)
  <2>1. CASE p # q
    <3>1. arch'[q] = arch[q]
      BY <1>0, <1>2, <2>1 DEF ArchiveRetro, ArchiveStep, CountActive, InsertArchive, ArchiveItems,
                              ArchiveActionItems, CommitArchive, AbortArchive
    <3> QED BY <3>1 DEF InTransaction
  <2>2. CASE p = q
    <3>1. ASSUME NEW r \in Retros, CountActive(q, r)
          PROVE  FALSE
      <4>1. arch'[q].pc = "counted"
        BY <1>0, <3>1 DEF CountActive, NoArchive
      <4> QED BY <4>1 DEF InTransaction
    <3>2. CASE CommitArchive(q) \/ AbortArchive(q)
      <4>1. arch'[q].pc = "idle"
        <5>1. arch' = [arch EXCEPT ![q] = NoArchive]
          BY <3>2 DEF CommitArchive, AbortArchive
        <5> QED BY <1>0, <5>1 DEF NoArchive
      <4> QED BY <4>1 DEF InTransaction
    <3>3. CASE ArchiveItems(q)
      <4>1. arch' = [arch EXCEPT ![q].pc = "items", ![q].items = Archivable(arch[q].retro)]
            /\ arch[q].pc = "inserted"
        BY <3>3 DEF ArchiveItems
      <4> QED BY <1>0, <4>1 DEF InTransaction, ArchiveStates
    <3>4. CASE ArchiveActionItems(q)
      <4>1. arch' = [arch EXCEPT ![q].pc = "action_items",
                                 ![q].actionItems = ActiveActionItems(arch[q].retro)]
            /\ arch[q].pc = "items"
        BY <3>4 DEF ArchiveActionItems
      <4> QED BY <1>0, <4>1 DEF InTransaction, ArchiveStates
    <3> QED BY <1>2, <2>2, <3>1, <3>2, <3>3, <3>4 DEF ArchiveRetro, ArchiveStep
  <2> QED BY <2>1, <2>2
<1>3. arch' = arch \/ \E p \in Archivers : ArchiveRetro(p)
  BY Zenon DEF Next, ItemHandler, AddItem, ChangeItemStatus, StartItemTimer, ExtendItemTimer,
     UpdateItem, ReadOldText, UpdateText, AbandonEdit, ActionItemHandler, AddActionItem,
     UpdateActionItem, CompleteActionItem, DeleteActionItem, DeleteRetro, TimerSweep, Tick, vars
<1> QED BY <1>1, <1>2, <1>3

LEMMA PlacesStep ==
    ASSUME CardsAssumption, TypeOK, TypeOK', ArchiveInv, OpenEvent, PlacesInv, [Next]_vars
    PROVE  PlacesInv'
<1>0. log \in Seq(Events) /\ log' \in Seq(Events) /\ archives \in Seq(Retros \cup {None})
  BY DEF TypeOK, BoardTypeOK
<1>1. /\ Len(log) \in Nat /\ Archiving(log) \in SUBSET (0 .. Len(log))
      /\ Len(log') \in Nat /\ Archiving(log') \in SUBSET (0 .. Len(log'))
      /\ Len(archives) \in Nat
  BY <1>0, ArchivingType, LenProperties
<1>2. Cardinality(Archiving(log)) = Len(archives) /\ IsFiniteSet(Archiving(log))
  BY <1>1, Countable DEF PlacesInv
<1>3. Len(log) + 1 \notin Archiving(log)
  BY <1>1
<1>4. IsFiniteSet(Archiving(log) \cup {Len(log) + 1})
      /\ Cardinality(Archiving(log) \cup {Len(log) + 1}) = Len(archives) + 1
  BY <1>2, <1>3, FS_AddElement
<1>5. Cardinality(Archiving(log')) = Len(archives')
  BY <1>2, <1>4, ArchivingStep
<1>6. ASSUME NEW q \in Archivers, InTransaction(q)'
      PROVE  ArchiveEvent(arch'[q].id, log') = arch'[q].event
  <2>1. ASSUME InTransaction(q), arch'[q].id = arch[q].id, arch'[q].event = arch[q].event
        PROVE  ArchiveEvent(arch'[q].id, log') = arch'[q].event
    <3>1. ArchiveEvent(arch[q].id, log) = arch[q].event
      BY <2>1 DEF PlacesInv
    <3>2. arch[q].id \in 1 .. Len(archives)
      BY <1>0, <2>1, LenProperties DEF ArchiveInv, RequestInv, OpenArchive
    <3> QED BY <2>1, <3>1, <3>2, ArchiveEventStays
  <2>2. ASSUME InsertArchive(q)
        PROVE  ArchiveEvent(arch'[q].id, log') = arch'[q].event
    <3>1. arch'[q].id = Len(archives) + 1 /\ arch'[q].event = Len(log) + 1
      <4>1. arch \in [Archivers -> ArchiveStates]
        BY DEF TypeOK, RequestTypeOK
      <4>2. arch' = [arch EXCEPT ![q].pc = "inserted", ![q].id = Len(archives) + 1,
                                 ![q].event = Len(log) + 1]
        BY <2>2 DEF InsertArchive
      <4> QED BY <4>1, <4>2 DEF ArchiveStates
    <3>2. archives' = Append(archives, arch[q].retro) /\ arch[q].retro \in Retros \cup {None}
      BY <2>2, ArchTypes DEF InsertArchive
    <3>3. Len(archives') = Len(archives) + 1
      BY <1>0, <3>2, AppendProperties
    <3>4. Archiving(log') = Archiving(log) \cup {Len(log) + 1}
      <4>1. Len(archives') # Len(archives)
        BY <1>1, <3>3
      <4> QED BY <4>1, ArchivingStep
    <3>5. UpTo(Archiving(log'), Len(log) + 1) = Archiving(log')
      <4>1. \A x \in Archiving(log') : x <= Len(log) + 1
        BY <1>1, <3>4
      <4> QED BY <4>1 DEF UpTo
    <3>6. Nth(Archiving(log'), Cardinality(UpTo(Archiving(log'), Len(log) + 1))) = Len(log) + 1
      BY <1>1, <3>4, IsNth
    <3> QED BY <1>5, <3>1, <3>3, <3>5, <3>6, ArchiveEventIs
  <2> QED BY <1>6, <2>1, <2>2, InTransactionStep
<1> QED BY <1>5, <1>6 DEF PlacesInv

-----------------------------------------------------------------------------
(* The database under the tab.                                              *)

BoardInv == TypeOK /\ TimerInv /\ ArchiveInv /\ LogInv /\ PlacesInv

\* A step of the tab that changes the database is one of the board of Cards.
LEMMA BoardStep ==
    ASSUME CardsAssumption, BoardInv, [Next]_vars
    PROVE  BoardInv'
<1>1. TypeOK'
  BY TypeStep DEF BoardInv
<1>2. TimerInv'
  BY TimerStep DEF BoardInv
<1>3. ArchiveInv'
  BY ArchiveNext DEF BoardInv
<1>4. LogInv'
  BY LogStep DEF BoardInv
<1>5. PlacesInv'
  BY <1>1, PlacesStep DEF BoardInv, LogInv
<1> QED BY <1>1, <1>2, <1>3, <1>4, <1>5 DEF BoardInv

CardEvents == {e \in Events : e.type \notin Closing}

\* The three kinds of events that the cards of the page have at first.
Announces(a, text) ==
    /\ a \in Seq(CardEvents)
    /\ \A k \in DOMAIN a : /\ a[k].type = "ITEM_CREATED" /\ a[k].status = "CREATED"
                           /\ a[k].item \in AtLoad /\ a[k].text = text[a[k].item]
    /\ \A i \in AtLoad : \E k \in DOMAIN a : a[k].item = i

Highlights(b) ==
    /\ b \in Seq(CardEvents)
    /\ \A k \in DOMAIN b : /\ b[k].type = "ITEM_STATUS_CHANGED" /\ b[k].status = "HIGHLIGHTED"
                           /\ b[k].item \in Running
    /\ \A i \in Running : \E k \in DOMAIN b : b[k].item = i

Starts(c) ==
    /\ c \in Seq(CardEvents)
    /\ \A k \in DOMAIN c : /\ c[k].type = "TIMER_STARTED" /\ c[k].item \in Running
                           /\ c[k].started = 1 /\ c[k].duration = MaxDuration
    /\ \A i \in Running : \E k \in DOMAIN c : c[k].item = i

LEMMA CardEventsEvents == \A s \in Seq(CardEvents) : s \in Seq(Events)
<1>1. CardEvents \subseteq Events
  BY DEF CardEvents
<1> QED BY <1>1

LEMMA LoadedTypes ==
    /\ "ITEM_CREATED" \in StatusTypes /\ "ITEM_CREATED" \in TextTypes
    /\ "ITEM_CREATED" \in TimerTypes /\ "ITEM_CREATED" \in ElapsedTypes
    /\ "ITEM_STATUS_CHANGED" \in StatusTypes /\ "ITEM_STATUS_CHANGED" \notin TextTypes
    /\ "TIMER_STARTED" \notin StatusTypes /\ "TIMER_STARTED" \notin TextTypes
    /\ "TIMER_STARTED" \in TimerTypes /\ "TIMER_STARTED" \in ElapsedTypes
BY DEF StatusTypes, TextTypes, TimerTypes, ElapsedTypes

LEMMA Announced ==
    ASSUME NEW text, NEW a, Announces(a, text), NEW i \in AtLoad, NEW types, "ITEM_CREATED" \in types
    PROVE  /\ Tells(a, i, types) /\ Newest(a, i, types).type = "ITEM_CREATED"
           /\ Newest(a, i, types).text = text[i] /\ Newest(a, i, types).status = "CREATED"
<1>1. a \in Seq(Events)
  BY CardEventsEvents DEF Announces
<1>2. Tells(a, i, types)
  BY DEF Tells, Says, Announces
<1>3. LastEvent(a, i, types) \in DOMAIN a /\ a[LastEvent(a, i, types)].item = i
  BY <1>1, <1>2, LastEventLast DEF Says
<1> QED BY <1>2, <1>3 DEF Newest, Announces

\* A card of the page that is not highlighted is told.
LEMMA LoadedPlain ==
    ASSUME NEW text, NEW a, Announces(a, text), NEW b, Highlights(b), NEW c, Starts(c),
           NEW i \in AtLoad \ Running, NEW row, row.status = "CREATED", row.text = text[i],
           row.started = Null, row.duration = Null, row.elapsed = Null
    PROVE  LogTold((a \o b) \o c, i, row)
<1>1. a \in Seq(Events) /\ b \in Seq(Events) /\ c \in Seq(Events) /\ a \o b \in Seq(Events)
  <2>1. a \in Seq(Events) /\ b \in Seq(Events) /\ c \in Seq(Events)
    BY CardEventsEvents DEF Announces, Highlights, Starts
  <2> QED BY <2>1, ConcatProperties
<1>2. /\ Tells(a, i, {"ITEM_CREATED"}) /\ Newest(a, i, StatusTypes).status = "CREATED"
      /\ Newest(a, i, TextTypes).text = text[i]
      /\ Newest(a, i, TimerTypes).type = "ITEM_CREATED"
      /\ Newest(a, i, ElapsedTypes).type = "ITEM_CREATED"
  <2> HIDE DEF Announces
  <2> QED BY Announced, LoadedTypes
<1>3. LogTold(a, i, row)
  BY <1>2 DEF LogTold, TimerOf
<1>4. (\A k \in DOMAIN b : ~ Says(b, k, i, CardTypes)) /\ \A k \in DOMAIN c : ~ Says(c, k, i, CardTypes)
  BY DEF Says, Highlights, Starts
<1>5. LogTold(a \o b, i, row)
  BY <1>1, <1>3, <1>4, ToldUnsaid
<1> QED BY <1>1, <1>4, <1>5, ToldUnsaid

\* A card of the page that is highlighted is told, with its timer.
LEMMA LoadedRunning ==
    ASSUME BrowserAssumption,
           NEW text, NEW a, Announces(a, text), NEW b, Highlights(b), NEW c, Starts(c),
           NEW i \in Running, NEW row, row.status = "HIGHLIGHTED", row.text = text[i],
           row.started = 1, row.duration = MaxDuration, row.elapsed = Null
    PROVE  LogTold((a \o b) \o c, i, row)
<1>1. a \in Seq(Events) /\ b \in Seq(Events) /\ c \in Seq(Events) /\ a \o b \in Seq(Events)
  <2>1. a \in Seq(Events) /\ b \in Seq(Events) /\ c \in Seq(Events)
    BY CardEventsEvents DEF Announces, Highlights, Starts
  <2> QED BY <2>1, ConcatProperties
<1>2. PICK ab \in Seq(Events) : ab = a \o b
  BY <1>1
<1>3. i \in AtLoad
  BY DEF BrowserAssumption
<1>4. ASSUME NEW types, "ITEM_CREATED" \in types, "ITEM_STATUS_CHANGED" \notin types,
             "TIMER_STARTED" \notin types
      PROVE  Tells(ab \o c, i, types) /\ Newest(ab \o c, i, types).text = text[i]
  <2>1. Tells(a, i, types) /\ Newest(a, i, types).text = text[i]
    BY <1>3, <1>4, Announced
  <2>2. (\A k \in DOMAIN b : ~ Says(b, k, i, types)) /\ \A k \in DOMAIN c : ~ Says(c, k, i, types)
    BY <1>4 DEF Says, Highlights, Starts
  <2>3. Tells(ab, i, types) /\ Newest(ab, i, types) = Newest(a, i, types)
    BY <1>1, <1>2, <2>1, <2>2, NothingSaid
  <2>4. Tells(ab \o c, i, types) /\ Newest(ab \o c, i, types) = Newest(ab, i, types)
    BY <1>1, <2>2, <2>3, NothingSaid
  <2> QED BY <2>1, <2>3, <2>4
<1>5. Newest(ab \o c, i, StatusTypes).status = "HIGHLIGHTED"
  <2>1. Tells(b, i, StatusTypes)
    BY LoadedTypes DEF Tells, Says, Highlights
  <2>2. Tells(ab, i, StatusTypes) /\ \E k \in DOMAIN b : Newest(ab, i, StatusTypes) = b[k]
    BY <1>1, <1>2, <2>1, NewlySaid
  <2>3. Newest(ab, i, StatusTypes).status = "HIGHLIGHTED"
    BY <2>2 DEF Highlights
  <2>4. \A k \in DOMAIN c : ~ Says(c, k, i, StatusTypes)
    BY LoadedTypes DEF Says, Starts
  <2>5. Newest(ab \o c, i, StatusTypes) = Newest(ab, i, StatusTypes)
    BY <1>1, <2>2, <2>4, NothingSaid
  <2> QED BY <2>3, <2>5
<1>6. ASSUME NEW types, "TIMER_STARTED" \in types
      PROVE  /\ Newest(ab \o c, i, types).type = "TIMER_STARTED"
             /\ Newest(ab \o c, i, types).started = 1 /\ Newest(ab \o c, i, types).duration = MaxDuration
  <2>1. Tells(c, i, types)
    BY <1>6 DEF Tells, Says, Starts
  <2>2. \E k \in DOMAIN c : Newest(ab \o c, i, types) = c[k]
    BY <1>1, <2>1, NewlySaid
  <2> QED BY <2>2 DEF Starts
<1>7. Tells(ab \o c, i, {"ITEM_CREATED"}) /\ Newest(ab \o c, i, TextTypes).text = text[i]
  BY <1>4, LoadedTypes
<1>8. /\ Newest(ab \o c, i, TimerTypes).type = "TIMER_STARTED" /\ Newest(ab \o c, i, TimerTypes).started = 1
      /\ Newest(ab \o c, i, TimerTypes).duration = MaxDuration
      /\ Newest(ab \o c, i, ElapsedTypes).type = "TIMER_STARTED"
  BY <1>6, LoadedTypes
<1>9. LogTold(ab \o c, i, row)
  BY <1>5, <1>7, <1>8 DEF LogTold, TimerOf
<1> QED BY <1>2, <1>9

\* The events of BrowserInit are these three kinds.
LEMMA LoadedLog ==
    ASSUME CardsAssumption, BrowserAssumption, NEW text \in [AtLoad -> Texts],
           NEW created \in SetToSeqs(AtLoad), NEW started \in SetToSeqs(Running)
    PROVE  /\ Announces([k \in DOMAIN created |-> [type |-> "ITEM_CREATED", item |-> created[k],
                                              text |-> text[created[k]], status |-> "CREATED"]], text)
           /\ Highlights([k \in DOMAIN started |-> [type |-> "ITEM_STATUS_CHANGED", item |-> started[k],
                                              status |-> "HIGHLIGHTED"]])
           /\ Starts([k \in DOMAIN started |-> [type |-> "TIMER_STARTED", item |-> started[k],
                                              started |-> 1, duration |-> MaxDuration]])
<1>1. IsFiniteSet(AtLoad) /\ IsFiniteSet(Running) /\ AtLoad \subseteq Items /\ Running \subseteq AtLoad
  BY FS_Subset DEF CardsAssumption, BrowserAssumption
<1>2. /\ created \in Seq(AtLoad) /\ \A i \in AtLoad : \E k \in DOMAIN created : created[k] = i
      /\ started \in Seq(Running) /\ \A i \in Running : \E k \in DOMAIN started : started[k] = i
  BY <1>1, SetToSeqsProperties
<1>3. /\ created \in [1 .. Len(created) -> AtLoad] /\ Len(created) \in Nat
      /\ started \in [1 .. Len(started) -> Running] /\ Len(started) \in Nat
  BY <1>2, LenProperties
<1>4. \A i \in AtLoad : [type |-> "ITEM_CREATED", item |-> i, text |-> text[i],
                         status |-> "CREATED"] \in CardEvents
  BY <1>1 DEF CardEvents, Events, Status, Closing, None
<1>5. \A i \in Running : [type |-> "ITEM_STATUS_CHANGED", item |-> i,
                          status |-> "HIGHLIGHTED"] \in CardEvents
  BY <1>1 DEF CardEvents, Events, Status, Closing, None
<1>6. \A i \in Running : [type |-> "TIMER_STARTED", item |-> i, started |-> 1,
                          duration |-> MaxDuration] \in CardEvents
  BY <1>1 DEF CardEvents, Events, Status, Closing, None, CardsAssumption
<1>7. ASSUME NEW a, a = [k \in DOMAIN created |-> [type |-> "ITEM_CREATED", item |-> created[k],
                                              text |-> text[created[k]], status |-> "CREATED"]]
      PROVE  Announces(a, text)
  <2>1. a \in [1 .. Len(created) -> CardEvents]
    BY <1>3, <1>4, <1>7
  <2>2. DOMAIN a = DOMAIN created
        /\ \A k \in DOMAIN a : a[k].type = "ITEM_CREATED" /\ a[k].item = created[k]
                             /\ a[k].text = text[created[k]] /\ a[k].status = "CREATED"
    BY <1>7
  <2>3. a \in Seq(CardEvents)
    BY <1>3, <2>1, SeqDef
  <2>4. \A k \in DOMAIN a : created[k] \in AtLoad
    BY <1>3, <2>2
  <2>5. \A i \in AtLoad : \E k \in DOMAIN a : a[k].item = i
    BY <1>2, <2>2
  <2> QED BY <2>2, <2>3, <2>4, <2>5 DEF Announces
<1>8. ASSUME NEW b, b = [k \in DOMAIN started |-> [type |-> "ITEM_STATUS_CHANGED", item |-> started[k],
                                              status |-> "HIGHLIGHTED"]]
      PROVE  Highlights(b)
  <2>1. b \in [1 .. Len(started) -> CardEvents]
    BY <1>3, <1>5, <1>8
  <2>2. DOMAIN b = DOMAIN started
        /\ \A k \in DOMAIN b : b[k].type = "ITEM_STATUS_CHANGED" /\ b[k].item = started[k]
                             /\ b[k].status = "HIGHLIGHTED"
    BY <1>8
  <2>3. b \in Seq(CardEvents)
    BY <1>3, <2>1, SeqDef
  <2>4. \A k \in DOMAIN b : started[k] \in Running
    BY <1>3, <2>2
  <2>5. ASSUME NEW i \in Running
        PROVE  \E k \in DOMAIN b : b[k].item = i
    <3>1. PICK k \in DOMAIN started : started[k] = i
      BY <1>2
    <3> QED BY <2>2, <3>1
  <2> QED BY <2>2, <2>3, <2>4, <2>5 DEF Highlights
<1>9. ASSUME NEW c, c = [k \in DOMAIN started |-> [type |-> "TIMER_STARTED", item |-> started[k],
                                              started |-> 1, duration |-> MaxDuration]]
      PROVE  Starts(c)
  <2>1. c \in [1 .. Len(started) -> CardEvents]
    BY <1>3, <1>6, <1>9
  <2>2. DOMAIN c = DOMAIN started
        /\ \A k \in DOMAIN c : c[k].type = "TIMER_STARTED" /\ c[k].item = started[k]
                             /\ c[k].started = 1 /\ c[k].duration = MaxDuration
    BY <1>9
  <2>3. c \in Seq(CardEvents)
    BY <1>3, <2>1, SeqDef
  <2>4. \A k \in DOMAIN c : started[k] \in Running
    BY <1>3, <2>2
  <2>5. ASSUME NEW i \in Running
        PROVE  \E k \in DOMAIN c : c[k].item = i
    <3>1. PICK k \in DOMAIN started : started[k] = i
      BY <1>2
    <3> QED BY <2>2, <3>1
  <2> QED BY <2>2, <2>3, <2>4, <2>5 DEF Starts
<1> QED BY <1>7, <1>8, <1>9

\* The page is loaded from a board that the invariants of Cards hold of.
LEMMA BoardInit ==
    ASSUME CardsAssumption, BrowserAssumption, BrowserInit
    PROVE  BoardInv
<1>1. PICK text \in [AtLoad -> Texts], created \in SetToSeqs(AtLoad), started \in SetToSeqs(Running) :
          /\ item = [i \in Items |->
                CASE i \in Running -> [NoItem EXCEPT !.status = "HIGHLIGHTED", !.text = text[i],
                                                    !.started = 1, !.duration = MaxDuration]
                  [] i \in AtLoad \ Running -> [NoItem EXCEPT !.status = "CREATED", !.text = text[i]]
                  [] OTHER -> NoItem]
          /\ log = [k \in DOMAIN created |-> [type |-> "ITEM_CREATED", item |-> created[k],
                                              text |-> text[created[k]], status |-> "CREATED"]] \o
                   [k \in DOMAIN started |-> [type |-> "ITEM_STATUS_CHANGED", item |-> started[k],
                                              status |-> "HIGHLIGHTED"]] \o
                   [k \in DOMAIN started |-> [type |-> "TIMER_STARTED", item |-> started[k],
                                              started |-> 1, duration |-> MaxDuration]]
  BY DEF BrowserInit
<1>2. \E a, b, c : /\ Announces(a, text) /\ Highlights(b) /\ Starts(c)
                   /\ log = (a \o b) \o c
  BY ZenonT(40), <1>1, LoadedLog
<1>3. PICK a, b, c : Announces(a, text) /\ Highlights(b) /\ Starts(c) /\ log = (a \o b) \o c
  BY <1>2
<1>4. /\ actionItem = [x \in ActionItems |-> NoActionItem] /\ archives = << >> /\ deleted = {}
      /\ edit = [q \in Editors |-> NoEdit] /\ arch = [q \in Archivers |-> NoArchive]
      /\ now = 1 /\ answer = NoAnswer
  BY DEF BrowserInit
<1>5. AtLoad \subseteq Items /\ Running \subseteq AtLoad
  BY DEF BrowserAssumption
<1>6. ASSUME NEW i \in Items
      PROVE  /\ i \in Running =>
                  /\ item[i].status = "HIGHLIGHTED" /\ item[i].text = text[i]
                  /\ item[i].started = 1 /\ item[i].duration = MaxDuration
             /\ i \in AtLoad \ Running =>
                  /\ item[i].status = "CREATED" /\ item[i].text = text[i]
                  /\ item[i].started = Null /\ item[i].duration = Null
             /\ i \notin AtLoad => item[i] = NoItem
             /\ item[i].elapsed = Null /\ item[i].archive = Null
             /\ item[i] \in ItemRows
  <2>1. CASE i \in Running
    <3>1. item[i] = [NoItem EXCEPT !.status = "HIGHLIGHTED", !.text = text[i],
                                   !.started = 1, !.duration = MaxDuration]
      BY <1>1, <2>1
    <3>2. text[i] \in Texts /\ MaxDuration \in Nat /\ 1 \in Nat /\ i \in AtLoad
      BY <1>5, <2>1 DEF CardsAssumption
    <3>3. item[i] = [status |-> "HIGHLIGHTED", text |-> text[i], started |-> 1,
                     duration |-> MaxDuration, elapsed |-> Null, archive |-> Null]
      BY <3>1 DEF NoItem
    <3>4. item[i] \in ItemRows
      BY <3>2, <3>3 DEF ItemRows, Status, Null
    <3> QED BY <2>1, <3>2, <3>3, <3>4
  <2>2. CASE i \in AtLoad \ Running
    <3>1. item[i] = [NoItem EXCEPT !.status = "CREATED", !.text = text[i]]
      BY <1>1, <2>2
    <3>2. text[i] \in Texts
      BY <2>2
    <3>3. item[i] = [status |-> "CREATED", text |-> text[i], started |-> Null,
                     duration |-> Null, elapsed |-> Null, archive |-> Null]
      BY <3>1 DEF NoItem
    <3>4. item[i] \in ItemRows
      BY <3>2, <3>3 DEF ItemRows, Status, Null
    <3> QED BY <2>2, <3>3, <3>4
  <2>3. CASE i \notin AtLoad
    <3>1. item[i] = NoItem
      BY <1>1, <1>5, <2>3
    <3> QED BY <1>5, <2>3, <3>1 DEF NoItem, ItemRows, Null
  <2> QED BY <2>1, <2>2, <2>3
<1>7. TypeOK
  <2>1. item \in [Items -> ItemRows]
    <3>1. item = [i \in Items |-> item[i]]
      BY <1>1
    <3> QED BY <1>6, <3>1
  <2>2. log \in Seq(Events)
    <3>1. a \o b \in Seq(Events) /\ c \in Seq(Events)
      BY <1>3, CardEventsEvents, ConcatProperties DEF Announces, Highlights, Starts
    <3> QED BY <1>3, <3>1, ConcatProperties
  <2>3. BoardTypeOK
    BY <1>4, <2>1, <2>2 DEF BoardTypeOK, NoActionItem, ActionItemRows, Null
  <2>4. RequestTypeOK
    BY <1>4 DEF RequestTypeOK, EditStates, ArchiveStates, NoEdit, NoArchive, NoAnswer, Answers
  <2> QED BY <2>3, <2>4 DEF TypeOK
<1>8. ASSUME NEW i \in Items
      PROVE  TimerOK(item[i], now)
  <2>1. i \notin AtLoad => item[i].started = Null /\ item[i].duration = Null
    BY <1>6 DEF NoItem
  <2>2. MaxDuration # Null
    BY DEF CardsAssumption, Null
  <2> QED BY <1>5, <1>6, <2>1, <2>2 DEF TimerOK, Null
<1>9. ArchiveInv
  <2>1. ASSUME NEW i \in Items
        PROVE  item[i].archive = Null /\ item[i].status \notin {"ARCHIVED", "deleted"}
    <3>1. i \notin AtLoad => item[i].status = "absent"
      BY <1>6 DEF NoItem
    <3> QED BY <1>6, <3>1
  <2>2. \A x \in ActionItems : actionItem[x].archive = Null
    BY <1>4 DEF NoActionItem
  <2>3. RowsInv
    BY <2>1, <2>2 DEF RowsInv, ArchivedInOwnRetro, DeletedGone
  <2>4. ASSUME NEW q \in Archivers
        PROVE  RequestInv(q)
    BY <1>4 DEF RequestInv, OpenArchive, Holds, Counted, Left, InTransaction, NoArchive
  <2> QED BY <2>3, <2>4 DEF ArchiveInv
<1>10. \A q \in Archivers : ~ InTransaction(q)
  BY <1>4 DEF InTransaction, NoArchive
<1>11. LogInv
  <2>1. ASSUME NEW i \in Items, Exists(i)
        PROVE  LogTold(log, i, item[i])
    <3>1. i \in AtLoad
      BY <1>6, <2>1 DEF Exists, NoItem, Status
    <3>2. CASE i \in Running
      BY <1>3, <1>6, <3>2, LoadedRunning
    <3>3. CASE i \notin Running
      BY <1>3, <1>6, <3>1, <3>3, LoadedPlain
    <3> QED BY <3>2, <3>3
  <2> QED BY <1>10, <2>1 DEF LogInv, OpenEvent
<1>12. PlacesInv
  <2>1. log \in Seq(CardEvents)
    <3>1. a \o b \in Seq(CardEvents) /\ c \in Seq(CardEvents)
      BY <1>3, ConcatProperties DEF Announces, Highlights, Starts
    <3> QED BY <1>3, <3>1, ConcatProperties
  <2>2. \A e \in DOMAIN log : log[e] \in CardEvents
    BY <2>1, ElementOfSeq, LenProperties
  <2>3. Archiving(log) = {}
    BY <2>2 DEF Archiving, CardEvents
  <2>4. Cardinality(Archiving(log)) = 0 /\ Len(archives) = 0
    BY <1>4, <2>3, FS_EmptySet, EmptySeq
  <2> QED BY <1>10, <2>4 DEF PlacesInv
<1> QED BY <1>7, <1>8, <1>9, <1>11, <1>12 DEF BoardInv, TimerInv

-----------------------------------------------------------------------------
(* The parts of the tab.                                                    *)

\* At most one element shows a card.
Pile == {<< >>} \cup {<<face>> : face \in Faces}

Kinds  == StatusActions \cup {"idle", "add", "like", "edit", "show", "update"}
Phases == {None, "sent", "read", "committed", "answered"}

Fetches(n) ==
    [item : Items, event : 0 .. n, phase : {"sent", "answered"}, face : Faces, at : 0 .. n]

Requests(n) ==
    [kind : Kinds, item : Items \cup {None}, text : Texts \cup {None}, editor : Editors \cup {None},
     phase : Phases, attached : BOOLEAN, face : Faces, header : 0 .. n, at : 0 .. n]

\* A request names a card and a text as soon as the server needs them.
RequestOK(r) ==
    /\ r.kind \notin {"idle", "add"} => r.item \in Items
    /\ r.phase \in {"read", "committed", "answered"} => r.item \in Items
    /\ r.kind \in {"add", "update"} => r.text \in Texts
    /\ r.phase = "read" => r.editor \in Editors

PostOK(p, n) ==
    /\ p = [item |-> p.item, path |-> p.path, nr |-> p.nr, phase |-> p.phase, face |-> p.face,
            header |-> p.header, at |-> p.at]
    /\ p.item \in Items /\ p.face \in Faces
    /\ p.header \in 0 .. n /\ p.at \in 0 .. n

TimerEvents == {"TIMER_STARTED", "TIMER_EXTENDED"}

ShownOK ==
    /\ board \in [Items -> Pile]
    /\ newest \in [Items -> [Fields -> Places]]
    /\ overtaken \in SUBSET (Items \X Fields)

DeadlinesOK ==
    /\ deadlines \in [Items -> Places]
    /\ \A i \in Items : deadlines[i] # 0 =>
          log[deadlines[i]].type \in TimerEvents /\ log[deadlines[i]].item = i

StreamOK ==
    /\ applied \in SUBSET Places /\ 0 \notin applied
    /\ queue \in Seq(DOMAIN log)
    /\ cursor \in Places /\ cleared \in Places

FetchesOK == fetches \in SUBSET Fetches(Len(log))

ReqOK == req \in [Slots -> Requests(Len(log))] /\ \A s \in Slots : RequestOK(req[s])

PostsOK ==
    /\ \A p \in posts : PostOK(p, Len(log))
    /\ \A i \in pending : \E p \in posts : p.item = i

RestOK == fallback \in [Items -> 0 .. MaxAttempts] /\ settling \in BOOLEAN

TabInv == ShownOK /\ DeadlinesOK /\ StreamOK /\ FetchesOK /\ ReqOK /\ PostsOK /\ RestOK

LEMMA LogType ==
    ASSUME BoardInv
    PROVE  log \in Seq(Events) /\ Len(log) \in Nat /\ DOMAIN log = 1 .. Len(log)
           /\ \A e \in DOMAIN log : log[e] \in Events
BY LenProperties, ElementOfSeq DEF BoardInv, TypeOK, BoardTypeOK

\* Events name cards, and those of timers a deadline.
LEMMA EventTypes ==
    ASSUME NEW e \in Events
    PROVE  /\ e.type \in {"ITEM_CREATED", "ITEM_STATUS_CHANGED", "ITEM_UPDATED", "TIMER_ELAPSED",
                          "TIMER_STARTED", "TIMER_EXTENDED"} => e.item \in Items
           /\ e.type = "ITEM_UPDATED" => e.text \in Texts \cup {None}
           /\ e.type \in TimerEvents => e.started \in Nat /\ e.duration \in Nat
BY DEF Events, TimerEvents, None

LEMMA PileTypes ==
    /\ << >> \in Pile
    /\ \A face \in Faces : <<face>> \in Pile /\ <<face>> # << >> /\ Head(<<face>>) = face
                           /\ Tail(<<face>>) = << >> /\ <<face>> \o << >> = <<face>>
    /\ \A pile \in Pile : /\ pile \in Seq(Faces) /\ Len(pile) <= 1
                          /\ pile = << >> \/ \E face \in Faces : pile = <<face>>
                          /\ pile # << >> => Head(pile) \in Faces /\ Tail(pile) = << >>
<1>1. \A face \in Faces : /\ <<face>> \in Seq(Faces) /\ Len(<<face>>) = 1 /\ <<face>> # << >>
                          /\ Head(<<face>>) = face /\ Tail(<<face>>) = << >>
                          /\ <<face>> \o << >> = <<face>>
  OBVIOUS
<1>2. << >> \in Seq(Faces) /\ Len(<< >>) = 0
  OBVIOUS
<1>3. << >> \in Pile /\ \A face \in Faces : <<face>> \in Pile
  BY DEF Pile
<1>4. ASSUME NEW pile \in Pile
      PROVE  /\ pile \in Seq(Faces) /\ Len(pile) <= 1
             /\ pile = << >> \/ \E face \in Faces : pile = <<face>>
             /\ pile # << >> => Head(pile) \in Faces /\ Tail(pile) = << >>
  <2>1. pile = << >> \/ \E face \in Faces : pile = <<face>>
    BY DEF Pile
  <2>2. CASE pile = << >>
    BY <1>2, <2>2
  <2>3. ASSUME NEW face \in Faces, pile = <<face>>
        PROVE  pile \in Seq(Faces) /\ Len(pile) <= 1 /\ Head(pile) \in Faces /\ Tail(pile) = << >>
    BY <1>1, <2>3
  <2> QED BY <2>1, <2>2, <2>3
<1> QED BY <1>1, <1>3, <1>4

\* The board after cards of it were put in place of others.
LEMMA RemovesDuplicates ==
    \A face \in Faces, pile \in Seq(Faces) : RemoveDuplicateCards(<<face>> \o pile) = <<face>>
<1> TAKE face \in Faces, pile \in Seq(Faces)
<1>1. <<face>> \in Seq(Faces) /\ Len(<<face>>) = 1 /\ <<face>>[1] = face
  OBVIOUS
<1> DEFINE s == <<face>> \o pile
<1>2. s \in Seq(Faces) /\ Len(s) = 1 + Len(pile) /\ Len(pile) \in Nat /\ s[1] = face
  BY <1>1, ConcatProperties, LenProperties
<1> HIDE DEF s
<1>3. SubSeq(s, 1, 1) = <<face>>
  <2>1. \A i \in 1 .. 1 : s[i] \in Faces
    BY <1>2
  <2>2. /\ SubSeq(s, 1, 1) \in Seq(Faces) /\ Len(SubSeq(s, 1, 1)) = 1
        /\ \A i \in 1 .. 1 : SubSeq(s, 1, 1)[i] = s[i]
    BY <2>1, SubSeqProperties
  <2> DEFINE t == SubSeq(s, 1, 1)
  <2>3. t \in Seq(Faces) /\ Len(t) = 1 /\ t[1] = face
    BY <1>2, <2>2
  <2> HIDE DEF t
  <2>4. t = <<face>>
    BY <1>1, <2>3, SeqEqual
  <2> QED BY <2>4 DEF t
<1> QED BY <1>3 DEF RemoveDuplicateCards, s

LEMMA FaceTypes ==
    /\ NoFace \in Faces
    /\ \A row \in ItemRows : Face(row) \in Faces /\ EditForm(row) \in Faces
<1>1. NoFace \in Faces
  BY DEF NoFace, Faces
<1>2. ASSUME NEW row \in ItemRows
      PROVE  Face(row) \in Faces /\ EditForm(row) \in Faces
  <2>1. EndsAt(row) \in Nat /\ row.text \in Texts \cup {None}
    BY DEF ItemRows, EndsAt
  <2>2. EditForm(row) \in Faces
    BY <2>1 DEF EditForm, Faces
  <2>3. Face(row) \in Faces
    <3> DEFINE lit == row.status = "HIGHLIGHTED"
               kind == CASE lit -> "highlighted" [] row.status = "COMPLETED" -> "completed"
                         [] OTHER -> "plain"
               endAt == IF lit /\ row.started # Null THEN EndsAt(row) ELSE 0
               elapsed == lit /\ row.elapsed # Null
    <3>1. Face(row) = [kind |-> kind, text |-> row.text, endAt |-> endAt, elapsed |-> elapsed,
                       over |-> elapsed]
      BY DEF Face
    <3>2. elapsed \in BOOLEAN /\ endAt \in Nat
          /\ kind \in {"plain", "highlighted", "completed", "editing", None}
      BY <2>1
    <3> HIDE DEF kind, endAt, elapsed
    <3> QED BY <2>1, <3>1, <3>2 DEF Faces
  <2> QED BY <2>2, <2>3
<1> QED BY <1>1, <1>2

LEMMA DeadlineType ==
    ASSUME BoardInv, NEW e \in DOMAIN log, log[e].type \in TimerEvents
    PROVE  Deadline(e) \in Nat
BY LogType, EventTypes DEF Deadline

\* A face of which one part is set to another value.
LEMMA FaceParts ==
    ASSUME NEW face \in Faces, NEW n \in Nat, NEW x \in BOOLEAN, NEW y \in BOOLEAN,
           NEW t \in Texts \cup {None}
    PROVE  /\ [face EXCEPT !.endAt = n, !.over = x] \in Faces
           /\ [face EXCEPT !.over = x] \in Faces
           /\ [face EXCEPT !.endAt = n] \in Faces
           /\ [face EXCEPT !.text = t] \in Faces
           /\ [face EXCEPT !.endAt = n, !.elapsed = y, !.over = x] \in Faces
BY DEF Faces

LEMMA RenderTimerType ==
    ASSUME BoardInv, DeadlinesOK, NEW i \in Items, NEW face \in Faces
    PROVE  RenderTimer(face, i, deadlines) \in Faces
<1>1. ASSUME FromDeadlines(face, i, deadlines)
      PROVE  Deadline(deadlines[i]) \in Nat
  <2>1. deadlines[i] \in Places /\ deadlines[i] # 0
    BY <1>1 DEF DeadlinesOK, FromDeadlines
  <2>2. deadlines[i] \in DOMAIN log
    BY <2>1, LogType DEF Places
  <2> QED BY <2>1, <2>2, DeadlineType DEF DeadlinesOK
<1>2. face.elapsed \in BOOLEAN
  BY DEF Faces
<1> HIDE DEF Faces
<1> QED BY <1>1, <1>2, FaceParts DEF RenderTimer

LEMMA RenderAllType ==
    ASSUME BoardInv, DeadlinesOK, NEW b \in [Items -> Pile], NEW o \in SUBSET (Items \X Fields),
           RenderAllTimers(b, o, deadlines)
    PROVE  board' \in [Items -> Pile] /\ overtaken' \in SUBSET (Items \X Fields)
<1>1. board' = [i \in Items |-> [k \in DOMAIN b[i] |-> RenderTimer(b[i][k], i, deadlines)]]
  BY DEF RenderAllTimers
<1>2. ASSUME NEW i \in Items
      PROVE  [k \in DOMAIN b[i] |-> RenderTimer(b[i][k], i, deadlines)] \in Pile
  <2>1. CASE b[i] = << >>
    <3>1. [k \in DOMAIN b[i] |-> RenderTimer(b[i][k], i, deadlines)] = << >>
      BY <2>1
    <3> QED BY <3>1, PileTypes
  <2>2. ASSUME NEW face \in Faces, b[i] = <<face>>
        PROVE  [k \in DOMAIN b[i] |-> RenderTimer(b[i][k], i, deadlines)] \in Pile
    <3>1. DOMAIN b[i] = 1 .. 1 /\ b[i][1] = face
      BY <2>2
    <3> DEFINE r == RenderTimer(face, i, deadlines)
    <3>2. r \in Faces
      BY RenderTimerType
    <3>3. \A k \in DOMAIN b[i] : RenderTimer(b[i][k], i, deadlines) = r
      BY <3>1
    <3> HIDE DEF r
    <3>4. [k \in DOMAIN b[i] |-> RenderTimer(b[i][k], i, deadlines)] = [k \in 1 .. 1 |-> r]
      BY <3>1, <3>3
    <3>5. [k \in 1 .. 1 |-> r] = <<r>>
      OBVIOUS
    <3> QED BY <3>2, <3>4, <3>5, PileTypes
  <2> QED BY <2>1, <2>2, PileTypes
<1>3. overtaken' \in SUBSET (Items \X Fields)
  BY DEF RenderAllTimers, Fields
<1> QED BY <1>1, <1>2, <1>3

LEMMA ToldType ==
    ASSUME NEW m \in Nat, NEW n \in [Items -> [Fields -> 0 .. m]], NEW i, NEW fields, NEW p \in 0 .. m
    PROVE  Told(n, i, fields, p) \in [Items -> [Fields -> 0 .. m]]
<1>1. \A x \in 0 .. m : Later(x, p) \in 0 .. m
  BY DEF Later
<1>2. ASSUME i \in Items
      PROVE  [f \in Fields |-> IF f \in fields THEN Later(n[i][f], p) ELSE n[i][f]] \in [Fields -> 0 .. m]
  BY <1>1, <1>2
<1>3. Told(n, i, fields, p) =
        [n EXCEPT ![i] = [f \in Fields |-> IF f \in fields THEN Later(n[i][f], p) ELSE n[i][f]]]
  BY DEF Told
<1> QED BY <1>2, <1>3

LEMMA ShownType ==
    ASSUME NEW o \in SUBSET (Items \X Fields), NEW i \in Items, NEW fields \in SUBSET Fields, NEW p
    PROVE  Shown(o, i, fields, p) \in SUBSET (Items \X Fields)
BY DEF Shown

\* The place up to which a row that is read was told.
LEMMA MomentType ==
    ASSUME BoardInv, NEW i \in Items
    PROVE  Moment(i, item[i], log) \in Places
<1>1. log \in Seq(Events) /\ Len(log) \in Nat /\ DOMAIN log = 1 .. Len(log)
  BY LogType
<1>2. CASE item[i].status = "ARCHIVED"
  <2>1. archives \in Seq(Retros \cup {None})
    BY DEF BoardInv, TypeOK, BoardTypeOK
  <2>2. item[i].archive \in 1 .. Len(archives)
    BY <1>2, <2>1, LenProperties DEF BoardInv, ArchiveInv, RowsInv, ArchivedInOwnRetro
  <2>3. item[i].archive \in 1 .. Cardinality(Archiving(log))
    BY <2>2 DEF BoardInv, PlacesInv
  <2>4. Archiving(log) \in SUBSET (0 .. Len(log)) /\ Archiving(log) \subseteq DOMAIN log
    BY <1>1, ArchivingType DEF Archiving
  <2>5. ArchiveEvent(item[i].archive, log) \in Archiving(log)
    BY <1>1, <2>3, <2>4, NthIs, ArchiveEventIs
  <2>6. ArchiveEvent(item[i].archive, log) - 1 \in Places
    BY <1>1, <2>4, <2>5 DEF Places
  <2> QED BY <1>2, <2>6 DEF Moment
<1>3. CASE item[i].status # "ARCHIVED"
  <2> DEFINE ids == {0} \cup {e \in DOMAIN log : Visible(log, e) /\ Concerns(log[e], i)}
  <2>1. ids \in SUBSET (0 .. Len(log)) /\ ids # {}
    BY <1>1
  <2>2. Moment(i, item[i], log) = Max(ids)
    BY <1>3 DEF Moment
  <2> HIDE DEF ids
  <2>3. \E m \in ids : \A x \in ids : x <= m
    BY <1>1, <2>1, HasMax
  <2>4. \A x, y \in ids : x <= y => y >= x
    BY <2>1
  <2>5. Max(ids) \in ids
    BY <2>3, <2>4 DEF Max
  <2> QED BY <2>1, <2>2, <2>5 DEF Places
<1> QED BY <1>2, <1>3

-----------------------------------------------------------------------------
(* What the server does for the tab is what it does for anybody.            *)

\* The steps of the tab that ask nothing of the database.
LEMMA ListenerIdle ==
    Listener => UNCHANGED vars
BY DEF Listener, DropOwn, OnItemCreated, OnItemStatusChanged, OnItemUpdated, OnTimerUpdated,
       OnTimerElapsed, OnRetroArchived, Handled

LEMMA RequestStep ==
    ASSUME ReqOK, NEW s \in Slots, Request(s)
    PROVE  \/ UNCHANGED vars
           \/ \E i \in Items : ItemHandler(i)
           \/ \E q \in Editors : UpdateItem(q)
<1>0. req[s] \in Requests(Len(log)) /\ RequestOK(req[s])
  BY DEF ReqOK
<1>1. ASSUME NEW i, NEW kind, NEW text, Click(s, i, kind, text)
      PROVE  UNCHANGED vars
  BY <1>1 DEF Click
<1>2. ASSUME NEW text, SubmitCard(s, text)
      PROVE  UNCHANGED vars
  BY <1>2 DEF SubmitCard
<1>3. ASSUME ServeStatus(s)
      PROVE  \E i \in Items : ItemHandler(i)
  <2>1. req[s].item \in Items
    BY <1>0, <1>3 DEF ServeStatus, RequestOK, StatusActions
  <2>2. req[s].kind \in {"highlight", "cancel", "complete"} /\ ChangeItemStatus(req[s].item, req[s].kind)
    BY <1>3 DEF ServeStatus, StatusActions
  <2> QED BY <2>1, <2>2 DEF ItemHandler
<1>4. ASSUME ServeAdd(s)
      PROVE  \E i \in Items : ItemHandler(i)
  <2>1. req[s].text \in Texts
    BY <1>0, <1>4 DEF ServeAdd, RequestOK
  <2>2. PICK i \in Items : AddItem(i, req[s].text)
    BY <1>4 DEF ServeAdd
  <2> QED BY <2>1, <2>2 DEF ItemHandler
<1>5. ASSUME ServeUpdate(s)
      PROVE  \E q \in Editors : UpdateItem(q)
  <2>1. req[s].text \in Texts /\ req[s].item \in Items
    BY <1>0, <1>5 DEF ServeUpdate, RequestOK
  <2>2. ASSUME NEW q \in Editors, ReadOldText(q, req[s].item, req[s].text)
        PROVE  UpdateItem(q)
    BY <2>1, <2>2 DEF UpdateItem
  <2>3. ASSUME req[s].phase = "read", UpdateText(req[s].editor)
        PROVE  \E q \in Editors : UpdateItem(q)
    BY <1>0, <2>3 DEF UpdateItem, RequestOK
  <2> QED BY <1>5, <2>2, <2>3 DEF ServeUpdate
<1>6. ServeCard(s) \/ ResponseArrives(s) \/ RequestFails(s) => UNCHANGED vars
  BY DEF ServeCard, ResponseArrives, RequestFails
<1> QED BY <1>1, <1>2, <1>3, <1>4, <1>5, <1>6 DEF Request

LEMMA PostStep ==
    ASSUME PostsOK, NEW p \in posts, ServePost(p) \/ PostArrives(p) \/ PostFails(p)
    PROVE  UNCHANGED vars \/ \E i \in Items : ItemHandler(i)
<1>1. p.item \in Items
  BY DEF PostsOK, PostOK
<1>2. ASSUME ServePost(p)
      PROVE  ItemHandler(p.item)
  BY <1>2 DEF ServePost, ItemHandler
<1>3. PostArrives(p) \/ PostFails(p) => UNCHANGED vars
  BY DEF PostArrives, PostFails
<1> QED BY <1>1, <1>2, <1>3

\* Every step is one of the board of Cards, or leaves it alone.
LEMMA StepOfBoard ==
    ASSUME TabInv, [BrowserNext]_browserVars
    PROVE  [Next]_vars
<1>1. CASE UNCHANGED browserVars
  BY <1>1 DEF browserVars
<1>2. CASE Elsewhere
  BY <1>2 DEF Elsewhere, Next
<1>3. CASE Publish
  BY <1>3 DEF Publish
<1>4. CASE Listener
  BY <1>4, ListenerIdle
<1>5. ASSUME NEW f \in fetches, ServeFetch(f) \/ FetchArrives(f) \/ FetchFails(f)
      PROVE  UNCHANGED vars
  BY <1>5 DEF ServeFetch, FetchArrives, FetchFails
<1>6. ASSUME NEW s \in Slots, Request(s)
      PROVE  [Next]_vars
  BY <1>6, RequestStep DEF TabInv, Next
<1>7. CASE Settle
  BY <1>7 DEF Settle
<1>8. ASSUME NEW p \in posts, ServePost(p) \/ PostArrives(p) \/ PostFails(p)
      PROVE  [Next]_vars
  BY <1>8, PostStep DEF TabInv, Next
<1>9. ASSUME NEW i \in Items, ClickExtend(i) \/ FallbackTick(i)
      PROVE  UNCHANGED vars
  BY <1>9 DEF ClickExtend, FallbackTick
<1> QED BY <1>1, <1>2, <1>3, <1>4, <1>5, <1>6, <1>7, <1>8, <1>9 DEF BrowserNext

\* A lookup in the log returns a place in it.
LEMMA LastEventPlace ==
    ASSUME NEW l \in Seq(Events), NEW i, NEW types
    PROVE  LastEvent(l, i, types) \in 0 .. Len(l)
<1>1. Len(l) \in Nat /\ DOMAIN l = 1 .. Len(l)
  BY LenProperties
<1>2. CASE Tells(l, i, types)
  BY <1>1, <1>2, LastEventLast
<1>3. CASE ~ Tells(l, i, types)
  <2>1. {e \in DOMAIN l : l[e].type \in types /\ l[e].item = i} = {}
    BY <1>3 DEF Tells, Says
  <2>2. LastEvent(l, i, types) = 0
    BY <2>1 DEF LastEvent
  <2> QED BY <1>1, <2>2
<1> QED BY <1>2, <1>3

\* So the header of a response is a place in the log.
LEMMA HeaderPlace ==
    ASSUME BoardInv', NEW i \in Items, ItemHandler(i)
    PROVE  answer'.header \in 0 .. Len(log')
<1>0. log' \in Seq(Events) /\ Len(log') \in Nat
  BY LenProperties DEF BoardInv, TypeOK, BoardTypeOK
<1>1. 0 \in 0 .. Len(log') /\ \A types : LastEvent(log', i, types) \in 0 .. Len(log')
  BY <1>0, LastEventPlace
<1>2. ASSUME NEW to, NEW own, NEW header \in 0 .. Len(log'), Respond(to, own, header)
      PROVE  answer'.header \in 0 .. Len(log')
  BY <1>2 DEF Respond
<1>3. ASSUME NEW text \in Texts, AddItem(i, text)
      PROVE  answer'.header \in 0 .. Len(log')
  BY <1>1, <1>2, <1>3 DEF AddItem
<1>4. ASSUME NEW action, ChangeItemStatus(i, action)
      PROVE  answer'.header \in 0 .. Len(log')
  <2> DEFINE new == Changed(item[i], action)
  <2>1. ASSUME Write(i, new)
        PROVE  StatusHeader(i, new) \in 0 .. Len(log')
    <3>1. log' = log \o ItemEvent(i, item[i], new)
      BY <2>1 DEF Write
    <3> QED BY <1>1, <3>1 DEF StatusHeader
  <2>2. \/ Write(i, new) /\ Respond("change_item_status", OwnEvent(i, new), StatusHeader(i, new))
        \/ Respond("change_item_status", 0, 0)
    BY <1>4 DEF ChangeItemStatus
  <2> HIDE DEF new
  <2> QED BY <1>1, <1>2, <2>1, <2>2
<1>5. ASSUME NEW d, StartItemTimer(i, d)
      PROVE  answer'.header \in 0 .. Len(log')
  <2>1. \/ \E own : Respond("start_item_timer", own, LastEvent(log', i, {"TIMER_STARTED"}))
        \/ Respond("start_item_timer", 0, 0)
    BY <1>5 DEF StartItemTimer
  <2> QED BY <1>1, <1>2, <2>1
<1>6. ASSUME ExtendItemTimer(i)
      PROVE  answer'.header \in 0 .. Len(log')
  <2>1. \/ \E own : Respond("extend_item_timer", own, LastEvent(log', i, {"TIMER_EXTENDED"}))
        \/ Respond("extend_item_timer", 0, 0)
    BY <1>6 DEF ExtendItemTimer
  <2> QED BY <1>1, <1>2, <2>1
<1> QED BY <1>3, <1>4, <1>5, <1>6 DEF ItemHandler

LEMMA UpdateHeaderPlace ==
    ASSUME BoardInv', NEW q \in Editors, UpdateText(q)
    PROVE  answer'.header \in 0 .. Len(log')
<1>0. log' \in Seq(Events) /\ Len(log') \in Nat
  BY LenProperties DEF BoardInv, TypeOK, BoardTypeOK
<1>1. 0 \in 0 .. Len(log') /\ \A i, types : LastEvent(log', i, types) \in 0 .. Len(log')
  BY <1>0, LastEventPlace
<1>2. \E own, to : Respond(to, own, IF edit[q].old # edit[q].text
                                    THEN LastEvent(log', edit[q].item, {"ITEM_UPDATED"}) ELSE 0)
  BY DEF UpdateText
<1> QED BY <1>1, <1>2 DEF Respond

-----------------------------------------------------------------------------
(* Parts of the tab that a step leaves alone.                               *)

\* What a step of the board keeps of the log.
Grows ==
    /\ Len(log) \in Nat /\ Len(log') \in Nat /\ Len(log) <= Len(log')
    /\ DOMAIN log = 1 .. Len(log) /\ DOMAIN log' = 1 .. Len(log')
    /\ \A e \in DOMAIN log :
          log'[e] = log[e] \/ (log[e].type \in Closing /\ log'[e].type = None)

LEMMA BoardGrows ==
    ASSUME CardsAssumption, BoardInv, [Next]_vars
    PROVE  BoardInv' /\ Grows
<1>1. BoardInv'
  BY BoardStep
<1>2. /\ Len(log) <= Len(log')
      /\ \A e \in DOMAIN log :
            log'[e] = log[e] \/ (log[e].type \in Closing /\ log'[e].type = None)
  BY LogKeeps DEF BoardInv, LogInv
<1>3. /\ Len(log) \in Nat /\ DOMAIN log = 1 .. Len(log)
      /\ Len(log') \in Nat /\ DOMAIN log' = 1 .. Len(log')
  BY <1>1, LenProperties DEF BoardInv, TypeOK, BoardTypeOK
<1> QED BY <1>1, <1>2, <1>3 DEF Grows

LEMMA ShownStays ==
    ASSUME Grows, ShownOK, UNCHANGED <<board, newest, overtaken>>
    PROVE  ShownOK'
<1>1. \A x \in 0 .. Len(log) : x \in 0 .. Len(log')
  BY DEF Grows
<1>2. newest \in [Items -> [Fields -> 0 .. Len(log')]]
  <2>1. \A i \in Items : newest[i] \in [Fields -> 0 .. Len(log')]
    BY <1>1 DEF ShownOK, Places
  <2> QED BY <2>1 DEF ShownOK
<1> QED BY <1>2 DEF ShownOK, Places

LEMMA DeadlinesStay ==
    ASSUME Grows, DeadlinesOK, UNCHANGED deadlines
    PROVE  DeadlinesOK'
<1>1. \A x \in 0 .. Len(log) : x \in 0 .. Len(log') /\ (x # 0 => x \in DOMAIN log)
  BY DEF Grows
<1>2. deadlines \in [Items -> 0 .. Len(log')]
  BY <1>1 DEF DeadlinesOK, Places
<1>3. ASSUME NEW i \in Items, deadlines[i] # 0
      PROVE  log'[deadlines[i]].type \in TimerEvents /\ log'[deadlines[i]].item = i
  <2>1. deadlines[i] \in DOMAIN log /\ log[deadlines[i]].type \in TimerEvents
        /\ log[deadlines[i]].item = i
    BY <1>1, <1>3 DEF DeadlinesOK, Places
  <2>2. log[deadlines[i]].type \notin Closing
    BY <2>1 DEF TimerEvents, Closing, None
  <2>3. log'[deadlines[i]] = log[deadlines[i]]
    BY <2>1, <2>2 DEF Grows
  <2> QED BY <2>1, <2>3
<1> QED BY <1>2, <1>3 DEF DeadlinesOK, Places

LEMMA StreamStays ==
    ASSUME Grows, StreamOK, UNCHANGED streamVars
    PROVE  StreamOK'
<1>1. \A x \in 0 .. Len(log) : x \in 0 .. Len(log')
  BY DEF Grows
<1>2. DOMAIN log \subseteq DOMAIN log'
  BY DEF Grows
<1>3. queue \in Seq(DOMAIN log')
  BY <1>2 DEF StreamOK
<1> QED BY <1>1, <1>3 DEF StreamOK, streamVars, Places

LEMMA FetchesGrow ==
    ASSUME Grows
    PROVE  Fetches(Len(log)) \subseteq Fetches(Len(log'))
<1>1. \A x \in 0 .. Len(log) : x \in 0 .. Len(log')
  BY DEF Grows
<1> QED BY <1>1 DEF Fetches

LEMMA RequestsGrow ==
    ASSUME Grows
    PROVE  Requests(Len(log)) \subseteq Requests(Len(log'))
<1>1. \A x \in 0 .. Len(log) : x \in 0 .. Len(log')
  BY DEF Grows
<1> QED BY <1>1 DEF Requests

LEMMA PostsGrow ==
    ASSUME Grows, NEW p, PostOK(p, Len(log))
    PROVE  PostOK(p, Len(log'))
<1>1. \A x \in 0 .. Len(log) : x \in 0 .. Len(log')
  BY DEF Grows
<1> QED BY <1>1 DEF PostOK

LEMMA RequestsStay ==
    ASSUME Grows
    PROVE  /\ FetchesOK /\ UNCHANGED fetches => FetchesOK'
           /\ ReqOK /\ UNCHANGED req => ReqOK'
           /\ PostsOK /\ UNCHANGED <<posts, pending>> => PostsOK'
           /\ RestOK /\ UNCHANGED <<fallback, settling>> => RestOK'
<1>1. FetchesOK /\ UNCHANGED fetches => FetchesOK'
  BY FetchesGrow DEF FetchesOK
<1>2. ReqOK /\ UNCHANGED req => ReqOK'
  BY RequestsGrow DEF ReqOK
<1>3. PostsOK /\ UNCHANGED <<posts, pending>> => PostsOK'
  BY PostsGrow DEF PostsOK
<1>4. RestOK /\ UNCHANGED <<fallback, settling>> => RestOK'
  BY DEF RestOK
<1> QED BY <1>1, <1>2, <1>3, <1>4

\* The server reads the row in the step in which it has written it.
MomentsOK == \A i \in Items : Moment(i, item[i], log) \in Places

LEMMA MomentOK == BoardInv => MomentsOK
BY MomentType DEF MomentsOK

LEMMA MomentLater == ASSUME BoardInv' PROVE MomentsOK'
<1>1. (BoardInv => MomentsOK)'
  BY MomentOK, PTL
<1> QED BY <1>1

LEMMA MomentNext ==
    ASSUME BoardInv', arch' = arch, NEW i \in Items
    PROVE  Moment(i, item'[i], log') \in 0 .. Len(log')
<1>1. Moment(i, item[i], log)' \in 0 .. Len(log')
  BY MomentLater DEF Places, MomentsOK
<1>2. Moment(i, item[i], log)' = Moment(i, item'[i], log')
  BY DEF Moment, Visible
<1> QED BY <1>1, <1>2

\* Rows on the board are rows, before and after.
LEMMA RowOf ==
    ASSUME BoardInv, NEW i \in Items
    PROVE  item[i] \in ItemRows
BY DEF BoardInv, TypeOK, BoardTypeOK

LEMMA RowNext ==
    ASSUME BoardInv', NEW i \in Items
    PROVE  item'[i] \in ItemRows
BY DEF BoardInv, TypeOK, BoardTypeOK

\* The other members of the team reach the tab by events only.
LEMMA TabElsewhere ==
    ASSUME Grows, TabInv, UNCHANGED tabVars
    PROVE  TabInv'
<1>1. ShownOK'
  BY ShownStays DEF TabInv, tabVars, shownVars
<1>2. DeadlinesOK'
  BY DeadlinesStay DEF TabInv, tabVars, shownVars
<1>3. StreamOK'
  BY StreamStays DEF TabInv, tabVars
<1>4. FetchesOK' /\ ReqOK' /\ PostsOK' /\ RestOK'
  BY RequestsStay DEF TabInv, tabVars, timerVars
<1> QED BY <1>1, <1>2, <1>3, <1>4 DEF TabInv

-----------------------------------------------------------------------------
(* The stream.                                                              *)

LEMMA TabPublish ==
    ASSUME BoardInv, Grows, TabInv, Publish
    PROVE  TabInv'
<1>1. ShownOK' /\ DeadlinesOK'
  BY ShownStays, DeadlinesStay DEF TabInv, Publish, shownVars
<1>2. FetchesOK' /\ ReqOK' /\ PostsOK' /\ RestOK'
  BY RequestsStay DEF TabInv, Publish, timerVars
<1> DEFINE ids == {e \in DOMAIN log : cursor < e /\ Visible(log, e)}
<1>3. /\ ids # {} /\ queue' = queue \o InOrder(ids) /\ cursor' = Max(ids)
      /\ log' = log /\ applied' = applied /\ cleared' = cleared
  BY DEF Publish, vars
<1>4. Len(log) \in Nat /\ DOMAIN log = 1 .. Len(log) /\ ids \subseteq DOMAIN log
  BY LogType
<1>5. ids \in SUBSET (0 .. Len(log))
  BY <1>4
<1> HIDE DEF ids
<1>6. InOrder(ids) \in Seq(DOMAIN log)
  <2>1. InOrder(ids) \in Seq(ids)
    BY <1>4, <1>5, InOrderType
  <2> QED BY <1>4, <2>1
<1>7. queue' \in Seq(DOMAIN log)
  BY <1>3, <1>6, ConcatProperties DEF TabInv, StreamOK
<1>8. cursor' \in ids
  <2>1. \E m \in ids : \A x \in ids : x <= m
    BY <1>3, <1>4, <1>5, HasMax
  <2>2. \A x, y \in ids : x <= y => y >= x
    BY <1>5
  <2> QED BY <1>3, <2>1, <2>2 DEF Max
<1>9. StreamOK'
  BY <1>3, <1>5, <1>7, <1>8 DEF TabInv, StreamOK, Places
<1> QED BY <1>1, <1>2, <1>9 DEF TabInv

\* The listener takes an event from the queue.
LEMMA TabHandled ==
    ASSUME BoardInv, Grows, TabInv, queue # << >>, Handled
    PROVE  /\ StreamOK' /\ PostsOK' /\ RestOK'
           /\ Head(queue) \in DOMAIN log /\ Head(queue) \in Places /\ log' = log
           /\ log[Head(queue)] \in Events
<1>1. Head(queue) \in DOMAIN log /\ Tail(queue) \in Seq(DOMAIN log)
  BY HeadTailProperties DEF TabInv, StreamOK
<1>2. Head(queue) \in Places /\ log[Head(queue)] \in Events
  BY <1>1, LogType DEF Places
<1>3. log' = log /\ applied' = applied /\ cursor' = cursor /\ queue' = Tail(queue)
      /\ cleared' \in {Head(queue), cleared}
  BY DEF Handled, vars
<1>4. StreamOK'
  BY <1>1, <1>2, <1>3 DEF TabInv, StreamOK, Places
<1>5. PostsOK' /\ RestOK'
  BY RequestsStay DEF TabInv, Handled, timerVars
<1> QED BY <1>1, <1>2, <1>3, <1>4, <1>5

LEMMA TabInPlace ==
    ASSUME BoardInv, ShownOK, log' = log, NEW e \in Places, NEW i \in Items, NEW f \in Fields,
           NEW kinds, NEW face, Shows(i, kinds) => face \in Faces,
           InPlace(e, i, f, kinds, face)
    PROVE  ShownOK'
<1>0. Len(log) \in Nat
  BY LogType
<1>1. newest' \in [Items -> [Fields -> Places]]
  BY <1>0, ToldType DEF ShownOK, InPlace, Places
<1>2. CASE Shows(i, kinds)
  <2>1. board[i] \in Pile /\ board[i] # << >> /\ Tail(board[i]) = << >>
    BY <1>2, PileTypes DEF ShownOK, Shows, OnBoard
  <2>2. board' = [board EXCEPT ![i] = <<face>> \o << >>]
    BY <1>2, <2>1 DEF InPlace
  <2>3. <<face>> \o << >> \in Pile
    BY <1>2, PileTypes
  <2>4. overtaken' = Shown(overtaken, i, {f}, e)
    BY <1>2 DEF InPlace
  <2>5. overtaken' \in SUBSET (Items \X Fields)
    BY <2>4, ShownType DEF ShownOK
  <2> QED BY <1>1, <2>2, <2>3, <2>5 DEF ShownOK, Places
<1>3. CASE ~ Shows(i, kinds)
  BY <1>1, <1>3 DEF InPlace, ShownOK, Places
<1> QED BY <1>2, <1>3

\* The element on the board that shows a card.
LEMMA CardType ==
    ASSUME ShownOK, NEW i \in Items, OnBoard(i)
    PROVE  Card(i) \in Faces /\ Tail(board[i]) = << >>
BY PileTypes DEF ShownOK, OnBoard, Card

LEMMA FetchCardType ==
    ASSUME Grows, FetchesOK, NEW i \in Items, NEW e \in Places, log' = log, FetchCard(i, e)
    PROVE  FetchesOK'
<1>1. [item |-> i, event |-> e, phase |-> "sent", face |-> NoFace, at |-> 0] \in Fetches(Len(log))
  BY FaceTypes DEF Fetches, Places, Grows
<1> QED BY <1>1 DEF FetchCard, FetchesOK

LEMMA TabListener ==
    ASSUME BoardInv, Grows, TabInv, Listener
    PROVE  TabInv'
<1> DEFINE e == Head(queue)
<1>0. queue # << >> /\ Handled
  BY DEF Listener, DropOwn, OnItemCreated, OnItemStatusChanged, OnItemUpdated, OnTimerUpdated,
         OnTimerElapsed, OnRetroArchived, Receives
<1>1. /\ StreamOK' /\ PostsOK' /\ RestOK'
      /\ e \in DOMAIN log /\ e \in Places /\ log' = log
      /\ log[e] \in Events
  BY <1>0, TabHandled
<1>2. /\ ShownOK /\ DeadlinesOK /\ FetchesOK /\ ReqOK
      /\ newest \in [Items -> [Fields -> Places]] /\ Len(log) \in Nat
  BY LogType DEF TabInv, ShownOK
<1>3. ASSUME DropOwn
      PROVE  ShownOK' /\ DeadlinesOK' /\ FetchesOK' /\ ReqOK'
  BY <1>2, <1>3, ShownStays, DeadlinesStay, RequestsStay DEF DropOwn, shownVars
<1>4. ASSUME OnItemCreated
      PROVE  ShownOK' /\ DeadlinesOK' /\ FetchesOK' /\ ReqOK'
  <2>1. log[e].item \in Items
    BY <1>1, <1>4, EventTypes DEF OnItemCreated, Receives
  <2>2. newest' = Told(newest, log[e].item, {"card"}, e) /\ UNCHANGED <<board, overtaken, deadlines, req>>
        /\ FetchCard(log[e].item, e)
    BY <1>4 DEF OnItemCreated
  <2>3. ShownOK'
    BY <1>1, <1>2, <2>2, ToldType DEF ShownOK, Places
  <2>4. FetchesOK'
    BY <1>1, <1>2, <2>1, <2>2, FetchCardType
  <2> QED BY <1>2, <2>2, <2>3, <2>4, DeadlinesStay, RequestsStay
<1>5. ASSUME OnItemStatusChanged
      PROVE  ShownOK' /\ DeadlinesOK' /\ FetchesOK' /\ ReqOK'
  <2>1. log[e].item \in Items
    BY <1>1, <1>5, EventTypes DEF OnItemStatusChanged, Receives
  <2>2. /\ newest' = Told(newest, log[e].item, {"card", "timer"}, e) /\ UNCHANGED <<board, overtaken, req>>
        /\ FetchCard(log[e].item, e) /\ deadlines' = [deadlines EXCEPT ![log[e].item] = 0]
    BY <1>5 DEF OnItemStatusChanged, ResetDeadline
  <2>3. ShownOK'
    BY <1>1, <1>2, <2>2, ToldType DEF ShownOK, Places
  <2>4. FetchesOK'
    BY <1>1, <1>2, <2>1, <2>2, FetchCardType
  <2>5. DeadlinesOK'
    BY <1>1, <1>2, <2>1, <2>2 DEF DeadlinesOK, Places
  <2> QED BY <1>2, <2>2, <2>3, <2>4, <2>5, RequestsStay
<1>6. ASSUME OnItemUpdated
      PROVE  ShownOK' /\ DeadlinesOK' /\ FetchesOK' /\ ReqOK'
  <2> DEFINE i == log[e].item
             face == [Card(i) EXCEPT !.text = log[e].text]
             kinds == {"plain", "highlighted", "completed"}
  <2>1. i \in Items /\ log[e].text \in Texts \cup {None}
    BY <1>1, <1>6, EventTypes DEF OnItemUpdated, Receives
  <2>2. InPlace(e, i, "text", kinds, face) /\ UNCHANGED <<deadlines, fetches, req>>
    BY <1>6 DEF OnItemUpdated
  <2>3. Shows(i, kinds) => face \in Faces
    BY <1>2, <2>1, CardType, FaceParts DEF Shows
  <2>4. "text" \in Fields
    BY DEF Fields
  <2> HIDE DEF i, face, kinds, e
  <2>5. ShownOK'
    BY <1>1, <1>2, <2>1, <2>2, <2>3, <2>4, TabInPlace
  <2> QED BY <1>2, <2>2, <2>5, DeadlinesStay, RequestsStay
<1>7. ASSUME OnTimerUpdated
      PROVE  ShownOK' /\ DeadlinesOK' /\ FetchesOK' /\ ReqOK'
  <2> DEFINE i == log[e].item
             face == CountdownTo(Card(i), e)
             kinds == {"highlighted"}
  <2>1. i \in Items /\ log[e].type \in TimerEvents
    BY <1>1, <1>7, EventTypes DEF OnTimerUpdated, Receives, TimerEvents
  <2>2. InPlace(e, i, "timer", kinds, face) /\ UNCHANGED <<fetches, req>>
        /\ deadlines' = [deadlines EXCEPT ![i] = e]
    BY <1>7 DEF OnTimerUpdated
  <2>3. Shows(i, kinds) => face \in Faces
    <3>1. Deadline(e) \in Nat
      BY <1>1, <2>1, DeadlineType
    <3> QED BY <1>2, <2>1, <3>1, CardType, FaceParts DEF Shows, CountdownTo
  <2>4. "timer" \in Fields
    BY DEF Fields
  <2>5. DeadlinesOK'
    BY <1>1, <1>2, <2>1, <2>2 DEF DeadlinesOK, Places
  <2> HIDE DEF i, face, kinds, e
  <2>6. ShownOK'
    BY <1>1, <1>2, <2>1, <2>2, <2>3, <2>4, TabInPlace
  <2> QED BY <1>2, <2>2, <2>5, <2>6, RequestsStay
<1>8. ASSUME OnTimerElapsed
      PROVE  ShownOK' /\ DeadlinesOK' /\ FetchesOK' /\ ReqOK'
  <2> DEFINE i == log[e].item
             face == [Card(i) EXCEPT !.over = TRUE]
  <2>1. i \in Items
    BY <1>1, <1>8, EventTypes DEF OnTimerElapsed, Receives
  <2>2. newest' = Told(newest, i, {"timer"}, e) /\ UNCHANGED <<deadlines, fetches, req>>
    BY <1>8 DEF OnTimerElapsed
  <2>3. newest' \in [Items -> [Fields -> Places]]
    BY <1>1, <1>2, <2>2, ToldType DEF Places
  <2>4. ASSUME Shows(i, {"highlighted"})
        PROVE  board' \in [Items -> Pile] /\ overtaken' \in SUBSET (Items \X Fields)
    <3>1. board' = [board EXCEPT ![i] = <<face>> \o Tail(@)]
          /\ overtaken' \subseteq overtaken \cup {<<i, "timer">>}
      BY <1>8, <2>4 DEF OnTimerElapsed
    <3>2. face \in Faces /\ Tail(board[i]) = << >>
      BY <1>2, <2>1, <2>4, CardType, FaceParts DEF Shows
    <3>3. <<face>> \o Tail(board[i]) \in Pile
      <4> HIDE DEF face
      <4> QED BY <3>2, PileTypes
    <3>4. board' \in [Items -> Pile]
      BY <1>2, <3>1, <3>3 DEF ShownOK
    <3>5. overtaken' \in SUBSET (Items \X Fields)
      BY <1>2, <2>1, <3>1 DEF ShownOK, Fields
    <3> QED BY <3>4, <3>5
  <2>5. ~ Shows(i, {"highlighted"}) => UNCHANGED <<board, overtaken>>
    BY <1>8 DEF OnTimerElapsed
  <2>6. ShownOK'
    BY <1>1, <1>2, <2>3, <2>4, <2>5 DEF ShownOK, Places
  <2> QED BY <1>2, <2>2, <2>6, DeadlinesStay, RequestsStay
<1>9. ASSUME OnRetroArchived
      PROVE  ShownOK' /\ DeadlinesOK' /\ FetchesOK' /\ ReqOK'
  <2>1. /\ board' = Cleared(board)
        /\ overtaken' = {x \in Items \X Fields : e < newest[x[1]][x[2]]}
        /\ newest' = [i \in Items |-> [f \in Fields |-> Later(newest[i][f], e)]]
        /\ req' = [s \in Slots |-> [req[s] EXCEPT !.attached = req[s].kind = "add"]]
        /\ UNCHANGED <<deadlines, fetches>>
    BY <1>9 DEF OnRetroArchived
  <2>2. \A x \in Places : Later(x, e) \in Places
    BY <1>1 DEF Later
  <2>3. newest' \in [Items -> [Fields -> Places]]
    BY <1>2, <2>1, <2>2
  <2>4. board' \in [Items -> Pile]
    BY <2>1, PileTypes DEF Cleared
  <2>5. ShownOK'
    BY <1>1, <2>1, <2>3, <2>4 DEF ShownOK, Places
  <2>6. ASSUME NEW r \in Requests(Len(log)), RequestOK(r), NEW x \in BOOLEAN
        PROVE  [r EXCEPT !.attached = x] \in Requests(Len(log))
               /\ RequestOK([r EXCEPT !.attached = x])
    BY <2>6 DEF Requests, RequestOK
  <2>7. ReqOK'
    BY <1>1, <1>2, <2>1, <2>6 DEF ReqOK
  <2> QED BY <1>2, <2>1, <2>5, <2>7, DeadlinesStay, RequestsStay
<1> QED BY <1>1, <1>3, <1>4, <1>5, <1>6, <1>7, <1>8, <1>9 DEF Listener, TabInv

-----------------------------------------------------------------------------
(* The cards it fetches.                                                    *)

\* Every part of the tab that a step leaves alone keeps its type.
LEMMA ReqRow ==
    ASSUME ReqOK, NEW s \in Slots
    PROVE  req[s] \in Requests(Len(log)) /\ RequestOK(req[s])
BY DEF ReqOK

LEMMA DetachedType ==
    ASSUME ReqOK, NEW i
    PROVE  /\ Detached(req, i) \in [Slots -> Requests(Len(log))]
           /\ \A s \in Slots : RequestOK(Detached(req, i)[s])
<1>1. ASSUME NEW r \in Requests(Len(log)), RequestOK(r)
      PROVE  [r EXCEPT !.attached = FALSE] \in Requests(Len(log))
             /\ RequestOK([r EXCEPT !.attached = FALSE])
  BY <1>1 DEF Requests, RequestOK
<1> QED BY <1>1 DEF ReqOK, Detached

LEMMA CarriedType ==
    ASSUME ShownOK, NEW i \in Items, NEW p
    PROVE  Carried(i, p) \in SUBSET (Items \X Fields)
<1>1. {x \in {<<i, "timer">>} : LastEvent(SubSeq(log, 1, newest[i].timer), i, {"TIMER_STARTED", "TIMER_EXTENDED"}) < p}
        \in SUBSET (Items \X Fields)
  BY DEF Fields
<1>2. Shown(overtaken, i, {"card", "text"}, p) \in SUBSET (Items \X Fields)
  BY ShownType DEF ShownOK, Fields
<1> QED BY <1>1, <1>2 DEF Carried

LEMMA TabReplaceCard ==
    ASSUME BoardInv, ShownOK, DeadlinesOK, ReqOK, log' = log,
           NEW f \in Fetches(Len(log)), ReplaceCard(f)
    PROVE  ShownOK' /\ ReqOK'
<1> DEFINE i == f.item
           carry == CarriesOver(Card(i), f.face)
           face == IF carry THEN [f.face EXCEPT !.endAt = Card(i).endAt] ELSE f.face
           b == [board EXCEPT ![i] = <<face>> \o Tail(@)]
           o == IF carry THEN Carried(i, f.at) ELSE Shown(overtaken, i, Fields, f.at)
<1>1. i \in Items /\ f.face \in Faces /\ f.at \in Places /\ Len(log) \in Nat
  BY LogType DEF Fetches, Places
<1>2. CASE OnBoard(i)
  <2>1. newest' = Told(newest, i, Fields, f.at) /\ req' = Detached(req, i)
    BY <1>2 DEF ReplaceCard
  <2>2. RenderAllTimers(b, o, deadlines)
    BY <1>2 DEF ReplaceCard
  <2>3. Card(i) \in Faces /\ Tail(board[i]) = << >>
    BY <1>1, <1>2, CardType
  <2>4. face \in Faces
    <3>1. Card(i).endAt \in Nat
      BY <2>3 DEF Faces
    <3> QED BY <1>1, <3>1, FaceParts
  <2>5. o \in SUBSET (Items \X Fields)
    <3>1. Shown(overtaken, i, Fields, f.at) \in SUBSET (Items \X Fields)
      BY <1>1, ShownType DEF ShownOK
    <3> QED BY <1>1, <3>1, CarriedType
  <2>6. b = [board EXCEPT ![i] = <<face>> \o << >>]
    BY <2>3
  <2> HIDE DEF face, o, carry
  <2>7. b \in [Items -> Pile]
    <3>1. <<face>> \o << >> \in Pile
      BY <2>4, PileTypes
    <3> QED BY <2>6, <3>1 DEF ShownOK
  <2> HIDE DEF b, i
  <2>8. board' \in [Items -> Pile] /\ overtaken' \in SUBSET (Items \X Fields)
    BY <2>2, <2>5, <2>7, RenderAllType
  <2>9. newest' \in [Items -> [Fields -> 0 .. Len(log)]]
    BY <1>1, <2>1, ToldType DEF ShownOK, Places
  <2>10. ShownOK'
    BY <2>8, <2>9 DEF ShownOK, Places
  <2>11. ReqOK'
    BY <2>1, DetachedType DEF ReqOK
  <2> QED BY <2>10, <2>11
<1>3. CASE ~ OnBoard(i)
  <2>1. UNCHANGED <<board, overtaken, newest, req>>
    BY <1>3 DEF ReplaceCard
  <2> QED BY <2>1 DEF ShownOK, ReqOK, Places
<1> QED BY <1>2, <1>3

LEMMA TabInsertCard ==
    ASSUME BoardInv, ShownOK, DeadlinesOK, log' = log, NEW f \in Fetches(Len(log)), InsertCard(f)
    PROVE  ShownOK'
<1> DEFINE i == f.item
           b == [board EXCEPT ![i] = RemoveDuplicateCards(<<f.face>> \o @)]
           o == Shown(overtaken, i, Fields, f.at)
<1>1. i \in Items /\ f.face \in Faces /\ f.at \in Places /\ Len(log) \in Nat
  BY LogType DEF Fetches, Places
<1>2. CASE Inserts(i)
  <2>1. newest' = Told(newest, i, Fields, f.at) /\ RenderAllTimers(b, o, deadlines)
    BY <1>2 DEF InsertCard
  <2>2. o \in SUBSET (Items \X Fields)
    BY <1>1, ShownType DEF ShownOK
  <2>3. board[i] \in Seq(Faces)
    BY <1>1, PileTypes DEF ShownOK
  <2>4. RemoveDuplicateCards(<<f.face>> \o board[i]) \in Pile
    BY <1>1, <2>3, RemovesDuplicates, PileTypes
  <2>5. b \in [Items -> Pile]
    BY <2>4 DEF ShownOK
  <2> HIDE DEF b, o, i
  <2>6. board' \in [Items -> Pile] /\ overtaken' \in SUBSET (Items \X Fields)
    BY <2>1, <2>2, <2>5, RenderAllType
  <2>7. newest' \in [Items -> [Fields -> 0 .. Len(log)]]
    BY <1>1, <2>1, ToldType DEF ShownOK, Places
  <2> QED BY <2>6, <2>7 DEF ShownOK, Places
<1>3. CASE ~ Inserts(i)
  <2>1. UNCHANGED <<board, overtaken, newest>>
    BY <1>3 DEF InsertCard
  <2> QED BY <2>1 DEF ShownOK, Places
<1> QED BY <1>2, <1>3

LEMMA TabFetch ==
    ASSUME BoardInv, Grows, TabInv, NEW f \in fetches, ServeFetch(f) \/ FetchArrives(f) \/ FetchFails(f)
    PROVE  TabInv'
<1>1. /\ ShownOK /\ DeadlinesOK /\ StreamOK /\ FetchesOK /\ ReqOK /\ PostsOK /\ RestOK
      /\ f \in Fetches(Len(log)) /\ Len(log) \in Nat
  BY LogType DEF TabInv, FetchesOK
<1>2. log' = log
  BY DEF ServeFetch, FetchArrives, FetchFails, vars
<1>3. /\ DeadlinesOK'
      /\ StreamOK'
      /\ PostsOK' /\ RestOK'
  <2>1. UNCHANGED <<deadlines, posts, pending, fallback, settling>> /\ UNCHANGED streamVars
    BY DEF ServeFetch, FetchArrives, FetchFails, shownVars, timerVars
  <2> QED BY <1>1, <2>1, DeadlinesStay, StreamStays, RequestsStay
<1>4. ASSUME ServeFetch(f)
      PROVE  ShownOK' /\ FetchesOK' /\ ReqOK'
  <2> DEFINE face == Face(item[f.item])
             at == Moment(f.item, item[f.item], log)
  <2>1. fetches' = (fetches \ {f}) \cup
                      {[f EXCEPT !.phase = "answered", !.face = face, !.at = at]}
    BY <1>4 DEF ServeFetch
  <2>2. face \in Faces /\ at \in 0 .. Len(log)
    <3>1. f.item \in Items
      BY <1>1 DEF Fetches
    <3> QED BY <3>1, RowOf, FaceTypes, MomentType DEF Places
  <2> HIDE DEF face, at
  <2>3. [f EXCEPT !.phase = "answered", !.face = face, !.at = at] \in Fetches(Len(log))
    BY <1>1, <2>2 DEF Fetches
  <2>4. FetchesOK'
    BY <1>1, <1>2, <2>1, <2>3 DEF FetchesOK
  <2>5. UNCHANGED <<board, newest, overtaken, req>>
    BY <1>4 DEF ServeFetch, shownVars
  <2> QED BY <1>1, <2>4, <2>5, ShownStays, RequestsStay
<1>5. ASSUME FetchArrives(f)
      PROVE  ShownOK' /\ FetchesOK' /\ ReqOK'
  <2>1. fetches' = fetches \ {f}
    BY <1>5 DEF FetchArrives
  <2>2. FetchesOK'
    BY <1>1, <1>2, <2>1 DEF FetchesOK
  <2>3. ReplaceCard(f) \/ (InsertCard(f) /\ UNCHANGED req)
    BY <1>5 DEF FetchArrives
  <2>4. ShownOK' /\ ReqOK'
    BY <1>1, <1>2, <2>3, TabReplaceCard, TabInsertCard, RequestsStay
  <2> QED BY <2>2, <2>4
<1>6. ASSUME FetchFails(f)
      PROVE  ShownOK' /\ FetchesOK' /\ ReqOK'
  <2>1. /\ fetches' = fetches \ {f} /\ UNCHANGED <<board, newest, req>>
        /\ overtaken' = overtaken \cup {<<f.item, "card">>, <<f.item, "timer">>}
    BY <1>6 DEF FetchFails
  <2>2. FetchesOK'
    BY <1>1, <1>2, <2>1 DEF FetchesOK
  <2>3. overtaken' \in SUBSET (Items \X Fields)
    BY <1>1, <2>1 DEF ShownOK, Fetches, Fields
  <2>4. ShownOK'
    BY <1>1, <1>2, <2>1, <2>3 DEF ShownOK, Places
  <2> QED BY <1>1, <2>1, <2>2, <2>4, RequestsStay
<1> QED BY <1>3, <1>4, <1>5, <1>6 DEF TabInv

-----------------------------------------------------------------------------
(* The requests of its buttons and forms.                                   *)

LEMMA NoReqOK ==
    \A n \in Nat : NoReq \in Requests(n) /\ RequestOK(NoReq)
BY FaceTypes DEF NoReq, Requests, RequestOK, Kinds, Phases, None

\* One request takes a new form.
LEMMA OneRequest ==
    ASSUME Grows, ReqOK, NEW s \in Slots, NEW r \in Requests(Len(log')), RequestOK(r),
           req' = [req EXCEPT ![s] = r]
    PROVE  ReqOK'
<1>1. req \in [Slots -> Requests(Len(log'))]
  BY RequestsGrow DEF ReqOK
<1>2. req' \in [Slots -> Requests(Len(log'))]
  BY <1>1
<1>3. \A x \in Slots : req'[x] = IF x = s THEN r ELSE req[x]
  BY <1>1
<1> QED BY <1>2, <1>3 DEF ReqOK

LEMMA TabProgress ==
    ASSUME Grows, BoardInv', TabInv, arch' = arch, NEW s \in Slots,
           NEW phase \in {"committed", "answered"}, NEW i \in Items, NEW face \in Faces,
           NEW header \in 0 .. Len(log'), Progress(s, phase, i, face, header)
    PROVE  TabInv'
<1> DEFINE at == IF face = NoFace THEN 0 ELSE Moment(i, item'[i], log')
           r == [req[s] EXCEPT !.phase = phase, !.item = i, !.face = face, !.header = header, !.at = at]
<1>1. at \in 0 .. Len(log')
  BY MomentNext DEF Grows
<1>2. req' = [req EXCEPT ![s] = r]
  BY DEF Progress
<1>3. UNCHANGED <<board, newest, overtaken, deadlines, fetches, posts, pending, fallback, settling>>
      /\ UNCHANGED streamVars
  BY DEF Progress, shownVars, timerVars
<1> HIDE DEF at
<1>4. r \in Requests(Len(log')) /\ RequestOK(r)
  <2>1. req[s] \in Requests(Len(log')) /\ RequestOK(req[s])
    BY ReqRow, RequestsGrow DEF TabInv
  <2> QED BY <1>1, <2>1 DEF Requests, RequestOK, Phases
<1> HIDE DEF r
<1>5. ReqOK'
  BY <1>2, <1>4, OneRequest DEF TabInv
<1> QED BY <1>3, <1>5, ShownStays, DeadlinesStay, StreamStays, RequestsStay DEF TabInv

LEMMA TabClick ==
    ASSUME Grows, TabInv, NEW s \in Slots, NEW i \in Items, NEW kind \in Kinds \ {"idle", "add"},
           NEW text \in Texts \cup {None}, kind = "update" => text \in Texts,
           BrowserAssumption, Click(s, i, kind, text)
    PROVE  TabInv'
<1> DEFINE r == [NoReq EXCEPT !.kind = kind, !.item = i, !.text = text,
                              !.phase = "sent", !.attached = TRUE]
<1>0. log' = log
  BY DEF Click, vars
<1>1. req' = [req EXCEPT ![s] = r]
  BY DEF Click
<1>2. r \in Requests(Len(log')) /\ RequestOK(r)
  <2>1. NoReq \in Requests(Len(log'))
    BY NoReqOK DEF Grows
  <2>2. r.editor = None /\ r.kind = kind /\ r.item = i /\ r.text = text /\ r.phase = "sent"
    BY DEF NoReq
  <2> QED BY <2>1, <2>2 DEF Requests, RequestOK, Phases
<1> HIDE DEF r
<1>3. ReqOK'
  BY <1>1, <1>2, OneRequest DEF TabInv
<1>4. UNCHANGED <<board, newest, overtaken, fetches, posts, pending, settling>>
      /\ UNCHANGED streamVars
  BY DEF Click
<1>5. /\ UNCHANGED deadlines \/ deadlines' = [deadlines EXCEPT ![i] = 0]
      /\ UNCHANGED fallback \/ fallback' = [fallback EXCEPT ![i] = Later(@, 1)]
  BY DEF Click, ForgetDeadline
<1>6. DeadlinesOK'
  BY <1>0, <1>5 DEF TabInv, DeadlinesOK, Places, Grows
<1>7. RestOK'
  <2>1. \A x \in 0 .. MaxAttempts : Later(x, 1) \in 0 .. MaxAttempts
    BY DEF Later, BrowserAssumption
  <2> QED BY <1>4, <1>5, <2>1 DEF TabInv, RestOK
<1> QED BY <1>3, <1>4, <1>6, <1>7, ShownStays, StreamStays, RequestsStay DEF TabInv

LEMMA TabSubmitCard ==
    ASSUME Grows, TabInv, NEW s \in Slots, NEW text \in Texts, SubmitCard(s, text)
    PROVE  TabInv'
<1> DEFINE r == [NoReq EXCEPT !.kind = "add", !.text = text, !.phase = "sent", !.attached = TRUE]
<1>1. req' = [req EXCEPT ![s] = r]
  BY DEF SubmitCard
<1>2. r \in Requests(Len(log')) /\ RequestOK(r)
  <2>1. NoReq \in Requests(Len(log'))
    BY NoReqOK DEF Grows
  <2>2. r.editor = None /\ r.kind = "add" /\ r.text = text /\ r.phase = "sent"
    BY DEF NoReq
  <2> QED BY <2>1, <2>2 DEF Requests, RequestOK, Phases, Kinds
<1> HIDE DEF r
<1>3. ReqOK'
  BY <1>1, <1>2, OneRequest DEF TabInv
<1>4. UNCHANGED <<board, newest, overtaken, deadlines, fetches, posts, pending, fallback, settling>>
      /\ UNCHANGED streamVars
  BY DEF SubmitCard, shownVars, timerVars
<1> QED BY <1>3, <1>4, ShownStays, DeadlinesStay, StreamStays, RequestsStay DEF TabInv

LEMMA TabRequestFails ==
    ASSUME Grows, TabInv, NEW s \in Slots, RequestFails(s)
    PROVE  TabInv'
<1>1. NoReq \in Requests(Len(log')) /\ RequestOK(NoReq)
  BY NoReqOK DEF Grows
<1>2. ReqOK'
  BY <1>1, OneRequest DEF TabInv, RequestFails
<1>3. UNCHANGED <<board, newest, overtaken, deadlines, fetches, posts, pending, fallback, settling>>
      /\ UNCHANGED streamVars
  BY DEF RequestFails, shownVars, timerVars
<1> QED BY <1>2, <1>3, ShownStays, DeadlinesStay, StreamStays, RequestsStay DEF TabInv

\* The server answers the requests.
LEMMA TabServe ==
    ASSUME BoardInv, BoardInv', Grows, TabInv, NEW s \in Slots,
           ServeStatus(s) \/ ServeAdd(s) \/ ServeUpdate(s) \/ ServeCard(s)
    PROVE  TabInv'
<1>0. req[s] \in Requests(Len(log)) /\ RequestOK(req[s])
  BY ReqRow DEF TabInv
<1>1. ASSUME ServeStatus(s)
      PROVE  TabInv'
  <2> DEFINE i == req[s].item
  <2>1. i \in Items /\ ItemHandler(i) /\ arch' = arch
    <3>1. i \in Items
      BY <1>0, <1>1 DEF ServeStatus, RequestOK, StatusActions
    <3>2. req[s].kind \in {"highlight", "cancel", "complete"} /\ ChangeItemStatus(i, req[s].kind)
      BY <1>1 DEF ServeStatus, StatusActions
    <3> QED BY <3>1, <3>2 DEF ItemHandler, ChangeItemStatus
  <2>2. answer'.header \in 0 .. Len(log')
    BY <2>1, HeaderPlace
  <2>3. Progress(s, "committed", i, NoFace, answer'.header)
    BY <1>1 DEF ServeStatus
  <2> HIDE DEF i
  <2> QED BY <2>1, <2>2, <2>3, FaceTypes, TabProgress
<1>2. ASSUME ServeAdd(s)
      PROVE  TabInv'
  <2>1. req[s].text \in Texts
    BY <1>0, <1>2 DEF ServeAdd, RequestOK
  <2>2. PICK i \in Items : AddItem(i, req[s].text)
                           /\ Progress(s, "answered", i, Face(item'[i]), answer'.header)
    BY <1>2 DEF ServeAdd
  <2>3. ItemHandler(i) /\ arch' = arch
    BY <2>1, <2>2 DEF ItemHandler, AddItem
  <2>4. answer'.header \in 0 .. Len(log')
    BY <2>3, HeaderPlace
  <2>5. Face(item'[i]) \in Faces
    BY RowNext, FaceTypes
  <2> QED BY <2>2, <2>3, <2>4, <2>5, TabProgress
<1>3. ASSUME NEW q \in Editors, ReadOldText(q, req[s].item, req[s].text),
             req[s].kind = "update",
             req' = [req EXCEPT ![s].phase = "read", ![s].editor = q],
             UNCHANGED <<shownVars, streamVars, fetches, timerVars, settling>>
      PROVE  TabInv'
  <2> DEFINE r == [req[s] EXCEPT !.phase = "read", !.editor = q]
  <2>1. req' = [req EXCEPT ![s] = r]
    BY <1>3
  <2>2. r \in Requests(Len(log')) /\ RequestOK(r)
    <3>1. req[s] \in Requests(Len(log'))
      BY <1>0, RequestsGrow
    <3> QED BY <1>0, <1>3, <3>1 DEF Requests, RequestOK, Phases
  <2> HIDE DEF r
  <2>3. ReqOK'
    BY <2>1, <2>2, OneRequest DEF TabInv
  <2>4. UNCHANGED <<board, newest, overtaken, deadlines, fetches, posts, pending, fallback, settling>>
        /\ UNCHANGED streamVars
    BY <1>3 DEF shownVars, timerVars
  <2> QED BY <2>3, <2>4, ShownStays, DeadlinesStay, StreamStays, RequestsStay DEF TabInv
<1>4. ASSUME req[s].kind = "update", req[s].phase = "read", UpdateText(req[s].editor),
             Progress(s, "answered", req[s].item, Face(item'[req[s].item]), answer'.header)
      PROVE  TabInv'
  <2>1. req[s].editor \in Editors /\ req[s].item \in Items
    BY <1>0, <1>4 DEF RequestOK
  <2>2. answer'.header \in 0 .. Len(log')
    BY <1>4, <2>1, UpdateHeaderPlace
  <2>3. Face(item'[req[s].item]) \in Faces
    BY <2>1, RowNext, FaceTypes
  <2>4. arch' = arch
    BY <1>4 DEF UpdateText
  <2> QED BY <1>4, <2>1, <2>2, <2>3, <2>4, TabProgress
<1>5. ASSUME ServeCard(s)
      PROVE  TabInv'
  <2> DEFINE i == req[s].item
             face == IF req[s].kind = "edit" THEN EditForm(item[i]) ELSE Face(item[i])
  <2>1. i \in Items
    BY <1>0, <1>5 DEF ServeCard, RequestOK
  <2>2. face \in Faces
    BY <2>1, RowOf, FaceTypes
  <2>3. Progress(s, "answered", i, face, req[s].header) /\ arch' = arch /\ log' = log
    BY <1>5 DEF ServeCard, vars
  <2>4. req[s].header \in 0 .. Len(log')
    BY <1>0, <2>3 DEF Requests
  <2> HIDE DEF i, face
  <2> QED BY <2>1, <2>2, <2>3, <2>4, TabProgress
<1>6. ServeUpdate(s) => TabInv'
  BY <1>3, <1>4 DEF ServeUpdate
<1> QED BY <1>1, <1>2, <1>5, <1>6

-----------------------------------------------------------------------------
(* Responses, and the timer requests.                                       *)

\* A request is added to those under way.
LEMMA PostType ==
    ASSUME NEW m \in Nat, NEW ps, \A p \in ps : PostOK(p, m), NEW i \in Items, NEW path
    PROVE  /\ \A p \in Post(ps, i, path) : PostOK(p, m)
           /\ ps \subseteq Post(ps, i, path)
           /\ \E p \in Post(ps, i, path) : p.item = i
<1>1. PICK p : Post(ps, i, path) = ps \cup {p} /\ PostOK(p, m) /\ p.item = i
  <2> DEFINE alike == {p.nr : p \in {x \in ps : x.item = i /\ x.path = path}}
             nr == Min((1..Cardinality(alike) + 1) \ alike)
             q == [item |-> i, path |-> path, nr |-> nr, phase |-> "sent", face |-> NoFace,
                   header |-> 0, at |-> 0]
  <2>1. Post(ps, i, path) = ps \cup {q}
    BY DEF Post
  <2> HIDE DEF nr
  <2>2. PostOK(q, m) /\ q.item = i
    BY FaceTypes DEF PostOK
  <2> QED BY <2>1, <2>2
<1> QED BY <1>1

LEMMA PostsAdd ==
    ASSUME Grows, PostsOK, NEW i \in Items, NEW path,
           posts' = Post(posts, i, path), pending' = pending \cup {i}
    PROVE  PostsOK'
<1>1. \A p \in posts : PostOK(p, Len(log'))
  BY PostsGrow DEF PostsOK
<1>2. Len(log') \in Nat
  BY DEF Grows
<1>3. /\ \A p \in posts' : PostOK(p, Len(log'))
      /\ posts \subseteq posts'
      /\ \E p \in posts' : p.item = i
  BY <1>1, <1>2, PostType
<1>4. ASSUME NEW j \in pending'
      PROVE  \E p \in posts' : p.item = j
  BY <1>3 DEF PostsOK
<1> QED BY <1>3, <1>4 DEF PostsOK

LEMMA TabResponse ==
    ASSUME BoardInv, Grows, TabInv, NEW s \in Slots, ResponseArrives(s)
    PROVE  TabInv'
<1> DEFINE r == req[s]
           i == r.item
           old == IF r.kind = "add" THEN board[i] ELSE Tail(board[i])
<1>0. /\ r \in Requests(Len(log)) /\ RequestOK(r) /\ Len(log) \in Nat
      /\ ShownOK /\ DeadlinesOK /\ StreamOK /\ FetchesOK /\ ReqOK /\ PostsOK /\ RestOK
  BY ReqRow, LogType DEF TabInv
<1>1. /\ log' = log /\ UNCHANGED <<deadlines, cleared, queue, cursor, fetches, fallback>>
      /\ r.phase = "answered"
  BY DEF ResponseArrives, vars
<1>2. DeadlinesOK' /\ FetchesOK'
  BY <1>0, <1>1, DeadlinesStay, RequestsStay
<1>3. i \in Items /\ r.face \in Faces /\ r.at \in Places /\ r.header \in Places
  BY <1>0, <1>1 DEF RequestOK, Requests, Places
<1>4. ASSUME r.attached
      PROVE  ShownOK' /\ StreamOK' /\ ReqOK' /\ PostsOK' /\ RestOK'
  <2>1. /\ board' = [board EXCEPT ![i] = RemoveDuplicateCards(<<r.face>> \o old)]
        /\ overtaken' = Shown(overtaken, i, Fields, r.at)
        /\ newest' = Told(newest, i, Fields, r.at)
        /\ applied' = IF r.header = 0 THEN applied ELSE applied \cup {r.header}
        /\ settling' = TRUE
        /\ req' = [Detached(req, i) EXCEPT ![s] = NoReq]
        /\ \/ posts' = Post(posts, i, "start") /\ pending' = pending \cup {i}
           \/ UNCHANGED <<posts, pending>>
    BY <1>4 DEF ResponseArrives
  <2>2. RestOK'
    BY <1>0, <1>1, <2>1 DEF RestOK
  <2>3. PostsOK'
    BY <1>0, <1>3, <2>1, PostsAdd, RequestsStay
  <2>4. StreamOK'
    BY <1>0, <1>1, <1>3, <2>1 DEF StreamOK, Places
  <2>5. ReqOK'
    <3>1. /\ Detached(req, i) \in [Slots -> Requests(Len(log))]
          /\ \A x \in Slots : RequestOK(Detached(req, i)[x])
          /\ NoReq \in Requests(Len(log)) /\ RequestOK(NoReq)
      BY <1>0, DetachedType, NoReqOK
    <3> QED BY <1>1, <2>1, <3>1 DEF ReqOK
  <2>6. RemoveDuplicateCards(<<r.face>> \o old) \in Pile
    <3>1. old \in Seq(Faces)
      <4>1. board[i] \in Pile
        BY <1>0, <1>3 DEF ShownOK
      <4>2. board[i] # << >>
            => Tail(board[i]) = << >>
        BY <4>1, PileTypes
      <4>3. CASE board[i] # << >>
        BY <4>1, <4>2, <4>3, PileTypes
      <4>4. CASE board[i] = << >>
        <5>1. << >> \in Seq(Faces) /\ Tail(<< >>) \in Seq(Faces)
          OBVIOUS
        <5> QED BY <4>4, <5>1
      <4> QED BY <4>3, <4>4
    <3> HIDE DEF old
    <3> QED BY <1>3, <3>1, RemovesDuplicates, PileTypes
  <2>7. board' \in [Items -> Pile]
    <3> HIDE DEF old
    <3> QED BY <1>0, <2>1, <2>6 DEF ShownOK
  <2>8. newest' \in [Items -> [Fields -> 0 .. Len(log)]]
    BY <1>0, <1>3, <2>1, ToldType DEF ShownOK, Places
  <2>9. overtaken' \in SUBSET (Items \X Fields)
    BY <1>0, <1>3, <2>1, ShownType DEF ShownOK
  <2> QED BY <1>1, <2>2, <2>3, <2>4, <2>5, <2>7, <2>8, <2>9 DEF ShownOK, Places
<1>5. ASSUME ~ r.attached
      PROVE  ShownOK' /\ StreamOK' /\ ReqOK' /\ PostsOK' /\ RestOK'
  <2>1. /\ req' = [req EXCEPT ![s] = NoReq]
        /\ UNCHANGED <<board, overtaken, newest, applied, settling, posts, pending>>
    BY <1>5 DEF ResponseArrives
  <2>2. NoReq \in Requests(Len(log')) /\ RequestOK(NoReq)
    BY NoReqOK DEF Grows
  <2>3. ReqOK'
    BY <1>0, <2>1, <2>2, OneRequest
  <2> QED BY <1>0, <1>1, <2>1, <2>3, ShownStays, StreamStays, RequestsStay DEF streamVars
<1> QED BY <1>2, <1>4, <1>5 DEF TabInv

LEMMA TabSettle ==
    ASSUME BoardInv, Grows, TabInv, Settle
    PROVE  TabInv'
<1>1. /\ log' = log /\ newest' = newest /\ settling' = FALSE
      /\ UNCHANGED <<deadlines, fetches, req, posts, pending, fallback>> /\ UNCHANGED streamVars
      /\ RenderAllTimers(board, overtaken, deadlines)
  BY DEF Settle, vars, timerVars
<1>2. board' \in [Items -> Pile] /\ overtaken' \in SUBSET (Items \X Fields)
  BY <1>1, RenderAllType DEF TabInv, ShownOK
<1>3. ShownOK'
  BY <1>1, <1>2 DEF TabInv, ShownOK, Places
<1>4. RestOK'
  BY <1>1 DEF TabInv, RestOK
<1> QED BY <1>1, <1>3, <1>4, DeadlinesStay, StreamStays, RequestsStay DEF TabInv

LEMMA TabClickExtend ==
    ASSUME Grows, TabInv, NEW i \in Items, ClickExtend(i)
    PROVE  TabInv'
<1>1. /\ posts' = Post(posts, i, "extend") /\ pending' = pending \cup {i}
      /\ UNCHANGED <<board, newest, overtaken, deadlines, fetches, req, fallback, settling>>
      /\ UNCHANGED streamVars
  BY DEF ClickExtend, shownVars
<1>2. PostsOK'
  BY <1>1, PostsAdd DEF TabInv
<1> QED BY <1>1, <1>2, ShownStays, DeadlinesStay, StreamStays, RequestsStay DEF TabInv

LEMMA TabFallbackTick ==
    ASSUME Grows, TabInv, BrowserAssumption, NEW i \in Items, FallbackTick(i)
    PROVE  TabInv'
<1>1. /\ \/ posts' = Post(posts, i, "start") /\ pending' = pending \cup {i}
         \/ UNCHANGED <<posts, pending>>
      /\ \E x : x \in {0, fallback[i]} \cup {n \in {fallback[i] + 1} : fallback[i] < MaxAttempts}
                /\ fallback' = [fallback EXCEPT ![i] = x]
      /\ UNCHANGED <<board, newest, overtaken, deadlines, fetches, req, settling>>
      /\ UNCHANGED streamVars
  BY DEF FallbackTick, shownVars
<1>2. PostsOK'
  BY <1>1, PostsAdd, RequestsStay DEF TabInv
<1>3. RestOK'
  <2>1. fallback[i] \in 0 .. MaxAttempts /\ MaxAttempts \in Nat
    BY DEF TabInv, RestOK, BrowserAssumption
  <2>2. \A x \in {0, fallback[i]} \cup {n \in {fallback[i] + 1} : fallback[i] < MaxAttempts} :
            x \in 0 .. MaxAttempts
    BY <2>1
  <2> QED BY <1>1, <2>2 DEF TabInv, RestOK
<1> QED BY <1>1, <1>2, <1>3, ShownStays, DeadlinesStay, StreamStays, RequestsStay DEF TabInv

LEMMA TabServePost ==
    ASSUME BoardInv', Grows, TabInv, NEW p \in posts, ServePost(p)
    PROVE  TabInv'
<1> DEFINE i == p.item
           face == Face(item'[i])
           at == Moment(i, item'[i], log')
           header == answer'.header
           q == [p EXCEPT !.phase = "answered", !.face = face, !.header = header, !.at = at]
<1>1. /\ posts' = (posts \ {p}) \cup {q}
      /\ UNCHANGED <<board, newest, overtaken, deadlines, fetches, req, pending, fallback, settling>>
      /\ UNCHANGED streamVars
  BY DEF ServePost, shownVars
<1>2. PostOK(p, Len(log)) /\ i \in Items
  BY DEF TabInv, PostsOK, PostOK
<1>3. ItemHandler(i) /\ arch' = arch
  <2>1. (\E d \in Submitted : StartItemTimer(i, d)) \/ ExtendItemTimer(i)
    BY DEF ServePost
  <2> QED BY <2>1 DEF ItemHandler, StartItemTimer, ExtendItemTimer
<1>4. face \in Faces /\ at \in 0 .. Len(log') /\ header \in 0 .. Len(log')
  BY <1>2, <1>3, RowNext, FaceTypes, MomentNext, HeaderPlace
<1> HIDE DEF face, at, header
<1>5. PostOK(q, Len(log')) /\ q.item = i
  <2>1. PICK j, path, nr, phase, f, h, m :
             p = [item |-> j, path |-> path, nr |-> nr, phase |-> phase, face |-> f,
                  header |-> h, at |-> m]
    BY <1>2 DEF PostOK
  <2>2. q = [item |-> j, path |-> path, nr |-> nr, phase |-> "answered", face |-> face,
             header |-> header, at |-> at]
    <3> DEFINE old == [item |-> j, path |-> path, nr |-> nr, phase |-> phase, face |-> f,
                       header |-> h, at |-> m]
    <3>1. q = [old EXCEPT !.phase = "answered", !.face = face, !.header = header, !.at = at]
      BY Zenon, <2>1
    <3> HIDE DEF q
    <3> QED BY <3>1
  <2>3. p.item = j
    BY <2>1
  <2> HIDE DEF q
  <2>4. /\ q.item = j /\ q.face = face /\ q.header = header /\ q.at = at
        /\ q = [item |-> q.item, path |-> q.path, nr |-> q.nr, phase |-> q.phase, face |-> q.face,
                header |-> q.header, at |-> q.at]
    BY <2>2
  <2> QED BY <1>2, <1>4, <2>3, <2>4 DEF PostOK
<1> HIDE DEF q
<1>6. PostsOK'
  <2>1. \A x \in posts' : PostOK(x, Len(log'))
    BY <1>1, <1>5, PostsGrow DEF TabInv, PostsOK
  <2>2. ASSUME NEW j \in pending
        PROVE  \E x \in posts' : x.item = j
    BY <1>1, <1>5 DEF TabInv, PostsOK
  <2> QED BY <1>1, <2>1, <2>2 DEF PostsOK
<1> QED BY <1>1, <1>6, ShownStays, DeadlinesStay, StreamStays, RequestsStay DEF TabInv

\* A request that ends leaves the name of its card if another one has it.
LEMMA PostGone ==
    ASSUME Grows, PostsOK, NEW p \in posts, posts' = posts \ {p}, pending' = pending \ {p.item}
    PROVE  PostsOK'
<1>1. \A x \in posts' : PostOK(x, Len(log'))
  BY PostsGrow DEF PostsOK
<1>2. ASSUME NEW j \in pending'
      PROVE  \E x \in posts' : x.item = j
  BY DEF PostsOK
<1> QED BY <1>1, <1>2 DEF PostsOK

LEMMA TabPostFails ==
    ASSUME Grows, TabInv, NEW p \in posts, PostFails(p)
    PROVE  TabInv'
<1>1. /\ posts' = posts \ {p} /\ pending' = pending \ {p.item}
      /\ UNCHANGED <<board, newest, overtaken, deadlines, fetches, req, fallback, settling>>
      /\ UNCHANGED streamVars
  BY DEF PostFails, shownVars
<1>2. PostsOK'
  BY <1>1, PostGone DEF TabInv
<1> QED BY <1>1, <1>2, ShownStays, DeadlinesStay, StreamStays, RequestsStay DEF TabInv

LEMMA TabPostArrives ==
    ASSUME BoardInv, Grows, TabInv, NEW p \in posts, PostArrives(p)
    PROVE  TabInv'
<1> DEFINE i == p.item
           badge == [Card(i) EXCEPT !.endAt = p.face.endAt, !.elapsed = p.face.elapsed,
                                    !.over = p.face.elapsed]
           both == Shows(i, {"highlighted"}) /\ p.face.kind = "highlighted"
<1>0. /\ ShownOK /\ DeadlinesOK /\ StreamOK /\ FetchesOK /\ ReqOK /\ PostsOK /\ RestOK
      /\ PostOK(p, Len(log)) /\ Len(log) \in Nat
  BY LogType DEF TabInv, PostsOK
<1>1. /\ log' = log /\ UNCHANGED <<deadlines, cleared, queue, cursor, fetches, req, fallback, settling>>
      /\ posts' = posts \ {p} /\ pending' = pending \ {p.item}
      /\ applied' = IF p.header = 0 THEN applied ELSE applied \cup {p.header}
  BY DEF PostArrives, vars
<1>2. i \in Items /\ p.face \in Faces /\ p.at \in Places /\ p.header \in Places
  BY <1>0 DEF PostOK, Places
<1>3. PostsOK'
  BY <1>0, <1>1, PostGone
<1>4. StreamOK'
  BY <1>0, <1>1, <1>2 DEF StreamOK, Places
<1>5. DeadlinesOK' /\ FetchesOK' /\ ReqOK' /\ RestOK'
  BY <1>0, <1>1, DeadlinesStay, RequestsStay
<1>6. CASE both
  <2> DEFINE new == RenderTimer(badge, i, deadlines)
             told == IF FromDeadlines(badge, i, deadlines) THEN deadlines[i] ELSE p.at
  <2>1. /\ newest' = Told(newest, i, {"timer"}, p.at)
        /\ board' = [board EXCEPT ![i] = <<new>> \o Tail(@)]
        /\ overtaken' = Shown(overtaken, i, {"timer"}, told)
    BY <1>6 DEF PostArrives
  <2>2. Card(i) \in Faces /\ Tail(board[i]) = << >>
    BY <1>0, <1>2, <1>6, CardType DEF Shows
  <2>3. badge \in Faces
    <3>1. p.face.endAt \in Nat /\ p.face.elapsed \in BOOLEAN
      BY <1>2 DEF Faces
    <3> QED BY <2>2, <3>1 DEF Faces
  <2> HIDE DEF badge
  <2>4. new \in Faces
    BY <1>0, <1>2, <2>3, RenderTimerType
  <2> HIDE DEF new, told, i
  <2>5. <<new>> \o << >> \in Pile
    BY <2>4, PileTypes
  <2>6. board' \in [Items -> Pile]
    BY <1>0, <2>1, <2>2, <2>5 DEF ShownOK
  <2>7. newest' \in [Items -> [Fields -> 0 .. Len(log)]]
    BY <1>0, <1>2, <2>1, ToldType DEF ShownOK, Places
  <2>8. overtaken' \in SUBSET (Items \X Fields)
    BY <1>0, <1>2, <2>1, ShownType DEF ShownOK, Fields
  <2>9. ShownOK'
    BY <1>1, <2>6, <2>7, <2>8 DEF ShownOK, Places
  <2> QED BY <1>3, <1>4, <1>5, <2>9 DEF TabInv
<1>7. CASE ~ both
  <2>1. /\ newest' = Told(newest, i, {"timer"}, p.header)
        /\ overtaken' = overtaken \cup
              {x \in {<<i, "timer">>} : newest[i].timer < p.header /\ Shows(i, {"highlighted"})}
        /\ board' = board
    BY <1>7 DEF PostArrives
  <2>2. newest' \in [Items -> [Fields -> 0 .. Len(log)]]
    BY <1>0, <1>2, <2>1, ToldType DEF ShownOK, Places
  <2>3. overtaken' \in SUBSET (Items \X Fields)
    BY <1>0, <1>2, <2>1 DEF ShownOK, Fields
  <2>4. ShownOK'
    BY <1>0, <1>1, <2>1, <2>2, <2>3 DEF ShownOK, Places
  <2> QED BY <1>3, <1>4, <1>5, <2>4 DEF TabInv
<1> QED BY <1>6, <1>7

-----------------------------------------------------------------------------
(* The theorems.                                                            *)

LEMMA TabInit ==
    ASSUME CardsAssumption, BrowserAssumption, BrowserInit
    PROVE  TabInv
<1>1. BoardInv
  BY BoardInit
<1>2. Len(log) \in Nat
  BY <1>1, LogType
<1>3. /\ board = [i \in Items |-> IF i \in AtLoad THEN <<Face(item[i])>> ELSE << >>]
      /\ overtaken = {}
      /\ newest = [i \in Items |-> [f \in Fields |-> Moment(i, item[i], log)]]
      /\ deadlines = [i \in Items |-> 0] /\ applied = {} /\ cleared = 0 /\ queue = << >>
      /\ cursor = Len(log) /\ fetches = {} /\ req = [s \in Slots |-> NoReq] /\ posts = {}
      /\ pending = {} /\ fallback = [i \in Items |-> 0] /\ settling = FALSE
  BY DEF BrowserInit
<1>4. ShownOK
  <2>1. \A i \in Items : (IF i \in AtLoad THEN <<Face(item[i])>> ELSE << >>) \in Pile
    BY <1>1, RowOf, FaceTypes, PileTypes
  <2>2. board \in [Items -> Pile]
    BY <1>3, <2>1
  <2>3. newest \in [Items -> [Fields -> Places]]
    BY <1>1, <1>3, MomentType
  <2> QED BY <1>3, <2>2, <2>3 DEF ShownOK
<1>5. DeadlinesOK
  BY <1>2, <1>3 DEF DeadlinesOK, Places
<1>6. StreamOK
  <2>1. queue \in Seq(DOMAIN log)
    BY <1>3
  <2> QED BY <1>2, <1>3, <2>1 DEF StreamOK, Places
<1>7. FetchesOK /\ PostsOK
  BY <1>3 DEF FetchesOK, PostsOK
<1>8. ReqOK
  BY <1>2, <1>3, NoReqOK DEF ReqOK
<1>9. RestOK
  <2>1. 0 \in 0 .. MaxAttempts
    BY DEF BrowserAssumption
  <2>2. fallback \in [Items -> 0 .. MaxAttempts]
    BY <1>3, <2>1
  <2>3. settling \in BOOLEAN
    BY <1>3
  <2> QED BY <2>2, <2>3 DEF RestOK
<1> QED BY <1>4, <1>5, <1>6, <1>7, <1>8, <1>9 DEF TabInv

LEMMA TabStep ==
    ASSUME CardsAssumption, BrowserAssumption, BoardInv, TabInv, [BrowserNext]_browserVars
    PROVE  BoardInv' /\ TabInv'
<1>0. [Next]_vars
  BY StepOfBoard
<1>1. BoardInv' /\ Grows
  BY <1>0, BoardGrows
<1>2. CASE UNCHANGED browserVars
  BY <1>1, <1>2, TabElsewhere DEF browserVars
<1>3. CASE Elsewhere
  BY <1>1, <1>3, TabElsewhere DEF Elsewhere
<1>4. CASE Publish
  BY <1>1, <1>4, TabPublish
<1>5. CASE Listener
  BY <1>1, <1>5, TabListener
<1>6. ASSUME NEW f \in fetches, ServeFetch(f) \/ FetchArrives(f) \/ FetchFails(f)
      PROVE  TabInv'
  BY <1>1, <1>6, TabFetch
<1>7. ASSUME NEW s \in Slots, Request(s)
      PROVE  TabInv'
  <2>1. ASSUME NEW i \in Items, NEW kind \in StatusActions \cup {"like", "edit", "show"},
               Click(s, i, kind, None)
        PROVE  TabInv'
    <3>1. kind \in Kinds \ {"idle", "add"} /\ kind # "update"
      BY DEF Kinds, StatusActions
    <3> QED BY <1>1, <2>1, <3>1, TabClick
  <2>2. ASSUME NEW i \in Items, NEW text \in Texts, Click(s, i, "update", text)
        PROVE  TabInv'
    <3>1. "update" \in Kinds \ {"idle", "add"}
      BY DEF Kinds
    <3> QED BY <1>1, <2>2, <3>1, TabClick
  <2>3. ASSUME NEW text \in Texts, SubmitCard(s, text)
        PROVE  TabInv'
    BY <1>1, <2>3, TabSubmitCard
  <2>4. ServeStatus(s) \/ ServeAdd(s) \/ ServeUpdate(s) \/ ServeCard(s) => TabInv'
    BY <1>1, TabServe
  <2>5. ResponseArrives(s) => TabInv'
    BY <1>1, TabResponse
  <2>6. RequestFails(s) => TabInv'
    BY <1>1, TabRequestFails
  <2> QED BY <1>7, <2>1, <2>2, <2>3, <2>4, <2>5, <2>6 DEF Request
<1>8. CASE Settle
  BY <1>1, <1>8, TabSettle
<1>9. ASSUME NEW p \in posts, ServePost(p) \/ PostArrives(p) \/ PostFails(p)
      PROVE  TabInv'
  BY <1>1, <1>9, TabServePost, TabPostArrives, TabPostFails
<1>10. ASSUME NEW i \in Items, ClickExtend(i) \/ FallbackTick(i)
       PROVE  TabInv'
  BY <1>1, <1>10, TabClickExtend, TabFallbackTick
<1> QED BY <1>1, <1>2, <1>3, <1>4, <1>5, <1>6, <1>7, <1>8, <1>9, <1>10 DEF BrowserNext

LEMMA TabAlways == BrowserSpec => [](BoardInv /\ TabInv)
<1>1. BrowserInit => BoardInv /\ TabInv
  BY CardsAssumption, BrowserAssumption, BoardInit, TabInit
<1>2. BoardInv /\ TabInv /\ [BrowserNext]_browserVars => (BoardInv /\ TabInv)'
  BY CardsAssumption, BrowserAssumption, TabStep
<1> QED BY <1>1, <1>2, PTL DEF BrowserSpec

LEMMA TabTypes ==
    ASSUME BoardInv, TabInv
    PROVE  BrowserTypeOK
<1>1. Len(log) \in Nat /\ DOMAIN log = 1 .. Len(log)
  BY LogType
<1>2. board \in [Items -> Seq(Faces)]
  BY PileTypes DEF TabInv, ShownOK
<1>3. /\ newest \in [Items -> [Fields -> Places]] /\ overtaken \subseteq Items \X Fields
      /\ fallback \in [Items -> 0 .. MaxAttempts] /\ settling \in BOOLEAN
      /\ queue \in Seq(DOMAIN log) /\ {cursor, cleared} \subseteq Places
  BY DEF TabInv, ShownOK, RestOK, StreamOK
<1>4. \A i \in Items : deadlines[i] # 0 =>
          /\ log[deadlines[i]].type \in {"TIMER_STARTED", "TIMER_EXTENDED"}
          /\ log[deadlines[i]].item = i
  BY DEF TabInv, DeadlinesOK, TimerEvents
<1>5. applied \subseteq DOMAIN log
  BY <1>1 DEF TabInv, StreamOK, Places
<1>6. \A f \in fetches : f.item \in Items /\ f.face \in Faces /\ {f.event, f.at} \subseteq Places
  BY DEF TabInv, FetchesOK, Fetches, Places
<1>7. \A s \in Slots : req[s].face \in Faces /\ {req[s].header, req[s].at} \subseteq Places
  BY DEF TabInv, ReqOK, Requests, Places
<1>8. \A p \in posts : p.item \in Items /\ p.face \in Faces /\ {p.header, p.at} \subseteq Places
  BY DEF TabInv, PostsOK, PostOK, Places
<1>9. pending \subseteq {p.item : p \in posts}
  BY DEF TabInv, PostsOK
<1> QED BY <1>2, <1>3, <1>4, <1>5, <1>6, <1>7, <1>8, <1>9 DEF BrowserTypeOK

\* Whatever the events, the responses and the fetched cards do to one another,
\* every part of the tab has its type, a deadline it remembers is that of a
\* timer event of the card, and no card is held to have a timer request under
\* way when it has none.
THEOREM BrowserTypes == BrowserSpec => []BrowserTypeOK
<1>1. BoardInv /\ TabInv => BrowserTypeOK
  BY TabTypes
<1> QED BY <1>1, TabAlways, PTL

\* In whatever order the response to a request and the event of the same
\* mutation arrive, no card is on the board twice.
THEOREM NoDuplicates == BrowserSpec => []NoDuplicateCards
<1>1. BoardInv /\ TabInv => NoDuplicateCards
  BY PileTypes DEF TabInv, ShownOK, NoDuplicateCards
<1> QED BY <1>1, TabAlways, PTL

-----------------------------------------------------------------------------
(* What a step can do to a card on the board, and where it has it from.     *)

\* An answer about card i is under way that was read at place p of the log.
About(i, p) ==
    \/ \E f \in fetches : f.item = i /\ f.at = p
    \/ \E s \in Slots : req[s].item = i /\ req[s].at = p

\* It has not been read yet, or just now.
JustRead(i, p) == p = 0 \/ p = Moment(i, item[i], log)

Queued(e) == \E k \in DOMAIN queue : queue[k] = e

\* The card of i on the board is as new as the tab knows of.
UpToDate(i) == OnBoard(i) /\ <<i, "card">> \notin overtaken

AnswersFrom(i) == \A p : About(i, p)' => About(i, p) \/ JustRead(i, p)'

NewestFrom(i) ==
    LET p == newest'[i].card
    IN  newest[i].card <= p /\ (p = newest[i].card \/ Queued(p) \/ About(i, p))

ShownFrom(i) ==
    UpToDate(i)' => UpToDate(i) \/ \E p \in Places : /\ About(i, p)
                                                     /\ newest[i].card <= p /\ p <= newest'[i].card

CardFrom(i) == AnswersFrom(i) /\ NewestFrom(i) /\ ShownFrom(i)

QueueFrom == \A e : Queued(e)' => Queued(e) \/ (Visible(log, e) /\ arch' = arch /\ e \in DOMAIN log)

ClearedFrom == cleared' = cleared \/ \A i \in Items : ~ OnBoard(i)' /\ cleared' <= newest'[i].card

Effects == (\A i \in Items : CardFrom(i)) /\ QueueFrom /\ ClearedFrom

LEMMA ToldCard ==
    ASSUME ShownOK, NEW j, NEW fields, NEW p, NEW i \in Items
    PROVE  Told(newest, j, fields, p)[i].card =
             IF i = j /\ "card" \in fields THEN Later(newest[i].card, p) ELSE newest[i].card
<1>1. newest[i] \in [Fields -> Places] /\ "card" \in Fields /\ DOMAIN newest = Items
  BY DEF ShownOK, Fields
<1>2. Told(newest, j, fields, p) =
        [newest EXCEPT ![j] = [f \in Fields |-> IF f \in fields THEN Later(newest[j][f], p) ELSE newest[j][f]]]
  BY DEF Told
<1>3. CASE i = j
  <2>1. Told(newest, j, fields, p)[i] =
          [f \in Fields |-> IF f \in fields THEN Later(newest[i][f], p) ELSE newest[i][f]]
    BY <1>1, <1>2, <1>3
  <2> QED BY <1>1, <1>3, <2>1
<1>4. CASE i # j
  BY <1>1, <1>2, <1>4
<1> QED BY <1>3, <1>4

LEMMA NewestCard ==
    ASSUME ShownOK, NEW i \in Items
    PROVE  newest[i].card \in Places
BY DEF ShownOK, Fields

LEMMA ShownCard ==
    ASSUME NEW o, NEW j, NEW fields \in SUBSET Fields, NEW p, NEW i
    PROVE  <<i, "card">> \in Shown(o, j, fields, p) <=>
              IF i = j /\ "card" \in fields THEN p < newest[j].card ELSE <<i, "card">> \in o
BY DEF Shown

\* The card is left as it is.
LEMMA CardStays ==
    ASSUME ShownOK, BoardInv, NEW i \in Items, newest'[i].card = newest[i].card,
           OnBoard(i)' => OnBoard(i), <<i, "card">> \in overtaken => <<i, "card">> \in overtaken'
    PROVE  NewestFrom(i) /\ ShownFrom(i)
<1>1. newest[i].card <= newest[i].card
  BY NewestCard, LogType DEF Places
<1> QED BY <1>1 DEF NewestFrom, ShownFrom, UpToDate

\* The tab is told of an event about it.
LEMMA CardTold ==
    ASSUME ShownOK, BoardInv, NEW i \in Items, NEW e \in Places, Queued(e),
           newest'[i].card = Later(newest[i].card, e),
           OnBoard(i)' => OnBoard(i), <<i, "card">> \in overtaken => <<i, "card">> \in overtaken'
    PROVE  NewestFrom(i) /\ ShownFrom(i)
<1>1. newest[i].card <= newest'[i].card /\ newest'[i].card \in {newest[i].card, e}
  BY NewestCard, LogType DEF Places, Later
<1> QED BY <1>1 DEF NewestFrom, ShownFrom, UpToDate

\* An answer about it is put on the board.
LEMMA CardShown ==
    ASSUME ShownOK, BoardInv, NEW i \in Items, NEW p \in Places, About(i, p),
           newest'[i].card = Later(newest[i].card, p),
           p < newest[i].card => <<i, "card">> \in overtaken'
    PROVE  NewestFrom(i) /\ ShownFrom(i)
<1>1. newest[i].card <= newest'[i].card /\ newest'[i].card \in {newest[i].card, p}
      /\ (~ (p < newest[i].card) => newest[i].card <= p /\ p <= newest'[i].card)
  BY NewestCard, LogType DEF Places, Later
<1> QED BY <1>1 DEF NewestFrom, ShownFrom, UpToDate

\* New answers come from requests that have just been read.
LEMMA AnswersCome ==
    ASSUME NEW i \in Items,
           \A p : \A f \in fetches' : f.item = i /\ f.at = p => f \in fetches \/ JustRead(i, p)',
           \A p : \A s \in Slots : req'[s].item = i /\ req'[s].at = p =>
                      (req[s].item = i /\ req[s].at = p) \/ JustRead(i, p)'
    PROVE  AnswersFrom(i)
<1> SUFFICES ASSUME NEW p, About(i, p)'
             PROVE  About(i, p) \/ JustRead(i, p)'
  BY DEF AnswersFrom
<1>1. ASSUME NEW f \in fetches', f.item = i, f.at = p
      PROVE  About(i, p) \/ JustRead(i, p)'
  BY <1>1 DEF About
<1>2. ASSUME NEW s \in Slots, req'[s].item = i, req'[s].at = p
      PROVE  About(i, p) \/ JustRead(i, p)'
  BY <1>2 DEF About
<1> QED BY <1>1, <1>2 DEF About

\* A step that the tab does not see, or that leaves its cards alone.
LEMMA EffectsKept ==
    ASSUME ShownOK, BoardInv, UNCHANGED <<board, newest, overtaken, queue, cleared>>,
           \A i \in Items : AnswersFrom(i)
    PROVE  Effects
<1>1. ASSUME NEW i \in Items
      PROVE  NewestFrom(i) /\ ShownFrom(i)
  BY CardStays DEF OnBoard
<1>2. QueueFrom /\ ClearedFrom
  BY DEF QueueFrom, ClearedFrom, Queued
<1> QED BY <1>1, <1>2 DEF Effects, CardFrom

LEMMA AnswersKept ==
    ASSUME UNCHANGED <<fetches, req>>
    PROVE  \A i \in Items : AnswersFrom(i)
BY DEF AnswersFrom, About

LEMMA StreamKept ==
    ASSUME UNCHANGED <<queue, cleared>>
    PROVE  QueueFrom /\ ClearedFrom
BY DEF QueueFrom, ClearedFrom, Queued

LEMMA EffectsPublish ==
    ASSUME BoardInv, TabInv, Publish
    PROVE  Effects
<1> DEFINE ids == {e \in DOMAIN log : cursor < e /\ Visible(log, e)}
<1>1. /\ queue' = queue \o InOrder(ids) /\ arch' = arch
      /\ UNCHANGED <<board, newest, overtaken, cleared, fetches, req>>
  BY DEF Publish, vars, shownVars
<1>2. ShownOK /\ queue \in Seq(DOMAIN log)
  BY DEF TabInv, StreamOK
<1>3. InOrder(ids) \in Seq(ids)
  <2>1. Len(log) \in Nat /\ ids \in SUBSET (0 .. Len(log))
    BY LogType
  <2> HIDE DEF ids
  <2> QED BY <2>1, InOrderType
<1>4. QueueFrom
  <2> SUFFICES ASSUME NEW e, Queued(e)'
               PROVE  Queued(e) \/ (Visible(log, e) /\ arch' = arch /\ e \in DOMAIN log)
    BY DEF QueueFrom
  <2>1. PICK k \in DOMAIN queue' : queue'[k] = e
    BY DEF Queued
  <2> DEFINE new == InOrder(ids)
  <2>2. new \in Seq(ids) /\ queue' = queue \o new
    BY <1>1, <1>3
  <2> HIDE DEF new
  <2>3. /\ Len(queue) \in Nat /\ DOMAIN queue = 1 .. Len(queue)
        /\ Len(new) \in Nat /\ DOMAIN new = 1 .. Len(new)
    BY <1>2, <2>2, LenProperties
  <2>4. k \in 1 .. Len(queue) + Len(new)
        /\ e = IF k <= Len(queue) THEN queue[k] ELSE new[k - Len(queue)]
    <3> HIDE DEF ids
    <3> QED BY <1>2, <2>1, <2>2, <2>3
  <2>5. CASE k <= Len(queue)
    BY <2>3, <2>4, <2>5 DEF Queued
  <2>6. CASE ~ (k <= Len(queue))
    <3>1. k - Len(queue) \in DOMAIN new
      BY <2>3, <2>4, <2>6
    <3>2. new[k - Len(queue)] \in ids
      <4> HIDE DEF ids
      <4> QED BY <2>2, <2>3, <3>1, ElementOfSeq
    <3> QED BY <1>1, <2>4, <2>6, <3>2
  <2> QED BY <2>5, <2>6
<1>5. \A i \in Items : CardFrom(i)
  BY <1>1, <1>2, AnswersKept, CardStays DEF CardFrom, OnBoard
<1> QED BY <1>1, <1>4, <1>5 DEF Effects, ClearedFrom

\* The listener takes an event from the queue.
LEMMA HandledEvent ==
    ASSUME TabInv, queue # << >>, Handled
    PROVE  /\ Queued(Head(queue)) /\ QueueFrom
           /\ log[Head(queue)].type # "RETRO_ARCHIVED" \/ IsOwn(Head(queue)) => ClearedFrom
<1>1. queue \in Seq(DOMAIN log) /\ queue' = Tail(queue)
  BY DEF TabInv, StreamOK, Handled
<1>2. /\ Len(queue) \in Nat \ {0} /\ DOMAIN queue = 1 .. Len(queue) /\ Head(queue) = queue[1]
      /\ DOMAIN Tail(queue) = 1 .. Len(queue) - 1
      /\ \A k \in 1 .. Len(queue) - 1 : Tail(queue)[k] = queue[k + 1]
  BY <1>1, LenProperties, EmptySeq, HeadTailProperties
<1>3. Queued(Head(queue))
  BY <1>2 DEF Queued
<1>4. ASSUME NEW e, Queued(e)'
      PROVE  Queued(e)
  <2>1. PICK k \in DOMAIN queue' : queue'[k] = e
    BY <1>4 DEF Queued
  <2>2. k + 1 \in DOMAIN queue /\ queue[k + 1] = e
    BY <1>1, <1>2, <2>1
  <2> QED BY <2>2 DEF Queued
<1>5. log[Head(queue)].type # "RETRO_ARCHIVED" \/ IsOwn(Head(queue)) => ClearedFrom
  BY DEF Handled, ClearedFrom
<1> QED BY <1>3, <1>4, <1>5 DEF QueueFrom

LEMMA EffectsFetchCard ==
    ASSUME NEW j, NEW e, FetchCard(j, e), req' = req, NEW i \in Items
    PROVE  AnswersFrom(i)
<1>1. ASSUME NEW p, NEW f \in fetches', f.item = i, f.at = p
      PROVE  f \in fetches \/ JustRead(i, p)'
  BY <1>1 DEF FetchCard, JustRead
<1> QED BY <1>1, AnswersCome

\* An event that changes the text or the timer of the card in its place.
LEMMA EffectsInPlace ==
    ASSUME ShownOK, BoardInv, NEW e, NEW j \in Items, NEW f \in {"text", "timer"}, NEW kinds,
           NEW face, InPlace(e, j, f, kinds, face), NEW i \in Items
    PROVE  NewestFrom(i) /\ ShownFrom(i)
<1>1. newest'[i].card = newest[i].card
  <2>1. newest' = Told(newest, j, {f}, e) /\ "card" \notin {f}
    BY DEF InPlace
  <2> QED BY <2>1, ToldCard
<1>2. CASE Shows(j, kinds)
  <2>1. board' = [board EXCEPT ![j] = <<face>> \o Tail(@)] /\ overtaken' = Shown(overtaken, j, {f}, e)
    BY <1>2 DEF InPlace
  <2>2. OnBoard(j) /\ board \in [Items -> Pile]
    BY <1>2 DEF Shows, ShownOK
  <2>3. OnBoard(i)' => OnBoard(i)
    BY <2>1, <2>2 DEF OnBoard
  <2>4. <<i, "card">> \in overtaken => <<i, "card">> \in overtaken'
    <3>1. {f} \in SUBSET Fields /\ "card" \notin {f}
      BY DEF Fields
    <3> QED BY <2>1, <3>1, ShownCard
  <2> QED BY <1>1, <2>3, <2>4, CardStays
<1>3. CASE ~ Shows(j, kinds)
  <2>1. UNCHANGED <<board, overtaken>>
    BY <1>3 DEF InPlace
  <2> QED BY <1>1, <2>1, CardStays DEF OnBoard
<1> QED BY <1>2, <1>3

LEMMA EffectsListener ==
    ASSUME BoardInv, TabInv, Listener
    PROVE  Effects
<1> DEFINE e == Head(queue)
<1>0. queue # << >> /\ Handled /\ e \in Places /\ ShownOK
  <2>1. queue # << >> /\ Handled
    BY DEF Listener, DropOwn, OnItemCreated, OnItemStatusChanged, OnItemUpdated, OnTimerUpdated,
           OnTimerElapsed, OnRetroArchived, Receives
  <2>2. e \in DOMAIN log
    BY <2>1, HeadTailProperties DEF TabInv, StreamOK
  <2> QED BY <2>1, <2>2, LogType DEF TabInv, Places
<1>1. Queued(e) /\ QueueFrom /\ (log[e].type # "RETRO_ARCHIVED" \/ IsOwn(e) => ClearedFrom)
  BY <1>0, HandledEvent
<1>2. log[e] \in Events
  <2>1. e \in DOMAIN log
    BY <1>0, HeadTailProperties DEF TabInv, StreamOK
  <2> QED BY <2>1, LogType
<1>3. CASE DropOwn
  <2>1. ClearedFrom
    BY <1>1, <1>3 DEF DropOwn
  <2>2. UNCHANGED <<board, newest, overtaken, fetches, req>>
    BY <1>3 DEF DropOwn, shownVars
  <2>3. \A i \in Items : CardFrom(i)
    BY <1>0, <2>2, AnswersKept, CardStays DEF CardFrom, OnBoard
  <2> QED BY <1>1, <2>1, <2>3 DEF Effects
<1>4. CASE OnItemCreated \/ OnItemStatusChanged
  <2>1. ClearedFrom
    BY <1>1, <1>4 DEF OnItemCreated, OnItemStatusChanged, Receives
  <2>2. /\ UNCHANGED <<board, overtaken, req>> /\ FetchCard(log[e].item, e)
        /\ \E fields : "card" \in fields /\ newest' = Told(newest, log[e].item, fields, e)
    BY <1>4 DEF OnItemCreated, OnItemStatusChanged
  <2> HIDE DEF e
  <2>3. ASSUME NEW i \in Items
        PROVE  CardFrom(i)
    <3>1. AnswersFrom(i)
      BY <2>2, EffectsFetchCard
    <3>2. newest'[i].card \in {newest[i].card, Later(newest[i].card, e)}
      BY <1>0, <2>2, ToldCard
    <3> QED BY <1>0, <1>1, <2>2, <3>1, <3>2, CardStays, CardTold DEF CardFrom, OnBoard
  <2> QED BY <1>1, <2>1, <2>3 DEF Effects
<1>5. CASE OnItemUpdated \/ OnTimerUpdated
  <2>1. ClearedFrom
    BY <1>1, <1>5 DEF OnItemUpdated, OnTimerUpdated, Receives
  <2>2. /\ UNCHANGED <<fetches, req>> /\ log[e].item \in Items
        /\ \E f \in {"text", "timer"} : \E kinds, face : InPlace(e, log[e].item, f, kinds, face)
    BY <1>2, <1>5, EventTypes DEF OnItemUpdated, OnTimerUpdated, Receives
  <2> HIDE DEF e
  <2>3. \A i \in Items : CardFrom(i)
    BY <1>0, <2>2, AnswersKept, EffectsInPlace DEF CardFrom
  <2> QED BY <1>1, <2>1, <2>3 DEF Effects
<1>6. CASE OnTimerElapsed
  <2>1. ClearedFrom
    BY <1>1, <1>6 DEF OnTimerElapsed, Receives
  <2> DEFINE j == log[e].item
             face == [Card(j) EXCEPT !.over = TRUE]
  <2>2. /\ UNCHANGED <<fetches, req>> /\ newest' = Told(newest, j, {"timer"}, e)
        /\ \/ UNCHANGED <<board, overtaken>>
           \/ /\ OnBoard(j)
              /\ board' = [board EXCEPT ![j] = <<face>> \o Tail(@)]
              /\ overtaken \subseteq overtaken'
    BY <1>6 DEF OnTimerElapsed, Shows
  <2> HIDE DEF e, j, face
  <2>3. ASSUME NEW i \in Items
        PROVE  CardFrom(i)
    <3>1. newest'[i].card = newest[i].card
      BY <1>0, <2>2, ToldCard
    <3>2. OnBoard(i)' => OnBoard(i)
      BY <1>0, <2>2 DEF OnBoard, ShownOK
    <3>3. <<i, "card">> \in overtaken => <<i, "card">> \in overtaken'
      BY <2>2
    <3> QED BY <1>0, <2>2, <3>1, <3>2, <3>3, AnswersKept, CardStays DEF CardFrom
  <2> QED BY <1>1, <2>1, <2>3 DEF Effects
<1>7. CASE OnRetroArchived
  <2>1. /\ board' = Cleared(board) /\ fetches' = fetches
        /\ newest' = [i \in Items |-> [f \in Fields |-> Later(newest[i][f], e)]]
        /\ req' = [s \in Slots |-> [req[s] EXCEPT !.attached = req[s].kind = "add"]]
        /\ cleared' \in {cleared, e}
    BY <1>7 DEF OnRetroArchived, Handled
  <2>2. \A i \in Items : ~ OnBoard(i)'
    BY <2>1 DEF OnBoard, Cleared
  <2>3. \A i \in Items : newest'[i].card = Later(newest[i].card, e)
    BY <2>1 DEF Fields
  <2>4. ASSUME NEW i \in Items
        PROVE  newest[i].card <= newest'[i].card /\ e <= newest'[i].card
               /\ newest'[i].card \in {newest[i].card, e}
    BY <1>0, <2>3, NewestCard, LogType DEF Later, Places
  <2>5. ClearedFrom
    BY <2>1, <2>2, <2>4 DEF ClearedFrom
  <2>6. ASSUME NEW i \in Items
        PROVE  AnswersFrom(i)
    <3>1. \A s \in Slots : req'[s].item = req[s].item /\ req'[s].at = req[s].at
      <4>1. ASSUME NEW s \in Slots
            PROVE  req'[s].item = req[s].item /\ req'[s].at = req[s].at
        <5>1. req[s] \in Requests(Len(log)) /\ req'[s] = [req[s] EXCEPT !.attached = req[s].kind = "add"]
          BY <2>1, ReqRow DEF TabInv
        <5> QED BY <5>1 DEF Requests
      <4> QED BY <4>1
    <3> QED BY <2>1, <3>1, AnswersCome
  <2>7. ASSUME NEW i \in Items
        PROVE  CardFrom(i)
    BY <1>1, <2>2, <2>4, <2>6 DEF CardFrom, NewestFrom, ShownFrom, UpToDate
  <2> QED BY <1>1, <2>5, <2>7 DEF Effects
<1> QED BY <1>3, <1>4, <1>5, <1>6, <1>7 DEF Listener

\* Every card is rendered, which moves its timer only.
LEMMA RenderAllKeeps ==
    ASSUME NEW b \in [Items -> Pile], NEW o, NEW d, RenderAllTimers(b, o, d), NEW i \in Items
    PROVE  /\ OnBoard(i)' => b[i] # << >>
           /\ <<i, "card">> \in overtaken' <=> <<i, "card">> \in o
<1>1. board'[i] = [k \in DOMAIN b[i] |-> RenderTimer(b[i][k], i, d)]
  BY DEF RenderAllTimers
<1>2. b[i] = << >> => board'[i] = << >>
  BY <1>1
<1>3. <<i, "card">> \in overtaken' <=> <<i, "card">> \in o
  BY DEF RenderAllTimers
<1> QED BY <1>2, <1>3 DEF OnBoard

\* The card that fetch f or a response brings is put on the board.
LEMMA PutOnBoard ==
    ASSUME ShownOK, BoardInv, NEW j \in Items, NEW p \in Places, About(j, p), NEW b, NEW o,
           newest' = Told(newest, j, Fields, p),
           \A i \in Items : OnBoard(i)' => b[i] # << >>,
           \A i \in Items : <<i, "card">> \in o => <<i, "card">> \in overtaken',
           \A i \in Items \ {j} : b[i] # << >> => OnBoard(i),
           \A i \in Items \ {j} : <<i, "card">> \in overtaken => <<i, "card">> \in o,
           p < newest[j].card => <<j, "card">> \in o,
           NEW i \in Items
    PROVE  NewestFrom(i) /\ ShownFrom(i)
<1>0. "card" \in Fields
  BY DEF Fields
<1>1. CASE i = j
  <2>1. newest'[i].card = Later(newest[i].card, p)
    BY <1>0, <1>1, ToldCard
  <2>2. p < newest[i].card => <<i, "card">> \in overtaken'
    BY <1>1
  <2> QED BY <1>1, <2>1, <2>2, CardShown
<1>2. CASE i # j
  <2>1. newest'[i].card = newest[i].card
    BY <1>2, ToldCard
  <2>2. OnBoard(i)' => OnBoard(i)
    BY <1>2
  <2>3. <<i, "card">> \in overtaken => <<i, "card">> \in overtaken'
    BY <1>2
  <2> QED BY <2>1, <2>2, <2>3, CardStays
<1> QED BY <1>1, <1>2

LEMMA EffectsReplaceCard ==
    ASSUME BoardInv, TabInv, NEW f \in fetches, ReplaceCard(f), NEW i \in Items
    PROVE  NewestFrom(i) /\ ShownFrom(i)
<1> DEFINE j == f.item
           carry == CarriesOver(Card(j), f.face)
           face == IF carry THEN [f.face EXCEPT !.endAt = Card(j).endAt] ELSE f.face
           b == [board EXCEPT ![j] = <<face>> \o Tail(@)]
           o == IF carry THEN Carried(j, f.at) ELSE Shown(overtaken, j, Fields, f.at)
<1>1. /\ j \in Items /\ f.face \in Faces /\ f.at \in Places /\ About(j, f.at)
      /\ ShownOK /\ DeadlinesOK /\ "card" \in Fields
  BY DEF TabInv, FetchesOK, Fetches, Places, About, Fields
<1>2. CASE OnBoard(j)
  <2>1. newest' = Told(newest, j, Fields, f.at) /\ RenderAllTimers(b, o, deadlines)
    BY <1>2 DEF ReplaceCard
  <2>2. Card(j) \in Faces /\ Tail(board[j]) = << >>
    BY <1>1, <1>2, CardType
  <2>3. face \in Faces
    <3>1. Card(j).endAt \in Nat
      BY <2>2 DEF Faces
    <3> QED BY <1>1, <3>1, FaceParts
  <2>4. b = [board EXCEPT ![j] = <<face>> \o << >>]
    BY <2>2
  <2>5. \A x \in Items : <<x, "card">> \in o <=>
            IF x = j THEN f.at < newest[j].card ELSE <<x, "card">> \in overtaken
    <3>1. ASSUME NEW x \in Items
          PROVE  /\ <<x, "card">> \in Shown(overtaken, j, Fields, f.at) <=>
                      IF x = j THEN f.at < newest[j].card ELSE <<x, "card">> \in overtaken
                 /\ <<x, "card">> \in Carried(j, f.at) <=>
                      IF x = j THEN f.at < newest[j].card ELSE <<x, "card">> \in overtaken
      <4>1. {"card", "text"} \in SUBSET Fields
        BY DEF Fields
      <4>2. <<x, "card">> \in Carried(j, f.at) <=> <<x, "card">> \in Shown(overtaken, j, {"card", "text"}, f.at)
        BY DEF Carried
      <4> QED BY <1>1, <4>1, <4>2, ShownCard
    <3> QED BY <3>1
  <2> HIDE DEF face, o, carry
  <2>6. b \in [Items -> Pile]
    <3>1. <<face>> \o << >> \in Pile
      BY <2>3, PileTypes
    <3> QED BY <1>1, <2>4, <3>1 DEF ShownOK
  <2>7. \A x \in Items \ {j} : b[x] # << >> => OnBoard(x)
    BY <1>1, <2>4 DEF ShownOK, OnBoard
  <2> HIDE DEF b, j
  <2>8. \A x \in Items : /\ OnBoard(x)' => b[x] # << >>
                         /\ <<x, "card">> \in overtaken' <=> <<x, "card">> \in o
    BY <2>1, <2>6, RenderAllKeeps
  <2> QED BY <1>1, <2>1, <2>5, <2>7, <2>8, PutOnBoard
<1>3. CASE ~ OnBoard(j)
  <2>1. UNCHANGED <<board, overtaken, newest>>
    BY <1>3 DEF ReplaceCard
  <2> QED BY <1>1, <2>1, CardStays DEF OnBoard
<1> QED BY <1>2, <1>3

LEMMA EffectsInsertCard ==
    ASSUME BoardInv, TabInv, NEW f \in fetches, InsertCard(f), NEW i \in Items
    PROVE  NewestFrom(i) /\ ShownFrom(i)
<1> DEFINE j == f.item
           b == [board EXCEPT ![j] = RemoveDuplicateCards(<<f.face>> \o @)]
           o == Shown(overtaken, j, Fields, f.at)
<1>1. /\ j \in Items /\ f.face \in Faces /\ f.at \in Places /\ About(j, f.at)
      /\ ShownOK /\ DeadlinesOK /\ "card" \in Fields
  BY DEF TabInv, FetchesOK, Fetches, Places, About, Fields
<1>2. CASE Inserts(j)
  <2>1. newest' = Told(newest, j, Fields, f.at) /\ RenderAllTimers(b, o, deadlines)
    BY <1>2 DEF InsertCard
  <2>2. board[j] \in Seq(Faces)
    BY <1>1, PileTypes DEF ShownOK
  <2>3. RemoveDuplicateCards(<<f.face>> \o board[j]) \in Pile
    BY <1>1, <2>2, RemovesDuplicates, PileTypes
  <2>4. b \in [Items -> Pile]
    BY <1>1, <2>3 DEF ShownOK
  <2>5. \A x \in Items \ {j} : b[x] # << >> => OnBoard(x)
    BY <1>1 DEF ShownOK, OnBoard
  <2>6. \A x \in Items : <<x, "card">> \in o <=>
            IF x = j THEN f.at < newest[j].card ELSE <<x, "card">> \in overtaken
    BY <1>1, ShownCard
  <2> HIDE DEF b, o, j
  <2>7. \A x \in Items : /\ OnBoard(x)' => b[x] # << >>
                         /\ <<x, "card">> \in overtaken' <=> <<x, "card">> \in o
    BY <2>1, <2>4, RenderAllKeeps
  <2> QED BY <1>1, <2>1, <2>5, <2>6, <2>7, PutOnBoard
<1>3. CASE ~ Inserts(j)
  <2>1. UNCHANGED <<board, overtaken, newest>>
    BY <1>3 DEF InsertCard
  <2> QED BY <1>1, <2>1, CardStays DEF OnBoard
<1> QED BY <1>2, <1>3

LEMMA EffectsFetch ==
    ASSUME BoardInv, TabInv, NEW f \in fetches, ServeFetch(f) \/ FetchArrives(f) \/ FetchFails(f)
    PROVE  Effects
<1>0. ShownOK /\ f \in Fetches(Len(log)) /\ ReqOK
  BY DEF TabInv, FetchesOK
<1>1. QueueFrom /\ ClearedFrom
  <2>1. UNCHANGED <<queue, cleared>>
    BY DEF ServeFetch, FetchArrives, FetchFails, streamVars
  <2> QED BY <2>1, StreamKept
<1>2. CASE ServeFetch(f)
  <2> DEFINE g == [f EXCEPT !.phase = "answered", !.face = Face(item[f.item]),
                            !.at = Moment(f.item, item[f.item], log)]
  <2>1. /\ fetches' = (fetches \ {f}) \cup {g}
        /\ UNCHANGED <<board, newest, overtaken, req>> /\ UNCHANGED vars
    BY <1>2 DEF ServeFetch, shownVars
  <2>2. g.item = f.item /\ g.at = Moment(f.item, item[f.item], log)
    BY <1>0 DEF Fetches
  <2> HIDE DEF g
  <2>3. ASSUME NEW i \in Items
        PROVE  AnswersFrom(i)
    <3>1. Moment(i, item[i], log)' = Moment(i, item[i], log)
      <4>1. arch' = arch /\ item' = item /\ log' = log
        BY <2>1 DEF vars, boardVars
      <4>2. Moment(i, item[i], log)' = Moment(i, item'[i], log')
        BY <4>1 DEF Moment, Visible
      <4> QED BY <4>1, <4>2
    <3>2. ASSUME NEW p, NEW h \in fetches', h.item = i, h.at = p
          PROVE  h \in fetches \/ JustRead(i, p)'
      BY <2>1, <2>2, <3>1, <3>2 DEF JustRead
    <3> QED BY <2>1, <3>2, AnswersCome
  <2>4. \A i \in Items : CardFrom(i)
    BY <1>0, <2>1, <2>3, CardStays DEF CardFrom, OnBoard
  <2> QED BY <1>1, <2>4 DEF Effects
<1>3. CASE FetchArrives(f)
  <2>1. fetches' = fetches \ {f} /\ (req' = req \/ req' = Detached(req, f.item))
    BY <1>3 DEF FetchArrives, ReplaceCard
  <2>2. ASSUME NEW s \in Slots
        PROVE  req'[s].item = req[s].item /\ req'[s].at = req[s].at
    <3>1. req[s] \in Requests(Len(log))
      BY <1>0, ReqRow
    <3> QED BY <2>1, <3>1 DEF Detached, Requests
  <2>3. \A i \in Items : AnswersFrom(i)
    BY <2>1, <2>2, AnswersCome
  <2>4. ASSUME NEW i \in Items
        PROVE  NewestFrom(i) /\ ShownFrom(i)
    BY <1>3, EffectsReplaceCard, EffectsInsertCard DEF FetchArrives
  <2> QED BY <1>1, <2>3, <2>4 DEF Effects, CardFrom
<1>4. CASE FetchFails(f)
  <2>1. /\ fetches' = fetches \ {f} /\ UNCHANGED <<board, newest, req>>
        /\ overtaken \subseteq overtaken'
    BY <1>4 DEF FetchFails
  <2>2. \A i \in Items : AnswersFrom(i)
    BY <2>1, AnswersCome
  <2>3. \A i \in Items : NewestFrom(i) /\ ShownFrom(i)
    BY <1>0, <2>1, CardStays DEF OnBoard
  <2> QED BY <1>1, <2>2, <2>3 DEF Effects, CardFrom
<1> QED BY <1>2, <1>3, <1>4

\* A request reaches its next phase.
LEMMA EffectsRequestRow ==
    ASSUME BoardInv, TabInv, NEW s \in Slots, NEW r, req' = [req EXCEPT ![s] = r],
           \A i \in Items : \A p : r.item = i /\ r.at = p =>
               (req[s].item = i /\ req[s].at = p) \/ JustRead(i, p)',
           UNCHANGED <<board, newest, overtaken, queue, cleared, fetches>>
    PROVE  Effects
<1>1. req \in [Slots -> Requests(Len(log))]
  BY DEF TabInv, ReqOK
<1>2. ASSUME NEW i \in Items
      PROVE  AnswersFrom(i)
  <2>1. ASSUME NEW p, NEW x \in Slots, req'[x].item = i, req'[x].at = p
        PROVE  (req[x].item = i /\ req[x].at = p) \/ JustRead(i, p)'
    <3>1. req'[x] = IF x = s THEN r ELSE req[x]
      BY <1>1
    <3> QED BY <2>1, <3>1
  <2> QED BY <2>1, AnswersCome
<1> QED BY <1>2, EffectsKept DEF TabInv

LEMMA EffectsProgress ==
    ASSUME BoardInv, TabInv, arch' = arch, NEW s \in Slots, NEW phase, NEW j \in Items, NEW face,
           NEW header, Progress(s, phase, j, face, header)
    PROVE  Effects
<1> DEFINE at == IF face = NoFace THEN 0 ELSE Moment(j, item'[j], log')
           r == [req[s] EXCEPT !.phase = phase, !.item = j, !.face = face, !.header = header, !.at = at]
<1>1. /\ req' = [req EXCEPT ![s] = r]
      /\ UNCHANGED <<board, newest, overtaken, queue, cleared, fetches>>
  BY DEF Progress, shownVars, streamVars
<1>2. r.item = j /\ r.at = at
  BY ReqRow DEF TabInv, Requests
<1>3. Moment(j, item[j], log)' = Moment(j, item'[j], log')
  BY DEF Moment, Visible
<1> HIDE DEF r
<1>4. \A i \in Items : \A p : r.item = i /\ r.at = p => JustRead(i, p)'
  BY <1>2, <1>3 DEF JustRead
<1> QED BY <1>1, <1>4, EffectsRequestRow

LEMMA EffectsServe ==
    ASSUME BoardInv, TabInv, NEW s \in Slots,
           ServeStatus(s) \/ ServeAdd(s) \/ ServeUpdate(s) \/ ServeCard(s)
    PROVE  Effects
<1>0. req[s] \in Requests(Len(log)) /\ RequestOK(req[s])
  BY ReqRow DEF TabInv
<1>1. CASE ServeStatus(s)
  <2>1. req[s].item \in Items
    BY <1>0, <1>1 DEF ServeStatus, RequestOK, StatusActions
  <2>2. arch' = arch /\ Progress(s, "committed", req[s].item, NoFace, answer'.header)
    BY <1>1 DEF ServeStatus, ChangeItemStatus
  <2> QED BY <2>1, <2>2, EffectsProgress
<1>2. CASE ServeAdd(s)
  <2>1. PICK i \in Items : AddItem(i, req[s].text)
                           /\ Progress(s, "answered", i, Face(item'[i]), answer'.header)
    BY <1>2 DEF ServeAdd
  <2>2. arch' = arch
    BY <2>1 DEF AddItem
  <2> QED BY <2>1, <2>2, EffectsProgress
<1>3. ASSUME NEW q \in Editors, req' = [req EXCEPT ![s].phase = "read", ![s].editor = q],
             UNCHANGED <<shownVars, streamVars, fetches, timerVars, settling>>
      PROVE  Effects
  <2> DEFINE r == [req[s] EXCEPT !.phase = "read", !.editor = q]
  <2>1. /\ req' = [req EXCEPT ![s] = r]
        /\ UNCHANGED <<board, newest, overtaken, queue, cleared, fetches>>
    BY <1>3 DEF shownVars, streamVars
  <2>2. r.item = req[s].item /\ r.at = req[s].at
    BY <1>0 DEF Requests
  <2> HIDE DEF r
  <2>3. \A i \in Items : \A p : r.item = i /\ r.at = p =>
            (req[s].item = i /\ req[s].at = p) \/ JustRead(i, p)'
    BY <2>2
  <2> QED BY Zenon, <2>1, <2>3, EffectsRequestRow
<1>4. ASSUME req[s].phase = "read", UpdateText(req[s].editor),
             Progress(s, "answered", req[s].item, Face(item'[req[s].item]), answer'.header)
      PROVE  Effects
  <2>1. req[s].item \in Items
    BY <1>0, <1>4 DEF RequestOK
  <2>2. arch' = arch
    BY <1>4 DEF UpdateText
  <2> QED BY <1>4, <2>1, <2>2, EffectsProgress
<1>5. CASE ServeCard(s)
  <2>1. req[s].item \in Items
    BY <1>0, <1>5 DEF ServeCard, RequestOK
  <2>2. arch' = arch /\ \E face : Progress(s, "answered", req[s].item, face, req[s].header)
    BY <1>5 DEF ServeCard, vars
  <2> QED BY <2>1, <2>2, EffectsProgress
<1>6. ServeUpdate(s) => Effects
  BY <1>3, <1>4 DEF ServeUpdate
<1> QED BY <1>1, <1>2, <1>5, <1>6

\* A new request has not been read, and one that is over has no answer.
LEMMA EffectsAsk ==
    ASSUME BoardInv, TabInv, NEW s \in Slots,
           \/ \E i, kind, text : Click(s, i, kind, text)
           \/ \E text : SubmitCard(s, text)
           \/ RequestFails(s)
    PROVE  Effects
<1>1. UNCHANGED <<board, newest, overtaken, queue, cleared, fetches>>
  BY DEF Click, SubmitCard, RequestFails, shownVars, streamVars
<1>2. NoReq.at = 0 /\ NoReq.item = None
  BY DEF NoReq
<1>3. ASSUME NEW i, NEW kind, NEW text, Click(s, i, kind, text)
      PROVE  Effects
  <2> DEFINE r == [NoReq EXCEPT !.kind = kind, !.item = i, !.text = text,
                                !.phase = "sent", !.attached = TRUE]
  <2>1. req' = [req EXCEPT ![s] = r] /\ r.at = 0
    BY <1>3 DEF Click, NoReq
  <2> HIDE DEF r
  <2> QED BY <1>1, <2>1, EffectsRequestRow DEF JustRead
<1>4. ASSUME NEW text, SubmitCard(s, text)
      PROVE  Effects
  <2> DEFINE r == [NoReq EXCEPT !.kind = "add", !.text = text, !.phase = "sent", !.attached = TRUE]
  <2>1. req' = [req EXCEPT ![s] = r] /\ r.at = 0
    BY <1>4 DEF SubmitCard, NoReq
  <2> HIDE DEF r
  <2> QED BY <1>1, <2>1, EffectsRequestRow DEF JustRead
<1>5. CASE RequestFails(s)
  <2>1. req' = [req EXCEPT ![s] = NoReq]
    BY <1>5 DEF RequestFails
  <2> QED BY <1>1, <1>2, <2>1, EffectsRequestRow DEF JustRead
<1> QED BY <1>3, <1>4, <1>5

LEMMA EffectsResponse ==
    ASSUME BoardInv, TabInv, NEW s \in Slots, ResponseArrives(s)
    PROVE  Effects
<1> DEFINE r == req[s]
           j == r.item
           old == IF r.kind = "add" THEN board[j] ELSE Tail(board[j])
           cards == RemoveDuplicateCards(<<r.face>> \o old)
<1>0. /\ r \in Requests(Len(log)) /\ RequestOK(r) /\ ShownOK /\ ReqOK /\ r.phase = "answered"
      /\ req \in [Slots -> Requests(Len(log))]
  BY ReqRow DEF TabInv, ReqOK, ResponseArrives
<1>1. j \in Items /\ r.at \in Places /\ About(j, r.at) /\ "card" \in Fields
  BY <1>0 DEF RequestOK, Requests, Places, About, Fields
<1>2. QueueFrom /\ ClearedFrom
  <2>1. UNCHANGED <<queue, cleared>>
    BY DEF ResponseArrives
  <2> QED BY <2>1, StreamKept
<1>3. fetches' = fetches /\ NoReq.at = 0
  BY DEF ResponseArrives, NoReq
<1>4. CASE r.attached
  <2>1. /\ board' = [board EXCEPT ![j] = cards]
        /\ overtaken' = Shown(overtaken, j, Fields, r.at)
        /\ newest' = Told(newest, j, Fields, r.at)
        /\ req' = [Detached(req, j) EXCEPT ![s] = NoReq]
    BY <1>4 DEF ResponseArrives
  <2>2. ASSUME NEW x \in Slots
        PROVE  (req'[x].item = req[x].item /\ req'[x].at = req[x].at) \/ req'[x].at = 0
    <3>1. req[x] \in Requests(Len(log))
      BY <1>0
    <3>2. Detached(req, j)[x] \in {req[x], [req[x] EXCEPT !.attached = FALSE]}
          /\ DOMAIN Detached(req, j) = Slots
      BY DEF Detached
    <3>3. Detached(req, j)[x].item = req[x].item /\ Detached(req, j)[x].at = req[x].at
      BY <3>1, <3>2 DEF Requests
    <3>4. req'[x] = IF x = s THEN NoReq ELSE Detached(req, j)[x]
      BY <2>1, <3>2
    <3> QED BY <1>3, <3>3, <3>4
  <2>3. \A i \in Items : AnswersFrom(i)
    BY <1>3, <2>2, AnswersCome DEF JustRead
  <2>4. \A x \in Items \ {j} : OnBoard(x)' => OnBoard(x)
    <3> HIDE DEF cards
    <3> QED BY <1>0, <2>1 DEF ShownOK, OnBoard
  <2> HIDE DEF cards, old, j, r
  <2>5. ASSUME NEW x \in Items
        PROVE  <<x, "card">> \in overtaken' <=>
                 IF x = j THEN r.at < newest[j].card ELSE <<x, "card">> \in overtaken
    <3>1. Fields \in SUBSET Fields
      OBVIOUS
    <3>2. <<x, "card">> \in Shown(overtaken, j, Fields, r.at) <=>
             IF x = j /\ "card" \in Fields THEN r.at < newest[j].card ELSE <<x, "card">> \in overtaken
      BY <3>1, ShownCard
    <3> QED BY <1>1, <2>1, <3>2
  <2>6. ASSUME NEW i \in Items
        PROVE  NewestFrom(i) /\ ShownFrom(i)
    <3>1. CASE i = j
      <4>1. newest'[i].card = Later(newest[i].card, r.at)
        BY <1>0, <1>1, <2>1, <3>1, ToldCard
      <4> QED BY <1>0, <1>1, <2>5, <3>1, <4>1, CardShown
    <3>2. CASE i # j
      <4>1. newest'[i].card = newest[i].card
        BY <1>0, <2>1, <3>2, ToldCard
      <4> QED BY <1>0, <2>4, <2>5, <3>2, <4>1, CardStays
    <3> QED BY <3>1, <3>2
  <2> QED BY <1>2, <2>3, <2>6 DEF Effects, CardFrom
<1>5. CASE ~ r.attached
  <2>1. req' = [req EXCEPT ![s] = NoReq] /\ UNCHANGED <<board, overtaken, newest, queue, cleared, fetches>>
    BY <1>5 DEF ResponseArrives
  <2> QED BY <1>3, <2>1, EffectsRequestRow DEF JustRead
<1> QED BY <1>4, <1>5

LEMMA EffectsSettle ==
    ASSUME BoardInv, TabInv, Settle
    PROVE  Effects
<1>1. /\ newest' = newest /\ RenderAllTimers(board, overtaken, deadlines)
      /\ UNCHANGED <<queue, cleared, fetches, req>>
  BY DEF Settle, streamVars
<1>2. ShownOK /\ board \in [Items -> Pile]
  BY DEF TabInv, ShownOK
<1>3. \A i \in Items : /\ OnBoard(i)' => OnBoard(i)
                       /\ <<i, "card">> \in overtaken' <=> <<i, "card">> \in overtaken
  BY <1>1, <1>2, RenderAllKeeps DEF OnBoard
<1>4. \A i \in Items : CardFrom(i)
  BY <1>1, <1>2, <1>3, AnswersKept, CardStays DEF CardFrom
<1> QED BY <1>1, <1>4, StreamKept DEF Effects

\* A timer request moves the timer only.
LEMMA EffectsPost ==
    ASSUME BoardInv, TabInv, NEW p \in posts, ServePost(p) \/ PostArrives(p) \/ PostFails(p)
    PROVE  Effects
<1>0. ShownOK
  BY DEF TabInv
<1>1. UNCHANGED <<queue, cleared, fetches, req>>
  BY DEF ServePost, PostArrives, PostFails, streamVars
<1>2. CASE ServePost(p) \/ PostFails(p)
  <2>1. UNCHANGED <<board, newest, overtaken>>
    BY <1>2 DEF ServePost, PostFails, shownVars
  <2> QED BY <1>0, <1>1, <2>1, AnswersKept, EffectsKept
<1>3. CASE PostArrives(p)
  <2> DEFINE j == p.item
  <2>1. \E x : newest' = Told(newest, j, {"timer"}, x)
    BY <1>3 DEF PostArrives
  <2>2. \/ board' = board
        \/ OnBoard(j) /\ \E face : board' = [board EXCEPT ![j] = <<face>> \o Tail(@)]
    BY <1>3 DEF PostArrives, Shows
  <2>3. \/ overtaken \subseteq overtaken'
        \/ \E x : overtaken' = Shown(overtaken, j, {"timer"}, x)
    BY <1>3 DEF PostArrives
  <2> HIDE DEF j
  <2>4. ASSUME NEW i \in Items
        PROVE  CardFrom(i)
    <3>1. newest'[i].card = newest[i].card
      <4>1. "card" \notin {"timer"}
        OBVIOUS
      <4> QED BY <1>0, <2>1, <4>1, ToldCard
    <3>2. OnBoard(i)' => OnBoard(i)
      BY <1>0, <2>2 DEF OnBoard, ShownOK
    <3>3. <<i, "card">> \in overtaken => <<i, "card">> \in overtaken'
      <4>1. "card" \notin {"timer"} /\ {"timer"} \in SUBSET Fields
        BY DEF Fields
      <4> QED BY <2>3, <4>1, ShownCard
    <3> QED BY <1>0, <1>1, <3>1, <3>2, <3>3, AnswersKept, CardStays DEF CardFrom
  <2> QED BY <1>1, <2>4, StreamKept DEF Effects
<1> QED BY <1>2, <1>3

LEMMA EffectsStep ==
    ASSUME BoardInv, TabInv, [BrowserNext]_browserVars
    PROVE  Effects
<1>1. CASE UNCHANGED tabVars
  <2>1. UNCHANGED <<board, newest, overtaken, queue, cleared, fetches, req>>
    BY <1>1 DEF tabVars, shownVars, streamVars
  <2> QED BY <2>1, AnswersKept, EffectsKept DEF TabInv
<1>2. ASSUME NEW s \in Slots, Request(s)
      PROVE  Effects
  BY <1>2, EffectsAsk, EffectsServe, EffectsResponse DEF Request
<1>3. ASSUME NEW i \in Items, ClickExtend(i) \/ FallbackTick(i)
      PROVE  Effects
  <2>1. UNCHANGED <<board, newest, overtaken, queue, cleared, fetches, req>>
    BY <1>3 DEF ClickExtend, FallbackTick, shownVars, streamVars
  <2> QED BY <2>1, AnswersKept, EffectsKept DEF TabInv
<1>4. UNCHANGED browserVars \/ Elsewhere => UNCHANGED tabVars
  BY DEF browserVars, Elsewhere
<1> QED BY <1>1, <1>2, <1>3, <1>4, EffectsPublish, EffectsListener, EffectsFetch, EffectsSettle,
           EffectsPost DEF BrowserNext

-----------------------------------------------------------------------------
(* Archived cards leave the board.                                          *)

Unarchived(i) == item[i].status \notin {"ARCHIVED", "deleted"}

\* The place that the archive of card i has taken in the log.
ArchivedAt(i) == ArchiveEvent(item[i].archive, log)

\* What the tab knows of a card is no older than the last archive it handled.
ClearedKnown == \A i \in Items : cleared <= newest[i].card

\* Nothing in the tab is as old as the event of an archive that has not
\* committed: the event is not sent, and the rows do not tell of it.
TransactionsHidden ==
    \A q \in Archivers : InTransaction(q) =>
        /\ ~ Queued(arch[q].event)
        /\ \A i \in Items : Unarchived(i) =>
              newest[i].card # arch[q].event /\ ~ About(i, arch[q].event)

\* An answer about an archived card was read before the archive or is older.
AnswersApart == \A i \in Items : Archived(i) => ~ About(i, ArchivedAt(i))

\* A card is back on the board after its archive by newer news only.
BackByNews ==
    \A i \in Items : Archived(i) /\ UpToDate(i) /\ cleared >= ArchivedAt(i) =>
        newest[i].card > ArchivedAt(i)

LeaveInv == ClearedKnown /\ TransactionsHidden /\ AnswersApart /\ BackByNews

\* The archive of a card, whether it is archived and whether it is deleted stay.
MarksStay(i) ==
    /\ item'[i].archive = item[i].archive
    /\ item'[i].status = "ARCHIVED" <=> item[i].status = "ARCHIVED"
    /\ item[i].status = "deleted" => item'[i].status = "deleted"

LEMMA MarksOfWrite ==
    ASSUME TypeOK, NEW j \in Items, NEW new, item' = [item EXCEPT ![j] = new],
           new.archive = item[j].archive, item[j].status # "deleted",
           new.status = "ARCHIVED" <=> item[j].status = "ARCHIVED",
           NEW i \in Items
    PROVE  MarksStay(i)
<1>1. item'[j] = new /\ \A k \in Items \ {j} : item'[k] = item[k]
  BY DEF TypeOK, BoardTypeOK
<1> QED BY <1>1 DEF MarksStay

LEMMA MarksOfHandler ==
    ASSUME CardsAssumption, TypeOK, ArchiveInv, NEW j \in Items, ItemHandler(j), NEW i \in Items
    PROVE  MarksStay(i)
<1>0. item[j] \in ItemRows
  BY DEF TypeOK, BoardTypeOK
<1>1. CASE item' = item
  BY <1>1 DEF MarksStay
<1>2. Exists(j) => item[j].status # "deleted"
  BY DEF Exists, Status
<1>3. ASSUME NEW text \in Texts, AddItem(j, text)
      PROVE  MarksStay(i)
  <2> DEFINE new == [NoItem EXCEPT !.status = "CREATED", !.text = text]
  <2>1. item[j].status = "absent" /\ item' = [item EXCEPT ![j] = new]
    BY <1>3 DEF AddItem
  <2>2. new.archive = Null /\ new.status = "CREATED"
    BY DEF NoItem
  <2>3. item[j].archive = Null
    BY <2>1 DEF ArchiveInv, RowsInv, ArchivedInOwnRetro
  <2> HIDE DEF new
  <2> QED BY <2>1, <2>2, <2>3, MarksOfWrite
<1>4. ASSUME NEW action \in {"highlight", "cancel", "complete"}, ChangeItemStatus(j, action),
             item' # item
      PROVE  MarksStay(i)
  <2>1. Exists(j) /\ item' = [item EXCEPT ![j] = Changed(item[j], action)]
    BY <1>4 DEF ChangeItemStatus, Write
  <2>2. /\ Changed(item[j], action).archive = item[j].archive
        /\ Changed(item[j], action).status = "ARCHIVED" <=> item[j].status = "ARCHIVED"
    BY <1>0, KeptRows
  <2> QED BY <1>2, <2>1, <2>2, MarksOfWrite
<1>5. ASSUME NEW d \in Submitted, StartItemTimer(j, d), item' # item
      PROVE  MarksStay(i)
  <2> DEFINE new == [item[j] EXCEPT !.started = now, !.duration = Clamp(d), !.elapsed = Null]
  <2>1. Exists(j) /\ item' = [item EXCEPT ![j] = new]
    BY <1>5 DEF StartItemTimer, Write
  <2>2. new.archive = item[j].archive /\ new.status = item[j].status
    BY <1>0, KeptRows
  <2> HIDE DEF new
  <2> QED BY <1>2, <2>1, <2>2, MarksOfWrite
<1>6. ASSUME ExtendItemTimer(j), item' # item
      PROVE  MarksStay(i)
  <2>1. Exists(j) /\ item' = [item EXCEPT ![j] = Extended(item[j])]
    BY <1>6 DEF ExtendItemTimer, Write
  <2>2. Extended(item[j]).archive = item[j].archive /\ Extended(item[j]).status = item[j].status
    BY <1>0, KeptRows
  <2> QED BY <1>2, <2>1, <2>2, MarksOfWrite
<1> QED BY <1>1, <1>3, <1>4, <1>5, <1>6 DEF ItemHandler

\* The marks of a card change by the commit of the archive that holds it, and
\* when its retro is deleted.
LEMMA MarksStep ==
    ASSUME CardsAssumption, TypeOK, ArchiveInv, [Next]_vars, NEW i \in Items
    PROVE  \/ MarksStay(i)
           \/ item'[i].status = "deleted"
           \/ \E q \in Archivers : /\ CommitArchive(q) /\ i \in arch[q].items
                                   /\ item'[i].archive = arch[q].id
<1>0. item[i] \in ItemRows
  BY DEF TypeOK, BoardTypeOK
<1>1. CASE item' = item
  BY <1>1 DEF MarksStay
<1>2. ASSUME NEW j \in Items, ItemHandler(j)
      PROVE  MarksStay(i)
  BY <1>2, MarksOfHandler
<1>3. ASSUME NEW q \in Editors, UpdateText(q)
      PROVE  MarksStay(i)
  <2> DEFINE j   == edit[q].item
             new == [item[j] EXCEPT !.text = edit[q].text]
  <2>1. j \in Items /\ item[j] \in ItemRows
    BY <1>3 DEF UpdateText, TypeOK, BoardTypeOK, RequestTypeOK, EditStates
  <2>2. item[j].status # "deleted" /\ item' = [item EXCEPT ![j] = new]
    BY <1>3 DEF UpdateText, Write, Exists, Status
  <2>3. new.archive = item[j].archive /\ new.status = item[j].status
    BY <2>1, KeptRows
  <2> HIDE DEF new, j
  <2> QED BY <2>1, <2>2, <2>3, MarksOfWrite
<1>4. CASE TimerSweep
  <2>1. item'[i] = IF i \in Due THEN [item[i] EXCEPT !.elapsed = now] ELSE item[i]
    BY <1>4 DEF TimerSweep
  <2>2. item'[i].archive = item[i].archive /\ item'[i].status = item[i].status
    BY <1>0, <2>1, KeptRows
  <2> QED BY <2>2 DEF MarksStay
<1>5. ASSUME NEW q \in Archivers, CommitArchive(q)
      PROVE  MarksStay(i) \/ (i \in arch[q].items /\ item'[i].archive = arch[q].id)
  <2>1. item'[i] = IF i \in arch[q].items
                   THEN [item[i] EXCEPT !.status = "ARCHIVED", !.archive = arch[q].id] ELSE item[i]
    BY <1>5 DEF CommitArchive
  <2>2. CASE i \in arch[q].items
    BY <1>0, <2>1, <2>2 DEF ItemRows
  <2>3. CASE i \notin arch[q].items
    BY <2>1, <2>3 DEF MarksStay
  <2> QED BY <2>2, <2>3
<1>6. ASSUME NEW r \in Retros, DeleteRetro(r)
      PROVE  MarksStay(i) \/ item'[i].status = "deleted"
  <2>1. item'[i] = IF Home[i] = r THEN [NoItem EXCEPT !.status = "deleted"] ELSE item[i]
    BY <1>6 DEF DeleteRetro
  <2>2. [NoItem EXCEPT !.status = "deleted"].status = "deleted"
    BY DEF NoItem
  <2> QED BY <2>1, <2>2 DEF MarksStay
<1>7. ASSUME NEW q \in Editors, UpdateItem(q)
      PROVE  MarksStay(i)
  <2>1. UpdateText(q) \/ item' = item
    BY <1>7 DEF UpdateItem, ReadOldText, AbandonEdit, boardVars
  <2>2. CASE UpdateText(q)
    BY <1>3, <2>2
  <2>3. CASE item' = item
    BY <2>3 DEF MarksStay
  <2> QED BY <2>1, <2>2, <2>3
<1>8. ASSUME NEW q \in Archivers, ArchiveRetro(q), item' # item
      PROVE  CommitArchive(q)
  BY <1>8 DEF ArchiveRetro, ArchiveStep, CountActive, InsertArchive, ArchiveItems,
              ArchiveActionItems, AbortArchive, boardVars
<1>9. ASSUME NEW a \in ActionItems, ActionItemHandler(a)
      PROVE  item' = item
  BY <1>9 DEF ActionItemHandler, AddActionItem, UpdateActionItem, CompleteActionItem, DeleteActionItem
<1>10. Tick \/ UNCHANGED vars => item' = item
  BY DEF Tick, vars, boardVars
<1>11. CASE \E q \in Archivers : ArchiveRetro(q)
  BY <1>1, <1>5, <1>8, <1>11
<1>12. CASE \E r \in Retros : DeleteRetro(r)
  BY <1>6, <1>12
<1>13. CASE (\E j \in Items : ItemHandler(j)) \/ (\E q \in Editors : UpdateItem(q)) \/ TimerSweep
  BY <1>2, <1>4, <1>7, <1>13
<1>14. CASE (\E a \in ActionItems : ActionItemHandler(a)) \/ Tick \/ UNCHANGED vars
  BY <1>1, <1>9, <1>10, <1>14
<1> QED BY <1>11, <1>12, <1>13, <1>14 DEF Next

\* A card is archived because it was, or by a transaction that held it.
LEMMA ArchivedFrom ==
    ASSUME CardsAssumption, BoardInv, BoardInv', [Next]_vars, NEW i \in Items, Archived(i)'
    PROVE  \/ Archived(i) /\ ArchivedAt(i)' = ArchivedAt(i)
           \/ \E q \in Archivers : /\ InTransaction(q) /\ Unarchived(i)
                                   /\ ArchivedAt(i)' = arch[q].event
<1>0. TypeOK /\ TypeOK' /\ ArchiveInv /\ LogInv /\ PlacesInv
  BY DEF BoardInv
<1>1. archives \in Seq(Retros \cup {None}) /\ DOMAIN archives = 1 .. Len(archives)
  BY <1>0, LenProperties DEF TypeOK, BoardTypeOK
<1>2. ASSUME MarksStay(i)
      PROVE  Archived(i) /\ ArchivedAt(i)' = ArchivedAt(i)
  <2>1. Archived(i) /\ item'[i].archive = item[i].archive
    BY <1>2 DEF MarksStay, Archived
  <2>2. item[i].archive \in 1 .. Len(archives)
    BY <1>0, <1>1, <2>1 DEF ArchiveInv, RowsInv, ArchivedInOwnRetro, Archived
  <2>3. ArchiveEvent(item[i].archive, log') = ArchiveEvent(item[i].archive, log)
    BY <1>0, <2>2, ArchiveEventStays DEF LogInv
  <2>4. ArchivedAt(i)' = ArchiveEvent(item'[i].archive, log')
    BY DEF ArchivedAt, ArchiveEvent, Nth
  <2> QED BY <2>1, <2>3, <2>4 DEF ArchivedAt
<1>3. ASSUME NEW q \in Archivers, CommitArchive(q), i \in arch[q].items,
             item'[i].archive = arch[q].id
      PROVE  InTransaction(q) /\ Unarchived(i) /\ ArchivedAt(i)' = arch[q].event
  <2>1. InTransaction(q) /\ log' = log
    BY <1>3 DEF CommitArchive, InTransaction
  <2>2. Exists(i) /\ item[i].archive = Null
    BY <1>0, <1>3 DEF ArchiveInv, RequestInv, Holds
  <2>3. Unarchived(i)
    BY <1>0, <2>2 DEF ArchiveInv, RowsInv, ArchivedInOwnRetro, Unarchived, Exists, Status
  <2>4. ArchivedAt(i)' = ArchiveEvent(arch[q].id, log)
    BY <1>3, <2>1 DEF ArchivedAt, ArchiveEvent, Nth
  <2> QED BY <1>0, <2>1, <2>3, <2>4 DEF PlacesInv
<1>4. item'[i].status # "deleted"
  BY DEF Archived
<1> QED BY <1>0, <1>2, <1>3, <1>4, MarksStep

LEMMA UnarchivedFrom ==
    ASSUME CardsAssumption, BoardInv, BoardInv', [Next]_vars, NEW i \in Items, Unarchived(i)'
    PROVE  Unarchived(i)
<1>1. TypeOK /\ ArchiveInv /\ ArchiveInv'
  BY DEF BoardInv
<1>2. item'[i].status # "deleted" /\ item'[i].status # "ARCHIVED"
  BY DEF Unarchived
<1>3. ASSUME NEW q \in Archivers, CommitArchive(q), item'[i].archive = arch[q].id
      PROVE  FALSE
  <2>1. arch[q].id # Null
    <3>1. InTransaction(q) /\ OpenArchive(q) /\ DOMAIN archives = 1 .. Len(archives)
      BY <1>1, <1>3, ArchTypes DEF CommitArchive, InTransaction, ArchiveInv, RequestInv
    <3> QED BY <3>1 DEF OpenArchive, Null
  <2> QED BY <1>1, <1>2, <1>3, <2>1 DEF ArchiveInv, RowsInv, ArchivedInOwnRetro
<1> QED BY <1>1, <1>2, <1>3, MarksStep DEF MarksStay, Unarchived

\* How new an archived card is, and that no other is as new as an archive that
\* has not committed.
MomentMeaning ==
    /\ \A i \in Items : Archived(i) =>
          ArchivedAt(i) \in 1 .. Len(log) /\ Moment(i, item[i], log) = ArchivedAt(i) - 1
    /\ \A q \in Archivers : InTransaction(q) =>
          /\ arch[q].event \in 1 .. Len(log)
          /\ \A i \in Items : ~ Archived(i) => Moment(i, item[i], log) # arch[q].event

LEMMA MomentIs == BoardInv => MomentMeaning
<1> SUFFICES ASSUME BoardInv PROVE MomentMeaning
  OBVIOUS
<1>1. log \in Seq(Events) /\ Len(log) \in Nat /\ DOMAIN log = 1 .. Len(log)
  BY LogType
<1>2. ASSUME NEW i \in Items, Archived(i)
      PROVE  ArchivedAt(i) \in 1 .. Len(log) /\ Moment(i, item[i], log) = ArchivedAt(i) - 1
  <2>1. archives \in Seq(Retros \cup {None})
    BY DEF BoardInv, TypeOK, BoardTypeOK
  <2>2. item[i].archive \in 1 .. Len(archives)
    BY <1>2, <2>1, LenProperties DEF BoardInv, ArchiveInv, RowsInv, ArchivedInOwnRetro, Archived
  <2>3. item[i].archive \in 1 .. Cardinality(Archiving(log))
    BY <2>2 DEF BoardInv, PlacesInv
  <2>4. Archiving(log) \in SUBSET (0 .. Len(log)) /\ Archiving(log) \subseteq DOMAIN log
    BY <1>1, ArchivingType DEF Archiving
  <2>5. ArchivedAt(i) \in Archiving(log)
    BY <1>1, <2>3, <2>4, NthIs, ArchiveEventIs DEF ArchivedAt
  <2>6. Moment(i, item[i], log) = ArchivedAt(i) - 1
    BY <1>2 DEF Moment, ArchivedAt, Archived
  <2> QED BY <1>1, <2>4, <2>5, <2>6
<1>3. ASSUME NEW q \in Archivers, InTransaction(q)
      PROVE  /\ arch[q].event \in 1 .. Len(log)
             /\ \A i \in Items : ~ Archived(i) => Moment(i, item[i], log) # arch[q].event
  <2>1. arch[q].event \in 1 .. Len(log)
    BY <1>1, <1>3 DEF BoardInv, LogInv, OpenEvent
  <2>2. ASSUME NEW i \in Items, ~ Archived(i)
        PROVE  Moment(i, item[i], log) # arch[q].event
    <3> DEFINE ids == {0} \cup {e \in DOMAIN log : Visible(log, e) /\ Concerns(log[e], i)}
    <3>1. ids \in SUBSET (0 .. Len(log)) /\ ids # {}
      BY <1>1
    <3>2. Moment(i, item[i], log) = Max(ids)
      BY <2>2 DEF Moment, Archived
    <3>3. arch[q].event \notin ids
      BY <2>1 DEF Visible
    <3> HIDE DEF ids
    <3>4. \E m \in ids : \A x \in ids : x <= m
      BY <1>1, <3>1, HasMax
    <3>5. \A x, y \in ids : x <= y => y >= x
      BY <3>1
    <3>6. Max(ids) \in ids
      BY <3>4, <3>5 DEF Max
    <3> QED BY <3>2, <3>3, <3>6
  <2> QED BY <2>1, <2>2
<1> QED BY <1>2, <1>3 DEF MomentMeaning

LEMMA MomentIsLater == ASSUME BoardInv' PROVE MomentMeaning'
<1>1. (BoardInv => MomentMeaning)'
  BY MomentIs, PTL
<1> QED BY <1>1

\* The answers that a step adds are not as old as an archive's event.
LEMMA AnswersNotOf ==
    ASSUME Effects, NEW i \in Items, NEW p, About(i, p)', p # 0,
           p # Moment(i, item[i], log)'
    PROVE  About(i, p)
BY DEF Effects, CardFrom, AnswersFrom, JustRead

LEMMA ClearedStep ==
    ASSUME TabInv, TabInv', Effects, ClearedKnown
    PROVE  ClearedKnown'
<1>1. ASSUME NEW i \in Items
      PROVE  cleared' <= newest'[i].card
  <2>1. cleared <= newest[i].card /\ newest[i].card <= newest'[i].card
    BY DEF ClearedKnown, Effects, CardFrom, NewestFrom
  <2>2. cleared \in Nat /\ newest[i].card \in Nat
    BY NewestCard DEF TabInv, StreamOK, Places
  <2>3. newest'[i].card \in Nat
    BY DEF TabInv, ShownOK, Places, Fields
  <2> QED BY <2>1, <2>2, <2>3 DEF Effects, ClearedFrom
<1> QED BY <1>1 DEF ClearedKnown

LEMMA TransactionsStep ==
    ASSUME CardsAssumption, BoardInv, BoardInv', TabInv, [Next]_vars, Effects, TransactionsHidden
    PROVE  TransactionsHidden'
<1>0. Len(log) \in Nat /\ DOMAIN log = 1 .. Len(log)
  BY LogType
<1> SUFFICES ASSUME NEW q \in Archivers, InTransaction(q)', NEW e, e = arch'[q].event
             PROVE  /\ ~ Queued(e)'
                    /\ \A i \in Items : Unarchived(i)' => newest'[i].card # e /\ ~ About(i, e)'
  BY DEF TransactionsHidden, Queued, About
<1>1. e # 0 /\ \A i \in Items : Unarchived(i)' => Moment(i, item[i], log)' # e
  <2>1. MomentMeaning'
    BY MomentIsLater
  <2> QED BY <2>1 DEF MomentMeaning, Unarchived, Archived
<1>2. /\ ~ Queued(e) /\ ~ (Visible(log, e) /\ arch' = arch /\ e \in DOMAIN log)
      /\ \A i \in Items : Unarchived(i)' => newest[i].card # e /\ ~ About(i, e)
  <2>1. CASE InTransaction(q) /\ arch'[q].event = arch[q].event
    <3>1. /\ ~ Queued(e)
          /\ \A i \in Items : Unarchived(i) => newest[i].card # e /\ ~ About(i, e)
      BY <2>1 DEF TransactionsHidden
    <3>2. ~ Visible(log, e)
      BY <2>1 DEF Visible
    <3> QED BY <3>1, <3>2, UnarchivedFrom
  <2>2. CASE InsertArchive(q)
    <3>1. e = Len(log) + 1
      <4>1. arch \in [Archivers -> ArchiveStates]
        BY DEF BoardInv, TypeOK, RequestTypeOK
      <4>2. arch' = [arch EXCEPT ![q].pc = "inserted", ![q].id = Len(archives) + 1,
                                 ![q].event = Len(log) + 1]
        BY <2>2 DEF InsertArchive
      <4> QED BY <4>1, <4>2 DEF ArchiveStates
    <3>2. ~ Queued(e) /\ e \notin DOMAIN log
      <4>1. \A k \in DOMAIN queue : queue[k] \in DOMAIN log
        BY ElementOfSeq DEF TabInv, StreamOK
      <4>2. e \notin DOMAIN log
        BY <1>0, <3>1
      <4> QED BY <4>1, <4>2 DEF Queued
    <3>3. ASSUME NEW i \in Items
          PROVE  newest[i].card # e /\ ~ About(i, e)
      <4>1. newest[i].card \in 0 .. Len(log)
        BY NewestCard DEF TabInv, Places
      <4>2. \A f \in fetches : f.at \in 0 .. Len(log)
        BY DEF TabInv, FetchesOK, Fetches
      <4>3. \A s \in Slots : req[s].at \in 0 .. Len(log)
        BY DEF TabInv, ReqOK, Requests
      <4>4. e \notin 0 .. Len(log)
        BY <1>0, <3>1
      <4> QED BY <4>1, <4>2, <4>3, <4>4 DEF About
    <3> QED BY <3>2, <3>3
  <2>3. TypeOK
    BY DEF BoardInv
  <2> QED BY <2>1, <2>2, <2>3, InTransactionStep
<1>3. ~ Queued(e)'
  BY <1>2 DEF Effects, QueueFrom
<1>4. ASSUME NEW i \in Items, Unarchived(i)'
      PROVE  newest'[i].card # e /\ ~ About(i, e)'
  <2>1. newest'[i].card # e
    BY <1>2, <1>4 DEF Effects, CardFrom, NewestFrom
  <2>2. ~ About(i, e)'
    BY <1>1, <1>2, <1>4, AnswersNotOf
  <2> QED BY <2>1, <2>2
<1> QED BY <1>3, <1>4

LEMMA AnswersStep ==
    ASSUME CardsAssumption, BoardInv, BoardInv', [Next]_vars, Effects, TransactionsHidden, AnswersApart
    PROVE  AnswersApart'
<1> SUFFICES ASSUME NEW i \in Items, Archived(i)', NEW a, a = ArchivedAt(i)', About(i, a)'
             PROVE  FALSE
  BY DEF AnswersApart, About
<1>1. a \in 1 .. Len(log)' /\ Moment(i, item[i], log)' = a - 1
  BY MomentIsLater DEF MomentMeaning
<1>2. a \in Int
  BY <1>1
<1>3. a # 0 /\ a # Moment(i, item[i], log)'
  BY <1>1, <1>2
<1>4. About(i, a)
  BY <1>3, AnswersNotOf
<1> QED BY <1>4, ArchivedFrom DEF AnswersApart, TransactionsHidden

LEMMA BackByNewsStep ==
    ASSUME CardsAssumption, BoardInv, BoardInv', TabInv, TabInv', [Next]_vars, Effects, LeaveInv
    PROVE  BackByNews'
<1> SUFFICES ASSUME NEW i \in Items, Archived(i)', UpToDate(i)', NEW a, a = ArchivedAt(i)',
                    cleared' >= a
             PROVE  newest'[i].card > a
  BY DEF BackByNews
<1> DEFINE old == newest[i].card
           new == newest'[i].card
<1>0. a \in Int /\ old \in Int /\ new \in Int /\ cleared \in Int
  <2>1. a \in 1 .. Len(log)'
    BY MomentIsLater DEF MomentMeaning
  <2>2. old \in Nat /\ cleared \in Nat
    BY NewestCard DEF TabInv, StreamOK, Places
  <2>3. new \in Nat
    BY DEF TabInv, ShownOK, Places, Fields
  <2> QED BY <2>1, <2>2, <2>3
<1>1. cleared' = cleared /\ cleared <= old /\ old <= new
  <2>1. OnBoard(i)'
    BY DEF UpToDate
  <2> QED BY <2>1 DEF Effects, CardFrom, NewestFrom, ClearedFrom, LeaveInv, ClearedKnown
<1>2. \/ Archived(i) /\ a = ArchivedAt(i) /\ ~ About(i, a)
      \/ old # a /\ ~ About(i, a)
  BY ArchivedFrom DEF LeaveInv, AnswersApart, TransactionsHidden
<1>3. ASSUME UpToDate(i)
      PROVE  new > a
  <2>1. CASE Archived(i) /\ a = ArchivedAt(i)
    <3>1. old > a
      BY <1>1, <1>3, <2>1 DEF LeaveInv, BackByNews
    <3> HIDE DEF old, new
    <3> QED BY <1>0, <1>1, <3>1
  <2>2. CASE old # a
    <3>1. cleared >= a
      BY <1>1
    <3> HIDE DEF old, new
    <3> QED BY <1>0, <1>1, <2>2, <3>1
  <2> QED BY <1>2, <2>1, <2>2
<1>4. ASSUME NEW p \in Places, About(i, p), old <= p, p <= new
      PROVE  new > a
  <2>1. p # a /\ p \in Int /\ cleared >= a
    BY <1>1, <1>2, <1>4 DEF Places
  <2> HIDE DEF old, new
  <2> QED BY <1>0, <1>1, <1>4, <2>1
<1>5. UpToDate(i) \/ \E p \in Places : About(i, p) /\ old <= p /\ p <= new
  BY DEF Effects, CardFrom, ShownFrom
<1> QED BY <1>3, <1>4, <1>5

LEMMA LeaveStep ==
    ASSUME CardsAssumption, BrowserAssumption, BoardInv, TabInv, (BoardInv /\ TabInv)', LeaveInv,
           [BrowserNext]_browserVars
    PROVE  LeaveInv'
<1>1. [Next]_vars /\ Effects /\ BoardInv' /\ TabInv'
  BY StepOfBoard, EffectsStep
<1>2. ClearedKnown' /\ TransactionsHidden'
  BY <1>1, ClearedStep, TransactionsStep DEF LeaveInv
<1>3. AnswersApart' /\ BackByNews'
  BY <1>1, AnswersStep, BackByNewsStep DEF LeaveInv
<1> QED BY <1>2, <1>3 DEF LeaveInv

LEMMA LeaveInit ==
    ASSUME CardsAssumption, BrowserAssumption, BrowserInit
    PROVE  LeaveInv
<1>1. BoardInv /\ TabInv
  BY BoardInit, TabInit
<1>2. cleared = 0 /\ arch = [q \in Archivers |-> NoArchive]
  BY DEF BrowserInit
<1>3. \A i \in Items : ~ Archived(i)
  <2>1. ASSUME NEW i \in Items
        PROVE  item[i].archive = Null
    <3>1. PICK text \in [AtLoad -> Texts] : item = [j \in Items |->
                CASE j \in Running -> [NoItem EXCEPT !.status = "HIGHLIGHTED", !.text = text[j],
                                                    !.started = 1, !.duration = MaxDuration]
                  [] j \in AtLoad \ Running -> [NoItem EXCEPT !.status = "CREATED", !.text = text[j]]
                  [] OTHER -> NoItem]
      BY DEF BrowserInit
    <3>2. CASE i \in Running
      BY <3>1, <3>2 DEF NoItem
    <3>3. CASE i \in AtLoad \ Running
      BY <3>1, <3>3 DEF NoItem
    <3>4. CASE i \notin Running /\ i \notin AtLoad \ Running
      BY <3>1, <3>4 DEF NoItem
    <3> QED BY <3>2, <3>3, <3>4
  <2> QED BY <1>1, <2>1 DEF BoardInv, ArchiveInv, RowsInv, ArchivedInOwnRetro, Archived
<1>4. ClearedKnown
  <2>1. \A i \in Items : newest[i].card \in Nat
    BY <1>1, NewestCard DEF TabInv, Places
  <2> QED BY <1>2, <2>1 DEF ClearedKnown
<1>5. \A q \in Archivers : ~ InTransaction(q)
  BY <1>2 DEF InTransaction, NoArchive
<1> QED BY <1>3, <1>4, <1>5 DEF LeaveInv, TransactionsHidden, AnswersApart, BackByNews

\* An archived card that is still on a settled board came in with an answer that
\* was overtaken, or the tab has not handled its RETRO_ARCHIVED, or got news of
\* the card after it: the three routes and the commits that come after later
\* events have no other way of leaving one.
THEOREM ArchivedLeave == BrowserSpec => []ArchivedCardsLeave
<1>1. BrowserInit => LeaveInv
  BY CardsAssumption, BrowserAssumption, LeaveInit
<1>2. BoardInv /\ TabInv /\ (BoardInv /\ TabInv)' /\ LeaveInv /\ [BrowserNext]_browserVars => LeaveInv'
  BY CardsAssumption, BrowserAssumption, LeaveStep
<1>3. BoardInv /\ TabInv /\ LeaveInv => ArchivedCardsLeave
  <2> SUFFICES ASSUME BoardInv, TabInv, LeaveInv, NEW i \in Items, Archived(i), OnBoard(i),
                      <<i, "card">> \notin overtaken, ~ (cleared < ArchivedAt(i))
               PROVE  newest[i].card > ArchivedAt(i)
    BY DEF ArchivedCardsLeave, ArchivedAt
  <2>1. ArchivedAt(i) \in Int /\ cleared \in Int
    BY MomentIs DEF MomentMeaning, TabInv, StreamOK, Places
  <2>2. cleared >= ArchivedAt(i)
    BY <2>1
  <2> QED BY <2>2 DEF LeaveInv, BackByNews, UpToDate
<1> QED BY <1>1, <1>2, <1>3, TabAlways, PTL DEF BrowserSpec
=============================================================================
