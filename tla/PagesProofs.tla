---------------------------- MODULE PagesProofs ----------------------------
(***************************************************************************)
(* What a page finds, for any number of cards, columns, users and          *)
(* archives: the SELECTs of one page, in no transaction, together give     *)
(* something between what stayed and what was seen.  When nothing is       *)
(* written meanwhile, the archive dialog agrees with the cards.  The       *)
(* initials of authors who are not renamed meanwhile tell them apart.      *)
(***************************************************************************)
EXTENDS Pages, SequenceTheorems, FiniteSetTheorems, WellFoundedInduction, TLAPS

Statuses == {"CREATED", "COMPLETED", "ARCHIVED"}
Rows     == [author : Users, status : Statuses, archive : Nat] \cup {NoRow}
Sections == ToSet(Columns) \cup Nat
Reads    == [item : Cards, author : Users, name : Names, status : Statuses, left : Nat]
Kinds    == {"none", "board", "archive", "archives"}
Views    == [kind : Kinds, archive : Nat, todo : Seq(Sections), cards : SUBSET Reads]

TypeOK ==
    /\ row \in [Cards -> Rows]
    /\ archives \in Nat
    /\ deleted \in BOOLEAN
    /\ name \in [Users -> Names]
    /\ view \in Views
    /\ stayed \subseteq Cards
    /\ seen \subseteq Cards

\* A card is in an archive that there is.
ArchivesExist == \A i \in Cards : row[i].archive <= archives

Found == {c.item : c \in view.cards}
Paged == {i \in Cards : OnPage(i)}

\* The query that finds card i.
Section(i) == IF view.kind = "archives" THEN row[i].archive ELSE Column[i]

\* What the history variables stand for.
History == stayed \subseteq Paged /\ Paged \subseteq seen

\* A page has found what stayed or will come to it.
WillFind == \A i \in stayed : i \in Found \/ Section(i) \in ToSet(view.todo)

\* Archive 0 would be the cards that have none.
NoBoardInArchives == view.kind = "archives" => 0 \notin ToSet(view.todo)

\* No card enters or leaves an archive while there is the retro.
ArchiveStands ==
    view.kind = "archive" /\ ~ deleted =>
        /\ view.archive \in 1 .. archives
        /\ Paged \subseteq stayed
        /\ Found \subseteq Paged

PageInv ==
    view.kind # "none" =>
        /\ History
        /\ Found \subseteq seen
        /\ WillFind
        /\ NoBoardInArchives
        /\ ArchiveStands

IInv == TypeOK /\ ArchivesExist /\ PageInv

-----------------------------------------------------------------------------
\* The properties of the empty sequence, of Tail and of the list of archives.
LEMMA Todo ==
    /\ ToSet(<< >>) = {}
    /\ \A S : \A s \in Seq(S) : s # << >> =>
          /\ ToSet(s) = {Head(s)} \cup ToSet(Tail(s))
          /\ Head(s) \in S
          /\ Tail(s) \in Seq(S)
    /\ \A n \in Nat : LET s == [k \in 1 .. n |-> k]
                      IN  s \in Seq(Nat) /\ ToSet(s) = 1 .. n
<1>1. ToSet(<< >>) = {}
  BY DEF ToSet
<1>2. ASSUME NEW S, NEW s \in Seq(S), s # << >>
      PROVE  /\ ToSet(s) = {Head(s)} \cup ToSet(Tail(s))
             /\ Head(s) \in S
             /\ Tail(s) \in Seq(S)
  <2>1. /\ Len(s) \in Nat \ {0} /\ DOMAIN s = 1 .. Len(s)
        /\ Head(s) = s[1] /\ s[1] \in S
        /\ Tail(s) \in Seq(S) /\ Len(Tail(s)) = Len(s) - 1
        /\ DOMAIN Tail(s) = 1 .. Len(s) - 1
        /\ \A k \in 1 .. Len(s) - 1 : Tail(s)[k] = s[k + 1]
    BY <1>2
  <2>2. ASSUME NEW x \in ToSet(s) PROVE x \in {Head(s)} \cup ToSet(Tail(s))
    <3>1. PICK k \in 1 .. Len(s) : x = s[k]
      BY <2>1, <2>2 DEF ToSet
    <3>2. CASE k = 1
      BY <2>1, <3>1, <3>2
    <3>3. CASE k # 1
      <4>1. k - 1 \in 1 .. Len(s) - 1 /\ Tail(s)[k - 1] = x
        BY <2>1, <3>1, <3>3
      <4> QED BY <2>1, <4>1 DEF ToSet
    <3> QED BY <3>2, <3>3
  <2>3. ASSUME NEW x \in ToSet(Tail(s)) PROVE x \in ToSet(s)
    <3>1. PICK k \in 1 .. Len(s) - 1 : x = s[k + 1]
      BY <2>1, <2>3 DEF ToSet
    <3>2. k + 1 \in 1 .. Len(s)
      BY <2>1, <3>1
    <3> QED BY <2>1, <3>1, <3>2 DEF ToSet
  <2>4. Head(s) \in ToSet(s)
    BY <2>1 DEF ToSet
  <2> QED BY <2>1, <2>2, <2>3, <2>4
<1>3. ASSUME NEW n \in Nat
      PROVE  LET s == [k \in 1 .. n |-> k] IN s \in Seq(Nat) /\ ToSet(s) = 1 .. n
  BY DEF ToSet
<1> QED BY <1>1, <1>2, <1>3
-----------------------------------------------------------------------------
(* Types.                                                                   *)

LEMMA ViewType ==
    ASSUME TypeOK
    PROVE  /\ view.kind \in Kinds /\ view.archive \in Nat
           /\ view.todo \in Seq(Sections) /\ view.cards \subseteq Reads
  BY DEF TypeOK, Views

LEMMA RowType ==
    ASSUME TypeOK, NEW i \in Cards
    PROVE  /\ row[i].archive \in Nat
           /\ Exists(i) => /\ row[i] \in [author : Users, status : Statuses, archive : Nat]
                           /\ row[i].author \in Users /\ row[i].status \in Statuses
           /\ ~ Exists(i) => row[i].archive = 0
<1>1. row[i] \in Rows
  BY DEF TypeOK
<1>2. CASE row[i] = NoRow
  BY <1>2 DEF NoRow, Exists
<1>3. CASE row[i] # NoRow
  BY <1>1, <1>3 DEF Rows, Exists
<1> QED BY <1>2, <1>3

\* What RequestPage puts in view is a view.
LEMMA RequestType ==
    ASSUME PagesAssumption, TypeOK,
           NEW kind \in {"board", "archive", "archives"}, NEW archive \in Nat,
           RequestPage(kind, archive)
    PROVE  /\ view' \in Views
           /\ stayed' \subseteq Cards /\ seen' \subseteq Cards
<1>1. [n \in 1 .. archives |-> n] \in Seq(Sections) /\ Columns \in Seq(Sections)
  <2>1. [n \in 1 .. archives |-> n] \in Seq(Nat)
    BY Todo DEF TypeOK
  <2>2. \A S, T : \A q \in Seq(S) : q \in Seq(S \cup T) /\ q \in Seq(T \cup S)
    OBVIOUS
  <2> QED BY <2>1, <2>2 DEF PagesAssumption, Sections
<1> QED BY <1>1 DEF RequestPage, Views, Kinds

\* The rows of a SELECT.
LEMMA ReadType ==
    ASSUME TypeOK, NEW i \in Cards, Exists(i), NEW k \in Nat
    PROVE  ReadAs(i, k) \in Reads
  BY RowType DEF ReadAs, Reads, TypeOK

LEMMA ReadSectionType ==
    ASSUME TypeOK, ReadSection
    PROVE  view' \in Views
<1>1. view.todo \in Seq(Sections) /\ Len(view.todo) \in Nat /\ Tail(view.todo) \in Seq(Sections)
  BY ViewType, Todo DEF ReadSection
<1>2. \A x \in Cards : Selects(Head(view.todo), x) => Exists(x)
  BY DEF Selects, Active
<1>3. {ReadAs(i, Len(view.todo)) : i \in {x \in Cards : Selects(Head(view.todo), x)}} \subseteq Reads
  BY <1>1, <1>2, ReadType
<1> QED BY <1>1, <1>3, ViewType DEF ReadSection, TypeOK, Views

LEMMA NewCardType ==
    ASSUME TypeOK, NEW i \in Cards, NEW user \in Users, NewCard(i, user)
    PROVE  row' \in [Cards -> Rows]
  BY DEF NewCard, TypeOK, Rows, Statuses

LEMMA WrittenType ==
    ASSUME TypeOK, Written
    PROVE  stayed' \subseteq Cards /\ seen' \subseteq Cards
  BY DEF Written, TypeOK

LEMMA ArchiveRowsType ==
    ASSUME TypeOK, ArchiveRetro
    PROVE  row' \in [Cards -> Rows] /\ archives' \in Nat
<1>1. archives' = archives + 1 /\ archives' \in Nat
  <2>1. archives' = archives + 1
    BY Zenon DEF ArchiveRetro
  <2> QED BY <2>1 DEF TypeOK
<1>2. ASSUME NEW i \in Cards, Active(i)
      PROVE  [row[i] EXCEPT !.archive = archives', !.status = "ARCHIVED"] \in Rows
  BY <1>1, <1>2, RowType DEF Active, Rows, Statuses
<1>3. \A i \in Cards : row[i] \in Rows
  BY DEF TypeOK
<1> QED BY <1>1, <1>2, <1>3 DEF ArchiveRetro

LEMMA TypeInit ==
    ASSUME PagesAssumption, Init
    PROVE  TypeOK
<1>1. NoView \in Views
  BY DEF NoView, Views, Kinds
<1> QED BY <1>1 DEF Init, TypeOK, Rows

LEMMA TypeNext ==
    ASSUME PagesAssumption, TypeOK, [Next]_vars
    PROVE  TypeOK'
<1>1. CASE StartPage
  <2>1. PICK kind \in {"board", "archive", "archives"}, archive \in Nat :
            RequestPage(kind, archive)
    BY <1>1 DEF StartPage, TypeOK
  <2> QED BY <1>1, <2>1, RequestType DEF StartPage, dbVars, TypeOK
<1>2. CASE ReadSection
  BY <1>2, ReadSectionType DEF ReadSection, dbVars, histVars, TypeOK
<1>3. CASE Render \/ PageFails
  <2>1. NoView \in Views
    BY DEF NoView, Views, Kinds
  <2> QED BY <1>3, <2>1 DEF Render, PageFails, Done, dbVars, TypeOK
<1>4. ASSUME NEW i \in Cards, NEW user \in Users, AddItem(i, user)
      PROVE  TypeOK'
  BY <1>4, NewCardType, WrittenType DEF AddItem, NewCard, tabVars, TypeOK
<1>5. ASSUME NEW i \in Cards, CompleteItem(i)
      PROVE  TypeOK'
  <2>1. [row[i] EXCEPT !.status = "COMPLETED"] \in Rows
    BY <1>5, RowType DEF CompleteItem, Active, Rows, Statuses
  <2> QED BY <1>5, <2>1, WrittenType DEF CompleteItem, tabVars, TypeOK
<1>6. CASE ArchiveRetro
  BY <1>6, ArchiveRowsType, WrittenType DEF ArchiveRetro, tabVars, TypeOK
<1>7. CASE DeleteRetro
  BY <1>7, WrittenType DEF DeleteRetro, tabVars, TypeOK, Rows
<1>8. ASSUME NEW user \in Users, NEW new \in Names, Rename(user, new)
      PROVE  TypeOK'
  BY <1>8 DEF Rename, tabVars, TypeOK
<1>9. ASSUME NEW i \in Cards, OwnAdd(i)
      PROVE  TypeOK'
  <2>1. NewCard(i, Me) /\ Me \in Users
    BY <1>9 DEF OwnAdd, PagesAssumption
  <2>2. CASE RequestPage("board", 0)
    BY <2>1, <2>2, NewCardType, RequestType DEF NewCard, TypeOK
  <2>3. CASE UNCHANGED view /\ Written
    BY <2>1, <2>3, NewCardType, WrittenType DEF NewCard, TypeOK
  <2> QED BY <1>9, <2>2, <2>3 DEF OwnAdd
<1>10. ASSUME NEW i \in Cards, CardComes(i)
       PROVE  TypeOK'
  BY <1>10 DEF CardComes, dbVars, histVars, TypeOK
<1>11. CASE BoardCleared
  BY <1>11 DEF BoardCleared, dbVars, histVars, TypeOK
<1>12. CASE UNCHANGED vars
  BY <1>12 DEF vars, dbVars, tabVars, histVars, TypeOK
<1> QED BY <1>1, <1>2, <1>3, <1>4, <1>5, <1>6, <1>7, <1>8, <1>9, <1>10, <1>11, <1>12 DEF Next

-----------------------------------------------------------------------------
(* What a page finds.                                                       *)

\* The first query of a page makes what it is about the history.
LEMMA PageBegins ==
    ASSUME PagesAssumption, TypeOK', ArchivesExist', archives \in Nat,
           NEW kind \in {"board", "archive", "archives"}, NEW archive \in Nat,
           kind = "archive" => archive \in 1 .. archives',
           kind = "archives" => archives' = archives,
           RequestPage(kind, archive)
    PROVE  PageInv'
<1>1. /\ view'.kind = kind /\ view'.archive = archive /\ view'.cards = {}
      /\ view'.todo = IF kind = "archives" THEN [n \in 1 .. archives |-> n] ELSE Columns
  BY DEF RequestPage
<1>2. stayed' = {i \in Cards : OnPage(i)'} /\ seen' = stayed'
  BY <1>1 DEF RequestPage, OnPage
<1>3. Paged' = stayed' /\ Found' = {}
  BY <1>1, <1>2 DEF Paged, Found
<1>4. kind = "archives" => ToSet(view'.todo) = 1 .. archives
  BY <1>1, Todo
<1>5. ASSUME NEW i \in stayed' PROVE Section(i)' \in ToSet(view'.todo)
  <2>1. i \in Cards /\ OnPage(i)'
    BY <1>2, <1>5
  <2>2. CASE kind = "archives"
    <3>1. row'[i].archive # 0
      BY <1>1, <2>1, <2>2 DEF OnPage, Shows
    <3>2. row'[i].archive \in Nat /\ row'[i].archive <= archives'
      <4>1. row'[i] \in Rows
        BY <2>1 DEF TypeOK
      <4>2. row'[i].archive \in Nat
        BY <4>1 DEF Rows, NoRow
      <4> QED BY <2>1, <4>2 DEF ArchivesExist
    <3>3. row'[i].archive \in 1 .. archives
      BY <2>2, <3>1, <3>2
    <3> QED BY <1>1, <1>4, <2>2, <3>3 DEF Section
  <2>3. CASE kind # "archives"
    BY <1>1, <2>1, <2>3 DEF Section, PagesAssumption
  <2> QED BY <2>2, <2>3
<1>6. NoBoardInArchives'
  BY <1>1, <1>4 DEF NoBoardInArchives
<1>7. History' /\ (Found \subseteq seen)'
  BY <1>2, <1>3 DEF History
<1>8. WillFind'
  BY <1>5 DEF WillFind
<1>9. ArchiveStands'
  BY <1>1, <1>3 DEF ArchiveStands
<1> QED BY <1>6, <1>7, <1>8, <1>9 DEF PageInv

\* A query finds only what is on the page, and all of its section.
LEMMA SelectsOnPage ==
    ASSUME TypeOK, view.kind # "none", NEW section, NEW i \in Cards,
           view.kind = "archives" => section # 0
    PROVE  /\ Selects(section, i) => OnPage(i)
           /\ OnPage(i) /\ Section(i) = section => Selects(section, i)
<1>1. view.kind \in {"board", "archive", "archives"}
  BY ViewType DEF Kinds
<1> QED BY <1>1 DEF Selects, OnPage, Shows, Section

LEMMA PageReads ==
    ASSUME TypeOK, PageInv, ReadSection
    PROVE  PageInv'
<1> DEFINE first == Head(view.todo)
           got   == {i \in Cards : Selects(first, i)}
<1>1. /\ view.kind # "none"
      /\ History /\ Found \subseteq seen /\ WillFind /\ NoBoardInArchives /\ ArchiveStands
      /\ view'.kind = view.kind /\ view'.archive = view.archive
      /\ view'.todo = Tail(view.todo)
      /\ UNCHANGED <<row, archives, deleted, stayed, seen>>
  BY ViewType DEF ReadSection, TypeOK, Views, dbVars, histVars, PageInv
<1>2. ToSet(view.todo) = {first} \cup ToSet(view'.todo)
  BY <1>1, ViewType, Todo DEF ReadSection
<1>3. Found' = Found \cup got
  <2>1. view'.cards = view.cards \cup {ReadAs(i, Len(view.todo)) : i \in got}
    BY ViewType DEF ReadSection, TypeOK, Views
  <2>2. \A i : ReadAs(i, Len(view.todo)).item = i
    BY DEF ReadAs
  <2> QED BY <2>1, <2>2 DEF Found
<1>4. Paged' = Paged /\ \A i : Section(i)' = Section(i)
  BY <1>1 DEF Paged, OnPage, Shows, Exists, Active, Section
<1>5. view.kind = "archives" => first # 0
  BY <1>1, <1>2 DEF NoBoardInArchives
<1>6. got \subseteq Paged
  BY <1>1, <1>5, SelectsOnPage DEF Paged
<1>7. \A i \in Paged : Section(i) = first => i \in got
  BY <1>1, <1>5, SelectsOnPage DEF Paged
<1> HIDE DEF first, got
<1>8. History' /\ (Found \subseteq seen)'
  BY <1>1, <1>3, <1>4, <1>6 DEF History
<1>9. WillFind'
  BY <1>1, <1>2, <1>3, <1>4, <1>7 DEF WillFind, History
<1>10. NoBoardInArchives'
  BY <1>1, <1>2 DEF NoBoardInArchives
<1>11. ArchiveStands'
  BY <1>1, <1>3, <1>4, <1>6 DEF ArchiveStands
<1> QED BY <1>8, <1>9, <1>10, <1>11 DEF PageInv

-----------------------------------------------------------------------------
(* What others write meanwhile.                                             *)

\* What a write may do to the archives: a card that has one keeps it or goes with
\* the retro, and a card that gets one gets the new one.
Tidy ==
    /\ archives \in Nat /\ archives' \in Nat
    /\ deleted => deleted'
    /\ archives <= archives' \/ (deleted' /\ \A i \in Cards : ~ Exists(i)')
    /\ \A i \in Cards :
          \/ row'[i].archive = row[i].archive /\ (Exists(i) => Exists(i)')
          \/ row'[i].archive = archives' /\ archives < archives' /\ Active(i)
          \/ deleted' /\ ~ Exists(i)'

LEMMA NewCardTidy ==
    ASSUME TypeOK, NEW i \in Cards, NEW user \in Users, NewCard(i, user)
    PROVE  Tidy /\ archives' = archives
<1>1. /\ row' = [row EXCEPT ![i] = [author |-> user, status |-> "CREATED", archive |-> 0]]
      /\ UNCHANGED <<archives, deleted>> /\ ~ deleted /\ ~ Exists(i)
      /\ row \in [Cards -> Rows] /\ archives \in Nat
  BY DEF NewCard, TypeOK
<1>2. row'[i].archive = 0 /\ row[i].archive = 0
  BY <1>1, RowType
<1>3. \A j \in Cards : j # i => row'[j] = row[j]
  BY <1>1
<1> QED BY <1>1, <1>2, <1>3 DEF Tidy, Exists

LEMMA CompleteTidy ==
    ASSUME TypeOK, NEW i \in Cards, CompleteItem(i)
    PROVE  Tidy
<1>1. /\ row' = [row EXCEPT ![i].status = "COMPLETED"]
      /\ UNCHANGED <<archives, deleted>> /\ Exists(i)
      /\ row \in [Cards -> Rows] /\ archives \in Nat
  BY DEF CompleteItem, TypeOK, Active
<1>2. row'[i].archive = row[i].archive /\ Exists(i)'
  BY <1>1, RowType DEF Exists, NoRow
<1>3. \A j \in Cards : j # i => row'[j] = row[j]
  BY <1>1
<1> QED BY <1>1, <1>2, <1>3 DEF Tidy, Exists

LEMMA ArchiveTidy ==
    ASSUME TypeOK, ArchiveRetro
    PROVE  Tidy
<1>1. archives' = archives + 1 /\ archives \in Nat /\ deleted' = deleted /\ ~ deleted
  BY Zenon DEF ArchiveRetro, TypeOK
<1>2. ASSUME NEW i \in Cards, Active(i)
      PROVE  row'[i].archive = archives'
  <2>1. row'[i] = [row[i] EXCEPT !.archive = archives', !.status = "ARCHIVED"]
    BY <1>2 DEF ArchiveRetro
  <2>2. row[i] \in [author : Users, status : Statuses, archive : Nat]
    BY <1>2, RowType DEF Active
  <2> QED BY <2>1, <2>2
<1>3. ASSUME NEW i \in Cards, ~ Active(i)
      PROVE  row'[i] = row[i]
  BY <1>3 DEF ArchiveRetro
<1> QED BY <1>1, <1>2, <1>3 DEF Tidy, Exists

LEMMA DeleteTidy ==
    ASSUME TypeOK, DeleteRetro
    PROVE  Tidy
<1>1. \A i \in Cards : row'[i] = NoRow
  BY DEF DeleteRetro
<1>2. deleted' /\ archives' = 0 /\ archives \in Nat
  BY DEF DeleteRetro, TypeOK
<1> QED BY <1>1, <1>2 DEF Tidy, Exists

LEMMA TidyArchivesExist ==
    ASSUME TypeOK, TypeOK', ArchivesExist, Tidy
    PROVE  ArchivesExist'
<1> SUFFICES ASSUME NEW i \in Cards PROVE row'[i].archive <= archives'
  BY DEF ArchivesExist
<1>1. row[i].archive \in Nat /\ row[i].archive <= archives
  BY RowType DEF ArchivesExist
<1>2. CASE ~ Exists(i)'
  BY <1>2 DEF Exists, NoRow, Tidy
<1>3. CASE Exists(i)'
  BY <1>1, <1>3 DEF Tidy
<1> QED BY <1>2, <1>3

\* A page that is being read, while something is written.
LEMMA PageSurvives ==
    ASSUME TypeOK, TypeOK', ArchivesExist, PageInv, Tidy, Written, UNCHANGED view
    PROVE  PageInv'
<1> SUFFICES ASSUME view.kind # "none" PROVE PageInv'
  BY DEF PageInv
<1>1. History /\ Found \subseteq seen /\ WillFind /\ NoBoardInArchives /\ ArchiveStands
  BY DEF PageInv
<1>2. /\ Found' = Found
      /\ stayed' = {i \in stayed : OnPage(i)'}
      /\ seen' = seen \cup Paged'
  BY DEF Written, Found, Paged
<1>3. History' /\ (Found \subseteq seen)'
  BY <1>1, <1>2 DEF History, Paged
<1>4. ASSUME NEW i \in stayed' PROVE Section(i)' = Section(i)
  <2>1. i \in Cards /\ OnPage(i) /\ OnPage(i)'
    BY <1>1, <1>2, <1>4 DEF History, Paged
  <2>2. CASE view.kind = "archives"
    BY <2>1, <2>2 DEF Section, OnPage, Shows, Active, Tidy
  <2>3. CASE view.kind # "archives"
    BY <2>3 DEF Section
  <2> QED BY <2>2, <2>3
<1>5. WillFind'
  BY <1>1, <1>2, <1>4 DEF WillFind
<1>6. NoBoardInArchives'
  BY <1>1 DEF NoBoardInArchives
<1>7. ASSUME view.kind = "archive", ~ deleted'
      PROVE  view.archive \in 1 .. archives' /\ Paged' = Paged /\ Paged' \subseteq stayed'
  <2>1. ~ deleted /\ archives <= archives' /\ archives \in Nat /\ archives' \in Nat
    BY <1>7 DEF Tidy
  <2>2. view.archive \in 1 .. archives /\ Paged \subseteq stayed
    BY <1>1, <1>7, <2>1 DEF ArchiveStands
  <2>3. ASSUME NEW i \in Cards PROVE OnPage(i)' <=> OnPage(i)
    <3>1. CASE row'[i].archive = row[i].archive /\ (Exists(i) => Exists(i)')
      <4>1. row'[i].archive # 0 => Exists(i)'
        BY DEF Exists, NoRow
      <4>2. row[i].archive # 0 => Exists(i)
        BY DEF Exists, NoRow
      <4> QED BY <1>7, <2>2, <3>1, <4>1, <4>2 DEF OnPage, Shows
    <3>2. CASE row'[i].archive = archives' /\ archives < archives' /\ Active(i)
      BY <1>7, <2>1, <2>2, <3>2 DEF OnPage, Shows, Active
    <3> QED BY <1>7, <3>1, <3>2 DEF Tidy
  <2>4. Paged' = Paged
    BY <2>3 DEF Paged
  <2> QED BY <1>2, <2>1, <2>2, <2>3, <2>4 DEF Paged
<1>8. ArchiveStands'
  BY <1>1, <1>2, <1>7 DEF ArchiveStands, Tidy
<1> QED BY <1>3, <1>5, <1>6, <1>8 DEF PageInv

\* Other steps leave what is on the page.
LEMMA PageStays ==
    ASSUME PageInv, ArchivesExist, UNCHANGED <<row, archives, deleted, view, stayed, seen>>
    PROVE  PageInv' /\ ArchivesExist'
  BY DEF PageInv, ArchivesExist, History, WillFind, NoBoardInArchives, ArchiveStands,
         Found, Paged, Section, OnPage, Shows, Exists, Active

-----------------------------------------------------------------------------
LEMMA PagesInit ==
    ASSUME PagesAssumption, Init
    PROVE  IInv
<1>1. ArchivesExist
  BY DEF Init, ArchivesExist, NoRow
<1>2. PageInv
  BY DEF Init, NoView, PageInv
<1> QED BY <1>1, <1>2, TypeInit DEF IInv

LEMMA PagesNext ==
    ASSUME PagesAssumption, IInv, [Next]_vars
    PROVE  IInv'
<1>1. TypeOK /\ TypeOK' /\ ArchivesExist /\ PageInv /\ archives \in Nat
  BY TypeNext DEF IInv, TypeOK
<1> SUFFICES ArchivesExist' /\ PageInv'
  BY <1>1 DEF IInv
<1>2. ASSUME Tidy, Written, UNCHANGED view
      PROVE  ArchivesExist' /\ PageInv'
  BY <1>1, <1>2, TidyArchivesExist, PageSurvives
<1>3. CASE StartPage
  <2>1. UNCHANGED <<row, archives>>
    BY <1>3 DEF StartPage, dbVars
  <2>2. ArchivesExist'
    BY <1>1, <2>1 DEF ArchivesExist
  <2>3. CASE RequestPage("board", 0)
    BY <1>1, <2>1, <2>2, <2>3, PageBegins
  <2>4. CASE RequestPage("archives", 0)
    BY <1>1, <2>1, <2>2, <2>4, PageBegins
  <2>5. ASSUME NEW n \in 1 .. archives, RequestPage("archive", n)
        PROVE  PageInv'
    BY <1>1, <2>1, <2>2, <2>5, PageBegins
  <2> QED BY <1>3, <2>2, <2>3, <2>4, <2>5 DEF StartPage
<1>4. CASE ReadSection
  <2>1. ArchivesExist'
    BY <1>1, <1>4 DEF ReadSection, dbVars, ArchivesExist
  <2> QED BY <1>1, <1>4, <2>1, PageReads
<1>5. CASE Render \/ PageFails
  <2>1. view' = NoView /\ UNCHANGED <<row, archives>>
    BY <1>5 DEF Render, PageFails, Done, dbVars
  <2> QED BY <1>1, <2>1 DEF PageInv, NoView, ArchivesExist
<1>6. ASSUME NEW i \in Cards, NEW user \in Users, AddItem(i, user)
      PROVE  ArchivesExist' /\ PageInv'
  BY <1>1, <1>2, <1>6, NewCardTidy DEF AddItem, tabVars
<1>7. ASSUME NEW i \in Cards, CompleteItem(i)
      PROVE  ArchivesExist' /\ PageInv'
  BY <1>1, <1>2, <1>7, CompleteTidy DEF CompleteItem, tabVars
<1>8. CASE ArchiveRetro
  <2>1. Written /\ UNCHANGED view
    BY <1>8, Zenon DEF ArchiveRetro, tabVars
  <2> QED BY <1>1, <1>2, <1>8, <2>1, ArchiveTidy
<1>9. CASE DeleteRetro
  BY <1>1, <1>2, <1>9, DeleteTidy DEF DeleteRetro, tabVars
<1>10. ASSUME NEW user \in Users, NEW new \in Names, Rename(user, new)
       PROVE  ArchivesExist' /\ PageInv'
  BY <1>1, <1>10, PageStays DEF Rename, tabVars
<1>11. ASSUME NEW i \in Cards, OwnAdd(i)
       PROVE  ArchivesExist' /\ PageInv'
  <2>1. NewCard(i, Me) /\ Me \in Users
    BY <1>11 DEF OwnAdd, PagesAssumption
  <2>2. Tidy /\ archives' = archives
    BY <1>1, <2>1, NewCardTidy
  <2>3. ArchivesExist'
    BY <1>1, <2>2, TidyArchivesExist
  <2>4. CASE RequestPage("board", 0)
    BY <1>1, <2>2, <2>3, <2>4, PageBegins
  <2>5. CASE UNCHANGED view /\ Written
    BY <1>2, <2>2, <2>5
  <2> QED BY <1>11, <2>3, <2>4, <2>5 DEF OwnAdd
<1>12. ASSUME NEW i \in Cards, CardComes(i)
       PROVE  ArchivesExist' /\ PageInv'
  BY <1>1, <1>12, PageStays DEF CardComes, dbVars, histVars
<1>13. CASE BoardCleared
  BY <1>1, <1>13, PageStays DEF BoardCleared, dbVars, histVars
<1>14. CASE UNCHANGED vars
  BY <1>1, <1>14, PageStays DEF vars, dbVars, tabVars, histVars
<1> QED BY <1>3, <1>4, <1>5, <1>6, <1>7, <1>8, <1>9, <1>10, <1>11, <1>12, <1>13, <1>14
        DEF Next

LEMMA PageInvGivesBetween ==
    ASSUME IInv
    PROVE  PageBetween
<1> SUFFICES ASSUME view.kind # "none", view.todo = << >>
             PROVE  /\ stayed \subseteq Found
                    /\ Found \subseteq seen
                    /\ view.kind = "archive" /\ ~ deleted => Found = Paged
  BY DEF PageBetween, Found, Paged
<1>1. History /\ Found \subseteq seen /\ WillFind /\ ArchiveStands
  BY DEF IInv, PageInv
<1>2. stayed \subseteq Found
  BY <1>1, Todo DEF WillFind
<1> QED BY <1>1, <1>2 DEF ArchiveStands

\* The pages keep their types: rows, views and what they have read.
THEOREM PagesTypeCorrect == Spec => []TypeOK
<1>1. Init => TypeOK
  BY PagesAssumption, TypeInit
<1>2. TypeOK /\ [Next]_vars => TypeOK'
  BY PagesAssumption, TypeNext
<1> QED BY <1>1, <1>2, PTL DEF Spec

\* The pages of show_retro, show_archive and list_archives, read in no
\* transaction: for any number of cards, columns and archives, and whatever is
\* written meanwhile, a page finds every card that was there all the time and
\* none that never was, and the page of an archive is exact.
THEOREM PagesBetween == Spec => []PageBetween
<1>1. Init => IInv
  BY PagesAssumption, PagesInit
<1>2. IInv /\ [Next]_vars => IInv'
  BY PagesAssumption, PagesNext
<1>3. IInv => PageBetween
  BY PageInvGivesBetween
<1> QED BY <1>1, <1>2, <1>3, PTL DEF Spec

-----------------------------------------------------------------------------
(* What a tab is given to see.                                              *)

\* The card that apply_author_initials makes of a card that was read.
WithInitials(c, cards) ==
    [item |-> c.item, author |-> c.author, status |-> c.status,
     initials |-> Initials(c.name, BaseCount(Base(c.name), cards) > 1)]

LEMMA GetsInitials ==
    ASSUME NEW cards
    PROVE  /\ \A d \in ApplyAuthorInitials(cards) : \E c \in cards :
                 d = WithInitials(c, cards) /\ d.item = c.item /\ d.author = c.author /\ d.status = c.status
           /\ \A c \in cards : \E d \in ApplyAuthorInitials(cards) :
                 d = WithInitials(c, cards) /\ d.item = c.item /\ d.author = c.author /\ d.status = c.status
<1>1. ApplyAuthorInitials(cards) = {WithInitials(c, cards) : c \in cards}
  BY DEF ApplyAuthorInitials, WithInitials
<1>2. \A c : /\ WithInitials(c, cards).item = c.item
             /\ WithInitials(c, cards).author = c.author
             /\ WithInitials(c, cards).status = c.status
  BY DEF WithInitials
<1> QED BY <1>1, <1>2

\* The parts of a tab; what its cards are does not matter here.
TabShape ==
    tab = [kind |-> tab.kind, cards |-> tab.cards, modal |-> tab.modal, heard |-> tab.heard]

\* As long as nothing is written, the SELECTs of a board are of one moment: what
\* they have found is as it is, and what they are to find is what there is.
StillRead ==
    view.kind = "board" /\ still =>
        /\ Paged \subseteq stayed
        /\ \A c \in view.cards : Active(c.item) /\ c.status = row[c.item].status

ModalInv == TabShape /\ StillRead /\ ModalRight

\* A step that writes, or begins a page, leaves nothing to show.
LEMMA ModalWritten ==
    ASSUME Written, TabShape'
    PROVE  ModalInv'
  BY DEF ModalInv, Written, StillRead, ModalRight

LEMMA ModalRequested ==
    ASSUME NEW kind, NEW archive, RequestPage(kind, archive)
    PROVE  ModalInv'
<1>1. /\ view'.kind = kind /\ view'.archive = archive /\ view'.cards = {}
      /\ tab' = NoPage
      /\ stayed' = {i \in Cards : Shows(kind, archive, i)'}
  BY DEF RequestPage
<1>2. Paged' = stayed'
  BY <1>1 DEF Paged, OnPage
<1> QED BY <1>1, <1>2 DEF ModalInv, NoPage, TabShape, StillRead, ModalRight

\* What the tab shows and what it is about stay.
LEMMA ModalKept ==
    ASSUME ModalInv, UNCHANGED <<row, tab, still, view, stayed>>
    PROVE  ModalInv'
  BY DEF ModalInv, TabShape, StillRead, ModalRight, Paged, OnPage, Shows, Active, Exists

\* The answer of the query of its own agrees with the cards that were found.
LEMMA ModalRendered ==
    ASSUME IInv, ModalInv, Render
    PROVE  ModalInv'
<1>1. /\ view.kind # "none" /\ view.todo = << >> /\ view' = NoView
      /\ tab'.kind = view.kind /\ tab'.modal = (view.kind = "board" /\ AllCompleted)
      /\ view.kind = "board" => tab'.cards = ApplyAuthorInitials(view.cards)
      /\ UNCHANGED still /\ TabShape'
  BY DEF Render, Done, TabShape
<1>2. StillRead'
  BY <1>1 DEF StillRead, NoView
<1>3. ASSUME view.kind = "board", still
      PROVE  AllCompleted <=> /\ tab'.cards # {}
                              /\ \A c \in tab'.cards : c.status = "COMPLETED"
  <2>1. /\ \A c \in view.cards : c.item \in Cards /\ Active(c.item) /\ c.status = row[c.item].status
        /\ \A i \in Cards : Active(i) => \E c \in view.cards : c.item = i
    <3>1. Paged \subseteq Found
      BY <1>1, <1>3, Todo DEF IInv, PageInv, WillFind, ModalInv, StillRead
    <3>2. \A c \in view.cards : c.item \in Cards
      BY ViewType DEF IInv, Reads
    <3> QED BY <1>3, <3>1, <3>2 DEF ModalInv, StillRead, Found, Paged, OnPage, Shows
  <2>2. \A cards :
            /\ \A d \in ApplyAuthorInitials(cards) : \E c \in cards : d.status = c.status
            /\ \A c \in cards : \E d \in ApplyAuthorInitials(cards) : d.status = c.status
    BY GetsInitials
  <2>3. /\ \A d \in tab'.cards : \E c \in view.cards : d.status = c.status
        /\ \A c \in view.cards : \E d \in tab'.cards : d.status = c.status
    BY <1>1, <1>3, <2>2
  <2> QED BY <2>1, <2>3 DEF AllCompleted
<1>4. ModalRight'
  BY <1>1, <1>3 DEF ModalRight
<1> QED BY <1>1, <1>2, <1>4 DEF ModalInv

LEMMA ModalReads ==
    ASSUME TypeOK, ModalInv, ReadSection
    PROVE  ModalInv'
<1>1. /\ view'.kind = view.kind /\ view'.archive = view.archive
      /\ view'.cards = view.cards \cup {ReadAs(i, Len(view.todo)) :
                                        i \in {x \in Cards : Selects(Head(view.todo), x)}}
      /\ UNCHANGED <<row, tab, stayed, still>>
  BY ViewType DEF ReadSection, TypeOK, Views, dbVars, histVars
<1>2. ModalRight' /\ TabShape' /\ Paged' = Paged
  BY <1>1 DEF ModalInv, ModalRight, TabShape, Paged, OnPage, Shows, Active, Exists
<1>3. view.kind = "board" => \A i \in Cards : Selects(Head(view.todo), i) => Active(i)
  BY DEF Selects
<1>4. \A i, k : ReadAs(i, k).item = i /\ ReadAs(i, k).status = row[i].status
  BY DEF ReadAs
<1>5. ASSUME view.kind = "board", still, NEW c \in view'.cards
      PROVE  Active(c.item) /\ c.status = row[c.item].status
  BY <1>1, <1>3, <1>4, <1>5 DEF ModalInv, StillRead
<1>6. StillRead'
  BY <1>1, <1>2, <1>5 DEF ModalInv, StillRead, Active, Exists
<1> QED BY <1>2, <1>6 DEF ModalInv

LEMMA ModalStep ==
    ASSUME PagesAssumption, IInv, ModalInv, [Next]_vars
    PROVE  ModalInv'
<1>1. CASE StartPage
  BY <1>1, ModalRequested DEF StartPage
<1>2. CASE ReadSection
  BY <1>2, ModalReads DEF IInv
<1>3. CASE Render
  BY <1>3, ModalRendered
<1>4. CASE PageFails
  <2>1. view' = NoView /\ UNCHANGED <<tab, still>>
    BY <1>4 DEF PageFails, Done
  <2> QED BY <2>1 DEF ModalInv, NoView, TabShape, StillRead, ModalRight
<1>5. ASSUME Written, UNCHANGED tabVars
      PROVE  ModalInv'
  BY <1>5, ModalWritten DEF tabVars, ModalInv, TabShape
<1>6. ASSUME NEW i \in Cards, NEW user \in Users, AddItem(i, user)
      PROVE  ModalInv'
  BY <1>5, <1>6 DEF AddItem
<1>7. ASSUME NEW i \in Cards, CompleteItem(i)
      PROVE  ModalInv'
  BY <1>5, <1>7 DEF CompleteItem, tabVars
<1>8. CASE ArchiveRetro
  <2>1. Written /\ UNCHANGED tabVars
    BY <1>8, Zenon DEF ArchiveRetro, tabVars
  <2> QED BY <1>5, <2>1
<1>9. CASE DeleteRetro
  BY <1>5, <1>9 DEF DeleteRetro, tabVars
<1>10. ASSUME NEW user \in Users, NEW new \in Names, Rename(user, new)
       PROVE  ModalInv'
  BY <1>10, ModalKept DEF Rename, tabVars
<1>11. ASSUME NEW i \in Cards, OwnAdd(i)
       PROVE  ModalInv'
  <2>1. CASE RequestPage("board", 0)
    BY <2>1, ModalRequested
  <2>2. CASE /\ tab' = [tab EXCEPT !.cards = @ \cup {LoadItem(i)'}]
             /\ Written
    <3>1. TabShape'
      BY <2>2 DEF ModalInv, TabShape
    <3> QED BY <2>2, <3>1, ModalWritten
  <2> QED BY <1>11, <2>1, <2>2 DEF OwnAdd
<1>12. ASSUME NEW i \in Cards, CardComes(i)
       PROVE  ModalInv'
  <2> DEFINE shown == {c \in tab.cards : c.item # i} \cup {LoadItem(i)}
  <2>1. /\ tab' = [tab EXCEPT !.cards = shown, !.heard = @ \cup {i}]
        /\ UNCHANGED <<row, view, stayed, still>>
    BY <1>12 DEF CardComes, dbVars, histVars
  <2> HIDE DEF shown
  <2>2. TabShape' /\ tab'.heard # {}
    BY <2>1 DEF ModalInv, TabShape
  <2>3. StillRead'
    BY <2>1 DEF ModalInv, StillRead, Paged, OnPage, Shows, Active, Exists
  <2> QED BY <2>2, <2>3 DEF ModalInv, ModalRight
<1>13. CASE BoardCleared
  <2>1. /\ tab' = [tab EXCEPT !.cards = {}, !.modal = FALSE, !.heard = {}]
        /\ UNCHANGED <<row, view, stayed, still>>
    BY <1>13 DEF BoardCleared, dbVars, histVars
  <2>2. TabShape' /\ tab'.cards = {} /\ tab'.modal = FALSE
    BY <2>1 DEF ModalInv, TabShape
  <2>3. StillRead'
    BY <2>1 DEF ModalInv, StillRead, Paged, OnPage, Shows, Active, Exists
  <2> QED BY <2>2, <2>3 DEF ModalInv, ModalRight
<1>14. CASE UNCHANGED vars
  BY <1>14, ModalKept DEF vars, dbVars, tabVars, histVars
<1> QED BY <1>1, <1>2, <1>3, <1>4, <1>6, <1>7, <1>8, <1>9, <1>10, <1>11, <1>12, <1>13, <1>14
        DEF Next

\* show_retro asks for the cards and for whether all are completed in queries of
\* different moments: when nothing was written since the first of them, the
\* board offers to archive exactly when it shows cards and all are completed,
\* and that stays right until a card comes to the tab.
THEOREM PagesModalRight == Spec => []ModalRight
<1>1. Init => IInv /\ ModalInv
  <2>1. Init => ModalInv
    BY DEF Init, NoView, NoPage, ModalInv, TabShape, StillRead, ModalRight
  <2> QED BY <2>1, PagesAssumption, PagesInit
<1>2. IInv /\ ModalInv /\ [Next]_vars => (IInv /\ ModalInv)'
  BY PagesAssumption, PagesNext, ModalStep
<1>3. ModalInv => ModalRight
  BY DEF ModalInv
<1> QED BY <1>1, <1>2, <1>3, PTL DEF Spec

-----------------------------------------------------------------------------
(* Initials, for any names.                                                 *)

LEMMA TakeLen ==
    ASSUME NEW S, NEW s \in Seq(S), NEW n \in Nat
    PROVE  /\ Take(s, n) \in Seq(S)
           /\ Len(Take(s, n)) = IF n < Len(s) THEN n ELSE Len(s)
           /\ Len(s) <= n => Take(s, n) = s
<1> DEFINE m == IF n < Len(s) THEN n ELSE Len(s)
<1>1. m \in 0 .. Len(s) /\ Len(s) \in Nat
  OBVIOUS
<1>2. /\ SubSeq(s, 1, m) \in Seq(S) /\ Len(SubSeq(s, 1, m)) = m
      /\ \A k \in 1 .. m : SubSeq(s, 1, m)[k] = s[k]
  <2> HIDE DEF m
  <2>1. m = 0 => SubSeq(s, 1, m) = << >>
    BY SMT
  <2>2. m # 0 => SubSeq(s, 1, m) \in Seq(S) /\ Len(SubSeq(s, 1, m)) = m
    BY <1>1
  <2> QED BY <1>1, <2>1, <2>2
<1>3. Take(s, n) = SubSeq(s, 1, m)
  BY DEF Take
<1>4. ASSUME Len(s) <= n PROVE SubSeq(s, 1, m) = s
  <2>1. m = Len(s)
    BY <1>1, <1>4
  <2> HIDE DEF m
  <2> QED BY <1>1, <1>2, <2>1, SeqEqual
<1> QED BY <1>2, <1>3, <1>4

LEMMA Ends ==
    ASSUME NEW S, NEW s \in Seq(S), s # << >>
    PROVE  /\ Len(s) \in Nat \ {0} /\ 1 \in DOMAIN s /\ Len(s) \in DOMAIN s
           /\ Head(s) = s[1] /\ Last(s) = s[Len(s)]
<1>1. Len(s) \in Nat \ {0} /\ DOMAIN s = 1 .. Len(s) /\ Head(s) = s[1]
  OBVIOUS
<1>2. Last(s) = s[Len(s)]
  BY Zenon DEF Last
<1> QED BY <1>1, <1>2

LEMMA ShortWord ==
    ASSUME NEW S, NEW s \in Seq(S), Len(Take(s, 3)) <= 2
    PROVE  Take(s, 3) = Take(s, 2)
<1>1. Len(s) \in Nat /\ Len(Take(s, 3)) = IF 3 < Len(s) THEN 3 ELSE Len(s)
  BY TakeLen
<1>2. Len(s) <= 2 /\ Len(s) <= 3
  BY <1>1
<1> QED BY <1>2, TakeLen

LEMMA ShortWords ==
    ASSUME NEW S, NEW s \in Seq(S), s # << >>, NEW T, NEW t \in Seq(T), t # << >>,
           Len(Take(s, 1) \o Take(t, 2)) <= 2
    PROVE  Take(t, 2) = Take(t, 1)
<1>1. Len(s) \in Nat \ {0} /\ Len(t) \in Nat \ {0}
  BY Ends
<1>2. Take(s, 1) \in Seq(S) /\ Len(Take(s, 1)) = IF 1 < Len(s) THEN 1 ELSE Len(s)
  BY TakeLen
<1>3. Take(t, 2) \in Seq(T) /\ Len(Take(t, 2)) = IF 2 < Len(t) THEN 2 ELSE Len(t)
  BY TakeLen
<1> DEFINE u == Take(s, 1)
           v == Take(t, 2)
<1>4. Len(u \o v) = Len(u) + Len(v)
  <2> HIDE DEF u, v
  <2>1. u \in Seq(S) /\ v \in Seq(T)
    BY <1>2, <1>3 DEF u, v
  <2> QED BY <2>1
<1> HIDE DEF u, v
<1>5. Len(u) = 1 /\ Len(u) + Len(v) <= 2
  <2>1. Len(u) = IF 1 < Len(s) THEN 1 ELSE Len(s)
    BY <1>2 DEF u
  <2>2. Len(u) = 1
    <3>1. \A n \in Nat \ {0} : (IF 1 < n THEN 1 ELSE n) = 1
      OBVIOUS
    <3> QED BY Zenon, <1>1, <2>1, <3>1
  <2>3. u \o v = Take(s, 1) \o Take(t, 2)
    BY DEF u, v
  <2>4. Len(u \o v) <= 2
    BY Zenon, <2>3
  <2> QED BY Zenon, <1>4, <2>2, <2>4
<1>6. Len(v) = IF 2 < Len(t) THEN 2 ELSE Len(t)
  BY <1>3 DEF v
<1>7. Len(t) <= 1 /\ Len(t) <= 2
  BY <1>1, <1>5, <1>6
<1> QED BY <1>7, TakeLen

\* Longer initials that have two letters are the ones that everybody has.
LEMMA ShortInitials ==
    ASSUME PagesAssumption, NEW words \in Names, Len(Initials(words, TRUE)) <= 2
    PROVE  Initials(words, TRUE) = Base(words)
<1>1. /\ words \in Seq(ToSet(words))
      /\ \A k \in DOMAIN words : words[k] \in Seq(ToSet(words[k])) /\ words[k] # << >>
  BY DEF PagesAssumption, IsName
<1>2. CASE words = << >>
  BY <1>2 DEF Initials, Base
<1>3. CASE words # << >> /\ Len(words) = 1
  <2>1. Initials(words, TRUE) = Take(words[1], 3) /\ Base(words) = Take(words[1], 2)
    BY <1>3 DEF Initials, Base
  <2>2. 1 \in DOMAIN words
    BY <1>1, <1>3, Ends
  <2>3. words[1] \in Seq(ToSet(words[1]))
    BY <1>1, <2>2
  <2> QED BY <2>1, <2>3, ShortWord
<1>4. CASE words # << >> /\ Len(words) # 1
  <2>1. /\ Initials(words, TRUE) = Take(Head(words), 1) \o Take(Last(words), 2)
        /\ Base(words) = Take(Head(words), 1) \o Take(Last(words), 1)
    BY <1>4 DEF Initials, Base
  <2>2. /\ 1 \in DOMAIN words /\ Len(words) \in DOMAIN words
        /\ Head(words) = words[1] /\ Last(words) = words[Len(words)]
    BY <1>1, <1>4, Ends
  <2>3. /\ Head(words) \in Seq(ToSet(Head(words))) /\ Head(words) # << >>
        /\ Last(words) \in Seq(ToSet(Last(words))) /\ Last(words) # << >>
    BY <1>1, <2>2
  <2> QED BY <2>1, <2>3, ShortWords
<1> QED BY <1>2, <1>3, <1>4

LEMMA InitialsLen ==
    ASSUME PagesAssumption, NEW words \in Names, NEW more \in BOOLEAN
    PROVE  Len(Initials(words, more)) \in Nat
<1>1. /\ words \in Seq(ToSet(words))
      /\ \A k \in DOMAIN words : words[k] \in Seq(ToSet(words[k])) /\ words[k] # << >>
  BY DEF PagesAssumption, IsName
<1>2. CASE words = << >>
  BY <1>2 DEF Initials
<1>3. CASE words # << >> /\ Len(words) = 1
  <2>1. PICK n \in Nat : Initials(words, more) = Take(words[1], n)
    BY <1>3 DEF Initials
  <2>2. 1 \in DOMAIN words
    BY <1>1, <1>3, Ends
  <2>3. words[1] \in Seq(ToSet(words[1]))
    BY <1>1, <2>2
  <2>4. Take(words[1], n) \in Seq(ToSet(words[1]))
    BY <2>3, TakeLen
  <2> QED BY <2>1, <2>4
<1>4. CASE words # << >> /\ Len(words) # 1
  <2>1. PICK n \in Nat : Initials(words, more) = Take(Head(words), 1) \o Take(Last(words), n)
    BY <1>4 DEF Initials
  <2>2. /\ 1 \in DOMAIN words /\ Len(words) \in DOMAIN words
        /\ Head(words) = words[1] /\ Last(words) = words[Len(words)]
    BY <1>1, <1>4, Ends
  <2>3. /\ Head(words) \in Seq(ToSet(Head(words)))
        /\ Last(words) \in Seq(ToSet(Last(words)))
    BY <1>1, <2>2
  <2>4. /\ Take(Head(words), 1) \in Seq(ToSet(Head(words)))
        /\ Take(Last(words), n) \in Seq(ToSet(Last(words)))
    BY <2>3, TakeLen
  <2>5. \A S, T : \A s \in Seq(S), t \in Seq(T) : Len(s \o t) \in Nat
    OBVIOUS
  <2> QED BY <2>1, <2>4, <2>5
<1> QED BY <1>2, <1>3, <1>4

LEMMA MoreThanOne ==
    ASSUME NEW S, IsFiniteSet(S)
    PROVE  Cardinality(S) > 1 <=> \E a, b \in S : a # b
<1>1. Cardinality(S) \in Nat
  BY FS_CardinalityType
<1>2. Cardinality(S) = 0 <=> S = {}
  BY FS_EmptySet
<1>3. Cardinality(S) = 1 <=> \E x : S = {x}
  BY FS_Singleton
<1>4. (S = {} \/ \E x : S = {x}) <=> ~ (\E a, b \in S : a # b)
  OBVIOUS
<1> QED BY <1>1, <1>2, <1>3, <1>4

\* Of numbers with a bound one is the greatest.
LEMMA Greatest ==
    ASSUME NEW n \in Nat, NEW S \in SUBSET (0 .. n), S # {}
    PROVE  \E m \in S : \A x \in S : x <= m
<1> DEFINE R == {ss \in Nat \X Nat : ss[1] < ss[2]}
           T == {n - x : x \in S}
<1>1. IsWellFoundedOn(R, Nat)
  BY NatLessThanWellFounded DEF OpToRel
<1>2. T \subseteq Nat /\ T # {}
  <2>1. \A x \in S : n - x \in Nat
    OBVIOUS
  <2> QED BY <2>1
<1>3. PICK y \in T : \A z \in T : ~ (<<z, y>> \in R)
  <2> HIDE DEF R, T
  <2> QED BY <1>1, <1>2, WFMin
<1>4. \A z \in T : y <= z
  <2> TAKE z \in T
  <2>1. z \in Nat /\ y \in Nat
    BY <1>2, <1>3
  <2>2. <<z, y>> \notin R
    <3> HIDE DEF R
    <3> QED BY <1>3
  <2> QED BY <2>1, <2>2
<1>5. PICK m \in S : y = n - m
  BY <1>3
<1>6. \A x \in S : x <= m
  BY <1>4, <1>5
<1> QED BY <1>6

\* Reads that are of one moment as far as names go; nm has the names.
OfOneName(cards, nm) ==
    /\ \A c \in cards : c.author \in Users /\ c.name = nm[c.author]
    /\ \E n \in Nat : \A c \in cards : c.left \in 0 .. n

\* Somebody else among the authors has the initials of author a.
Ambiguous(a, authors, nm) == \E b \in authors : b # a /\ Base(nm[b]) = Base(nm[a])

Authors(cards) == {c.author : c \in cards}

LEMMA NameOfAuthor ==
    ASSUME NEW cards, NEW nm, OfOneName(cards, nm), NEW a \in Authors(cards)
    PROVE  NameOf(a, cards) = nm[a]
<1> DEFINE lefts == {c.left : c \in {d \in cards : d.author = a}}
           IsFirst(c) == c.author = a /\ \A d \in cards : d.author = a => d.left <= c.left
<1>1. PICK n \in Nat : \A c \in cards : c.left \in 0 .. n
  BY DEF OfOneName
<1>2. lefts \in SUBSET (0 .. n) /\ lefts # {}
  BY <1>1 DEF Authors
<1>3. PICK m \in lefts : \A x \in lefts : x <= m
  <2> HIDE DEF lefts
  <2> QED BY <1>2, Greatest
<1>4. \E c \in cards : IsFirst(c)
  BY <1>3
<1>5. (CHOOSE c \in cards : IsFirst(c)) \in cards /\ IsFirst(CHOOSE c \in cards : IsFirst(c))
  BY <1>4
<1> QED BY <1>5 DEF NameOf, OfOneName

\* The initials of a card are disambiguated exactly when they have to be.
LEMMA Disambiguates ==
    ASSUME PagesAssumption, NEW cards, NEW nm, OfOneName(cards, nm), NEW c \in cards
    PROVE  WithInitials(c, cards).initials =
               Initials(nm[c.author], Ambiguous(c.author, Authors(cards), nm))
<1> DEFINE a    == c.author
           base == Base(nm[a])
           S    == {b \in Authors(cards) : Base(NameOf(b, cards)) = base}
<1>1. S = {b \in Authors(cards) : Base(nm[b]) = base}
  BY NameOfAuthor
<1>2. IsFiniteSet(S)
  <2>1. S \in SUBSET Users /\ IsFiniteSet(Users)
    BY DEF Authors, OfOneName, PagesAssumption
  <2> HIDE DEF S
  <2> QED BY <2>1, FS_Subset
<1>3. a \in S /\ c.name = nm[a]
  BY <1>1 DEF Authors, OfOneName
<1>4. BaseCount(base, cards) = Cardinality(S)
  BY DEF BaseCount, Authors
<1>5. Cardinality(S) > 1 <=> \E x, y \in S : x # y
  <2> HIDE DEF S
  <2> QED BY <1>2, MoreThanOne
<1>6. (\E x, y \in S : x # y) <=> Ambiguous(a, Authors(cards), nm)
  <2>1. (\E x, y \in S : x # y) <=> \E b \in S : b # a
    <3> HIDE DEF S, a
    <3> QED BY <1>3
  <2>2. (\E b \in S : b # a) <=> Ambiguous(a, Authors(cards), nm)
    BY <1>1 DEF Ambiguous
  <2> QED BY <2>1, <2>2
<1> DEFINE many == BaseCount(base, cards) > 1
           amb  == Ambiguous(a, Authors(cards), nm)
<1>7. many = amb
  <2>1. many \in BOOLEAN /\ amb \in BOOLEAN
    BY DEF Ambiguous
  <2>2. many <=> amb
    BY <1>4, <1>5, <1>6
  <2> QED BY <2>1, <2>2
<1>8. WithInitials(c, cards).initials = Initials(nm[a], many)
  BY <1>3 DEF WithInitials
<1> HIDE DEF many, amb
<1>9. WithInitials(c, cards).initials = Initials(nm[a], amb)
  BY <1>7, <1>8
<1> QED BY <1>9 DEF amb

\* All cards of a retro, as load_item_with_initials reads them.
AllReads(r, nm) ==
    {[item |-> i, author |-> r[i].author, name |-> nm[r[i].author], status |-> r[i].status, left |-> 0] :
        i \in {j \in Cards : r[j] # NoRow}}

AuthorsIn(r) == {r[i].author : i \in {j \in Cards : r[j] # NoRow}}

Loaded(i, r, nm) == CHOOSE c \in ApplyAuthorInitials(AllReads(r, nm)) : c.item = i

LEMMA LoadedCard ==
    ASSUME PagesAssumption, NEW r \in [Cards -> Rows], NEW nm, NEW i \in Cards, r[i] # NoRow,
           NEW card, card = Loaded(i, r, nm)
    PROVE  /\ card.item = i /\ card.author = r[i].author
           /\ card.initials = Initials(nm[card.author], Ambiguous(card.author, AuthorsIn(r), nm))
<1> DEFINE cards == AllReads(r, nm)
           Read(j) == [item |-> j, author |-> r[j].author, name |-> nm[r[j].author],
                       status |-> r[j].status, left |-> 0]
<1>1. /\ \A c \in cards : \E j \in Cards : r[j] # NoRow /\ c = Read(j)
      /\ \A j \in Cards : r[j] # NoRow => Read(j) \in cards
  BY DEF AllReads
<1>2. \A j : /\ Read(j).item = j /\ Read(j).author = r[j].author
             /\ Read(j).name = nm[r[j].author] /\ Read(j).left = 0
  OBVIOUS
<1> HIDE DEF cards, Read
<1>3. \A j \in Cards : r[j] # NoRow => r[j].author \in Users
  BY DEF Rows
<1>4. OfOneName(cards, nm) /\ Authors(cards) = AuthorsIn(r)
  <2>1. \A c \in cards : c.author \in Users /\ c.name = nm[c.author] /\ c.left \in 0 .. 0
    BY <1>1, <1>2, <1>3
  <2>2. Authors(cards) = AuthorsIn(r)
    BY <1>1, <1>2 DEF Authors, AuthorsIn
  <2> QED BY <2>1, <2>2 DEF OfOneName
<1>5. \E d \in ApplyAuthorInitials(cards) : d.item = i
  BY <1>1, <1>2, GetsInitials
<1>6. card \in ApplyAuthorInitials(cards) /\ card.item = i
  BY <1>5 DEF cards, Loaded
<1>7. PICK c \in cards : card = WithInitials(c, cards) /\ card.item = c.item /\ card.author = c.author
  BY <1>6, GetsInitials
<1>8. c = Read(i)
  BY <1>1, <1>2, <1>6, <1>7
<1>9. card.initials = Initials(nm[c.author], Ambiguous(c.author, Authors(cards), nm))
  BY <1>4, <1>7, Disambiguates
<1> QED BY <1>2, <1>4, <1>6, <1>7, <1>8, <1>9

-----------------------------------------------------------------------------
(* Initials on a page and on the tab.                                       *)

\* The SELECTs of a page find the authors' names as they are, and each card has
\* a place among them.
ReadsNamed ==
    /\ ~ renamed => \A c \in view.cards : c.name = name[c.author]
    /\ \E n \in Nat : \A c \in view.cards : c.left \in 0 .. n

\* What was read of a card has its author, for the cards go with the retro only.
AuthorsStand ==
    IF deleted THEN \A i \in Cards : ~ Exists(i)
    ELSE \A c \in view.cards \cup tab.cards :
            c.item \in Cards /\ Exists(c.item) /\ c.author = row[c.item].author

\* What came with the page, or by the user's own hand.
Unheard == {c \in tab.cards : c.item \notin tab.heard}

\* A card on the tab has the initials of its author or the longer ones.
OneOrOther ==
    ~ renamed => \A c \in Unheard : c.initials \in {Base(name[c.author]), Longer(c)}

NamesInv == ReadsNamed /\ AuthorsStand /\ OneOrOther /\ InitialsApart

\* What is written leaves the authors of the cards there are.
KeepsAuthors ==
    /\ deleted => deleted'
    /\ deleted' => \A i \in Cards : ~ Exists(i)'
    /\ ~ deleted' => \A i \in Cards : Exists(i) => Exists(i)' /\ row'[i].author = row[i].author

LEMMA AuthorsKept ==
    ASSUME AuthorsStand, KeepsAuthors, UNCHANGED tabVars
    PROVE  AuthorsStand'
  BY DEF AuthorsStand, KeepsAuthors, tabVars

LEMMA NewCardKeeps ==
    ASSUME TypeOK, NEW i \in Cards, NEW user \in Users, NewCard(i, user)
    PROVE  KeepsAuthors /\ Exists(i)' /\ row'[i].author = user /\ ~ deleted /\ ~ deleted'
<1>1. /\ row' = [row EXCEPT ![i] = [author |-> user, status |-> "CREATED", archive |-> 0]]
      /\ deleted' = deleted /\ ~ deleted /\ ~ Exists(i) /\ row \in [Cards -> Rows]
  BY DEF NewCard, TypeOK
<1>2. row'[i] = [author |-> user, status |-> "CREATED", archive |-> 0]
  BY <1>1
<1>3. row'[i] # NoRow /\ row'[i].author = user
  BY <1>2 DEF NoRow
<1>4. \A j \in Cards : j # i => row'[j] = row[j]
  BY <1>1
<1> QED BY <1>1, <1>3, <1>4 DEF KeepsAuthors, Exists

LEMMA CompleteKeeps ==
    ASSUME TypeOK, AuthorsStand, NEW i \in Cards, CompleteItem(i)
    PROVE  KeepsAuthors
<1>1. /\ row' = [row EXCEPT ![i].status = "COMPLETED"]
      /\ deleted' = deleted /\ Exists(i) /\ row \in [Cards -> Rows]
  BY DEF CompleteItem, Active, TypeOK
<1>2. ~ deleted
  BY <1>1 DEF AuthorsStand
<1>3. Exists(i)' /\ row'[i].author = row[i].author
  BY <1>1, RowType DEF Exists, NoRow
<1>4. \A j \in Cards : j # i => row'[j] = row[j]
  BY <1>1
<1> QED BY <1>1, <1>2, <1>3, <1>4 DEF KeepsAuthors, Exists

LEMMA ArchiveKeeps ==
    ASSUME TypeOK, ArchiveRetro
    PROVE  KeepsAuthors
<1>1. ~ deleted /\ deleted' = deleted
  BY Zenon DEF ArchiveRetro
<1>2. ASSUME NEW i \in Cards, Active(i)
      PROVE  Exists(i)' /\ row'[i].author = row[i].author
  <2>1. row'[i] = [row[i] EXCEPT !.archive = archives', !.status = "ARCHIVED"]
    BY <1>2 DEF ArchiveRetro
  <2>2. row[i] \in [author : Users, status : Statuses, archive : Nat]
    BY <1>2, RowType DEF Active
  <2>3. row'[i].author = row[i].author /\ row'[i].status = "ARCHIVED"
    BY <2>1, <2>2
  <2> QED BY <2>3 DEF Exists, NoRow
<1>3. ASSUME NEW i \in Cards, ~ Active(i)
      PROVE  row'[i] = row[i]
  BY <1>3 DEF ArchiveRetro
<1> QED BY <1>1, <1>2, <1>3 DEF KeepsAuthors, Exists

LEMMA DeleteKeeps ==
    ASSUME DeleteRetro
    PROVE  KeepsAuthors
<1>1. deleted' /\ \A i \in Cards : row'[i] = NoRow
  BY DEF DeleteRetro
<1> QED BY <1>1 DEF KeepsAuthors, Exists

\* InitialsApart of any cards: those on a tab and, of them, the ones that nobody
\* else has sent.
LongerOf(c, nm)     == Initials(nm[c.author], TRUE)
BaseOf(c, nm)       == Base(nm[c.author])
Clashing(c, d, nm)  == c.author # d.author /\ BaseOf(c, nm) = BaseOf(d, nm)
ToldApart(c, d, nm) ==
    /\ c.author = d.author => c.initials = d.initials
    /\ Clashing(c, d, nm) => \/ c.initials = LongerOf(c, nm) /\ d.initials = LongerOf(d, nm)
                             \/ Len(LongerOf(c, nm)) <= 2 \/ Len(LongerOf(d, nm)) <= 2
Apart(shown, unheard, nm) ==
    \A c \in unheard :
        /\ (\A d \in shown : ~ Clashing(c, d, nm)) => c.initials = BaseOf(c, nm)
        /\ \A d \in unheard : ToldApart(c, d, nm)

LEMMA ApartOnTab ==
    InitialsApart <=> (~ renamed => Apart(tab.cards, Unheard, name))
  BY DEF InitialsApart, Apart, ToldApart, Clashing, LongerOf, BaseOf, Unheard, Clash, Longer

\* The initials of a card are one or the other.
LEMMA AmbiguousOrNot ==
    ASSUME NEW c, NEW authors, NEW nm,
           c.initials = Initials(nm[c.author], Ambiguous(c.author, authors, nm))
    PROVE  /\ Ambiguous(c.author, authors, nm) => c.initials = LongerOf(c, nm)
           /\ ~ Ambiguous(c.author, authors, nm) => c.initials = BaseOf(c, nm)
<1>1. Ambiguous(c.author, authors, nm) = TRUE \/ Ambiguous(c.author, authors, nm) = FALSE
  BY DEF Ambiguous
<1> QED BY <1>1 DEF LongerOf, BaseOf, Base

\* All cards of a page, initials and all.
LEMMA PageApart ==
    ASSUME NEW cards, NEW nm,
           \A c \in cards : c.initials = Initials(nm[c.author], Ambiguous(c.author, Authors(cards), nm))
    PROVE  /\ Apart(cards, cards, nm)
           /\ \A c \in cards : c.initials \in {BaseOf(c, nm), LongerOf(c, nm)}
<1>1. \A c \in cards : /\ Ambiguous(c.author, Authors(cards), nm) => c.initials = LongerOf(c, nm)
                       /\ ~ Ambiguous(c.author, Authors(cards), nm) => c.initials = BaseOf(c, nm)
  BY AmbiguousOrNot
<1>2. \A c \in cards : Ambiguous(c.author, Authors(cards), nm) <=> \E d \in cards : Clashing(c, d, nm)
  BY DEF Ambiguous, Authors, Clashing, BaseOf
<1>3. \A c, d \in cards : c.author = d.author => c.initials = d.initials
  <2> SUFFICES ASSUME NEW c \in cards, NEW d \in cards, c.author = d.author
               PROVE  c.initials = d.initials
    OBVIOUS
  <2>1. c.initials = Initials(nm[c.author], Ambiguous(c.author, Authors(cards), nm))
    OBVIOUS
  <2>2. d.initials = Initials(nm[d.author], Ambiguous(d.author, Authors(cards), nm))
    OBVIOUS
  <2> QED BY Zenon, <2>1, <2>2
<1>4. \A c, d : Clashing(c, d, nm) => Clashing(d, c, nm)
  BY DEF Clashing
<1> QED BY <1>1, <1>2, <1>3, <1>4 DEF Apart, ToldApart

\* A card of the user's own, whose initials are short, beside the others.
LEMMA AddedApart ==
    ASSUME NEW shown, NEW unheard \in SUBSET shown, NEW nm, Apart(shown, unheard, nm),
           \A c \in unheard : c.initials \in {BaseOf(c, nm), LongerOf(c, nm)},
           NEW authors, \A d \in shown : d.author \in authors,
           NEW card, card.initials = BaseOf(card, nm),
           Ambiguous(card.author, authors, nm) =>
               LongerOf(card, nm) = BaseOf(card, nm) /\ Len(LongerOf(card, nm)) <= 2,
           NEW others \in SUBSET (unheard \cup {card})
    PROVE  Apart(shown \cup {card}, others, nm)
<1>1. ASSUME NEW c \in unheard, c.author = card.author
      PROVE  c.initials = card.initials
  <2>1. BaseOf(c, nm) = BaseOf(card, nm) /\ LongerOf(c, nm) = LongerOf(card, nm)
    BY <1>1 DEF BaseOf, LongerOf
  <2>2. CASE Ambiguous(card.author, authors, nm)
    BY <2>1, <2>2
  <2>3. CASE ~ Ambiguous(card.author, authors, nm)
    <3>1. \A d \in shown : ~ Clashing(c, d, nm)
      BY <1>1, <2>3 DEF Ambiguous, Clashing, BaseOf
    <3>2. c.initials = BaseOf(c, nm)
      BY <3>1 DEF Apart
    <3> QED BY <2>1, <3>2
  <2> QED BY <2>2, <2>3
<1>2. ASSUME NEW c \in unheard, Clashing(c, card, nm) \/ Clashing(card, c, nm)
      PROVE  Len(LongerOf(card, nm)) <= 2
  <2>1. Ambiguous(card.author, authors, nm)
    BY <1>2 DEF Ambiguous, Clashing, BaseOf
  <2> QED BY <2>1
<1>3. \A c, d \in unheard \cup {card} : ToldApart(c, d, nm)
  <2> SUFFICES ASSUME NEW c \in unheard \cup {card}, NEW d \in unheard \cup {card}
               PROVE  ToldApart(c, d, nm)
    OBVIOUS
  <2>1. CASE c \in unheard /\ d \in unheard
    BY <2>1 DEF Apart
  <2>2. CASE c \in unheard /\ d = card
    BY <1>1, <1>2, <2>2 DEF ToldApart
  <2>3. CASE c = card /\ d \in unheard
    BY <1>1, <1>2, <2>3 DEF ToldApart
  <2>4. CASE c = card /\ d = card
    BY <2>4 DEF ToldApart, Clashing
  <2> QED BY <2>1, <2>2, <2>3, <2>4
<1>4. \A c \in unheard \cup {card} :
          (\A d \in shown \cup {card} : ~ Clashing(c, d, nm)) => c.initials = BaseOf(c, nm)
  BY DEF Apart
<1> QED BY <1>3, <1>4 DEF Apart

\* A card comes that may have been there; its author is the same.
LEMMA ComesApart ==
    ASSUME NEW shown, NEW unheard, NEW nm, Apart(shown, unheard, nm),
           NEW later, NEW others \in SUBSET unheard,
           \A d \in shown : \E e \in later : e.author = d.author
    PROVE  Apart(later, others, nm)
<1>1. \A c : (\A e \in later : ~ Clashing(c, e, nm)) => \A d \in shown : ~ Clashing(c, d, nm)
  BY DEF Clashing, BaseOf
<1> QED BY <1>1 DEF Apart

-----------------------------------------------------------------------------
\* The tab and the names stay.
LEMMA NamesKept ==
    ASSUME NamesInv, AuthorsStand', UNCHANGED <<view, tab, name, renamed>>
    PROVE  NamesInv'
  BY DEF NamesInv, ReadsNamed, OneOrOther, InitialsApart, Unheard, Longer, Clash

LEMMA NamesRequested ==
    ASSUME NEW kind, NEW archive, RequestPage(kind, archive), ~ deleted'
    PROVE  NamesInv'
<1>1. view'.cards = {} /\ tab'.cards = {}
  BY DEF RequestPage, NoPage
<1>2. ReadsNamed'
  <2>1. 0 \in Nat
    OBVIOUS
  <2> QED BY <1>1, <2>1 DEF ReadsNamed
<1>3. AuthorsStand' /\ OneOrOther' /\ InitialsApart'
  BY <1>1 DEF AuthorsStand, OneOrOther, InitialsApart, Unheard
<1> QED BY <1>2, <1>3 DEF NamesInv

LEMMA NoReads ==
    ASSUME view' = NoView
    PROVE  ReadsNamed' /\ view'.cards = {}
<1>1. view'.cards = {} /\ 0 \in Nat
  BY DEF NoView
<1> QED BY <1>1 DEF ReadsNamed

LEMMA NamesReads ==
    ASSUME TypeOK, NamesInv, ReadSection
    PROVE  NamesInv'
<1> DEFINE left == Len(view.todo)
           got  == {ReadAs(i, left) : i \in {x \in Cards : Selects(Head(view.todo), x)}}
<1>1. /\ view'.cards = view.cards \cup got
      /\ UNCHANGED <<row, deleted, name, tab, renamed>>
  BY ViewType DEF ReadSection, TypeOK, Views, dbVars, histVars
<1>2. left \in Nat
  BY ViewType
<1>3. ASSUME NEW c \in got
      PROVE  /\ c.item \in Cards /\ Exists(c.item) /\ c.author = row[c.item].author
             /\ c.name = name[c.author] /\ c.left = left
  <2>1. PICK i \in Cards : Selects(Head(view.todo), i) /\ c = ReadAs(i, left)
    OBVIOUS
  <2>2. Exists(i)
    BY <2>1 DEF Selects, Active
  <2> QED BY <2>1, <2>2 DEF ReadAs
<1> HIDE DEF got, left
<1>4. ReadsNamed'
  <2>1. PICK n \in Nat : \A c \in view.cards : c.left \in 0 .. n
    BY DEF NamesInv, ReadsNamed
  <2>2. PICK m \in Nat : n <= m /\ left <= m
    BY <1>2, <2>1
  <2>3. \A c \in view'.cards : c.left \in 0 .. m
    BY <1>1, <1>2, <1>3, <2>1, <2>2
  <2>4. ~ renamed => \A c \in view'.cards : c.name = name[c.author]
    BY <1>1, <1>3 DEF NamesInv, ReadsNamed
  <2> QED BY <1>1, <2>2, <2>3, <2>4 DEF ReadsNamed
<1>5. AuthorsStand'
  BY <1>1, <1>3 DEF NamesInv, AuthorsStand, Exists
<1>6. OneOrOther' /\ InitialsApart'
  BY <1>1 DEF NamesInv, OneOrOther, InitialsApart, Unheard, Longer, Clash
<1> QED BY <1>4, <1>5, <1>6 DEF NamesInv

LEMMA NamesRendered ==
    ASSUME PagesAssumption, TypeOK, NamesInv, Render
    PROVE  NamesInv'
<1>1. /\ view' = NoView /\ tab'.heard = {}
      /\ tab'.cards = {} \/ tab'.cards = ApplyAuthorInitials(view.cards)
      /\ UNCHANGED <<row, deleted, name, renamed>>
  BY DEF Render, Done, dbVars
<1>2. AuthorsStand'
  <2>1. \A d \in tab'.cards : \E c \in view.cards : d.item = c.item /\ d.author = c.author
    BY <1>1, GetsInitials
  <2> QED BY <1>1, <2>1, NoReads DEF NamesInv, AuthorsStand, Exists
<1>3. ASSUME ~ renamed, NEW nm, nm = name
      PROVE  /\ Apart(tab'.cards, tab'.cards, nm)
             /\ \A d \in tab'.cards : d.initials \in {BaseOf(d, nm), LongerOf(d, nm)}
  <2>1. CASE tab'.cards = {}
    BY <2>1 DEF Apart
  <2>2. CASE tab'.cards = ApplyAuthorInitials(view.cards)
    <3>1. OfOneName(view.cards, nm)
      BY <1>3, ViewType DEF NamesInv, ReadsNamed, OfOneName, Reads
    <3>2. Authors(tab'.cards) = Authors(view.cards)
      BY <2>2, GetsInitials DEF Authors
    <3>3. ASSUME NEW d \in tab'.cards
          PROVE  d.initials = Initials(nm[d.author], Ambiguous(d.author, Authors(tab'.cards), nm))
      <4>1. PICK c \in view.cards : d = WithInitials(c, view.cards) /\ d.author = c.author
        BY <2>2, <3>3, GetsInitials
      <4>2. d.initials = Initials(nm[c.author], Ambiguous(c.author, Authors(view.cards), nm))
        BY <3>1, <4>1, Disambiguates
      <4> QED BY <3>2, <4>1, <4>2
    <3> QED BY <3>3, PageApart
  <2> QED BY <1>1, <2>1, <2>2
<1>4. Unheard' = tab'.cards
  BY <1>1 DEF Unheard
<1>5. InitialsApart' /\ OneOrOther'
  <2>1. InitialsApart' <=> (~ renamed' => Apart(tab'.cards, Unheard', name'))
    BY DEF InitialsApart, Apart, ToldApart, Clashing, LongerOf, BaseOf, Unheard, Clash, Longer
  <2> QED BY <1>1, <1>3, <1>4, <2>1 DEF OneOrOther, BaseOf, LongerOf, Longer
<1> QED BY <1>1, <1>2, <1>5, NoReads DEF NamesInv

LEMMA NamesOwnAdd ==
    ASSUME PagesAssumption, TypeOK, TypeOK', NamesInv, TabShape, NEW i \in Cards,
           NewCard(i, Me), NEW card, card = LoadItem(i)', Len(card.initials) <= 2,
           tab' = [tab EXCEPT !.cards = @ \cup {card}], UNCHANGED <<view, renamed>>
    PROVE  NamesInv'
<1>1. /\ tab'.cards = tab.cards \cup {card} /\ tab'.heard = tab.heard
      /\ name' = name /\ Me \in Users
  BY DEF TabShape, NewCard, PagesAssumption
<1>2. KeepsAuthors /\ Exists(i)' /\ row'[i].author = Me /\ ~ deleted /\ ~ deleted'
  BY <1>1, NewCardKeeps
<1> DEFINE authors == AuthorsIn(row')
<1>3. /\ card.item = i /\ card.author = Me
      /\ card.initials = Initials(name[Me], Ambiguous(Me, authors, name))
  <2>1. card = Loaded(i, row', name)
    BY <1>1 DEF LoadItem, Loaded, AllReads, ReadAs, Exists
  <2>2. row' \in [Cards -> Rows] /\ row'[i] # NoRow
    BY <1>2 DEF TypeOK, Exists
  <2>3. /\ card.item = i /\ card.author = row'[i].author
        /\ card.initials = Initials(name[card.author], Ambiguous(card.author, AuthorsIn(row'), name))
    BY <2>1, <2>2, LoadedCard
  <2> QED BY <1>2, <2>3
<1>4. ReadsNamed'
  BY <1>1 DEF NamesInv, ReadsNamed
<1>5. AuthorsStand'
  <2>1. ASSUME NEW c \in view.cards \cup tab.cards
        PROVE  c.item \in Cards /\ Exists(c.item)' /\ c.author = row'[c.item].author
    BY <1>2, <2>1 DEF NamesInv, AuthorsStand, KeepsAuthors
  <2> QED BY <1>1, <1>2, <1>3, <2>1 DEF AuthorsStand
<1>6. \A d \in tab.cards : d.author \in authors
  BY <1>1, <1>2, <1>5 DEF AuthorsStand, AuthorsIn, Exists
<1>7. ASSUME ~ renamed, NEW nm, nm = name
      PROVE  /\ Apart(tab'.cards, Unheard', nm)
             /\ card.initials = BaseOf(card, nm)
  <2>1. Apart(tab.cards, Unheard, nm) /\ \A c \in Unheard : c.initials \in {BaseOf(c, nm), LongerOf(c, nm)}
    BY <1>7, ApartOnTab DEF NamesInv, OneOrOther, BaseOf, LongerOf, Longer
  <2>2. /\ Ambiguous(Me, authors, nm) => card.initials = LongerOf(card, nm)
        /\ ~ Ambiguous(Me, authors, nm) => card.initials = BaseOf(card, nm)
    <3> HIDE DEF authors
    <3> QED BY <1>3, <1>7, AmbiguousOrNot
  <2>3. nm[Me] \in Names
    BY <1>1, <1>7 DEF TypeOK
  <2>4. Len(LongerOf(card, nm)) <= 2 => LongerOf(card, nm) = BaseOf(card, nm)
    BY <1>3, <2>3, ShortInitials DEF LongerOf, BaseOf
  <2>5. /\ card.initials = BaseOf(card, nm)
        /\ Ambiguous(Me, authors, nm) =>
               LongerOf(card, nm) = BaseOf(card, nm) /\ Len(LongerOf(card, nm)) <= 2
    BY <2>2, <2>4
  <2>6. Unheard \in SUBSET tab.cards /\ Unheard' \in SUBSET (Unheard \cup {card})
    BY <1>1 DEF Unheard
  <2>7. Apart(tab.cards \cup {card}, Unheard', nm)
    <3> HIDE DEF authors
    <3> QED BY <1>3, <1>6, <2>1, <2>5, <2>6, AddedApart
  <2> QED BY <1>1, <2>5, <2>7
<1>8. InitialsApart'
  <2>1. InitialsApart' <=> (~ renamed' => Apart(tab'.cards, Unheard', name'))
    BY DEF InitialsApart, Apart, ToldApart, Clashing, LongerOf, BaseOf, Unheard, Clash, Longer
  <2> QED BY <1>1, <1>7, <2>1
<1>9. OneOrOther'
  <2>1. ~ renamed => card.initials = Base(name[card.author])
    BY <1>7 DEF BaseOf
  <2> QED BY <1>1, <2>1 DEF NamesInv, OneOrOther, Unheard, Longer
<1> QED BY <1>4, <1>5, <1>8, <1>9 DEF NamesInv

LEMMA NamesCardComes ==
    ASSUME PagesAssumption, TypeOK, NamesInv, TabShape, NEW i \in Cards, CardComes(i)
    PROVE  NamesInv'
<1> PICK card : card = LoadItem(i)
  OBVIOUS
<1>1. /\ card.item = i /\ card.author = row[i].author
      /\ Exists(i) /\ ~ deleted
  <2>1. card = Loaded(i, row, name)
    BY DEF LoadItem, Loaded, AllReads, ReadAs, Exists
  <2>2. row \in [Cards -> Rows] /\ row[i] # NoRow
    BY DEF CardComes, TypeOK, Exists
  <2>3. card.item = i /\ card.author = row[i].author
    BY <2>1, <2>2, LoadedCard
  <2> QED BY <2>2, <2>3 DEF NamesInv, AuthorsStand, Exists
<1>2. /\ tab' = [tab EXCEPT !.cards = {c \in @ : c.item # i} \cup {card}, !.heard = @ \cup {i}]
      /\ UNCHANGED <<row, deleted, name, view, renamed>>
  BY DEF CardComes, dbVars, histVars
<1>3. /\ tab'.cards = {c \in tab.cards : c.item # i} \cup {card}
      /\ tab'.heard = tab.heard \cup {i}
  BY <1>2 DEF TabShape
<1>4. Unheard' \in SUBSET Unheard
  BY <1>1, <1>3 DEF Unheard
<1>5. \A d \in tab.cards : \E e \in tab'.cards : e.author = d.author
  BY <1>1, <1>3 DEF NamesInv, AuthorsStand
<1>6. AuthorsStand'
  BY <1>1, <1>2, <1>3 DEF NamesInv, AuthorsStand, Exists
<1>7. ASSUME ~ renamed, NEW nm, nm = name
      PROVE  Apart(tab'.cards, Unheard', nm)
  <2>1. Apart(tab.cards, Unheard, nm)
    BY <1>7, ApartOnTab DEF NamesInv
  <2> QED BY <1>4, <1>5, <2>1, ComesApart
<1>8. InitialsApart'
  <2>1. InitialsApart' <=> (~ renamed' => Apart(tab'.cards, Unheard', name'))
    BY DEF InitialsApart, Apart, ToldApart, Clashing, LongerOf, BaseOf, Unheard, Clash, Longer
  <2> QED BY <1>2, <1>7, <2>1
<1>9. OneOrOther' /\ ReadsNamed'
  BY <1>2, <1>4 DEF NamesInv, OneOrOther, ReadsNamed, Longer
<1> QED BY <1>6, <1>8, <1>9 DEF NamesInv

LEMMA NamesStep ==
    ASSUME PagesAssumption, IInv, TabShape, NamesInv, [Next]_vars
    PROVE  NamesInv'
<1>1. TypeOK /\ TypeOK' /\ AuthorsStand
  BY TypeNext DEF IInv, NamesInv
<1>2. CASE StartPage
  <2>1. ~ deleted'
    BY <1>2 DEF StartPage, dbVars, RequestPage
  <2> QED BY <1>2, <2>1, NamesRequested DEF StartPage
<1>3. CASE ReadSection
  BY <1>1, <1>3, NamesReads
<1>4. CASE Render
  BY <1>1, <1>4, NamesRendered
<1>5. CASE PageFails
  <2>1. view' = NoView /\ UNCHANGED <<row, deleted, name, tab, renamed>>
    BY <1>5 DEF PageFails, Done, dbVars
  <2>2. AuthorsStand'
    BY <1>1, <2>1, NoReads DEF AuthorsStand, Exists
  <2> QED BY <2>1, <2>2, NoReads
          DEF NamesInv, OneOrOther, InitialsApart, Unheard, Longer, Clash
<1>6. ASSUME KeepsAuthors, UNCHANGED <<tabVars, name, renamed>>
      PROVE  NamesInv'
  <2>1. AuthorsStand'
    BY <1>1, <1>6, AuthorsKept
  <2> QED BY <1>6, <2>1, NamesKept DEF tabVars
<1>7. ASSUME NEW i \in Cards, NEW user \in Users, AddItem(i, user)
      PROVE  NamesInv'
  BY <1>1, <1>6, <1>7, NewCardKeeps DEF AddItem, NewCard, Written
<1>8. ASSUME NEW i \in Cards, CompleteItem(i)
      PROVE  NamesInv'
  BY <1>1, <1>6, <1>8, CompleteKeeps DEF CompleteItem, tabVars, Written
<1>9. CASE ArchiveRetro
  <2>1. UNCHANGED <<tabVars, name>> /\ Written
    BY <1>9, Zenon DEF ArchiveRetro, tabVars
  <2>2. KeepsAuthors
    BY <1>1, <1>9, ArchiveKeeps
  <2> QED BY <1>6, <2>1, <2>2 DEF Written
<1>10. CASE DeleteRetro
  <2>1. UNCHANGED <<tabVars, name>> /\ Written
    BY <1>10 DEF DeleteRetro, tabVars
  <2> QED BY <1>6, <1>10, <2>1, DeleteKeeps DEF Written
<1>11. ASSUME NEW user \in Users, NEW new \in Names, Rename(user, new)
       PROVE  NamesInv'
  <2>1. renamed' /\ UNCHANGED <<row, deleted, view, tab>>
    BY <1>11 DEF Rename, tabVars
  <2> QED BY <1>1, <2>1 DEF NamesInv, ReadsNamed, AuthorsStand, OneOrOther, InitialsApart, Exists
<1>12. ASSUME NEW i \in Cards, OwnAdd(i)
       PROVE  NamesInv'
  <2>1. NewCard(i, Me) /\ Me \in Users
    BY <1>12 DEF OwnAdd, PagesAssumption
  <2>2. CASE RequestPage("board", 0)
    BY <1>1, <2>1, <2>2, NewCardKeeps, NamesRequested
  <2>3. CASE ~ RequestPage("board", 0)
    <3>1. PICK card : card = LoadItem(i)'
      OBVIOUS
    <3>2. /\ ~ NeedsRefresh(card) /\ Written /\ UNCHANGED view
          /\ tab' = [tab EXCEPT !.cards = @ \cup {card}]
      BY <1>12, <2>3, <3>1 DEF OwnAdd
    <3>3. Len(card.initials) <= 2
      <4>1. card.initials \in {LongerOf(card, name), BaseOf(card, name)} /\ name[card.author] \in Names
        <5>1. /\ row' \in [Cards -> Rows] /\ row'[i] # NoRow /\ name' = name
              /\ row'[i].author = Me
          BY <1>1, <2>1, NewCardKeeps DEF TypeOK, Exists, NewCard
        <5>2. card = Loaded(i, row', name)
          BY <3>1, <5>1 DEF LoadItem, Loaded, AllReads, ReadAs, Exists
        <5>3. /\ card.author = Me
              /\ card.initials = Initials(name[card.author], Ambiguous(card.author, AuthorsIn(row'), name))
          BY <5>1, <5>2, LoadedCard
        <5> QED BY <1>1, <2>1, <5>3, AmbiguousOrNot DEF TypeOK
      <4>2. Len(card.initials) \in Nat
        <5>1. ASSUME NEW words \in Names, NEW more \in BOOLEAN
              PROVE  Len(Initials(words, more)) \in Nat
          BY <5>1, InitialsLen
        <5> QED BY <4>1, <5>1 DEF LongerOf, BaseOf, Base
      <4> QED BY <3>2, <4>2 DEF NeedsRefresh
    <3> QED BY <1>1, <2>1, <3>1, <3>2, <3>3, NamesOwnAdd DEF Written
  <2> QED BY <2>2, <2>3
<1>13. ASSUME NEW i \in Cards, CardComes(i)
       PROVE  NamesInv'
  BY <1>1, <1>13, NamesCardComes
<1>14. CASE BoardCleared
  <2>1. /\ tab' = [tab EXCEPT !.cards = {}, !.modal = FALSE, !.heard = {}]
        /\ UNCHANGED <<row, deleted, name, view, renamed>>
    BY <1>14 DEF BoardCleared, dbVars, histVars
  <2>2. tab'.cards = {}
    BY <2>1 DEF TabShape
  <2>3. AuthorsStand' /\ OneOrOther' /\ InitialsApart'
    BY <1>1, <2>1, <2>2 DEF AuthorsStand, OneOrOther, InitialsApart, Unheard, Exists
  <2> QED BY <2>1, <2>3 DEF NamesInv, ReadsNamed
<1>15. CASE UNCHANGED vars
  <2>1. UNCHANGED <<row, deleted, name, view, tab, renamed>>
    BY <1>15 DEF vars, dbVars, tabVars, histVars
  <2>2. AuthorsStand'
    BY <1>1, <2>1 DEF AuthorsStand, Exists
  <2> QED BY <2>1, <2>2, NamesKept
<1> QED BY <1>2, <1>3, <1>4, <1>5, <1>7, <1>8, <1>9, <1>10, <1>11, <1>12, <1>13, <1>14, <1>15
        DEF Next

\* apply_author_initials, load_item_with_initials and needs_initials_refresh: for
\* any names and any number of authors and cards, the authors on a page have
\* initials that tell them apart, as long as there are longer ones, nobody has
\* longer ones for nothing, and a card the user adds keeps it that way or has
\* the page loaded again.
THEOREM PagesInitialsApart == Spec => []InitialsApart
<1>1. Init => IInv /\ ModalInv /\ NamesInv
  <2>1. Init => ModalInv
    BY DEF Init, NoView, NoPage, ModalInv, TabShape, StillRead, ModalRight
  <2>2. Init => NamesInv
    <3>1. 0 \in Nat
      OBVIOUS
    <3> QED BY <3>1 DEF Init, NoView, NoPage, NamesInv, ReadsNamed, AuthorsStand, OneOrOther,
                        InitialsApart, Unheard
  <2> QED BY <2>1, <2>2, PagesAssumption, PagesInit
<1>2. IInv /\ ModalInv /\ NamesInv /\ [Next]_vars => (IInv /\ ModalInv /\ NamesInv)'
  <2>1. ModalInv => TabShape
    BY DEF ModalInv
  <2> QED BY <2>1, PagesAssumption, PagesNext, ModalStep, NamesStep
<1>3. NamesInv => InitialsApart
  BY DEF NamesInv
<1> QED BY <1>1, <1>2, <1>3, PTL DEF Spec
=============================================================================
