------------------------------- MODULE Pages -------------------------------
(***************************************************************************)
(* The pages of a retro: show_retro, show_archive and list_archives read   *)
(* the database with one SELECT per column or archive and in no            *)
(* transaction, so what they show may be of several moments.  The authors  *)
(* of the cards on a page get initials that tell them apart; add_item has  *)
(* the tab load its page again when a new card makes that necessary.       *)
(*                                                                         *)
(* One retro, and one tab, of user Me.  Cards.tla has what happens to a    *)
(* card in detail and Browser.tla how a tab keeps its board; here a card   *)
(* is open or completed, archived or not, and has an author.               *)
(***************************************************************************)
EXTENDS Integers, Sequences, FiniteSets, SequencesExt

CONSTANTS
    Cards,          \* cards of the retro
    Columns,        \* the categories, in the order show_retro reads them
    Column,         \* Column[i]: the category of card i
    Users,          \* the authors
    Me,             \* the user of the tab
    Names,          \* display names: sequences of words, which are sequences of letters
    MaxArchives     \* bound: archives of the retro

IsName(words) ==
    /\ words \in Seq(ToSet(words))
    /\ \A k \in DOMAIN words : words[k] \in Seq(ToSet(words[k])) /\ words[k] # << >>

ASSUME PagesAssumption ==
    /\ Columns \in Seq(ToSet(Columns))
    /\ Column \in [Cards -> ToSet(Columns)]
    /\ Me \in Users
    /\ \A words \in Names : IsName(words)
    /\ IsFiniteSet(Users)
    /\ MaxArchives \in Nat

VARIABLES
    row,            \* items
    archives,       \* the archives there are: 1 .. archives
    deleted,        \* the retro is gone
    name,           \* users.display_name
    view,           \* the page that is being rendered for the tab
    tab,            \* what the tab shows
    stayed,         \* the cards of that page ever since its rendering began (history)
    seen,           \* the cards of that page at some time since (history)
    still,          \* nothing was written since (history)
    renamed         \* an author of the page was renamed since (history)

dbVars   == <<row, archives, deleted, name>>
tabVars  == <<view, tab>>
histVars == <<stayed, seen, still, renamed>>
vars     == <<dbVars, tabVars, histVars>>

NoRow  == [author |-> "none", status |-> "none", archive |-> 0]
Exists(i) == row[i] # NoRow
Active(i) == Exists(i) /\ row[i].archive = 0

-----------------------------------------------------------------------------
(* Initials.                                                                *)

Take(s, n) == SubSeq(s, 1, IF n < Len(s) THEN n ELSE Len(s))

Initials(words, disambiguate) ==
    CASE words = << >>   -> <<"?">>
      [] Len(words) = 1  -> Take(words[1], IF disambiguate THEN 3 ELSE 2)
      [] OTHER           -> Take(Head(words), 1) \o Take(Last(words), IF disambiguate THEN 2 ELSE 1)

Base(words) == Initials(words, FALSE)

\* An author counts once, with the name on the first card.  Cards that were read
\* by one SELECT have the same name.
NameOf(author, cards) ==
    (CHOOSE c \in cards : c.author = author /\ \A d \in cards : d.author = author => d.left <= c.left).name

\* base_initial_counts
BaseCount(base, cards) ==
    Cardinality({a \in {c.author : c \in cards} : Base(NameOf(a, cards)) = base})

\* apply_author_initials
ApplyAuthorInitials(cards) ==
    {[item |-> c.item, author |-> c.author, status |-> c.status,
      initials |-> Initials(c.name, BaseCount(Base(c.name), cards) > 1)] : c \in cards}

\* A row of a SELECT that others come after.
ReadAs(i, k) ==
    [item |-> i, author |-> row[i].author, name |-> name[row[i].author],
     status |-> row[i].status, left |-> k]

\* load_item_with_initials: among all cards of the retro, archived ones too.
LoadItem(i) ==
    CHOOSE c \in ApplyAuthorInitials({ReadAs(j, 0) : j \in {x \in Cards : Exists(x)}}) : c.item = i

-----------------------------------------------------------------------------
(* The pages.                                                               *)

NoView == [kind |-> "none", archive |-> 0, todo |-> << >>, cards |-> {}]
NoPage == [kind |-> "none", cards |-> {}, modal |-> FALSE, heard |-> {}]

\* What a page of this kind is about.
Shows(kind, archive, i) ==
    CASE kind = "board"    -> Active(i)
      [] kind = "archive"  -> Exists(i) /\ row[i].archive = archive
      [] kind = "archives" -> Exists(i) /\ row[i].archive # 0
      [] OTHER             -> FALSE

OnPage(i) == Shows(view.kind, view.archive, i)

\* Mutation: archived cards as well.
SelectsAll(section, i) ==
    Exists(i) /\ (view.kind # "archives" => Column[i] = section)

\* The WHERE of the SELECT for one column, or the count of one archive.
Selects(section, i) ==
    CASE view.kind = "board"   -> Active(i) /\ Column[i] = section
      [] view.kind = "archive" -> Exists(i) /\ row[i].archive = view.archive /\ Column[i] = section
      [] OTHER                 -> Exists(i) /\ row[i].archive = section

\* The retro is found, and for list_archives so are its archives.
RequestPage(kind, archive) ==
    /\ view = NoView
    /\ ~ deleted
    /\ view' = [kind |-> kind, archive |-> archive, cards |-> {},
                todo |-> IF kind = "archives" THEN [n \in 1 .. archives |-> n] ELSE Columns]
    /\ tab' = NoPage
    /\ stayed' = {i \in Cards : Shows(kind, archive, i)'}
    /\ seen' = stayed'
    /\ still' = TRUE
    /\ renamed' = FALSE

StartPage ==
    /\ UNCHANGED dbVars
    /\ \/ RequestPage("board", 0)
       \/ RequestPage("archives", 0)
       \/ \E n \in 1 .. archives : RequestPage("archive", n)

ReadSection ==
    /\ view.kind # "none"
    /\ view.todo # << >>
    /\ view' = [view EXCEPT !.todo = Tail(@),
                            !.cards = @ \cup {ReadAs(i, Len(view.todo)) :
                                              i \in {x \in Cards : Selects(Head(view.todo), x)}}]
    /\ UNCHANGED <<dbVars, tab, histVars>>

\* Mutation: the board may be empty, as in change_item_status.
NoneOpen == \A i \in Cards : Active(i) => row[i].status = "COMPLETED"

\* all_completed of show_retro, a query of its own.
AllCompleted ==
    /\ \E i \in Cards : Active(i)
    /\ \A i \in Cards : Active(i) => row[i].status = "COMPLETED"

Done ==
    /\ view' = NoView
    /\ stayed' = {}
    /\ seen' = {}
    /\ UNCHANGED <<dbVars, still, renamed>>

Render ==
    /\ view.kind # "none"
    /\ view.todo = << >>
    /\ tab' = [kind |-> view.kind, cards |-> IF view.kind = "archives" THEN {} ELSE ApplyAuthorInitials(view.cards),
               modal |-> view.kind = "board" /\ AllCompleted, heard |-> {}]
    /\ Done

\* A query fails.
PageFails ==
    /\ view.kind # "none"
    /\ Done
    /\ UNCHANGED tab

-----------------------------------------------------------------------------
(* What is written meanwhile.                                               *)

\* The history of the page that is being rendered.
Written ==
    /\ stayed' = {i \in stayed : OnPage(i)'}
    /\ seen' = seen \cup {i \in Cards : OnPage(i)'}
    /\ still' = FALSE
    /\ UNCHANGED renamed

NewCard(i, user) ==
    /\ ~ deleted
    /\ ~ Exists(i)
    /\ row' = [row EXCEPT ![i] = [author |-> user, status |-> "CREATED", archive |-> 0]]
    /\ UNCHANGED <<archives, deleted, name>>

AddItem(i, user) ==
    /\ NewCard(i, user)
    /\ UNCHANGED tabVars
    /\ Written

CompleteItem(i) ==
    /\ Active(i)
    /\ row[i].status = "CREATED"
    /\ row' = [row EXCEPT ![i].status = "COMPLETED"]
    /\ UNCHANGED <<archives, deleted, name, tabVars>>
    /\ Written

\* archive_retro, one transaction; all cards of the retro go.  What it counted
\* before may have been action items, or be gone.
ArchiveRetro ==
    /\ archives < MaxArchives
    /\ ~ deleted
    /\ archives' = archives + 1
    /\ row' = [i \in Cards |-> IF Active(i)
                            THEN [row[i] EXCEPT !.archive = archives', !.status = "ARCHIVED"] ELSE row[i]]
    /\ UNCHANGED <<deleted, name, tabVars>>
    /\ Written

DeleteRetro ==
    /\ ~ deleted
    /\ deleted' = TRUE
    /\ row' = [i \in Cards |-> NoRow]
    /\ archives' = 0
    /\ UNCHANGED <<name, tabVars>>
    /\ Written

\* upsert_user: a login brings the name that GitHub has now.  Bound: once while
\* a page is rendered; the names that are there at first are arbitrary.
Rename(user, new) ==
    /\ view.kind # "none"
    /\ ~ renamed
    /\ name[user] # new
    /\ name' = [name EXCEPT ![user] = new]
    /\ renamed' = TRUE
    /\ UNCHANGED <<row, archives, deleted, tabVars, stayed, seen, still>>

-----------------------------------------------------------------------------
(* The tab on the board.                                                    *)

OnTab == {c.item : c \in tab.cards}

\* Mutation: no refresh.
NeverRefreshes(card) == FALSE

\* needs_initials_refresh
NeedsRefresh(card) == Len(card.initials) > 2

\* The user adds a card; with HX-Refresh htmx loads the page again.
OwnAdd(i) ==
    /\ tab.kind = "board"
    /\ NewCard(i, Me)
    /\ LET card == LoadItem(i)'
       IN  IF NeedsRefresh(card)
           THEN RequestPage("board", 0)
           ELSE /\ tab' = [tab EXCEPT !.cards = @ \cup {card}]
                /\ UNCHANGED view
                /\ Written

\* A response or an event brings one card as it is now.
CardComes(i) ==
    /\ tab.kind = "board"
    /\ Exists(i)
    /\ tab' = [tab EXCEPT !.cards = {c \in @ : c.item # i} \cup {LoadItem(i)},
                          !.heard = @ \cup {i}]
    /\ UNCHANGED <<dbVars, view, histVars>>

\* RETRO_ARCHIVED
BoardCleared ==
    /\ tab.kind = "board"
    /\ \E i \in OnTab : ~ Active(i)
    /\ tab' = [tab EXCEPT !.cards = {}, !.modal = FALSE, !.heard = {}]
    /\ UNCHANGED <<dbVars, view, histVars>>

-----------------------------------------------------------------------------
Init ==
    /\ row = [i \in Cards |-> NoRow]
    /\ archives = 0
    /\ deleted = FALSE
    /\ name \in [Users -> Names]
    /\ view = NoView
    /\ tab = NoPage
    /\ stayed = {}
    /\ seen = {}
    /\ still = TRUE
    /\ renamed = FALSE

Next ==
    \/ StartPage
    \/ ReadSection
    \/ Render
    \/ PageFails
    \/ \E i \in Cards, user \in Users : AddItem(i, user)
    \/ \E i \in Cards : CompleteItem(i)
    \/ ArchiveRetro
    \/ DeleteRetro
    \/ \E user \in Users, new \in Names : Rename(user, new)
    \/ \E i \in Cards : OwnAdd(i)
    \/ \E i \in Cards : CardComes(i)
    \/ BoardCleared

Spec == Init /\ [][Next]_vars

-----------------------------------------------------------------------------
\* What the SELECTs of a page find together was there at some time while the
\* page was rendered, and what was there all the time is found.  An archive does
\* not change, so its page and its count are exact as long as the retro exists.
PageBetween ==
    view.kind # "none" /\ view.todo = << >> =>
        LET found == {c.item : c \in view.cards}
        IN  /\ stayed \subseteq found
            /\ found \subseteq seen
            /\ view.kind = "archive" /\ ~ deleted => found = {i \in Cards : OnPage(i)}

\* show_retro offers to archive exactly when it shows cards and all of them are
\* completed, if nothing was written between its SELECTs.
ModalRight ==
    tab.kind = "board" /\ still /\ tab.heard = {} =>
        (tab.modal <=> /\ tab.cards # {}
                       /\ \A c \in tab.cards : c.status = "COMPLETED")

Longer(c)   == Initials(name[c.author], TRUE)
Clash(c, d) == c.author # d.author /\ Base(name[c.author]) = Base(name[d.author])

\* Two authors on one page whose initials would be the same are disambiguated,
\* nobody else is, and an author has the same initials on each card.  Then the
\* tab keeps what it can: a card the user adds has the page loaded again when it
\* makes an author ambiguous, unless the longer initials have two letters only;
\* cards that come one by one from others do not.
InitialsApart ==
    ~ renamed => \A c \in {x \in tab.cards : x.item \notin tab.heard} :
        /\ (\A d \in tab.cards : ~ Clash(c, d)) => c.initials = Base(name[c.author])
        /\ \A d \in {x \in tab.cards : x.item \notin tab.heard} :
              /\ c.author = d.author => c.initials = d.initials
              /\ Clash(c, d) => \/ c.initials = Longer(c) /\ d.initials = Longer(d)
                                \/ Len(Longer(c)) <= 2 \/ Len(Longer(d)) <= 2
=============================================================================
