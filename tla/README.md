# Rostfacto in TLA+

Rostfacto is a retrospective board: a Rust server (axum, sqlx) over PostgreSQL,
browsers with htmx and one server-sent-event stream per board. These modules
model the parts whose correctness depends on order: what becomes visible when,
which request wins, what a browser is told, and when a timer ends.

Paths are relative to the repository, as in `src/events.rs`.

## Inventory

| component | state | operations | interacts through |
|---|---|---|---|
| event stream: `migrations/021,022`, `src/events.rs`, the EventSource in `static/js/retro.js` | `events` rows and their id sequence; LISTEN connection; `last_id`; subscriber lists; per connection: receiver, `Last-Event-ID`, `max_id`, replay | trigger insert + NOTIFY, commit, rollback; `notifier_loop`, `notify_once`; `EventHub::subscribe/publish`; `retro_events`; reconnect; restart | rows and notifications from every mutation; frames to browsers |
| cards and timers: `src/handlers.rs`, `migrations/005,021,022` | `items`: status, text, timer start, duration, elapsed mark, archive; the deadline is derived | `add_item`, `change_item_status`, `update_item`, `start_item_timer`, `extend_item_timer`, `timer_sweep_loop` | triggers write events; the response carries `X-Event-Id` |
| archives and action items: `src/handlers.rs`, `migrations/019,020` | `archives`, `action_items` | `archive_retro`; add, update, complete, delete action item; `delete_retro` | one transaction over items and action items |
| likes: `like_item`, `migrations/018,021` | `likes` | toggle; the trigger counts | events with a count; `X-Event-Id` |
| browser board: `static/js/retro.js` | the DOM, ids already applied, deadlines, fetches in flight | one listener per event type, htmx hooks | frames, responses, card fetches |
| sessions: `src/auth.rs` | `sessions`, the cookies | login, callback, extractor, logout, cleanup | GitHub; every handler |
| team membership: `src/github.rs`, `src/auth.rs`, `list_retros` and `require_retro_access` in `src/handlers.rs` | the teams a login has cached, `team_slug` of a retro | `list_org_teams` page by page, team resolution, the access check | GitHub; every handler |
| pages: `show_retro`, `list_archives`, `show_archive` in `src/handlers.rs`, initials in `src/models.rs` | none | a SELECT per column or archive, `apply_author_initials`, the reload that `add_item` asks for | database; `HX-Refresh` to the browser |
| request checks and configuration: `src/csrf.rs`, `src/security_headers.rs`, `src/config.rs` | none | one function per request | every handler |

What is hard here:

- **Ids and visibility.** An event id is taken at INSERT, the row is visible at
  COMMIT, so readers that remember "the highest id so far" (the notifier, a
  browser) may pass an id that is not visible yet.
- **Awaits.** The SSE handler awaits between subscription, bound and replay;
  `update_item` and `archive_retro` read, await and then act.
- **Transient notifications.** NOTIFY reaches only connections that listen.
- **Restarts and reconnects.** The notifier starts from the `MAX(id)` of the
  moment, the browsers come back with what they last received.
- **Three routes to one board.** A tab shows a card from the response to its own
  request, from the payload of an event and from a card it fetches for an event.
  Each is of the moment the server made it and is applied at another.
- **Reads of several moments.** GitHub's pages and the SELECTs of a page have no
  transaction around them.
- **Row locks.** A transaction over many rows (archive) meets single-row ones.
- **Time.** A sweep, clicks on start, +2 min, cancel and complete, and archives
  change the same three timer columns.

What makes each component correct: a tab's feed is ordered, of its board, never
repeated, and what it misses is explained (event stream); a card follows its
lifecycle, at most one is highlighted, a timer is consistent and elapses when
due, the events of a card tell its state (cards); an archive leaves nothing it
counted behind and a card has one archive, of its own retro (archives); a user
likes a card at most once and the last count told is the true one (likes); the
board shown converges to the board stored, save for what was overtaken (browser);
a logout or a new login ends older sessions and a session is bounded in time
(sessions); no team that was visible all along is missed, and what is listed is
what opens (teams); a page shows nothing that never was and tells its authors
apart (pages).

## Modules

| module | role |
|---|---|
| `OrderedFeed` | abstract: committed events, a base per tab, a feed that only grows by newer events of the tab's board |
| `EventStream` | the real-time path, one action per step between two awaits |
| `MCEventStream` | its instance for TLC |
| `EventStreamProofs` | theorems about it: order, refinement and what is delivered |
| `CardLifecycle` | abstract: the status of cards |
| `Cards` | items, timers, action items, archives, the triggers |
| `MCCards` | its two instances for TLC |
| `CardsProofs` | theorems about it: types and timers; archives, lifecycle, what the log and the headers tell |
| `Likes` | the toggle of a like as a transaction of single statements |
| `MCLikes` | its instance for TLC |
| `LikesProofs` | theorems about it |
| `Browser` | the board in one tab, on top of the database of `Cards` |
| `MCBrowser` | its two instances for TLC |
| `BrowserProofs` | theorems about it: types, no duplicates, archived cards |
| `BrowserSyncProofs` | the theorem that a settled board is in sync |
| `Sessions` | logins, the sessions table, the requests that a session lets in |
| `MCSessions` | its instance for TLC |
| `SessionsProofs` | theorems about it |
| `Access` | which teams a login finds and caches, which retros are listed and open |
| `MCAccess` | its instance for TLC |
| `AccessProofs` | theorems about it |
| `Pages` | the pages of a retro read query by query, and the initials on them |
| `MCPages` | its instance for TLC |
| `PagesProofs` | theorems about it |

### EventStream

The database part keeps `issued` (which retro an id was given to), `tx` (rows
and channels of open transactions), `committed` and `deleted`. What a handler
changes is abstracted to "it emits an event for a retro and commits or rolls
back": that is all the real-time path reads. `Commit` delivers notifications if
the LISTEN connection is up. The notifier is a program counter `phase` with
`ReadCursor`, `Listen`, `Recv`, `LoadEvents`, `Publish` (one event at a time, as
`hub.publish` awaits a lock), its failures (`ReadCursorFails` disables it for
good, `LoadEventsFails` and `ConnectionLost` drop the connection and what was
queued on it) and the cursor `lastId`. sqlx may re-establish a lost connection
inside `recv` or return an error to the loop; both are `ConnectionLost` then
`Listen`. A tab goes through `PageLoad`, `Admit` (access check, header),
`Subscribe`, `ReadMaxId`, `LoadReplay`, `SendReplay`, `SendLive`, and may be
disconnected or refused at any await; an EventSource gives up on a refusal.
`Restart` kills the process: the notifier boots again, connections end, open
transactions and the tables stay.

`published`, `bootId`, `late` and `lost` are history variables that only
properties read.

### Cards

A row of `items` is a record; SQL NULL is 0, times are seconds from 1.
A handler that runs one statement, or one transaction around one row, is one
action, since the row lock orders it with the others. `update_item` is
`ReadOldText` then `UpdateText`; `archive_retro` is `CountActive`,
`InsertArchive`, `ArchiveItems`, `ArchiveActionItems`, `CommitArchive`, each of
which may be followed by `AbortArchive`. Uncommitted changes of an archive stay
in `arch`, and other actions on those rows wait (`Locked`). A waiting statement
goes on after the commit and re-reads its row; new rows that commit while it
waits are the only thing it might not see, and such a step is the same as the
one where they are inserted right after it.

`ItemEvent` is `emit_item_event` with its precedence and the WHEN clause of its
trigger; `log` holds the events in the order of their ids (the order of commits
is EventStream's subject). `answer` is the response sent in the last step, with
the event the request really emitted (`own`) and the one its `X-Event-Id` names
(`header`). Texts are tokens; trimming and the length limits reject a request
before it changes anything, so only accepted texts occur. Categories, authors,
likes and `updated_at` are left out: no property needs them.

### Likes

`like_item` is one transaction; under READ COMMITTED each of its statements sees
what is committed by then and what the transaction did itself. `tx[t]` is the
request of tab `t` with its program counter: `LikeItem` (the card is found, the
transaction begins), `CheckExisting`, `DeleteLike` or `InsertLike` with the
trigger's count and event (`EmitLikeEvent`), `LookupEvent` for `X-Event-Id`,
`LoadItem` for the response, `Commit`. A row written by another open transaction
is waited for (`RowLocked`); when it turns out to be there already, or the card
to be gone, the statement is refused (`Clash`). `Fails` drops the transaction at
any await, `DeleteRetro` takes the board away. `overlap` is a history variable:
the events whose toggles were open together on a card.

### Browser

`Browser` EXTENDS `Cards`, so that every answer and every event a tab sees is made
by the action of the handler that makes it. The stream is that of `EventStream`
without its failures: `Publish` sends, in the order of ids, what is visible above
`cursor`, and an event that commits behind it does not come. `Elsewhere` is
anything that other people and the sweep do.

`board[i]` is the sequence of elements that show card `i`; a face has its kind, its
text, and of the badge the deadline, `data-elapsed` (`elapsed`) and whether the
countdown shows 0:00 (`over`). `req[s]` is a request of htmx: `Click` or
`SubmitCard` with `htmx:beforeRequest`, `ServeStatus`, `ServeAdd`, `ServeUpdate`
and `ServeCard` at the server, `ResponseArrives` with the swap and
`htmx:afterRequest`, `Settle`, `RequestFails`. When the element that a request was
to replace has been replaced by another route the request is not `attached`, htmx
swaps nothing, and the tab does not hear of the event it caused. There is one
action per listener (`OnItemCreated` to `OnRetroArchived`), `DropOwn` for ids in
`appliedEventIds`, and `ServeFetch`, `FetchArrives`, `FetchFails` for `fetchCardHtml`
with `replaceCard` and `insertCard`. `posts`, `pending` and `fallback` are the timer
requests of `retro.js` and the interval of `armHighlightFallback`.

`newest` and `overtaken` are history variables: how new the tab's knowledge of a
field of a card is, as a place in the log (`Moment`), and which fields show
something older than that.

### Sessions

`auth.rs` with the part of `delete_retro` that asks for a fresh login. A login is
a tab that goes `StartLogin`, `Callback`, `Exchange`, `RevokeOldSessions`,
`ResolveTeams`, `CreateSession`, or fails at any await and leaves behind what was
done. The tabs of a browser share the state cookie and the session cookie, which
has a Max-Age of its own. A request is `Request` (the extractor's SELECT), `Slide`
(its UPDATE of the deadline) and the handler: `ServePage`, `Logout`, or
`CheckLogin` and `DeleteRetro`. Rows that are gone keep their last data in `row`
for the properties to talk about, `table` says which are there. `Restart` ends
what is in flight and deletes expired rows.

GitHub is external: whether a user is an admin is nondeterministic at each login.
The list of teams is in `Access`; routes that need no user are left out. Demo mode has no
sessions. The end of the state cookie, ten minutes, may come at any time.

### Access

`github[o]` is GitHub's list of the user's teams of an organisation. It changes at
any time (`TeamAppears`, `TeamDisappears`), and a page is cut out of it as it is
then. `StartListing`, `FetchPage`, `FetchFails`, `CreateSession` are the callback
with `list_org_teams` and the loop over the configured organisations: an error
drops the pages of its organisation, which is named as one that could not be listed,
and goes on. Slugs are qualified with the organisation; retros from before have a
bare one. `Opens` is `require_retro_access`, `Lists` the WHERE clause of
`list_retros`, two pieces of code that must agree. GitHub is external:
nondeterministic lists, and errors at any request.

`throughout` and `shrunk` are history variables: the teams that were visible ever
since the login began, and the organisations that lost one.

### Pages

A page is `StartPage`, one `ReadSection` per SELECT, and `Render`, or `PageFails`.
Meanwhile cards are added, completed and archived, the retro is deleted, and a
login renames an author. `Initials`, `BaseCount` and `ApplyAuthorInitials` are the
functions of `models.rs`, on names that are sequences of words of letters;
`LoadItem` is `load_item_with_initials`, which goes by all cards of the retro.
`OwnAdd` is `add_item` with the decision to have the page loaded again, `CardComes`
a card that reaches the tab by itself. `Cards` has what happens to a card in detail;
here it is open or completed, archived or not.

`stayed`, `seen`, `still` and `renamed` are history variables of the page.

## Runs

| run | shows |
|---|---|
| `stream_safety` | `FeedOrdered`, `NoLostWakeup`, `NoLiveGap`, `ReplayComplete`, `SkipsExplained` and the refinement of `OrderedFeed` under every interleaving |
| `stream_live` | every committed event gets behind the cursor; published events reach the tabs that stay connected |
| `cards_board` | two archives at the same time, highlights, deletions: `ArchivedInOwnRetro`, `NothingCountedStays` and the refinement of `CardLifecycle` |
| `cards_timer` | the long life of one card: `TimerOfHighlight`, `ElapsedWasDue`, `LogTellsBoard`, `HeaderIsOwnEvent`, `DueTimerElapses` |
| `likes` | three tabs of two users toggle: `LikesMatchLog`, and that wrong counts (`CountToldAlone`) and headers of another event (`HeaderOwnOrConcurrent`) need toggles that overlap; no request waits for another one for good (`Answered`) |
| `sessions` | one user on two browsers: `WithinAbsolute`, `SlidingWindow`, `SurvivorsOverlap`, `DeletionsFresh`, `GoneStaysGone` |
| `browser_cards` | a tab adds, edits, likes and completes while others edit, highlight and archive: once everything has arrived no card is there twice (`NoDuplicateCards`), the board differs from the database only where an answer was overtaken (`OnlyOvertakenOutOfSync`), and archived cards are gone (`ArchivedCardsLeave`) |
| `browser_timer` | the timer of a card by the fast path, the fallback and others: the deadline shown is the one stored, and no failure leaves a card in `pendingTimerPosts` (`BrowserTypeOK`) |
| `access` | what a login finds while GitHub's lists change (`TeamsFound`), what an error leaves (`ErrorsHaveNoTeams`), that listing and opening agree (`ListedOpens`) and that a login comes to its end (`LoginComesToEnd`) |
| `pages` | pages read while others write: `PageBetween`, the offer to archive (`ModalRight`), and initials (`InitialsApart`) |

and two that TLC refutes, each a statement of the repository the code does not
keep:

| run | statement | what happens |
|---|---|---|
| `catches_up_after_disconnect` | comment in `notify_once` | an event of retro A committed while the notifier is not listening is passed by the cursor when an event of B is published |
| `active_stays_logged_in` | comment on `SESSION_MAX_AGE_SECONDS` | the deadline slides in the table, the cookie is set once and ends seven days after the login |

### Disagreements without a run of their own

The properties are stated so that they hold, and their exceptions say where the
code and what is written about it part:

- `README.markdown` says that a browser catches up on everything it missed. An
  event between the page and the first connection is neither replayed, there being
  no header, nor sent live, being below the bound; `ReplayComplete` speaks of
  connections with a header only.
- Migration 021 says that an archive takes something. The counts of `archive_retro`
  are old when its transaction begins: of two at the same time the second makes an
  empty archive and a second RETRO_ARCHIVED (`NothingCountedStays` allows for cards
  that another archive took).
- Migration 021 says that the count of likes is recomputed on each event. Of two
  toggles that overlap neither trigger sees the other's row, and the last event may
  tell a wrong count until the next toggle (`CountToldAlone`).
- A comment in `update_item` says that the header mirrors the trigger. With two edits
  at the same time there may be a header without an event of its own, or an event without a
  header (`HeaderIsOwnEvent` leaves `update_item` out).
- Migration 022 says that a restart after the timer elapsed emits TIMER_STARTED. The
  old start time is still there, `ItemEvent` says TIMER_EXTENDED, and the answer of
  `start_item_timer` names an older event.
- `auth.rs` says that logging in again revokes all previous sessions. Of two logins
  at the same time each revokes before the other creates (`SurvivorsOverlap`).
- `setCountdown` in `retro.js` leaves `data-elapsed` on the badge: an elapsed timer
  that is extended by somebody else shows 0:00 again at the next rendering
  (`StillMarked`).
- A comment in `retro.js` says that a fast-path start that races the fallback cannot
  start twice. `pendingTimerPosts` holds a card once, and the first of two requests
  to end releases it, so that across two highlights of a card it can.
- The response to a like or an edit is a whole card. When another's edit overtakes
  it the old text stays until the next change (`overtaken`).
- `replaceCard` carries the deadline of the old badge over, also when it is that of
  an earlier highlight and the new card has just no timer yet; a tick of the fallback
  before the highlight is answered disarms it.
- An archived card looks as it did when it was created. One that was fetched before,
  or whose ITEM_CREATED has the higher id, comes back to the board; so does every
  card when RETRO_ARCHIVED commits behind the cursor (`ArchivedCardsLeave`).
- The initials of one card go by all cards of the retro, archived ones included,
  those of the page by what it shows. While an archived author clashes, each card
  that somebody adds has the page loaded again, which then shows short initials. A
  longer form of two letters does not reload the page at all (`InitialsApart`).
- `show_retro` offers to archive only if there are cards, `change_item_status` does
  not ask (`ModalRight` is about the page alone).

### Bounds

- `stream_safety`: two retros (one cursor, two boards), one tab, two
  transactions, three ids. Out-of-order visibility needs two transactions;
  skipping needs two retros; replay with a header, a bound and a live event
  above it needs three ids. Tabs do not influence each other: the hub copies.
  Writers are symmetric.
- `stream_live`: the same with two ids and no symmetry, which liveness would
  make unsound.
- `cards_board`: two cards and an action item of one retro and a card of
  another, two archive requests, four events by requests, two seconds.
- `cards_timer`: one card, one editor, one archive request, six events by
  requests, four seconds, so that a timer starts, elapses, is extended or
  restarted, elapses again and is cancelled or archived. A submitted 0 is
  clamped to 1, +2 min adds 1. Events of the sweep are not bounded.
- `likes`: two cards, two tabs of one user (they meet on one row) and a tab of
  another (they meet on the count), four requests, so that a row is inserted,
  deleted and inserted again while another toggle is open.
- `sessions`: one user, two browsers, two logins that may overlap, idle window 7,
  lifetime 12, fresh for 2, eight ticks. A browser presents its cookie for one idle
  window after the login; in its second half the deadline slides below the cap,
  to the cap and beyond what the cap allows, and a session that never slides ends.
  A request sees at most one tick of the clock, whose unit is thus longer than a
  request takes; a login may take any time. Users do not influence each other,
  except through a cookie jar they share, and that only by replacing the cookie.
- `browser_cards`: one retro, a card on the page and one to come, two texts
  (symmetric), an editor and an archive request elsewhere, one request of the tab at a
  time, which meets events, fetches and archives in any order, three events by
  requests.
- `browser_timer`: one card that is highlighted or has a running timer, two seconds,
  two attempts of the fallback, six events by requests: enough for two highlights, a
  start by each path, an extension and an elapsed timer in between.
  The clock of the tab and of the server agree. Both runs identify states that differ
  only in the last answer and in own ids whose event has passed (`View`).
- `access`: two organisations, or one that is configured twice, two teams and pages of
  one team, so that a team can move between a page that was read and one that was not.
- `pages`: two columns with three cards, two authors, three names, of which two clash
  and one of those has no longer form, one archive, one rename while a page is read.

`MaxEvents`, `MaxLogins`, `MaxNow`, `MaxTeams` and `MaxArchives` are guards of
requests, logins, `Tick`, GitHub and `ArchiveRetro`, `Rename` comes once per page, and
`Buttons` names what the user of the tab presses; nothing else is bounded. The runs
of `EventStream`, `Cards` and `Access` check for deadlock: the sweep, page loads and
logins can always take a step. Those of `Likes`, `Sessions`, `Browser` and `Pages` do
not: with the requests or the logins spent and every session over, with nothing under
way, or with the retro deleted, nothing is left to do. There `Answered`
says that a request that has begun ends; nothing in `Sessions` waits for another
step.

### Fairness

`EventStream`: weak fairness of the notifier's own steps and of sending on an
open connection, since tokio runs tasks that are ready and PostgreSQL answers.
No fairness for mutations, failures, page loads, connection steps or restarts;
with it the liveness properties would hold for the wrong reason.
`Cards`: weak fairness of the sweep, which ticks every second and logs its
errors and goes on, and of the steps of an archive transaction that has begun,
which holds the locks the sweep may wait for. The clock need not tick.
`Likes`: weak fairness of the statements of a request that has begun; the handler
is polled and a lock is released when its holder ends. `Access`: weak fairness of
the next request to GitHub, answered or failed, and of the end of the callback; that
the pages come to an end also when GitHub's list grows rests on its being bounded.
`Sessions` has no liveness property: that
every session ends follows from `WithinAbsolute` when time passes.

## Proofs

All theorems hold for any finite set of cards, and any retros, tabs, writers,
requests, browsers, logins, organisations, columns and names, from
`StreamAssumption`, `CardsAssumption`, `LikesAssumption`, `SessionsAssumption`,
`AccessAssumption`, `PagesAssumption` and, for `Browser`, `CardsAssumption` with
`BrowserAssumption` alone, and `RetroAssumption` for the board being in sync: the page is of one
retro and its stream leaves out the events of others. The bounds are arbitrary numbers in them. Besides types and
positive durations and page sizes these say that a card has a home, that at most one
card of a retro is highlighted when the page loads, and that names are what
`split_whitespace` makes of them: words of letters (`IsName`).

`EventStreamProofs`:

- `TypeCorrect`: `Spec => []TypeOK`.
- `FeedIsOrdered`: `Spec => []FeedOrdered`. `FeedOrdered` is not inductive: the
  order of `received` rests on what is queued. The inductive `FeedInv` adds, for
  the notifier, that the batch holds committed events of its board above the
  cursor (`BatchInv`) and, for each tab, that what it has seen and has waiting
  are committed events of its board (`OwnEvents`), that its receiver is empty
  unless it is subscribed, ascending and not above the cursor (`InboxInv`), that
  a replay is there only while streaming and within the bound (`ReplayInv`) and,
  as long as the retro exists, that what is still to come is newer than what has
  been seen (`AheadInv`).
- `ImplementsOrderedFeed`: the same invariant makes every step a step of
  `OrderedFeed` or a stutter.

On top of it, from one invariant `DeliveryInv`:

- `NotifierStaysAwake`: `Spec => []NoLostWakeup`. A commit notifies every retro the
  transaction wrote to, which needs that its notes name them (`TxNotes`).
- `SkipsAreExplained`: `Spec => []SkipsExplained`. The cursor is where the notifier
  started or on an event it published (`CursorInv`), and what the loaded batch does
  not hold came later, late or behind it (`LoadedInv`).
- `LiveHasNoGap` and `ReplayIsComplete`: `Spec => []NoLiveGap` and
  `Spec => []ReplayComplete`, with a bound that is an event of the board (`BoundInv`)
  and gaps stated against what is still in the inbox or the replay (`NoGap`,
  `Complete`).

`CardsProofs`:

- `CardsTypeCorrect`: `Spec => []TypeOK`, through lemmas on the trigger
  (`ItemEventType`) and on event lookups (`LastEventType`, which needs that a
  bounded set of numbers has a largest element, `HasMax`).
- `TimersBelongToHighlights` and `ElapsedIsDue`: `TimerInv` says both of each row
  at time `now`; `TimerRows` shows that every kind of UPDATE keeps it.

About archives, lifecycle, log and headers, from `ArchiveInv`:

- `ArchivesOfOwnRetro`: `Spec => []ArchivedInOwnRetro`. Several requests may be between
  count and commit; what an open transaction relies on is that its archive is there,
  of its retro and without rows as yet (`OpenArchive`), and that the rows it holds are
  active, of its retro and held by nobody else (`Holds`).
- `CountedCardsLeave`: `Spec => []NothingCountedStays`, as cards that were counted never
  return to a board once archived (`Counted`, `Left`).
- `ImplementsLifecycle`: `Spec => RefinesLifecycle`. The commit of an archive is the one
  step that needs the invariant: the rows it takes are active and of one retro.
- `LogTells`: `Spec => []LogTellsBoard`, from `LogInv`: the newest events of a card tell
  its row (`LogTold`), and the event of an open transaction is one that no card is told
  by, so that a rollback takes nothing back (`OpenEvent`). The trigger announces one
  thing per UPDATE, by precedence; that nothing is lost rests on every handler changing
  one thing at a time (`OneThing`): a status change resets the timer and leaves the text,
  a timer change leaves the text.
- `HeadersAreOwn`: `Spec => []HeaderIsOwnEvent`. The lookup by card and type finds the
  event of its own statement since nobody writes in between, the row being locked; a
  no-op has no header because it does not look.

`LikesProofs`, from `LikesInv`:

- `LikesAreTold`: `Spec => []LikesMatchLog`. A transaction that has written a row has its
  own uncommitted event, of its card, user and kind, nobody else has the row, and the
  row is committed exactly if it was deleted (`OwnRow`); a commit then moves one row and
  one event at a time (`CommitMatch`, with cardinalities).
- `CountsToldAlone`: `Spec => []CountToldAlone`. What an event counted is still so while
  its toggle did not overlap (`Counted`, `LastInv`).
- `HeadersOwnOrConcurrent`: `Spec => []HeaderOwnOrConcurrent`, as every later event of the
  card was written while the transaction was open (`Later`).

`SessionsProofs`:

- `SessionsTypeCorrect`: `Spec => []TypeOK`.
- `SessionsStayGone`: `Spec => GoneStaysGone`. Only `CreateSession` adds to the
  table, and the id it adds was never given out (`RowCases`, `Created`, `Slid`).
- `SessionsWithinAbsolute`, `SessionsSurvivorsOverlap`, `SessionsDeletionsFresh`,
  from one inductive invariant `IInv`. `WithinAbsolute` is not inductive: a request
  in flight writes a deadline it computed before, so `InFlight` says that this one
  is within the lifetime too, and that a request about to delete a retro has passed
  its check. `SurvivorsOverlap` needs what a login between its revocation and its
  new session relies on (`RevokedBefore`): all sessions of its user have been
  created since. `RowKept` shows that the user, the role and the time of creation
  of a session never change, which carries each fact across the steps of others.
- `SessionsSlidingWindow`: `Spec => []SlidingWindow`, from `WindowInv`: a request in flight
  was let in at most one tick ago and will write a whole idle window from then or the cap
  (`Sliding`), and no session was used in the future (`UsedBefore`).

`AccessProofs`:

- `AccessTypeCorrect`: `Spec => []TypeOK`.
- `AccessTeamsFound`: `Spec => []TeamsFound`. `ListInv` says where each team that stayed
  is while the pages are read: it is accounted for (`Accounted`), its organisation is still
  to come (`OrgAhead`), or it is on the pages read or at a position that is still to be
  read (`OnPages`). An insertion moves teams to later positions only, which keeps this.
- `AccessListedOpens`: `Spec => []ListedOpens`, the slugs of `list_retros` against the
  comparison of `is_member_of_team`.
- `AccessErrorsHaveNoTeams`: `Spec => []ErrorsHaveNoTeams`, from `ErrorsApart`: while the
  list is read, teams and errors are of organisations that have been passed, and one has
  both only if it is configured twice.

`PagesProofs`:

- `PagesTypeCorrect`: `Spec => []TypeOK`.
- `PagesBetween`: `Spec => []PageBetween`, from `TypeOK`, `ArchivesExist` (a card is in an
  archive that there is) and `PageInv`: what stayed has been found or its section is still
  to be read (`WillFind`), what was found has been seen, and an archive stands as long as
  the retro does (`ArchiveStands`).
- `PagesModalRight`: `Spec => []ModalRight`, from `ModalInv`: while nothing is written, the
  sections read have found what is there, with the status it has (`StillRead`).
- `PagesInitialsApart`: `Spec => []InitialsApart`, from `NamesInv`: unless a login renames
  somebody, a card has the base form of its author or the longer one, the latter if the
  page clashes (`OneOrOther`), and a longer form of two letters is the base form again.

`BrowserProofs`, for any number of cards, requests under way, texts and other requests:

- `BoardInv` says that the database under the tab keeps the invariants of
  `CardsProofs`, also from `BrowserInit`, whose log is the history of the cards on the
  page, and adds `PlacesInv`: every archive has a place in the log, in the order of the
  archives, and an open transaction knows its own. `ArchiveEvent` counts places, so this
  takes the lemmas on the n-th element of a set (`NthIs`, `NthStays`).
- `BrowserTypes` and `NoDuplicates`: `BrowserSpec => []BrowserTypeOK` and
  `BrowserSpec => []NoDuplicateCards`, from `TabInv`. A stack of at most one element per
  card (`Pile`) is kept by every way onto the board; a remembered deadline is the place
  of a timer event of its card, which no rollback takes away (`DeadlinesStay`); a card is
  pending only with a request that will release it (`PostsOK`).
- `ArchivedLeave`: `BrowserSpec => []ArchivedCardsLeave`, from `LeaveInv`. First,
  `Effects` says for all steps of the tab at once what may happen to a card: answers are
  new or were under way (`AnswersFrom`), what the tab knows grows by events in the queue
  and answers under way (`NewestFrom`), a card gets up to date only by an answer as new
  as all the tab knows (`ShownFrom`), and an archive that is handled clears the board
  (`ClearedFrom`). The rest goes by these. The invariant is that the tab knows nothing as
  old as the event of an archive that has not committed (`TransactionsHidden`), no
  answer about an archived card is as old as its archive (`AnswersApart`), and
  a card is up to date after its archive was handled by newer news only
  (`BackByNews`).

`BrowserSyncProofs`:

- `SettledInSync`: `BrowserSpec => []OnlyOvertakenOutOfSync`. That a quiet board is right
  is not inductive, so `SyncInv` says what a board is worth while things are under way. A
  fact about a card is always of a place in the log: `NewestAt` is the newest event of some
  types up to a place, `TellsKind`, `TellsText` and `TellsEnd` what it says.
  - `SyncLog`, of the database: a timer event has a deadline (`TimersEnd`); when a card is
    announced as elapsed, the newest timer is over (`ElapsedEnded`), which is why the page
    may show 0:00 for it at once; a card that is still active was added after every archive
    that has ended or has not found it (`ArchivesOlder`, `LeftOver`), so that
    RETRO_ARCHIVED may clear the board without another look; only archives hide events
    (`HidesArchives`). From this and `LogTold`, a card as it is read now is what the log
    tells up to now (`FreshIs`).
  - `SyncStream`: news of a card that the tab does not know is still to come, in order
    (`NewsComes`, `QueueInOrder`): the stream has not passed it and no own id drops it.
  - `SyncAnswers`: each response, fetch and timer answer under way is what the log tells up
    to the place it was read at (`AnswerTells`), which is not before the event it names.
  - `SyncBoard`, card by card (`CardSync`): each field that is not overtaken is what the
    log tells up to `newest`, or a fetch that is due will bring it (`CardFine`); a card that
    is not there is still to be inserted (`Awaited`).

  A deadline is the delicate field: `setCountdown`, `data-elapsed` and the deadline carried
  over by `replaceCard` may each show one that is not the row's, as long as a status change
  that supersedes it is to be fetched (`Supersedes`). The board step has one lemma for each
  route (`FetchBrings`, `BoardResponse`, `PostBrings`) and each listener, all resting on
  two facts: putting an answer on the board is fine at its place (`PutFine`), and what is
  fine stays so when the log grows (`FineStays`). When the board has settled nothing is to
  come (`QuietKnows`), so what is told up to `newest` is told up to the end of the log, and
  that is the row (`KnownInSync`).

Only model-checked: the liveness properties (fairness is out of the prover's reach) and,
naturally, the two refuted properties. The modules that are proved about declare no
RECURSIVE operator; `InOrder` sorts by counting for that reason.

## Not modelled

- CSRF check, security headers and configuration are functions of one request or of
  the environment, with no state, and unit tests cover them. Templates, assets and
  deployment keep no state.
- Of the browser: like counts, the archive dialog, keyboard shortcuts, the columns of
  action items, reloading the page (`HX-Refresh`, which `Pages` has), reconnects (which
  `EventStream` has) and the 200 ids that `appliedEventIds` keeps, far more than requests
  under way.
- Of the pages: action items, which are one more query of the same kind, and letters
  that become two in upper case.
- Row order within a statement, serialization failures of PostgreSQL and the 32-bit
  limit of a duration extended millions of times. NOW() is the time of the step: a
  transaction that waits for a lock writes a slightly earlier one.

## Plan

1. Done: `EventStream`, `Cards`, `Likes`, `Sessions`, `Browser`, `Access`, `Pages`, and
   proofs of all their safety properties.
2. `Browser` on the stream of `EventStream` with its reconnects, and two tabs of one
   user, once an abstraction of the database makes the state space small enough.
