# Nestorage in TLA+

Nestorage keeps track of where a household's things are: items lie in bins,
bins stand in locations, people take items out, put them back and ask each
other for them, and the program tells them by in-app message and email. It is
one Go server (`cmd/server`) over PostgreSQL, with pages that htmx changes piece
by piece, and during a deployment there are for a while two servers. What makes
it hard is not any one handler but what happens when several of them run between
each other's statements, when one of them stops half-way, and when a page goes
on showing what it was told. This directory models that, checks it with TLC and
proves the central facts with TLAPS.

All paths below are relative to `src/`. `PROJECT.json` maps every definition to
the lines it models and lists runs, mutants, findings, hazards and theorems.

## Inventory

| Component | State it keeps | Operations | Where it is hard |
|---|---|---|---|
| Item operations, `internal/storage/app/operations.go` | `item` (bin or holder, time of placement), `item_event` ledger | add, remove, return: one transaction with the item row FOR UPDATE, the domain guard, the move, one event, fulfilment of open requests | several requests for one item; reads outside the transaction; `now()` is the start of the transaction |
| Items, `app/item.go` | the same rows | create, edit, delete (cascades to requests; the ledger outlives the item) | deletion while others use the item |
| Return requests, `app/return_request.go` | `return_request`: open, fulfilled, cancelled; a snapshot of the holder | request, cancel; fulfilled by a put-back | guards and snapshot read before the transaction, without the row lock |
| Bins, `app/bin.go` | `bin`: location, visibility, creator | create, edit, delete (refused while it holds items) | a bin deleted or hidden between a check and its use |
| Bin moves and locations, `app/mover.go`, `app/location.go` | `bin.location_id`, `location` | move a bin (one event per item in it), create, rename, delete a location | two moves of one bin; items entering and leaving; deletions |
| Notifier, `internal/notify/app/notifier.go` | `notification` rows | one insert per channel, after the storage commit | everything after the commit can be lost |
| Email dispatcher, `notify/app/dispatcher.go` | the same rows as an outbox, a claimed batch in memory | claim, resolve, send, stamp, reschedule with backoff, fail | several processes; crash, shutdown and failed calls between send and stamp |
| Preferences and inbox, `notify/app/preferences.go`, `inbox.go` | the email preference, `read_at` | enable email; list, count, mark read | the preference changes while a notice is under way |
| Photos, `internal/media` | `photo`, `item_photo` (position, primary), blobs | upload, delete, reorder, set primary, thumbnails, backfill | rows and blobs without a transaction; positions counted before they are taken |
| Users, sessions, device tokens, `internal/identity` | `app_user`, sessions, `device_token` | set up, login, issue, revoke, reset, demote, deactivate | revocation against a login under way; the last administrator |
| Account api keys, `identity/app/api_key.go` | `api_key` | create, rotate with overlap, revoke, authenticate | two rotations |
| Limiters, `identity/adapter/loginattemptlimiter.go`, `ratelimiter.go` | maps in memory | check, count, sweep | check and count are two critical sections; a full map |
| History and lists, `storage/adapter/history_api.go`, `api_common.go` | a caller's cursor | pages of events, bins, items, locations | the order is not the commit order; rows come and go between pages |
| Labels, `internal/labels` | the size a member printed last | preview, print, download | one layout in three formulas, on sheets of 30, 10 and 1 cells |
| Pages, `storage/adapter/*_web.go`, `media/adapter/photos_web.go`, `notify/adapter/*_web.go`, `web/components` | what is on the screen, requests under way | forms and links; a handler's work, its second read, the swap of a fragment | answers that cross; pages read in several statements; addresses by code and by id |
| Platform, commands | configuration, routes, metrics | start, shut down, migrate | shutdown |

How they interact. A web or API handler calls an application service; the
service reads through the connection pool, then runs its writes in a unit of
work, and after the commit calls the notifier, still in the request. Storage
components share rows, foreign keys and row locks and nothing else. The
notifier and the dispatcher share the `notification` table and no memory.
Media and identity are consulted by reads only.

What makes each component correct. Operations: an item is in one place, each
guard holds of the row it is applied to, and the ledger tells the same story as
the row. Requests: each ends exactly once and for the reason recorded. Moves: a
bin stands somewhere, and every item's trail leads to it. Outbox: a row has one
worker, is settled in the end, and an accepted mail is not repeated. Photos:
what is attached is a photo of a living item, and its bytes outlive its row.
Identity: an active administrator is left, and a revoked credential stays
revoked. Readers: nothing is seen twice, and nothing that stood still is missed.
Pages: what is offered is taken, what is private is not shown, a click reaches
what the screen shows, and a member who is alone sees what is there.

## Modules

| Module | Models | Checked by |
|---|---|---|
| `Custody` | item operations, items, return requests, bins, the ledger | `MCCustody` (two lanes), two configurations |
| `LendingDesk` | what storage promises: the abstract specification of `Custody` | `ImplementsDesk` in `Custody` |
| `CustodyProofs`, `LedgerProofs` | theorems about `Custody`; its refinement of `LendingDesk` | TLAPS |
| `Relocation` | bin moves beside placements and deletions | `MCRelocation` |
| `RelocationProofs` | theorems about `Relocation`, `Timeline`, `Listing` and `LabelSheets` | TLAPS |
| `Timeline` | pages of the history beside transactions that commit late | a lane of `MCRelocation` |
| `Listing` | pages of the sorted lists of the api beside edits | a lane of `MCRelocation` |
| `LabelSheets` | the label screen, its preview, and the layout of a document | a lane of `MCRelocation`; `LabelSheetsPreview.cfg` |
| `Outbox` | notifier and email dispatcher | `MCOutbox`, two configurations |
| `OutboxProofs` | theorems about `Outbox` | TLAPS |
| `Gallery` | photos: rows, links, bytes, the thumbnail backfill | `MCGallery`, three configurations |
| `GalleryProofs` | theorems about `Gallery` | TLAPS |
| `Accounts` | members, sessions, device tokens, revocation | a lane of `MCAccounts` |
| `AccountsProofs` | theorems about `Accounts` | TLAPS |
| `ApiKeys` | the account api key and its rotation | a lane of `MCAccounts` |
| `LoginLimiter` | the lockout of an email after wrong passwords | a lane of `MCAccounts` |
| `RateLimiter` | token buckets in a map that is swept | a lane of `MCAccounts` |
| `LanesProofs` | theorems about the three modules above | TLAPS |
| `ItemScreen` | an item's page: detail, links, photos, history | three lanes of `MCScreens` |
| `BinScreens` | the pages of bins and locations | a lane of `MCScreens` |
| `Inbox` | the inbox page, the bell, the email switches | a lane of `MCScreens`; `InboxBell.cfg` |
| `ScreensProofs` | theorems about `BinScreens`, `ItemScreen` and `Inbox` | TLAPS |

A *lane*: `MCRelocation`, `MCAccounts` and `MCScreens` each hold several
components that share no state. A variable `lane`, chosen at the start, says
which one runs; the others keep their first values. The states of the lanes add
up instead of multiplying, and one run answers for all. The two lanes of
`MCCustody` and those of `ItemScreen` in `MCScreens` run the same component
within different bounds (`InItems`, `InRequests`; `InClicks`, `InItem`, `InGaps`).

### Custody

A *session* is one request served by one goroutine; `op[s]` is what it knows.
Its phases follow the code: `read` (`AddToBin`, `RemoveFromBin`, ...: the pool
reads and guards before the unit of work), `tx` (`Begin`: PostgreSQL fixes
`now()`), `held` (`GetForUpdate`: the row is locked and the domain guard of
`placement.go` judged on it), then a `Commit...` action. At every phase the
session may `Rollback`, which stands for a guard that fails, a database error, a
cancelled context and the death of the server alike.

Three facts about PostgreSQL, READ COMMITTED, are built in: what a transaction
writes is visible at its commit, so its writes appear in the commit action;
`FOR UPDATE` waits for the other holder of the row and then reads what that one
committed; and a foreign key check on insert waits for a `FOR UPDATE` on the row
it names. The item row lock is the only lock that lasts over several statements
in this module, the key-share lock on a bin row being `Relocation`'s subject.
`row` is the `item` table, `req` `return_request`, `log` the events of each item
in commit order, `visibility` the bins, `clock` the database's clock.

Data is abstracted to what the properties tell apart. An edit changes something
or it does not; a bin has a visibility and a creator, no name, code or owner;
there is one household, so the household filters of the queries are true. The
field `asked` of a request is not a column: it remembers the length of the
ledger when the request was recorded, so that the request can be compared with
what came after. Error answers have no state and are left out: a refused
request is a session that rolls back or a `read` step that never happens.

`LendingDesk` is the same system for somebody who knows no database: every item
is in a bin, with a person, not there yet or gone, and a set of people wait for
it. It has six steps. `Custody` implements it under the mapping *at = the
placement of the committed row*, *wanted = the requesters of its open requests*.

### Relocation

`Custody` treats the location of a bin as given; `Relocation` treats the custody
of an item as "in this bin or not". The move is in its code's steps: the reads
through the pool (`ReadMove`), the lock and the second `MoveTo` (`LockBin`), the
UPDATE whose foreign key needs the target (`UpdateBin`), the list of items
(`ListItems`) and the commit. Placing an item is in two steps here, because from
the UPDATE to the commit its foreign key holds the bin row FOR KEY SHARE, which
conflicts with FOR UPDATE and with DELETE. That conflict is what
`TrailFollowsItem` rests on: the module's mutant without it fails.

### Outbox

One row per notice and channel. The notifier's steps are the storage commit,
the read of the preference and one insert per channel, each of which can fail.
A dispatcher is a process: up, stopping (context cancelled) or down, with a
batch in memory and one row under way in a stage of `deliver`. A database call
either does its work and says so, or fails, or does its work and its answer is
lost (`ClaimDue`); for the settling calls the latter two look alike to the
process, and the row is where the call left it. One `Send` is up to
`SdkAttempts` tries of the AWS SDK (`sesRetryMaxAttempts`), each of which may
deliver the message and lose its answer. `sends` counts messages that reached
the provider, also those whose `Send` reported an error; `accepted` the rows
whose `Send` reported success; `lost` the rows whose settling call failed or never
ran. None of the three is in the program: they are there for the properties.
Time is counted in minutes until `next_attempt_at`. Batches are chosen freely
among the due rows, so the order of the queue is not in the model, and neither
are the texts of the messages.

### Gallery

No transaction anywhere: every statement of an upload, a deletion, a move or the
backfill is a step, as is every call to the photo store, and a session may stop
between any two. The key of the bytes is the item and the hash of the content,
so that two uploads of one picture to one item meet. `raced` and `rival` mark an
upload that put its bytes while a deletion of the same key was under way, which
is the one case in which bytes can go before their row (`gallery_bytes`).
`calm` marks a reorder that nothing has disturbed. Pictures are members of a
small set; whether a thumbnail can be made is a free choice. The backfill takes
its photos one by one: the list it reads at the start of a batch only fixes an
order.

### Accounts, ApiKeys, LoginLimiter, RateLimiter

In `Accounts` a request is a goroutine with what it has read. A password is
checked and hashed outside any transaction, and a session is written when its
request ends, by an upsert. A member's `epoch` counts the events that are to end
his credentials; a credential carries the epoch it was proved under, so that
"outlives the revocation" is `epoch < settled`, and `late` marks the rows that a
request from before wrote afterwards. The guarded update of an administrator
locks the rows of all active ones (`locks`), and the setup wizard looks twice,
the second time under an advisory lock. Expiry, cookies and colours are left
out. `ApiKeys` has the read of the current key and the transaction of a
rotation apart. `LoginLimiter` has the check, the password hash and the count
apart, the clock moving in between by at most `Lag`; `RateLimiter` runs a
limiter that forgets nobody beside the real one and compares them, for any
rate, burst and window: the configuration is not asked whether they fit.

### Timeline, Listing, LabelSheets

`Timeline` has transactions that begin, which fixes the time of their event, and
commit later, and a reader with the keyset cursor. `Listing` has the window that
`page` takes of the whole sorted list behind the row that the cursor names.
`LabelSheets` has the form with its radio button and hidden offset, the fragment
of the picture with its request under way, and the renderer, label by label,
with the real dimensions of the three sizes in hundred-thousandths of a
millimetre. Drawing is cut short when the context of its request ends, and then
there is no document; nothing else happens while one is drawn, since it reads
nothing after the list of bins. The orders of the queries (`NewestFirst`,
`Sorted`, `Listed`) are a CHOOSE over enumerations.

### ItemScreen, BinScreens, Inbox

The other modules treat a request as what it does to the rows; these treat it as
what the member sees. A click is a form that the page on the screen offers; the
handler does its work or refuses; it reads what it will show, in one or two
statements, while the household goes on; htmx puts the answer in place when its
status is 2xx and the element that the form named when it was sent is still on
the page. What an operation does is one step here; that operations interleave
is the matter of the other modules.

`ItemScreen`: four sections with ids of their own. `age` counts the changes of
the item, and a section carries the age it was read at. The detail's answer takes
photos and history away and brings stubs that load themselves. A detail is read
in three statements, item, links and open request, with the household going on
between them. Photos have positions, of which a gallery shows only the order
(`View`). An upload attaches at the number of photos, and when that position is
taken it is refused and leaves a row behind; a move stages the photos above their
number and stops at a position that is taken, with what it has staged left there
(`Refuses`). Each call of a handler can fail: of the work (`CutOff`: nothing is
done, or a part, or all of it), of a read that follows it (`ReadFails`) or of a
stub (`LoadFails`); the answer is then plain text and the page stays. `alone`
says that since the page was opened nobody else changed the item, no two clicks
were under way at once and no call failed: with two clicks, the answer to the one
may have been read before the other's change and be put in place after it, and
the page is stale until the next click. `BinScreens`: one page at a time; a bin's page and its edit form are
addressed by the code, move and deletion by id, and a code may go to another bin.
`Inbox`: the page, the bell that loads its count by itself, and a settings page
with one switch per kind of event; `calm` is its `alone`.

## Runs

Two workers; each run ends in under five minutes.

| Run | Bounds | Shows |
|---|---|---|
| `custody`, items | 1 person, 1 item, 2 public bins, 2 sessions, 3 events, 2 clock readings | `TypeOK`, `LockedRowIsStable`, `PlacedBinExists`, `LedgerMatchesPlacement`, and the four below |
| `custody`, requests | 2 people and the api key, 1 item, 1 bin public or private, 2 requests, 2 sessions, 5 events | `RequestFateInLedger`, `HolderTookTheItem`, `ChainOfCustody`, `ImplementsDesk`, and the four above |
| `relocation`, moves | 2 bins, 3 locations, 1 item, 2 movers, 4 events | `TypeOK`, `BinStandsSomewhere`, `TrailFollowsItem`, `MovedMeansMoved` |
| `relocation`, readers | 4 events at 3 times, 3 rows with 2 names, pages of 1; 3 bins, batches of 2 labels | `HistoryIsWhole`, `ListIsWhole`, `LabelsAreRight` |
| `outbox` | 2 notices, 2 processes, batches of 2, 2 attempts of 2 tries, 1 fault, with fairness | `TypeOK`, `OneCarrier`, `SendsAreCounted`, `InAppStaysDelivered`, `NoSendAfterAcceptance`, `PendingIsSettled` |
| `gallery` | 1 item, 2 pictures, 2 photo rows, 2 sessions, 1 stop | `TypeOK`, `AttachedIsReal`, `BytesOutliveTheirRow`, `CalmReorderSucceeds` |
| `accounts`, members | 2 members, 1 browser, 1 device, 2 requests, 1 change each | `TypeOK`, `AdminRemains`, `OneFirstAdmin`, `RevocationReachesAll` |
| `accounts`, others | 3 keys, overlap 0 or 2 days, 3 days; 2 emails, threshold 1, window 3, lag 1; 2 clients, map of 1; clock to 7 | `KeysChangeHandsWhole`, `LockHolds`, `SweepIsBounded` |
| `screens`, clicks | 1 visible and 1 hidden bin, 1 photo, 2 clicks under way, 2 changes, no failed call | `CalmClickIsTaken`, `HistoryNotBehind`, `OwnPageIsCurrent` |
| `screens`, item | 1 bin, 1 link, 2 photos at 0 and 1, 1 click at a time, 2 changes, any call can fail | the same |
| `screens`, gaps | as before, with the photos at 2 and 3 and 1 change | the same |
| `screens`, bins | 2 bins, 2 locations, 1 code, 3 deeds of others, 1 request at a time | `PrivateStaysUnseen`, `NoNameMeansMoved`, `OwnScreenIsCurrent`, `MovesWhatItShows` |
| `screens`, inbox | 3 rows, a list of 2, 1 kind of event, 2 clicks under way | `InboxIsTrue` |
| `custody_stale_holder` | as `custody`, requests, with 1 request, 6 events | `HolderSnapshotFresh` fails |
| `outbox_shutdown` | as `outbox`, 1 try | `InFlightBatchIsSettled` fails |
| `gallery_bytes` | 1 picture, 2 rows, 2 sessions, no stop | `AttachedHasBytes` fails |
| `gallery_shown` | 3 pictures, 3 rows, 1 session, no stop | `UploadIsShown` fails |
| `labels_preview` | 1 bin, batches of 2 labels | `PreviewMatchesPdf` fails |
| `inbox_bell` | 2 rows, 1 kind of event, 1 click | `BellShrinks` fails |

Six properties of the table are conjunctions, stated in the MC module, of two or
three properties of a lane's module: `HistoryIsWhole` (newest first, and whole),
`ListIsWhole` (no row twice, none missed), `LabelsAreRight` (the sheets are
filled, labels lie apart), `KeysChangeHandsWhole`
(a current key until it is revoked, retirement is final), `LockHolds` (the count
passes the threshold only behind a lock; a lock stands) and `InboxIsTrue` (the
page is current, the bell is never too low, an undisturbed click is obeyed). Each part
has a mutant of its own.

Why the bounds are enough. Every race in storage is between two holders of one
row, so two sessions and one item make it happen; a third session can only wait
behind the two. Items do not touch each other's rows, so a second item only
multiplies the states. A request's life needs an item created, taken, asked for
and put back (4 events), and a second person's request or a cancel beside it
(5); an item that is created, removed and put elsewhere or deleted needs 3. Two
bins are needed where an item can enter another bin than the one it left. Two
clock readings tell BEGIN from lock and commit. A bin that moves twice needs
three locations. Two processes are what a deployment has; two rows fill a batch;
of two attempts one is first and one last. Faults cover one crash or lost call.
The SDK is given three tries; two are a first and a last, and how many there are
bears on no step but the count.

A gap between two photos needs three (`gallery_shown`); collisions of uploads,
deletions and moves need two rows of one item and two sessions. Two members are
the fewest who can demote each other. Three keys are an incumbent and what two
rotations make of it. Pages of one row put a boundary behind every row. With one
code for two bins a code can change its bin; with two locations a bin can leave
one that is then deleted. Two clicks are the fewest that cross; links, photos
with gaps and failed calls are checked with one click at a time, since crossing
answers do not depend on what a section holds; one change shows what gaps do to a
page, being the change that a form of the page makes. Two photos at 2 and 3 are what is
left of four, and the fewest that a move cannot stage. The token buckets of the
run hold four calls and are forgotten when two have come back, so that a sweep
can be noticed. The inbox has a
row more than its list shows; of the two kinds of event one is kept, since every
property of the switches is about clicks that do not cross.

`MaxEvents`, `MaxClock`, `MaxFaults`, `MaxEpoch`, `MaxChanges`, `MaxDeeds`,
`MaxRows` and `Offered` are bounds of the model, not of the program, and each
has a guard of its own. So have the other bounds, named in the comments: a page
is opened while no request of the old one is under way (`ItemScreen`, `Inbox`),
a member has one request of `BinScreens` at a time, and row ids are not reused.

The lanes of `Custody` offer different verbs, because all eight at once with two
requests are out of reach: where nothing is asked for, items are put back by "add",
which takes them from a holder as "return" does; where return requests are made
nothing is edited, and the api key adds what the others return. A bin is private
where there is somebody who may not see it. All runs go without
deadlock checking: a household may stop using its program, and the bounds stop
the rest. What is interchangeable is permuted by symmetry where only safety is
checked; the runs of `Outbox` use none.

### Fairness

All modules but `Outbox` are safety only: a client need not come, a
transaction may always be abandoned and a request may always fail. `Outbox` assumes weak fairness of three
things for each process that is up: its ticker fires while rows are due
(`ClaimDue`), the calls of `deliver` return, one way or the other (`Deliver`:
the SDK, the pool and the context bound them), and a cancelled `Run` returns;
and that time passes (`Tick`). Nothing is assumed of `Start`, of the notifier,
of clients or of shutdowns, and no call is assumed to succeed:
`PendingIsSettled` holds because a failed send costs an attempt. Weak fairness
suffices for `ClaimDue` because rows stay due until they are claimed.

### What the failing runs say

Each contradicts a sentence of the repository; the findings in `PROJECT.json`
quote them.

* `custody_stale_holder`: the holder snapshot of an open request can be stale
  from the start. `HolderTookTheItem` is what does hold: the holder named did
  take the item earlier, and is not the requester.
* `outbox_shutdown`: a shutdown strands the batch in flight. The rows remain
  claimed, which `PendingIsSettled` has to except (`lost`), and no code returns
  to them.
* `gallery_bytes`: an upload of a picture whose old photo is being deleted can
  end with a row whose bytes the deletion then removes. `BytesOutliveTheirRow`
  is what holds: this is the only way.
* `gallery_shown`: after a deletion in the middle the count of photos is a
  position that is taken, so the next upload fails behind its row; repeated, it
  is answered with that row, which no gallery shows.
* `labels_preview`: the radio buttons of the label form send `size_id`, and the
  preview reads `size` (`internal/labels/adapter/print_web.go:218`). Every
  request for a picture is refused, on a change of size and on a tapped cell, so
  the picture stays what it was when the page was opened and the document is
  another. `LabelsAreRight` is about the document alone.
* `inbox_bell`: the bell's stub listens for `notifications-updated`, but the badge
  that takes its place does not (`web/components/notifications.templ:54-76`), so
  it counts a row that has been marked read until the next page.
  `BellNeverTooLow` is what holds.

### Seen while modelling

These follow from reading the code, and no run is spent on them.

* Once photos have been deleted, the staging positions of a move can be taken
  (`internal/media/adapter/photo_postgres.go:293`): of four photos with the first
  two deleted, every move that the gallery offers is answered 500, though
  `Reorder` "rewrites itemID's attached photos' positions to match order's
  sequence" (`internal/media/domain/ports.go:211`). Of photos at 0, 1, 2 and 6,
  moving the first down stages two and stops at 6: the stored order has changed,
  the answer is plain text, and the page keeps the old order. `ItemScreen` and
  `Gallery` have both; `CalmClickIsTaken`, `OwnPageIsCurrent` and
  `CalmReorderSucceeds` except photos with gaps for it.
* Ten minutes do not outlast every configured rate, as the comment of
  `staleRateLimiterKeyWindow` has it (`internal/identity/adapter/ratelimiter.go:26-28`;
  `RateLimitConfig.Validate` asks only for positive numbers). At one call a minute and
  bursts of twelve a bucket takes twelve minutes to fill, and a client swept after
  eleven has a call more. `SweepIsBounded` is what holds for every configuration.
* A login that was verified with the old password, or a request that had loaded
  its session, can save a session after the revocation has listed them
  (`internal/identity/app/admin.go:38-41` says otherwise). `RevocationReachesAll`
  is what holds: only such rows are left.

* Refused forms are answered with a 4xx and the form with its message. htmx 2
  does not put a 4xx in place unless told to, and nothing here tells it, so the
  message is never seen; the screens modules have refusals leave the page alone.
* Bell and list count the email twin of an in-app row as a row of its own; each
  is marked read by itself. Unread rows beyond the fiftieth are counted and
  cannot be marked.
* An admin's private bin is the creator's, whoever saves the form: a member who
  makes another's bin private is answered with a page that is not there.
* The edit form of a bin is addressed by code and writes every field back. An
  edit made in between is lost, and when the code has gone to another bin that
  bin is written. `MovesWhatItShows` is about moves and deletions, which are
  addressed by id.

### Mutants

Each property of a passing run has a mutant: an operator beside the one it
mutates, with a comment that says which slip it stands for (a lock left out, a
status forgotten in a WHERE clause, a foreign key that does not restrict, a cap
compared one too late, a page that is not read again). With it in place the run finds the property violated.

## Proofs

TLC answers for the sizes above; the theorems hold for every set of users,
bins, items, requests, sessions, photos and processes and every value of the
bounds. They rest on the named assumptions of the modules, which TLC evaluates:
bounds and durations are natural numbers (batch size, attempts, the tries of one
`Send` and the lockout window at least one), photos are finitely many, administrators are users, and the value used for NULL, for
no entry or for the api key is none of the values it stands beside
(`CustodyAssumption`, `RelocationAssumption`, `OutboxAssumption`,
`GalleryAssumption`, `AccountsAssumption` with `NullIsNoRow`, `LanesAssumption`,
`ItemScreenAssumption`, `ScreensAssumption`, `ReadersAssumption`; the last also
says that ids, names and codes are ordered as numbers are, that a table has
finitely many rows, and that a page has at least one).

None of the properties is inductive as it stands. What follows says, for each
module, what has to be known besides, and why.

**Custody**, in `CustodyProofs`. `TypeOK`, `SessionsJustified`,
`LockedRowIsStable` and `LedgerMatchesPlacement`. That a commit keeps the ledger
in step with the row needs that the row is still the one the guard judged
(otherwise a "removed" could follow a "removed"), which needs that nobody else
can hold it; that a deleted item's ledger ends with its deletion needs that no
request event comes later, hence that a commit under way has its item, and that
open requests belong to existing items. The invariant `Kept` is the conjunction
of four parts:

* `Sound`: types, and what each session has checked so far;
* `Locking`: a session past `GetForUpdate` holds its row, unchanged, and a row
  has one holder;
* `Lending`: an open request's item exists, and a person has at most one on it;
* `LedgerMatchesPlacement`.

The induction does not go through the twenty actions for each part. Each action
is first shown to be one of seven *ledger steps* (introduce, take, put, edit,
destroy, ask, withdraw) or quiet, in which the rows, requests and ledger stay;
the parts are then preserved by the steps, one lemma each.

**Custody, what the ledger tells**, in `LedgerProofs`. `PlacedBinExists`,
`HolderTookTheItem`, `RequestFateInLedger`, `ChainOfCustody`, and the refinement
`ImplementsDesk`. They add to `Kept` the invariant `Told`: the properties
themselves, that the holder a session has read did take the item earlier
(`SeenTook`, since the request is recorded from an unlocked read), and that an
item whose ledger tells its deletion has no row again (`GoneIsGone`). The
refinement is a simulation by ledger steps: initial states map to initial
states, each of the seven steps to its step of the desk, and an edit or a quiet
step to a stutter.

**Relocation**, in `RelocationProofs`. `TypeOK`, `BinStandsSomewhere`,
`TrailFollowsItem` and the action property `MovedMeansMoved`, from `Guarded`:
the bin that a mover has locked stands, elsewhere than where it goes, and what
it has listed is all that is in it (`MoveJudged`); FOR UPDATE and the key-share
lock of a placement exclude each other (`LocksExclude`); and a bin that an item
row names stands (`NamedBinsStand`). The list stays complete until the commit,
one statement later, because of `LocksExclude`.

**Outbox**, in `OutboxProofs`. `TypeOK`, `OneCarrier`, `SendsAreCounted`,
`InAppStaysDelivered` and the action property `NoSendAfterAcceptance`, from the
invariant `Kept`. Its parts beyond the properties: a row exists only once its
notifier step has run (`NotYetInserted`); a process has a current row exactly in
the stages of `deliver` (`WorkIsInOrder`); a pending row is unstamped; `Budget`,
the count of messages by stage, which is what `SendsAreCounted` needs to be
inductive (a row under way may have cost one `Send` more than it counts); and
`AcceptedIsOut`, that an accepted row is neither pending nor at a stage before
the send. `NoSendAfterAcceptance` is the last one read as an action property.

**Gallery**, in `GalleryProofs`. `TypeOK`, `AttachedIsReal`
and `BytesOutliveTheirRow`, from `Hung`: a key belongs to one photo
(`KeysUnique`), positions of an item's photos differ (`LinksApart`), an upload
that met no deletion of its key has its bytes and meets none (`UploadsHoldBytes`),
nobody is removing the bytes of a row that is there (`RowsNotDeleting`), and the
backfill has stored the thumbnail it is about to record (`BackfillHoldsThumb`). The order of a gallery is a CHOOSE over sequences:
`SortedEnumerates` shows that a finite set with distinct positions can be listed
in their order, so that the CHOOSE has a witness. `CalmReorderSucceeds` needs an
invariant of its own, `CalmOrder`: how far the two passes of a calm reorder have
come, which photos are still at their old positions, which at their passing ones
above them, and which at their final ones. From it follows that every update of
a pass finds its position free and that the last one leaves the order asked for.

**Accounts**, in `AccountsProofs`. `TypeOK`, `AdminRemains`, `OneFirstAdmin` and
`RevocationReachesAll`, from `Accountable`: the rows that the guarded update has locked are
active administrators and one of them is another than the one it takes away
(`LocksHold`); a founder is a member and the only one (`FirstAdminKnown`); what a
request has read of its member, and the epoch it proved, are no later than the
member's row (`WorkKnown`, `CredentialsKnown`); a session that a revocation under
way must take and that is not late is on its list (`RevocationCovers`).

**ApiKeys, LoginLimiter, RateLimiter**, in `LanesProofs`, as theorems of
`LaneSpec`, with the maps of the other lanes empty. `KeysChangeHandsWhole`: the
incumbent a rotation has read is still a row, and the unique index makes it the
current key if there is one. `LockHolds`: an entry's count is past the threshold
exactly when it has a lock that was alive when it was last touched, and
(`EntrySound`) no lock ends later than the window and a check's length after the
last touch, so that the sweep, which goes by the last touch, never takes a lock
that has more than a check's length to run. `SweepIsBounded`, from
`BucketsKept`: a remembered bucket was last asked when the ideal one was, and has as
many tokens or more, by no more than the bound (`Near`); and the ideal bucket of
a client without one is full, could be, or has had the window to refill
(`Rested`), which is what a sweep waits for (`SweptHaveRested`). That a client
can be forgotten again and again does not add up, because each time his new
bucket is compared with the ideal one as it is then (`AskedNear`). Rates, bursts
and windows are any natural numbers, so the prover is told how their products
are ordered (`ProductsOrdered`).

**BinScreens**, in `ScreensProofs`, as theorems of `LaneSpec`:
`PrivateStaysUnseen`, `NoNameMeansMoved`, `OwnScreenIsCurrent` and the action
property `MovesWhatItShows`, from `BinsKept`. What is on a page, or in a request that
has read half of one, is no state of the household any more, so the invariant
says of it only what no later change takes back (`PageTrue`): the bin of a card
has been public or is the member's, its location has existed, a location without
a name is gone, a bin's page has the bin that had its code. `Onward` names what
no change takes back and `PagesStayTrue` that pages therefore stay true, so that
each of the eleven changes of the rows is looked at once (`HouseStands`), whoever
makes it. What is current (`Now`, and `HalfNow` between the two statements of a
page) is claimed only while nobody else has done anything since the request, and,
of the screen, while no request of the member is going to replace it. An answer
that finds nothing after a move is dropped and would leave an old page there;
that the bin is still visible then (`TaskNow`) is why this cannot happen to a
member who is alone.

**ItemScreen**, in `ScreensProofs`. `CalmClickIsTaken`, `HistoryNotBehind` and
`OwnPageIsCurrent`, from `ItemKept`. A section carries the age of the item it
was read at, and where that is the age of the item now the section tells the
truth (`PageAt`): every change, also one that breaks off, makes the item older by
one (`Moves`), so nothing has to be known of what it did. A half-read detail is
judged by its first read alone (`HalfAt`, `LinkedAt`), and its links by their own
age. A form remembers what its section offered, and a form as old as the item is
one that the services take (`Takes`, `ClickAt`); for uploads and moves that needs
positions without gaps, of which it follows, by counting, that the number of
photos and the positions above it are free. For the member who is alone
(`AloneAt`) at most one click is under way, and the page is as old as the item
but for the sections which the answer under way will bring (`PageNow`, `Awaited`,
`AnswerNow`); that the detail's answer takes photos and history off the page and
brings stubs is what makes these the right ones. Of photos with gaps nothing is
claimed but that they are as old as they say.

**Inbox**, in `ScreensProofs`. `InboxIsTrue`, from `NoticesKept`. In a calm
(`CalmIsTrue`) the bell's count lies between the unread rows and all rows, since
rows are marked read without it (`BellNotLow`); and nothing is under way and the
page shows what there is, or one request is, and its answer will. That the
short list is all there is when it is shorter than the page allows is a fact
about cardinalities of sets of row numbers.

**Timeline and Listing**, in `RelocationProofs`. `HistoryIsWhole` and
`ListIsWhole`, as theorems of `LaneSpec`. `SortedExists` shows, by counting for
each member those up to it, that a finite set with distinct keys can be listed
in the order of the keys, so that the CHOOSE of each query has a witness, and
`SortedEnumerates` that such a list names every member once. For the history
(`ReaderTrue`): what is shown is in order and ends at the cursor, and an event
that was there at the start has been shown or lies below the cursor; an event
that commits later can lie on either side without harm, because its key never
changes once it is seen (`EventsGoOn`). For the lists (`ShelfTrue`), where rows
do move: of the rows that stood still, those up to the cursor's key have been
shown once and those behind it not yet, unless the cursor's row is lost.

**LabelSheets**, in `RelocationProofs`. `LabelsAreRight`, from `LabelsKept`: the
labels drawn so far lie on their places and the next comes on the cell behind
them, on this page or a new one (`DocTrue`). `PlacesRise` and `PagesRise` are the arithmetic: places
go up by one from cell to cell and from page to page, for sheets of 1, 10 and 30
cells. From it follow that each place has one cell and that no sheet is empty. The
geometry (`CellsLieApart`, `PartsLieApart`) is shown size by size.
`LanesRelocate` says that the moves in the lanes are those of `Relocation`'s Spec.

Only model-checked: `PendingIsSettled`, since liveness under fairness is beyond
the prover, as is ENABLED. No module here uses a RECURSIVE operator. A fold over
data of any length would be out of reach as well (induction over data), which is
why the renderer is modelled by the steps of its loop.

## Plan

Done: `Custody` with `LendingDesk` first, being the purpose of the program; then
`Relocation` and `Outbox`; then `Gallery`, `Accounts`, `ApiKeys` and the
limiters; the readers and the labels; the pages; and the proofs of every safety
property that the passing runs check.

Next: the hazards without a property, of which the repeated call of an api
client and the connection pool need a model of the client and of the pool.

## Not modelled

Photo validation, EXIF scrubbing and thumbnailing are pure functions of image
bytes. Text search and the views of owners are single reads of rows that others
write. Configuration, routing, metrics and the peer probe keep no state that
another component relies on; migrations run before the server; the page shell
and the icons are layout. The pages of users, devices, api keys and login are
forms over the operations of `Accounts` and `ApiKeys`, without fragments that
cross. The connection pool is not a resource here: that a check-out takes a
second connection while it holds one (`app/operations.go:239`), and as many of
them as the pool has connections wait for each other, is listed as a hazard
without a property; so is a client of the api who repeats a call whose answer it
lost. Names, descriptions, quantities, owners and texts are left out
everywhere.
