# TLA+ models of socAdmin

socAdmin is a Go server that lets its accounts administer MySQL, PostgreSQL and
MongoDB servers from a browser. It keeps its own state (accounts, sessions,
saved connections, login attempts, the IP whitelist, settings) in one SQLite
file, and the rest in memory: one database connection per account, the request
counters of the rate limiters, the loaded whitelist. A second process, the
password reset of the command line, may open the same file.

Beside the server the repository has its web client (React, TanStack Query) and a
desktop manager (Wails: a Go process and its window) that starts and stops the
server and the database engines of the machine.

Nothing in the server spans two SQL statements with a transaction, and every
request is a goroutine. The models of the server therefore take **one SQL
statement, or one critical section of a mutex, as the step**; between two of them
anything else may run, a statement may fail, and the process may stop. In the
client and in the window JavaScript runs one callback at a time: there **one
handler, one answer or one event is the step**, and what may come between is
whatever else was awaited, in any order. Each `await` of a handler ends a step.

## 1. Inventory

| Part | Code | State | Operations | What makes it hard |
|---|---|---|---|---|
| Accounts and sessions | `core/service/auth_service.go`, `core/auth/repository.go`, `core/auth/jwt.go`, `core/auth/role.go`, `core/controller/auth_controller.go` | tables `users`, `refresh_tokens`; signed claims held by clients | register, login, refresh, logout, change password, list, create, delete, change role | check and update are separate statements; errors of revocations are dropped; a role is believed from the claims |
| Start and reset | `main.go`, `cli_reset.go` | the same tables, `settings` | migrate and promote the first user, clean tokens, provision `ADMIN_EMAIL`, reset a password | a second process writes while the server runs; stops at any point |
| Login throttle | `AuthService.Login`, `login_attempts` | recent attempts per (email, IP) | count, record, clear | count and record are separate statements |
| Rate limiters | `core/api/rate_limiter.go` | map from IP to timestamps | `IsAllowed`, `cleanup` | lazy pruning and a ticker goroutine touch the same slices; boundaries in time |
| IP whitelist | `core/security/ip_whitelist.go`, `core/controller/security_controller.go`, `main.go` | set in memory, tables `ip_whitelist` and `settings` | add, bulk add, remove, toggle, load | two copies written one after the other, in two spellings |
| Database sessions | `core/service/database_service.go` | map from account to connection, one mutex | connect, disconnect, idle cleanup, shutdown, the read that begins each statement | dials hold the mutex; connections are used after it is released; requests read the map more than once |
| Saved connections | `core/controller/connection_controller.go` | table `saved_connections` | save, list, use, delete | foreign key to `users` |
| Database controller and connectors | `core/controller/database_controller.go`, `core/connector/*` | none of their own | forward statements, import, export, watch a collection | multi-statement operations without transactions; a streaming goroutine |
| Export, backup | `core/service/export_service.go`, `core/backup/*` | none | format rows, pipe external tools | I/O |
| Filters and helpers | `core/api/router.go`, `csrf.go`, `security.go`, `core/auth/middleware.go`, `core/security/crypto.go`, `core/logger` | none | whitelist, limit, CSRF and authentication in that order | their composition |
| Dashboard views, query cache | `frontend/src/pages/dashboard/*`, `components/layout/sidebar.tsx`, `hooks/mutations/*`, `requests/*` | the cache of queries, requests in flight, dialogs | load, submit, invalidate, leave and return, navigate | a request must invalidate what it changes; callbacks that are lost with their view; keys that bypass disabled buttons |
| Table view | `pages/dashboard/table-view.tsx` | the rows shown, the inline edit | edit in place, save on blur, sort, search, page | the edit knows a place, the rows move |
| Database view | `pages/dashboard/database-view.tsx` | ticks, confirmation | tick, drop, truncate, in bulk | the ticks survive a change of database |
| Structure view | `pages/dashboard/structure-view.tsx` | the column dialog | add, rename, modify, drop | two requests without a transaction |
| Document view | `pages/dashboard/document-view.tsx` | filter, page, panels | filter, page, explain, distinct, select | late answers; partial resets |
| Query editor | `pages/dashboard/query-editor.tsx` | history per tab, `localStorage` | execute, clear | whole lists overwrite each other |
| Client session | `lib/custom-fetch.ts`, `stores/*`, `App.tsx`, `pages/login.tsx` | cookies shared by tabs, what each tab awaits | call, refresh once and retry, log in and out, change the password | several tabs, answers late or lost, rotating tokens |
| Manager: server | `manager/app.go`, `tray.go`, `manager/frontend/src/App.tsx` | server process, port; status and spinner of the window | start, stop, wait for the port, poll | start overlapping stop, two callers, events without an owner |
| Manager: databases | the same two files | goroutines, `installMu`; flags of the tab | install, uninstall, start, stop | flags guessed from events, polls and timers |

How they interact. A request passes the whitelist, a rate limiter, the CSRF
filter and the authentication (which yields claims) before a controller runs.
The account handlers read and write SQLite; the database handlers read the
session map and talk to an external server; `UseSavedConnection` goes from the
one to the other. `main.go` loads the whitelist and the keys from SQLite, starts
the two cleanup goroutines and serves. The web client turns a 401 into one refresh and one retry;
its views send requests, and their answers invalidate queries of one cache. The
manager starts the server as a child process and hears of it by events, which the
databases tab and the server tab of its window both receive: the same `app:error`
ends the spinner of the one and the flags of the other.

The properties each part owes its users are the property comments in the modules;
`PROJECT.json` lists the hazards they are aimed at, each at its line. Smaller ones
that no property is about, some of them actions of the models: the dropped errors of
a revocation and of the record of a login attempt (`auth_service.go:142`, `:105`);
the promotion at every start (`repository.go:31`); expiry compared as text
(`repository.go:285`); a list that cannot be read at start (`main.go:91`); a forced
shutdown that skips `Shutdown` (`main.go:248`); a column altered by up to three statements (`postgres.go:348`);
two toggles of the whitelist that save in the other order than they set
(`security_controller.go:57`); a type read before a connection that may have moved
(`database_service.go:263`); an answer that closes a dialog or a cell opened since
(`structure-view.tsx:301`, `table-view.tsx:333`), a panel that
is not reset (`document-view.tsx:374`), bulk errors that are not shown
(`database-view.tsx:150`), a restore that empties the target of the next
(`all-databases-view.tsx:130`), health checks answered out of order
(`use-health-check.ts:22`), and an uninstall while a start is pending
(`manager/frontend/src/App.tsx:921`).

## 2. Modules

| Module | Models | Reads as |
|---|---|---|
| `Auth` | accounts, sessions, start, password reset | specification |
| `MCAuth` | symmetry sets for TLC | instance |
| `Auth_proofs` | the theorems about `Auth` | proofs |
| `LoginThrottle` | the throttle of `Login` | specification |
| `MCThrottles` | `LoginThrottle` and `RateLimiter` in one run | instance |
| `SlidingWindow` | what "sliding window rate limiting per IP" promises | abstract specification |
| `RateLimiter` | the map, the pruning, the cleanup goroutine; implements `SlidingWindow` | specification, refinement |
| `Throttles_proofs` | both throttles, and the refinement | proofs |
| `Whitelist`, `MCWhitelist`, `Whitelist_proofs` | set, tables, handlers, load | specification, instance, proofs |
| `DbSessions`, `DbSessions_proofs` | the session map of `DatabaseService` | specification, proofs |
| `Views` | what every view offers: queries, operations, guards, invalidations | data |
| `Workspace` | one view over the query cache, with requests in flight | specification |
| `ClientSession` | the session of several tabs | specification |
| `Browser_proofs` | `ClientSession` and `Workspace` with the table `Views` | proofs |
| `MCBrowser` | `Workspace` and `ClientSession` in one run | instance |
| `TableView`, `DatabaseView`, `DocumentView` | the inline edit; the ticks; filter, page and panels | specifications |
| `StructureView`, `QueryEditor` | the column dialog; the query history | specifications |
| `BrowseViews_proofs` | these five views | proofs |
| `ServerControl`, `ServerControl_proofs` | the manager's server, with its window | specification, proofs |
| `ServiceControl`, `ServiceControl_proofs` | the manager's database engines, with its window | specification, proofs |
| `MCViews` | the five views above and `ServiceControl` in one run | instance |

`MCThrottles`, `MCBrowser` and `MCViews` put parts that share no state into one
run: the first state chooses which part a behaviour is about, and the others
stay. Nothing is composed there; it spares a run of its own for each part.

### Auth

`user`, `token` and `saved` are the tables; a row never issued, live, revoked or
deleted is one record with a `state`. AUTOINCREMENT never reuses a rowid, so an id
is fresh once. `claims` holds the access tokens that have not expired: the server
does not store them, it accepts whatever it signed. `req[r]` is the program
counter of a request and the values it read earlier: what can be stale.

Handlers are split at their SQL statements. Register is `RegisterCount`,
`RegisterFind`, `RegisterInsert`, `Issue`; login is `LoginFind`, `Issue`; refresh
is `RefreshFind`, `RefreshRevoke`, `RefreshUser`, `Issue`, or `RevokeAll` when the
token was revoked already; a password change is `ChangeFind`, `UpdatePassword`,
`RevokeAll`; a role change `RoleList`, `RoleUpdate`; a deletion `DeleteList`,
`DeleteTokens`, `DeleteUserRow`. `CliStart`, `CliFind`, `UpdatePassword` and
`RevokeAll` are the second process. The two foreign keys (`_foreign_keys=on`) and
the UNIQUE email are guards of the statements they refuse. `StatementFails` ends a
handler that returns the error, `RevocationFails` lets go on a handler that drops
it. `Restart` abandons the server's requests at any point, promotes the first
user, deletes expired tokens and provisions `ADMIN_EMAIL`. Requests that end
without writing are stutters.

`settled`, `lastAdmin`, `selfRegistered` and the fields `from` and `pw` of a token
are history: no guard reads them.

Left out: hashing and validation of passwords and emails (a request carries a
valid one or is refused, which is a stutter), cookies, logging, the 7-day removal
of revoked rows (a row revoked for 7 days has expired, since tokens live 7 days),
and the order of rows. `Tick` waits until no request stands between the read of a
user and the signature of its claims: a tick is minutes, that gap milliseconds.

### LoginThrottle

`age[k]` holds the recorded attempts of an (email, IP) pair by age; an age of
`Window` is outside the query's range. `CountRecent`, `Record`, `Verify`, `Clear`
are the statements of `Login` in order. `Record` and `Clear` may fail unnoticed,
as their errors are dropped. `Row` bounds the rows of a pair inside the window;
`Restart` loses the requests, not the rows.

### RateLimiter and SlidingWindow

Timestamps are ages in ticks, capped one past the window. A slice is a function
from the numbers of its entries, in the order they were appended, to their ages,
so that pruning is a restriction of it. `IsAllowed` prunes and
decides in one critical section; `cleanup` prunes every slice and drops empty
ones; both use the strict comparison of `After`. The abstract limiter remembers
exactly the accepted requests younger than the window. `Abstract` maps its
`accepted` to the pruned slices, which TLC checks on an instance
(`Abstract!Spec` as a property) and `LimiterRefines` proves for all constants.

### Whitelist

`allowed` is the set of normalized addresses, `dbIps` the table with addresses as
they were typed; `Norm` is `NormalizeIP`. Every handler writes the set under its
lock and then the table, so each address is two steps; any statement may fail,
with the consequence the handler gives it. `Restart` loads the tables, or leaves
the set empty when they cannot be read. `added`, `removed` and `undone` are
history: what admins were told, and what another admin removed meanwhile.

### DbSessions

`sessions`, `idle` (ticks since `lastActivity`) and `mutex` are the service;
`open` is the set of connectors whose client or pool is running. `Connect` closes the old
connection and keeps the mutex until `Connected` or `ConnectFails`; a failed dial
leaves the closed connection in the map. When the Ping fails, the client that the
drivers of MongoDB and MySQL have started by then is left running (`FailedPing`), and
nobody refers to it any more: `leaked` remembers which. This is a leak of the code, not
of the model; `OnlyFailedPingLeaks` says that it is the only one. Every statement of a request begins with
`getSession` and runs after the mutex is released; an import reads the map again
for each row and goes on after an error. `Restart` stands for `Shutdown` and for
a crash: either way the next process knows no session.

### Views and Workspace

`Views` is a table. For each of the 58 operations of the dashboard a record says
in which tab and for which types of server it is offered, whether it is submitted
from a dialog or for all that is ticked (`bulk`), which mutation or flag its button
looks at, what its answer invalidates (`hook` for the `onSuccess` of `useMutation` and for what follows an
`await`; `local` for the callback given to `mutate()`), and where its dialog
closes. `Shows` gives the queries of each tab and of the sidebar, `Changes` what a
request may change of what those queries read, on its type of server: all of it for a
script, a statement or a restore; for MongoDB also the collections the server makes by
itself, the databases that come and go with their collections, and the columns, which
are a sample of the documents. An operation is whatever sends a request that writes,
runs long or asks for confirmation, from a button, a dialog or a key; left out are the
buttons that only read (a search, a sample, a plan, a download), and the pages beside
the dashboard (login, connections, the dialog of the own password).

`Workspace` gives the table its meaning, for one view, one of its queries and one
or two of its operations, all chosen at the start: so every operation meets every
query it can share a screen with. `cell` is the cached data of the query (none,
fresh or stale against the server) and the fetch in flight, which may be read
before or after the request does its work. `flights` are the requests, which the
server applies and answers in any order, or fails before or after applying.
TanStack Query is external; what is assumed of it is at the head of the module.
Within one visit of the view `latest` says whose callback will still run.

Two lists are part of the result. `NotInvalidated` names what the answer of each
operation leaves out of date on the page although it is on screen (a rename of a
collection, for one, leaves its columns and validation; a restore the sizes of
the databases; an imported script the databases and schemas it creates; a conversion
to capped the columns; the profiler the list with `system.profile`). `Unguarded` names
the 17 operations that can be sent again while the first is pending. Some buttons look at
nothing (deletions of a row or document, the file picker); a key goes past the disabled
button (Ctrl+Enter, Enter in a field); the inline save of a cell is sent by Enter and by
the blur; and `isPending` is about the latest `mutate()` only, so an inline save frees the
dialog's button, a bulk drop or truncate that of its first tables, and a backup or
restore of one database that of another. Both lists are what the code does; the
invariants say that there is nothing else.

### ClientSession

`jar` is the cookie jar, `token` the refresh tokens of the server with the rules
of `Auth` (rotation; reuse of a revoked one revokes all), `tab` what each tab
shows and awaits. A request and what the server does with it are one step, its
answer with the cookies another. A refresh that fails in the database, before or after
it revoked its token, clears both cookies and leaves no successor; only a request
without a cookie, or one too many, is refused and keeps them. Not in the model: a
statement that revokes and itself fails, which `Logout` and `RefreshToken` ignore (`Auth` has
it). `refreshOnce` shares the refresh under way in a
tab. A reload aborts what the tab awaited, and the cookies of those answers are
lost. `reused` and `logout` are history.

### TableView, DatabaseView, StructureView, DocumentView, QueryEditor

The state each of these views keeps beside the server's data, with whatever moves
under it. `TableView`: `edit` has a place of the page and the field's focus; what
a user clicks on takes the focus first, so `Blur` precedes every sort or search,
while a `Refetch` may come at any time, without a click. `DatabaseView`: `ticked` are names, `asking` is
the confirmation with the database and names it was opened with. `StructureView`:
`call` carries the form as it was when Save was pressed; `Renamed` and `Modified`
are what the server does, and `AnswerLost` answers an error all the same.
`DocumentView`: `Select` resets what the code resets. `QueryEditor`: `history` is a
list per tab and `stored` the one of `localStorage`. Variables marked as history
say why an exception of a property applies; no guard reads them.

### ServerControl and ServiceControl

`serverProc` is the process the manager holds, `process` what became of each, and
`foreign` another program on the port. `StopServer` is three steps, since it gives
back the mutex before it kills the process and then whatever has the port. That last
kill may also miss: on macOS `lsof` lists the clients of the port with its listener,
and the first process is taken (`platform_darwin.go:59`). `waiting` are the
goroutines of `waitForPort`. `window` has the two variables of the window's state;
`events` and `polls` are under way to it in any order. `ServiceControl` has the
goroutines that install, remove, start and stop an engine (`jobs`, one
`installMu`), and the flags of the tab (`flags`) with the polls and timers that
will clear them.

## 3. Runs

| Run | Instance | Shows |
|---|---|---|
| `auth_serial` | 1 slot, 2 ids, 2 emails, 2 passwords, 3 tokens; all operations, reset process, failed statements, restarts; registration closed | types; an admin always remains; a password change ends the other sessions; one successor per refresh token; one self-registration |
| `auth_concurrent` | 2 slots, 2 ids, 2 tokens, clock to 2 with AccessTTL 2; lost revocations | no session or saved connection outlives its user; no admin claim outlives the role by AccessTTL |
| `auth_last_admin` | 2 overlapping requests | **violated**: two demotions leave no admin |
| `auth_password` | 2 overlapping requests | **violated**: a session opened with the old password survives the change |
| `throttles` | 3 logins, limit 3, window 2; 2 IPs, limit 2, window 3 | recorded attempts are bounded and a block ends; bounded memory, honest Retry-After, no self-prolonging refusal, quiet IPs are forgotten, refines `SlidingWindow` |
| `whitelist` | 2 admins, 2 addresses | additions and removals stick, enabling does not lock its client out |
| `whitelist_removed` | 1 admin, 2 addresses, one in two spellings | **violated**: a removed address is back after a restart |
| `db_sessions` | 2 users, 2 requests of up to 2 statements, 3 connectors, 1 failed ping that leaves its client | no client is lost but by a failed ping, explained closures, one connection per request, idle sessions close, nobody starves |
| `browser` | every view, query and pair of operations, 2 requests in flight; 2 tabs, 2 tokens, 2 calls each | what is shown is current once all is answered, but for the listed omissions; nothing but the listed operations is sent twice; saved dialogs close; a tab does not reuse a token; a logout holds |
| `views` | 3 rows on 2 places; 2 databases, 2 tables; 2 columns; 2 collections, 2 filters, 2 pages; 2 editors, 3 statements, history of 2; 2 engines, 2 requests | an inline edit hits its row, a bulk drop what was ticked, a column dialog its column; the page exists, the plan is of the collection; no entry of the history is lost unexplained; no job runs twice |
| `server_control` | 2 processes, 2 clicks in the window and 2 in a menu | the spinner ends, no server runs unheld, the status settles |
| `structure_modify` | 2 columns, 2 definitions | **violated**: a rename alone also sends a modify |

`auth_serial` and the two violated runs belong together: the same invariants hold
when requests are handled in turn and fail when two overlap, so the missing
transaction, and nothing else in the handlers, is at fault. The clock stands still
in `auth_serial` (its properties do not mention time, and expiry only removes
tokens) and runs in `auth_concurrent`. `auth_concurrent` leaves out the reset, the
creation of accounts by an admin and the password change; the theorems of section 5
cover all operations together.

**Bounds.** Two ids are enough for one admin to act on another and for "last"
to differ from "only"; three tokens for a replay to have two successors if it could;
two requests for every race between a read and the write it guards (a third can
only repeat one of their roles). A limit of 2 and a window of 3 let entries expire
one at a time. Three connectors are more than the open ones of two users, so a
connector may be closed and still referred to, or be left running by a failed ping while
both users have a session. `MaxSteps` 2 is the least at which
a request can meet two connections. `Timeout` 0 lets the cleanup catch a
statement in flight; the code's constant only scales it. `MaxTime` caps the clock
of `Auth`; the other modules keep ages, which saturate, and need no cap.
Exhausted ids and tokens disable `RegisterInsert`, `CreateInsert` and `Issue`;
a new request is then still possible, so those runs need no disabled deadlock check.

`MaxMenu`, `MaxFlights` and `MaxItems` 2 of `Workspace` let any two operations of a
view, or one of two items (ticked tables among them), overlap, which is what losing a callback, sharing a flag or closing another's
dialog takes. Two tabs are the least at which a refresh can race, two tokens
a token and its successor; `MaxCalls` 2 is what `refreshOnce` is for. Three rows on
two places leave one off the page to take another's place. Two columns are the
one that is edited and the one that has its new name. Two statements can
compete for a callback, and the third makes the list of two overflow. `MaxRequests` 2 is
the least at which something can be done twice. `MaxStarts` 2 has one
server to be stopped and one started meanwhile. `browser`, `views` and
`structure_modify` disable the deadlock check: a window whose behaviour has spent
its requests, or nothing to select, may rest.

**Fairness.** `LoginThrottle` assumes only that time passes. `RateLimiter` adds
that the ticker of `NewRateLimiter` fires; no request is obliged to arrive.
`DbSessions` assumes that time passes, that a dial ends (the drivers time out),
and, with strong fairness, that a goroutine waiting for the mutex gets it although
others keep taking it: Go's mutex hands over to a waiter after 1 ms. It does
not assume that a statement ends: a change stream never does. `ServerControl`
assumes that the window's interval goes on, that answers and events arrive, and
that the goroutines of a stop and of `waitForPort` (which has a deadline) go on;
nobody has to click, no process has to listen or end. The other modules state
safety only.

**Mutants.** For every property of a passing run `PROJECT.json` names a mapped
definition and a plausible bug in it (a dropped guard, a missing reset, a swapped
order, an off-by-one) under which TLC finds the property violated. The operators
whose names end in `Mutant` exist for this only.

## 4. Findings

- **The last admin can be lost.** `UpdateUserRole` and `DeleteUser` count the
  admins in one statement and write in another. "Prevent removing the last admin"
  (`auth_service.go:188`) holds only for requests that do not overlap.
- **A password change misses sessions in flight.** `ChangePassword` "revokes all
  refresh tokens (forces re-login on other devices)" (`auth_service.go:232-233`),
  but a login or refresh that has read its user saves its token afterwards.
- **A removed address can come back.** `RemoveIP` forgets the normalized address
  in memory and deletes the typed spelling from the table
  (`security_controller.go:110-111`); the list an admin sees is normalized, so
  another spelling stays in the table and is loaded at the next start.

- **A column is modified although only its name changed.** "Edit mode: rename if
  name changed, then modify if anything else changed" (`structure-view.tsx:276`),
  but the modify is sent in every case (`:289`), with the definition as the dialog
  showed it: what somebody else changed since it was opened is undone.

## 5. Theorems

All proofs are checked by TLAPS for every value of the constants that satisfies
the named assumptions of each module (`AuthAssumption`, `ThrottleAssumption`,
`RateAssumption`, `WhitelistAssumption`, `SessionsAssumption`, `TableAssumption`,
`NoDbIsNone`, `NoColumnIsNone`, `DocumentAssumption`, `HistoryAssumption`,
`SessionAssumption`, `WorkspaceAssumption`, `ServerAssumption`, `ServiceAssumption`): finite sets and positive
limits where the code has them, and a `None` that is no datum. None bounds how
many requests, tabs, tokens, rows, tables, columns, starts or engines there are.

| Theorem | Argument |
|---|---|
| `AuthTyped`, `ThrottleTyped`, `WhitelistTyped` | type correctness, inductive; for `Auth` it includes that NOT NULL columns are filled and that a request has read what its next statement uses |
| `AuthNoOrphanSession` | inductive with typing: a statement that refers to a user looks for it, the one that deletes it looks for references |
| `AuthStaleAuthorityBounded` | `AuthorityFresh`: admins are noted at the current time; a request about to sign an admin claim read the role in the current tick; a claim expires at most AccessTTL after its user was last an admin. The middle part is what makes it inductive: the role signed is the one read, not the one in the table |
| `AuthAlwaysAnAdmin`, under `[]DemotionsAgree` | `AdminKept`: an admin, or no account and no request that could add any other; and a request about to demote or delete leaves another admin, which only the demotion of a different account can invalidate. The condition: no two requests that have counted the admins demote or delete different accounts |
| `ThrottleBounded` | `AttemptsReserved`: recent attempts plus logins that passed the check and have not recorded stay within the bound. The property alone is not inductive, since `Record` would exceed it |
| `WhitelistAddedStaysIn` | `AddedIsStored`: an added address is in the set, and in the table or about to be inserted |
| `WhitelistNoSelfLockout` | `SelvesAdded`: from the insertion on, the client of a toggle that nobody undid is in the set |
| `TableTyped`, `DatabaseTyped`, `DocumentTyped`, `ColumnTyped`, `ServerTyped`, `ServiceTyped` | type correctness; for the column dialog with `CallSent` (a call comes from a filled form), for the engines with `Counted` and `HolderRuns` (no count falls below zero) |
| `TableWriteHitsItsRow` | `EditTracked`: an open edit has its row at its place, and the focus, unless a refetch moved the row or a save was tried. The focus is what makes it inductive: without it a sort could come before the save |
| `DatabaseDropsOnlyTicked` | `TicksRemembered`: every ticked name, and every name of an open bulk confirmation, was ticked |
| `DocumentPageExists`, `DocumentPanelOfCollection` | inductive with typing |
| `ColumnTouchesOnlyItsColumn` | `Tracked`: unless others changed the columns, the name a form or a call goes by names its column or none; and a name that a rename under way is about to free is not taken by the add or the rename that is awaited (`NotRefilled`) |
| `SessionTyped` | with `CallsBounded`: the three counts of a tab are bounded together, so none outgrows the bound when calls move from one to another; and an exchanged token has a successor |
| `SessionNoReuseAlone` | `ReuseInv`: a token on its way to a tab was issued to it, was not exchanged and is not in the jar (`CarriedFresh`); and when the token in the jar was exchanged, its successor was lost or the tab it was issued to awaits it (`SuccessorAwaited`). A tab that sends a refresh awaits none, so the successor is not its own |
| `SessionLogoutHolds` | `LogoutKept`: until something undoes a logout, no cookie is on its way, the refresh token in the jar is not valid, and an access token in the jar goes with an answer that is still to come. The property alone speaks of quiet states only |
| `ServerLoadingOwed` | `StartOwed`: once a start of the window was answered, an event or a goroutine is under way, or the answer was early |
| `ServerProcMatches` | with `HeldDuringStop`: what is held while a stop is under way was started during it |
| `ServiceNoDoubleJob` | `JobInv`: a goroutine has its flag or the flag was dropped, and no confirmation is open for an engine whose flag is set |
| `AuthReplayBounded`, assuming `"ignored" \notin Ops` | `Unspent`: a valid token has bought nothing and those that hold it still have to revoke it; and what a token has bought and what still holds it are together no more than the slots (`SharedBound`). One statement revokes it for all later ones, so only requests that read it earlier can share |
| `AuthPasswordChangeEndsSessions`, under `[]SessionsWait`, assuming `"ignored" \notin Ops` | `PasswordKept`: also a request on its way to a token carries the password in force, if it is of a settled user, and its user has an id that is not given again. The condition: while a change deletes the tokens of a user, no request of that user is on its way to one |
| `AuthSelfRegistrationOnce`, under `[]DemotionsAgree` and `[]RegistrationsAlone` | `RegisteredOnce`: after the first registration somebody is always there (which is `AdminKept` above: the last admin is not deleted) and no request is between the count and the insert. The second condition: no two registrations are there together |
| `LimiterTyped`, `LimiterBounded` | inductive together: a slice grows only when what is left after pruning is below the limit |
| `LimiterRetryHonest` | `RecordedBefore`: every entry of an IP is at least as old as its last request |
| `LimiterRefines` | step by step: a request maps to an accepted or refused one of the window, the cleanup to a stutter, a tick to a tick; the entries a slice keeps past the window are those the mapping drops |
| `SessionsTyped` | with the jobs: whoever is dialling holds the mutex, whoever runs a statement has a connection |
| `SessionsOnlyPingLeaks`, `SessionsDeadExplained` | `MapOK`: no two users share a connection, and `Connect` has closed what it replaces before it dials. Without the first, closing one session could strand another |
| `SessionsClosedExplained` | `StatementHoldsSession`: a statement that was not cut and is younger than the timeout runs on the session of its user, which was used since; and `DialTellsStatements` |
| `SessionsOneConnection` | `RequestHoldsSession`: what a request has used is the session of its user, or it was cleaned up |
| `WorkspaceTyped` | inductive; the requests are a sequence from which any is removed |
| `WorkspaceNoDoubleSubmission` | `GuardedOnce`: every guarded request of one visit is the latest of its mutation or flag, and no two use the same. From the table it needs that a guarded button looks at what it uses, and that what shares a mutation in a view is guarded together |
| `WorkspaceDialogCloses` | `DialogOwns`: a request that belongs to the open dialog is of this visit, of the operation of the dialog, and closes it by the hook or still has its callback. From the table, a dialog that needs the callback of `mutate()` has a button that looks at its mutation, and a modal dialog keeps every other button out of reach |
| `WorkspaceQuietIsFresh` | `StaleIsOwed`: on screen, old data has a reason, or a fetch under way that will see the change, or a request that was applied and whose answer is still to come. From the table, what a request changes on a screen it is offered on, for every type of server it is offered for, is invalidated or listed (`AnswersCover`) |
| `EditorTyped`, `EditorHistoryExplained` | inductive together; what a list that is put at the front and cut keeps, is a lemma of its own |
| `WhitelistRemovedStaysOut`, assuming `Spelling = Ip` | `RemovedIsGone`: a removed address is in neither copy unless its deletion is pending |

Three theorems state which overlaps of requests are harmless, as a condition on
the behaviour (`[]C`), and leave every other overlap, restart and failing statement
free.

The theorems with an extra assumption need it: `auth_last_admin`, `auth_password`
and `whitelist_removed` show what happens without it; and TLC finds the other
counterexamples when `MCAuthSerial.cfg` is given a second slot (two requests count
no user, and both register), or `"ignored"` (a refresh token whose revocation failed
unnoticed is spent again; a password change whose revocation failed leaves the
sessions). `"ignored"` stands for the errors that `RefreshToken` and
`ChangePassword` log or drop.

The inductive invariants were checked by TLC as invariants before they were proved.

Only model-checked: the six liveness properties (`BlockIsTemporary`,
`RefusalIsTemporary`, `QuietForgotten`, `IdleSessionCloses`, `NoStarvation`,
`ShownSettles`), as TLAPS does not reason about fairness. Every invariant of a
passing run, and the refinement, has a theorem.

## 6. Not modelled

- Export, backup, connectors, the logger and the helpers keep no state of their own
  that a property could relate; what they do to an external server belongs to that
  server. Encryption and signatures are taken to work. The text format of
  timestamps in SQLite belongs to its driver.
- The change-stream endpoint: its state is one response and one channel, which
  belong to `net/http` and to the driver.
- Of the web client the pages that show one answer or send one form (connect,
  register, search, schema, sharding, change streams), the health poll, the
  contents of forms, completion, themes and the components of `components/ui`
  beyond what a dialog covers.
- The server's answers in the models of the views are the least they can be: done,
  failed, or done and reported as failed. That two connectors do different things
  with the same request is not distinguished.
- Of the manager the editing of ports, the repair of MongoDB, and the files that
  call the operating system.

## 7. Plan

1. Done: `Auth`, `LoginThrottle`, `RateLimiter` over `SlidingWindow`, `Whitelist`,
   `DbSessions`; the views, the session of the client, and the manager.
2. Done: a theorem for every invariant the runs check, and for the refinement.
3. `ClientSession` over the statements of `Auth` rather than over its token rules,
   and the chain of filters over `Whitelist` and `RateLimiter`.
4. The filter of `DocumentView` as the query it becomes, and the splitting of an
   imported SQL file into statements, each against a reference definition.
