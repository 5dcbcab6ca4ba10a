# nest-pet: TLA+ models, checks and proofs

nest-pet is a todo application: a NestJS server over MongoDB (`src/src`) and a React
client (`src/client`). This directory holds TLA+ models of the parts whose correctness
depends on order, overlap, failure or time, the TLC instances that check them, and
TLAPS proofs of the results that hold for every value of the constants.
`PROJECT.json` lists the components, the runs, the source lines each definition
stands for, the hazards and the theorems.

## 1. The system

| Component | State it keeps | Operations | Talks to |
|---|---|---|---|
| Authentication sessions (`auth.service.ts`, `auth.controller.ts`, `refresh-token-cleanup.service.ts`) | `users`, `refreshtokens`; the browser's two cookies | register, login, refresh, logout; hourly clean-up and a TTL index | token expiry (schedules, cancels), client |
| Token expiry (`token-expiry.service.ts`) | two in-memory maps from user to timer handle; the armed timers | `scheduleTokenExpiryWarning`, `cancelForceLogout`, two callbacks | gateway (two events) |
| Guards and access tokens (`jwt.strategy.ts`, `roles.guard.ts`) | nothing; the token carries the role | validate, check the role | every controller |
| Administration (`admin.service.ts`, `admin.controller.ts`, warm-up, inactivity job) | `users`, the cache | delete, restore, promote, demote, reactivate; cached lists and details; jobs | todos (counts), sessions (a suspended user) |
| Todos (`todos.service.ts`) | `todos` | create, update, soft delete, queries | event bus |
| Event bus (`app-event-bus.service.ts`) | callbacks behind `setImmediate`, one subscriber | publish, subscribe | todos, automation |
| Automation (`automation.service.ts`) | one statistics document per user | `handleTodoCompleted`, a query | event bus |
| Log archive (`log-archive.service.ts`) | `logs`, `logs_archive`, the flag `isRunning` | archive in batches, at startup and every 12 hours | the logger, which writes `logs` |
| Client authentication (`api/axios.ts`, `AuthContext.tsx`, logout button, modal) | `isRefreshing`, `failedQueue`, the user, the logout marker, the modal | interceptor, init, modal refresh, logout | sessions, gateway |
| WebSocket gateway (`auth.gateway.ts`) | `onlineUsers`, rooms | connect, disconnect, announce, emit | token expiry, the sockets of `AuthContext` |
| Streaming (`stream.controller.ts`) | per request: buffer, counters, a timer | video ranges, radio proxy, ICY metadata | file system, radio stations |
| Client pages (`pages/*.tsx`, `LoadingProvider.tsx`, `ProtectedRoute.tsx`) | lists, filters, the spinner's count | fetch, change, filter, navigate | todos, administration and its caches, streaming; the modal (the spinner), `AuthContext` (who is logged in) |
| Radio widget (`NetRadioWidget.tsx`) | the station, `isPlaying`, the title; the browser's audio element | play, pause, switch, poll the title | streaming |
| Client layout, notifications | a position, a list of messages | drag, show, remove | |
| Bootstrap, error filter, logging | configuration | | |

What is hard in it, and what makes each part right:

- **Sessions.** A refresh is four awaited database calls, and nothing makes them one.
  Tabs share a cookie jar, so two refreshes, or a refresh and a logout, can present one
  token; any call can fail, any answer can be lost. Right means: a login has one living
  refresh token, a logout ends it, a suspended user gets none, and nobody's session is
  ended by somebody else's request.
- **Token expiry.** Login, refresh, cancellation and two callbacks replace each other's
  timers. Right means: no timer escapes its map, nobody waits for both events at once,
  and a forced logout always follows its own warning.
- **Log archive.** Copy and delete are two calls, each of which may fail half way. Right
  means: nothing is lost, nothing is archived twice, two invocations never overlap, and
  a failure never stops archiving for good.
- **Todos, event bus, automation.** `update` decides from a snapshot; events live in
  memory; two handlers may compute from the same statistics. Right means: a completion is
  counted once, no increment is lost, the streak is the run of days it claims to be.
- **Administration.** Checks on what was read, saves later; roles inside access tokens
  that outlive a demotion; lists cached before a change and stored after its sweep. Right
  means: an active admin remains, admins are not deleted, stale entries are only those
  one can explain.
- **Radio titles.** The reader finds blocks of metadata in a stream cut anywhere, against a
  timer. Right means: it never takes audio for a length, overlooks no title, and answers.
- **Client authentication.** Requests that meet an expired token at once share one
  refresh, while `AuthContext` refreshes without asking. Right means: nobody waits without
  a refresh, and a living session is not given up.
- **Gateway.** Users have several sockets, sockets reconnect before the server notices that the
  old one is gone, and warnings are emitted to whoever is in a room at that moment. Right
  means: `onlineUsers` is neither too small nor too large, every tab is told of its changes,
  and no token expires without a word.
- **Pages.** Every handler awaits one call after the other, may fail at each, and goes on when
  its page is gone; operations overlap. Right means: the spinner stops, and an undisturbed page
  shows the server's data.
- **Radio widget.** Promises of the audio element and answers about titles arrive for a
  station that may no longer be selected. Right means: the button and the title tell
  what is heard.
- **Statistics.** Several queries one after the other, days in UTC stepped through in local time.
  Right means: each series is that of the moment of the call, over the days of the window.

## 2. Modules

| Module | What it is |
|---|---|
| `ExpiryStage` | abstract: a user is idle, has a warning pending, or is in the grace period |
| `TokenExpiry` | the two maps and the event loop's timers; implements `ExpiryStage` |
| `Gateway` | sockets, rooms, `onlineUsers` and the tabs that hear of it; composed with `ExpiryStage` |
| `GatewayProofs` | its theorems |
| `Sessions` | the auth service, composed with `ExpiryStage` |
| `SessionsProofs` | its theorems |
| `LogMove` | abstract: an entry moves from the logs to the archive in one step |
| `LogArchive` | batches, two calls, failures; implements `LogMove` |
| `ServerProcess` | `LogArchive` and `TokenExpiry` in the one Node process, which restarts as a whole |
| `ServerProcessProofs` | the theorems about both, and that what each guarantees holds in the process |
| `Automation` | `handleTodoCompleted` under events of any day in any order |
| `TodoEvents` | todos and event bus, composed with `Automation` |
| `TodoEventsProofs` | its theorems and those of `Automation` |
| `TodoStats` | the statistics of 14 days and the totals, while todos change |
| `AdminUsers` | accounts, admin tokens, sweeps and the cache |
| `AdminUsersProofs` | its theorems |
| `ClientAuth` | the authentication of one browser tab against the server's answers |
| `ClientAuthProofs` | its theorems |
| `Pages` | the pages of a tab: handlers, filters, lists, the spinner |
| `RadioWidget` | the radio widget, its audio element and the server's proxy |
| `ClientApp` | one tab: `ClientAuth` and `Pages`, which log in, log out, reload and refresh together |
| `ClientAppProofs` | the theorems about the pages and the tab, and those about the radio and the statistics |
| `IcyMetadata` | the reader of radio titles over chunks of any size |
| `IcyMetadataProofs` | its theorems |
| `MC*` | instances for TLC; they add symmetry sets and the values of constants (`MCDelays`, `MCStreamOf`); `MCServerLive` and `MCClientParts` also take several parts, one per behaviour (`part`) |

Composition: `Sessions` and `Gateway` EXTEND `ExpiryStage`, so the refreshes of one and the
rooms of the other meet the same three stages, of which TokenExpiry's timers are shown to be
an implementation. `ServerProcess` EXTENDS `LogArchive` and `TokenExpiry`: their
steps interleave, a restart hits both. `TodoEvents` EXTENDS `Automation`: its `Dispatch` is
the event bus starting `StartHandler`. `ClientApp` EXTENDS `ClientAuth` and `Pages` and joins the
steps they share: a login brings a page up (`LogsIn`), `performLogout` takes it down, whoever calls
it (`LogsOut`), a reload ends both (`Reload /\ PageReloaded`), and the modal shows the spinner of the
pages while it awaits the refresh of `AuthContext` (`ModalStep`). All other steps of the two
interleave. What ties them together is `Linked`: a page is shown exactly while `AuthContext` has a
user, and the spinner counts for the modal exactly while its refresh is under way. The radio widget
shares nothing with them but the tab, and the statistics are the server's: `RadioWidget` and
`TodoStats` stand by themselves.

### Conventions

- What a handler does between two awaits is one action; the state it carries over an await
  is a field of the request's record (`pc` is the await it is at). Actions keep the names
  of the functions they stand for; steps of one function are named after it
  (`RefreshFind`, `RefreshDelete`, `RefreshUser`, `RefreshRevoke`).
- A call that rejects ends the handler (`Fail`, `UpdateFail`, `DropEvent`); that a rejected
  write may have taken effect is covered by the successful step followed by the failure
  of the next await, or by an action of its own (`SaveUnacknowledged`, `LogArchive!Fail`).
- `Restart` forgets what lives in memory only.
- Ghost variables are marked in the declarations. No guard reads one, except where a
  bound is named (section 4).
- Operators under a comment "Mutants" are not used by any specification: each is one
  definition as a plausible slip would leave it, and each property is shown to fail
  with one of them put in place. The pairs are in `PROJECT.json`.

### State and actions against the code

**TokenExpiry.** `timeouts` and `forceLogoutTimeouts` are the two `Map`s, `None` an absent
key. `armed` is the event loop. `clearTimeout` is `Cleared`. Only the sign of the delay
matters to the code (line 32), so a delay is any integer. An id of `Timers` may be used
again once nothing can reach it, so the set does not bound the behaviours.

**Gateway.** A tab of the model is a browser of its own, with its own cookies. `peer` is
`client.data.userId` of the server's sockets, `wire` the socket a tab is connected by; between a lost
connection and `handleDisconnect` a socket has a peer and no tab. `handleConnection` is one step,
as the in-memory adapter joins a room in the same turn. A refresh cancels the forced logout
first and schedules later, as `refreshTokens` does; a login's answer may be lost after the server
has scheduled. A connection that is refused, because the access token has expired, is not tried
again (`"refused"`): the client library does not reconnect after the server hung up, and
nothing in `authSocket.ts` does. The refresh of the interceptor leaves the modal open
(`Refreshed`), the modal's own closes it; the countdown is a logout at any time.
`excused` is a ghost: the service keeps one warning per user, so that the schedule of one
browser takes the place of another's, and a tab whose socket is not there when the warning
is emitted is not told.

**ServerProcess.** No variables of its own; `ProcessRestart` is `Restart` of both services.

**Sessions.** `docs` is the collection, `jar` the cookie of each browser, `work` the
requests in flight. `line` and `shared` are ghosts of a document: the login it descends
from, and whether two requests of that login overlapped on the way to it. `RegisterSave`
includes the refusal by the unique index. `POST /auth/logout` carries no guard, so
`req.user` is never set and only the token path of `logout` is reachable over HTTP: a
logout cancels no timer, and the model says so. Suspending a user is any of the ways to set
`deleted` or `inactive`; neither removes tokens.

**LogArchive.** `copies` counts documents per original, so that a double copy would show.
`Batches` is whatever `find().limit()` may return; no order is assumed, as the code asks for
none that the properties could tell apart. `Fail` covers an unordered `bulkWrite` and a
`deleteMany` that stop after any part of their work. An invocation that finds `isRunning`
set returns without any effect, so it is not a step.

**Automation and TodoEvents.** A day is a number; `NoDay` is `null`. `UpdatedStats`
increments the count in the database (`$inc`) and sets the rest from the snapshot. A PATCH
body asks to complete, to reopen, or leaves `completed` alone. `queue` is the callbacks
behind `setImmediate`. `heeded` is a ghost: the days not older than the last known one.

**TodoStats.** `todos` are documents with the three dates of the code, `stats` is the call under
way with what its queries have found so far, `update` the PATCH requests between their `findOne` and
their `findOneAndUpdate`: what is written follows from the todo that was read (`open`), which may have
changed since. A todo may be created as completed or deleted, because the body is spread into the
document (`todos.service.ts:78-81`). So `completed` and `completedAt` can disagree; `odd` is a ghost of
the todos of which that may be true, and `CompletionsDated` says that it is true of no other. A PATCH
body of the model asks to complete, to reopen, or only changes the title, as the client's do.
A moment is an instant of the server's clock and
`DayLength` of them make a UTC day. `Key` is the loop that steps through the days by `setDate`
in local time and prints them in UTC: behind a change to summer time it lands on the day
before. `removed`, `touched` and `since` are ghosts too; the series of deletions is grouped
by `updatedAt`, so a deleted todo that is written again moves to another day (`touched`).

**AdminUsers.** `change` is an admin request: read, check, `save` of the modified fields,
then one `del` after another in `SweepOrder`. `fill` is a cache miss on its way to the
store, by a request or by the warm-up. `adminTokens` are users who hold an unexpired access
token with the role admin, current or not. `unswept` and `disorder` are ghosts that mark
the exceptions the properties admit. `TypeOK` includes the shape of what is cached (`Shaped`): a
list holds accounts that its key asks for, the details hold numbers.

**ClientAuth.** A slot of `Requests` goes through the interceptor; `call` is the
authentication calls on the wire. `AuthContext` has at most one refresh and one logout of its
own under way. The server is what it answers: a refresh token in `live` is exchanged once.
`crossed` is a ghost: calls of different parts of the tab overlapped, or the network lost
one; that two refreshes of the interceptor overlap does not count as an excuse.

**Pages.** An operation is a handler or an effect with the await it is at: it sends a change,
gets its answer, fetches a list, and after a toggle the statistics. `here` says that its page is
still mounted, `filter` is the closure it runs in. One todo, one account and one video stand for
the server's data. The spinner covers the page against the mouse, not against the keyboard, so
handlers overlap; `count` is `LoadingProvider`'s, and `confirming` is `TokenRefreshModal.onConfirm`
between its `show` and its `hide`.

The server's user lists come out of a cache: `users_all_*` and `users_email_*` live for 60 seconds
(`admin.service.ts:39-46, 78`), behind the response cache of `CacheInterceptor`
(`admin.controller.ts:26-27`). `older` says of which of them, the full lists and those of a search, a
cache may still hold one from before a change of the account; what it holds is then any state of the
account that fits the list (`OlderList`), so the model needs no keys and no ages. A change sweeps the
full lists and leaves the searches (`{"search"}` remains in `older`); it leaves the full ones too
(`overtaken`) when a call elsewhere has read the users before it and stores them after its sweep,
when the interceptor has kept an answer, or when the sweep fails. A list fetched later is either read
anew (`ListRead`) or an older one (`ListCached`), until the 60 seconds are over (`CacheExpires`).

Two facts of `AdminPage.tsx` are in the model rather than in a
property: `loadUsersWithNotification` (line 49) captures the search text without depending on
it, so that a longer text shows what its first three characters found (`Filter.captured`), and
promote, demote and delete patch `users` but not what a search has found (line 78; `suspect`).
`suspect` and `alone` are ghosts: a list fetched by itself clears the suspicion that
overlapping operations, a failure or another tab have raised, and a list that the cache keeps
although it is known not to sweep it, one of a search or one that was overtaken, raises it.

**ClientApp.** No variables of its own. A request of `ClientAuth` and a call of an operation of
`Pages` are not tied together: either may end at any time and in any way, which contains what happens
when one carries the other. `Entering` is somebody being logged in: `initAuth` from its refresh to the
answer of GET /auth/me, or the login form's request.

**RadioWidget.** `audio` is the browser's element, `by` whose `play()` is unanswered, `proxy` whether
the server has reached the station. Loading another source rejects the unanswered `play()`, and what
its `catch` does (`setIsPlaying(false)`) belongs to that step. `abandoned` are stations the server
goes on reading although their listener has left, as `proxyRadioStream` does not watch the
response. `hasty` and `crossedTitle` are ghosts: the station was changed while a `play()` was
unanswered, or while a title was asked for.

**IcyMetadata.** The buffer always holds the last bytes received, so `buffered` is its length and
`Position` the place of its first byte in the stream. A station's stream is a function: every
byte as a number, the title that `extractStreamTitle` would find behind every byte, and the
set `marks` of the true length bytes, which the code does not know and only the properties use.
The bytes between are arbitrary, so a reader out of step would read wrong lengths and noise as
titles. The actions of the inner loop run without interruption (`Timeout` waits for `read`).
The timer answers but stops nothing: the reader goes on, as in the code.

## 3. Runs

| Run | Shows |
|---|---|
| `server_process` | four entries, three of them movable, two invocations, batches of two, and a user's two timers in one process that restarts: nothing lost, nothing twice, one run at a time, an implementation of `LogMove`, old entries archived in the end; maps and event loop agree, every step is one of `ExpiryStage`, FORCE_LOGOUT follows its own TOKEN_EXPIRING, and no stage stays pending unless it is scheduled again for ever |
| `gateway` | two users, two browsers, three sockets, with refreshes, expiry, lost connections and restarts: `onlineUsers` is the connected sockets, everybody connected knows it, and no token expires without a word |
| `sessions` | two browsers, two overlapping requests, three tokens, two logins: rotation keeps one token per login, logout ends a login, a suspended user's refresh is refused, no request ends a session that is not its own |
| `server_live` | two handlers that must come to an end, each on its own. One browser, two overlapping requests: a user who stays suspended ends up without any refresh token. All 170 streams of up to three blocks in chunks of one to five bytes: the reader of radio titles keeps in step, answers the first title, overlooks none, and every connected request is answered |
| `todo_events` | two todos, two overlapping updates, two handlers: every emitted event is waiting, handled, counted or dropped by a known failure; a todo no two updates worked on at once is counted at most once. And the handlers alone, with five events of any of five days in any order: handled one at a time the streak equals its definition over the days; racing, it is never overstated |
| `todo_double` | finding: overlapping updates count one todo twice |
| `automation_older_day` | finding: two handlers in flight move the last completion day back |
| `admin_users` | two admins, one change, one reader, two cache keys: an active admin remains as long as requests come one at a time from active admins; a stale cache entry is always one of the named kinds |
| `admin_delete` | finding: a promotion between check and save leaves a deleted admin |
| `client_parts` | three parts that share no state, each on its own. `ClientAuth`, two requests and two refresh tokens: whoever waits has exactly one refresh to wait for, and a living session is given up only after crossing calls. The radio, two stations: button and title tell what is heard. The statistics, one todo, two overlapping updates, five moments: each series is that of the moment of the call, in the days of the window, undisturbed totals add up, and only a todo created as completed or updated twice at once lacks the date of its completion |
| `pages` | two overlapping operations and the caches of user lists: a page that is not filtered by a search, and that nothing has disturbed since a list fetched by itself, shows the server's data; in particular a change that sweeps the full lists leaves none behind for the page |
| `client_app` | one tab with its login, logouts, reloads and modal: pages and `AuthContext` agree on who is logged in, and the spinner turns exactly while an operation that showed it, or the modal, is waiting |

`server_live`, `client_parts` and `todo_events` check several small models one after the other: the
variable that `MCServerLive`, `MCClientParts` and `MCTodoEvents` add to them tells which one a behaviour is of, and
the others stay in their first state. These runs say nothing about what the parts do together; what
they do together is the subject of `ClientApp`, `ServerProcess` and `TodoEvents`.

### Findings

Three runs expect a violation; each refutes a sentence of the repository's own tests in
interleavings that the tests do not contain.

1. **A todo is counted twice** (`todos.service.ts:134`; the test at
   `todos.service.spec.ts:215` says a counted todo emits no event). `update` compares the todo
   it returns with the one it read at first. A PATCH of the title that overlaps the PATCH
   that completes the todo also sees "was open, is completed, was not counted".
2. **An older day moves the streak back** (`automation.service.ts:107`; test at
   `automation.service.spec.ts:142`). The comparison uses statistics read before an
   await and the write is unconditional.
3. **A deleted admin** (`admin.service.ts:143`; test at `admin.service.spec.ts:90`). The role
   is checked on the account read; `save` writes the modified fields only.

Other facts about the code that the models express as exceptions of a property rather than
as findings, because nothing in the repository promises otherwise: two overlapping refreshes
leave two tokens; a refresh overlapping a logout outlives it; two admins may demote each
other at once, and a demoted admin acts until the access token expires; after a demotion
the cached details keep the old totals until they expire (`Spared`); an event dropped by
a restart is never counted, as its todo stays marked; a logout leaves the timer of
the forced logout armed; a browser's warning is superseded by a login of the same user in another
browser; a socket that is refused stays away, even after a refresh; the modal stays open after a
refresh by the interceptor, and its countdown logs out the refreshed session; a list fetched
earlier may overwrite one fetched later; a search of the admin page lags behind its text,
does not show changes, and repeated within 60 seconds shows what it found before a change, as no
change sweeps `users_email_<text>_*` (`admin.service.ts:37, 221-226`); a full list can come from
before a change if another call stored it, or the interceptor kept it, after the sweep; a title may be
that of the station before; a deleted todo written again changes the day of its deletion, and a window
with a change to summer time lacks a day; a todo created as completed has no date of completion, and
two updates of one todo at once can leave one that is open with a date, or completed without
(`todos.service.ts:78-81, 99-132`): the statistics go by `completed` and the date, and miss or count it
accordingly.

## 4. Bounds

- `Timers` in `server_process` has one id more than can be armed at once (one per user), so a
  fresh one always exists. One user is enough there: the maps are keyed by user and no action
  reads another's entry, the proofs hold for any set of users, and `gateway` has two.
- `gateway`: two browsers of one user or of two, and a third socket, so that a tab can connect again
  before the server notices that its old socket is gone. `QueueLimit` holds back an event
  while two are on their way to a tab, a warning and its forced logout.
- `pages`: `Slots` are the operations under way at once; two overlap in every
  way. The other constants of the pages are one todo, one account, one video, and a behaviour
  takes the handlers of one kind of data (`handlers` of `MCPages`), which meet no other. The modal touches
  the spinner only and stays closed in this run (`Bounded`).
- `client_app` is about what `ClientAuth` and `Pages` share: one request, two tokens, one operation, no
  filters (`Bounded`), and of the handlers `addTodo`; `client_parts` and `pages` take them apart. A login is
  sent only while nobody is being logged in (`AuthStep`): the form is shown only then, but for the
  time `initAuth` needs. A login waits for a free slot; that an operation outlives its session
  into the next one is in `pages`, and in the proofs.
- `client_parts`, the radio: `AskLimit` lets two polls of a title cross.
- `client_parts`, the statistics: five moments, two to a day, and a window of two days put a todo before the
  window, on its edge, in it and at the moment of the call; the clock goes forward once. The
  calls of `TodoStats` only read, so one at a time is enough. Updates under way at once began in one
  moment, and are made before it is over (`NoneOld`); in that moment they overtake each other in every
  way. While a call of the statistics is under way there is at most one update (`Bounded`): what two
  of them leave behind is counted by the calls that begin later. One todo keeps the run short; that
  a bucket adds up several todos is not exercised by it, but proved.
- `RoomForRequest` and `RoomForLogin` in `Sessions` start a request only while a fresh
  token id remains for every request in flight, and a login while a fresh line remains.
  Three tokens and two workers allow a live token of one browser beside an exchange of
  another; two lines allow two logins side by side. Ids are used again when forgotten, so
  behaviours are not bounded in length.
- `MaxEvents` stops new events (and in `TodoEvents`, new updates) once so many have been
  emitted, `MaxDay` ends the calendar. Five days hold a streak, a gap, a second streak
  and a late event between them; they are for the handlers alone. The todos of `todo_events` have
  two days, and three events made or under way (`Bounded` of `MCTodoEvents`): a repeated
  completion of one todo and an interleaving of both.
- `FreeTokens` in `ClientAuth` uses refresh tokens again once nobody holds them.
  `ModalRefreshFailed` waits while an earlier logout is on the wire, `Sends` admits one refresh and
  one logout of `AuthContext` at a time, and `InitRefreshed` needs an idle slot for GET /auth/me.
- `AdminUsers` has one writer in `admin_users`: `disorder` excuses overlapping writers from
  the first property, and a second writer for the second one exceeds what TLC finishes in
  minutes. `admin_delete` has two writers and no cache. The three keys left out are swept
  by the same rule as "active" ("deleted", "all") or never ("search").
- `MCServerLive` has units of 2 bytes instead of 16 and a limit of 14 bytes instead of 256 KiB:
  chunks shorter and longer than a gap, a length byte and a block all occur, and
  the limit falls inside blocks and between them. `MaxChunk` bounds a chunk.
- Symmetry is used only over constants that no definition tells apart, and never in a run
  with a liveness property.
- Deadlock is checked except in `automation_older_day` (all events handled: the
  model stops at its bound), `admin_users` and `admin_delete` (every account deleted or demoted, no
  token left: nothing more can be asked for).

## 5. Fairness

- `TokenExpiry` (`TimersFairness`): weak fairness of each armed timer. Node fires every timer that is not
  cleared; a timer cleared and armed again for ever is not helped by it.
- `Sessions`: weak fairness of the next step of a request (the driver answers or rejects),
  of a token's expiry (time passes) and of the clean-up job (hourly, and MongoDB's TTL
  monitor). None for requests, failures, suspensions or restarts.
- `LogArchive`: weak fairness of starting an invocation (the schedule triggers again and
  again) and strong fairness of its three calls: each may fail any number of times but not
  every time it is tried. Without the latter nothing could be promised about a database that
  never answers.
- `FairProcessSpec` is both of them: the services share the event loop and starve each other
  no more than they starve themselves. None for restarts.
- `IcyMetadata`: weak fairness of the timer and of the loop. A stream of finitely many chunks cannot
  keep the timer from firing. None for the network: a station may stop sending.
- The other runs check safety only and assume no fairness.

`LogArchive` shows the effect of the `finally` block: with `isRunning` left set after a failure
`OldLogsArchived` fails.

## 6. Proofs

Every invariant and every refinement and action property that a passing run checks is also a
theorem that TLAPS checks, for arbitrary constants under the named assumptions of the modules.
These say that the markers for "nothing" are no ordinary values (`NoneAssumption`,
`MarkersAssumption`), that sets and numbers are of their kinds (`DelaysAssumption`,
`BoundsAssumption`, `CalendarAssumption`), that a stream is one that a station sends
(`StreamsAssumption`), that `AuthContext` calls under names no request has (`CallersAssumption`), and
that what is counted is finite (`FiniteAssumption` of `Sessions`, `SlotsAssumption`,
`TodosAssumption`): a process serves finitely many requests, a page has finitely many operations
under way, and a collection holds finitely many documents. The bounds
(`MaxDay`, `MaxEvents`, `AskLimit`, `QueueLimit`, `MaxChunk`, ...) are arbitrary numbers.

Each argument is an inductive invariant: the property, and what the code knows at each of its
awaits that makes the next step keep it. TLC checked each of them on an instance like that of its run
before it was proved.

**SessionsProofs.** `SessionsIInv` has three layers. `RequestsOK`: which fields a request has at
which await (`RequestShape`), and that the tokens and lines still free are at least as many as the
requests that may claim one (`RoomKept`), so that `NewToken` always finds one. `LinesOK`: two
requests of a login in flight are marked (`OverlapsMarked`), an unshared token is the only one of
its login (`UnsharedAlone`), an exchange knows that token before its deletion and that none is left
after it (`ExchangeKnows`), and likewise a logout (`LogoutDone`). `BlockedSuspended`: a refresh is marked
as blocked only while its user is suspended, and before it may issue. `RotationKeepsOneToken`
alone is not inductive: it counts bearers and does not say which token the request holds.
Theorems `RotationSafe`, `LogoutSafe`, `SuspensionHolds`, `SessionsSurvive` (the action property)
and `DrivesExpiryService`: the service asks nothing of `ExpiryStage` that it does not offer.

**ServerProcessProofs.** *Timers:* `TimersIInv` joins `TimersTypeOK`, `TimersMatchHandles`,
`OneStagePerUser`, `HandlesDistinct` and `GraceAnnounced`. `OneStagePerUser` alone is not inductive:
the warning callback overwrites the handle of a forced logout without clearing it, which is safe only
because no forced logout is armed while a warning is. That needs the maps to agree with
the event loop, which needs handles to be distinct. From it: `NoTimerEscapes`, `OneStage`,
`ForceLogoutAnnounced` (the action property, with `GraceAnnounced`) and
`TimersImplementStages` (the refinement; its lemmas compute `StageOf` after each action).
*Log archive:* `IInv` adds to the run's invariants what an invocation knows at each
await (`BatchKnown`: before the deletion, every entry of its batch has a copy),
`CopiesWritten`, and `RunningWhileActive` (mutual exclusion needs the flag set while anybody
runs). Theorems `LogsAreKept`, `LogsArchivedOnce`, `RunsExcludeEachOther` and
`ArchiveImplementsMove`. `BatchSize` and the cutoff play no part in them
beyond their types: any batch is safe. *The process:* a step is a step of one service that leaves the
other alone, or a restart of both (`ProcessStepIsServiceStep`), hence `ProcessImplementsServices`: the
process implements `Spec` of `LogArchive` and `TimersSpec` of `TokenExpiry`. All that is proved of
them, the two refinements included, therefore holds of the process the run `server_process` checks.

**GatewayProofs.** `GatewayIInv` adds to the run's invariants that a connected tab's socket is in
the room of its user and belongs to no other tab (`RoomsMatchTabs`), that whoever is owed a
warning has been told or the service still keeps one while the token is alive (`WarningOwed`), and
that a refresh under way is that of the tab's user unless it has logged out since
(`RefreshHasUser`). `ExpiryAnnounced` alone is not inductive: it says nothing of a tab whose token
still lives. Theorems `NoGhostsOnline`, `EveryChangeAnnounced`, `ExpiryIsAnnounced`, and
`DrivesExpiryService`: every behaviour of gateway and tabs is one of `ExpiryStage`, so they
ask nothing of the service that its timers do not do.

**TodoEventsProofs.** *Counting:* `CountIInv`: on a todo that no two updates worked on at once, one
update is in flight (`AloneOnTodo`), its snapshot is current until it writes
(`SnapshotCurrent`), an event about to be emitted is the first of a todo already marked
(`EmitIsFirst`), and an emitted todo is marked (`EmittedImpliesCounted`). Hence
`CountedOnce`, and with `todo_double` the exact condition under which the code counts once.
*Events:* a handler that starts takes one event from the queue and is one more at work, one that ends
is one less; `NoEventVanishes` is that account, with the busy handlers a finite set.
*Streaks:* `StreakIInv` says of the statistics, and of the snapshot of every handler about to write,
that the streak is a run of heeded days (`IsRun`) that ends on the last completion day and the
best streak a run that ends on some day (`Justified`): days are only added, so an outdated
snapshot stays justified, and what it computes is justified with the day it adds. Hence
`StreakJustified`, whatever races. `ExactIInv` holds until two handlers race: the one snapshot
is current, the day before the streak is missing, and no run is longer than the best
(`Longest`). Hence `StreakExact`. Both speak of `Max`, which the library defines by choice; `MaxExists`
finds the maximum of a bounded set as the minimum of its distances to the bound, from the
well-foundedness of `<`. `Dispatch` starts handlers with days of the calendar only, so the streaks hold
in `TodoEvents` too (`StreaksOfTodos`), through failures and restarts.

**AdminUsersProofs.** `AdminIInv`: while no requests overlap and every caller is still an active
admin, the request under way leaves some other active admin alone (`OrderlyChange`).
Hence `AdminsRemain`. `CacheIInv`: a reader that no write overtook holds the accounts as they are
(`FillsCurrent`), from its first query on and for the details between their two queries. Hence
`ListsCurrent`: what a reader puts into the cache is current or excused as overtaken.

**ClientAuthProofs.** `AuthIInv`. That whoever waits in `failedQueue` waits for a refresh
under way (`QueueHasRefresh`) needs only the types. That a living session is not given up
(`KickedForCause`) needs, until calls cross, that at most one part of the tab is busy with
authentication (`Exclusive`), that a refresh under way presents the token of the cookie jar, and that
one that was refused tells the truth about that token (`RefreshTruthful`). Theorems `QueueAnswered`
and `NobodyKickedAlone`.

**ClientAppProofs.** *Radio:* `RadioIInv` adds to type and truth what the widget knows between a
question and its answer: an unanswered `play()` is for the selected station and shows the pause
button if it began with a switch (`PlayUnderstood`), titles asked for are those of the selected
station unless it was changed (`TitlesAsked`), and before the list is there nothing is asked
(`NothingSelected`). Hence `RadioTellsTheTruth`.
*Pages:* the shapes of operations (`Shaped`) and `SpinnerMatchesWork` are inductive together
(`SpinnerIInv`): every action moves one operation, or begins some in free slots, or opens or closes the
modal's wait, and the lemmas say by how much the number of spinning ones changes. It also says that
the caches hold a full list from before a change only if that change was overtaken (`OpsOK`). Hence
`SpinnerNeverSticks`. For the lists, `PagesIInv` adds
that operations that are alone are one or began together (`AloneTogether`), go by the filter of the
page and carry what the server still has (`AloneCurrent`), that without suspicion all are alone
(`Undisturbed`), that when all are done the page is up to date (`DoneCurrent`) and that a change of a
user can be patched into it (`PatchRight`). Hence `ListsAreCurrent`.
*Statistics:* for each day of the window there are todos that must have been counted and todos
that may have been (`Must`, `May`); a bucket lies between them when its aggregate is answered
(`FoundRight`), and while todos are written the first set only shrinks and the second only grows
(`SeriesStays`). The keys fill the window unless an hour is skipped in it (`KeysFillWindow`), as days are
monotonic in moments. Totals add up as disjoint sets do. That a todo is dated while it is completed
needs that an update which has it to itself still knows it as it is (`UpdatesKnown`). Hence `StatisticsAreTrue`, for
any number of todos and updates and any clock.
*The tab:* a step is a step of `ClientAuth` and of `Pages`, or of one while the other stays
(`AppStepIsPartStep`), so the tab is a behaviour of both (`AppImplementsParts`) and keeps what is proved of
each (`AppSafe`). That they agree with each other (`AppTypeCorrect`) is not a property of either:
`AppIInv` is `Linked` and `EntersAlone`, at most one part of the tab is logging somebody in, and only
while nobody is logged in. The latter shows that `Enter`, which begins on the login page, never holds
back the answer to a login.

**IcyMetadataProofs.** `IcyIInv` says where the next length byte is expected, `Position +
bytesUntilMetadata`: there is one there or the stream is over (`InStep`), every block before it is
untitled (`BehindIsUntitled`), and a reader that waits either has an empty buffer or stands at an
incomplete block (`WaitsInBlock`). From it `ReaderInStep`, `FirstTitle` and
`NoTitleOverlooked`, for every stream that is well formed (`StreamsAssumption`: blocks follow each
other at the announced distance) and for every unit, limit and chunk size.

Only model-checked: the liveness properties (`PendingStageSettles`, `OldLogsArchived`,
`SuspensionEndsSessions`, `ConnectedIsAnswered`), since fairness and ENABLED are out of the prover's
reach. The three properties that the violation runs refute are of course not provable.

## 7. What is not modelled

- Passwords, hashes, e-mail addresses, the contents of access tokens besides the role,
  CSRF, rate limits, request validation, formatting, logging.
- Administration: the todo totals in lists and
  details as far as the cache is concerned (`TodoStats` models how they are counted), the running
  flags of the warm-up (left out, which allows more fills). Lists filtered
  by an address are the key "search", never swept. `AdminUsers` has the cache of the service only; the
  response cache of `CacheInterceptor` is in `Pages`, as one more way to hold an older list. The memory and the Redis stores are one.
- Todos: `deleteTodosByUser`, which nothing calls. `TodoEvents` leaves soft deletion out (`update`
  never reads the flag); `TodoStats` and `Pages` model it. It chooses the day of a completion at the
  write, where the code dates it just before; `TodoStats` dates it when the payload is made. A PATCH with
  `completed: null`, or one that sets `deleted`, is left out: no client sends it.
- Log archive: creation of indexes at startup; the unique index is part of `Upserted`.
- Client: registration, the CSRF token, the seconds of the modal's countdown (a logout at any time),
  tabs that share a cookie jar (`Sessions` has requests that do), the numbers the dashboard
  draws, the validation of forms, and whatever only renders.
- Client layout and notifications: the position of a widget that is dragged and clamped to
  the window, and messages that remove themselves; one handler writes one value at a time.
- Streaming: video files, ranges and the pace of audio chunks are I/O; the radio proxy is modelled
  at the granularity of connections. What `extractStreamTitle` finds in a block is a constant of
  the stream; the list of stations is a constant and not empty. The widget's volume and the truncation of a title.
- Bootstrap, error filter, Swagger and logging: configuration of libraries.

## 8. Plan

The order was that of what a failure would cost: sessions and their timers, data that could
be lost (logs, counts), accounts, the client, the gateway, the pages, the rest. Sections 2 to 6 are done.

What a continuation would take up:

1. Liveness of `ClientAuth` on a smaller instance: whoever waits in the queue is answered.
2. Abstract specifications of the authentication service (a login is a chain of tokens of which
   one is alive) and of the statistics of events (a counter), with their refinements proved.
3. `TodoStats` with calls that overlap the cache's fills.
