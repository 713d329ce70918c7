# Verification of the natural-language query layer

The repository answers questions about an e-commerce database (the Olist data set) in natural
language: a React client sends a question to a FastAPI service, a language model translates it to a
tool call, the service resolves the call against the conversation so far, guards it, runs a fixed SQL
function and stores the turn. This directory holds TLA+ models of that program, the TLC
configurations that check them and proofs about them. Paths below are relative to `src/backend/`,
or to `src/frontend/src/` where they end in `.ts` or `.tsx`.

## 1. The system

| Component | State | Operations | Talks to |
|---|---|---|---|
| Query pipeline (`main.query`, `orchestrator.process_question`, `_persist_turn`) | none of its own; one coroutine per request | answer a question, store the turn | everything below |
| App-state store (`appdb.py`, `migrations_app/`) | SQLite tables users, auth_sessions, sessions, messages; **one connection shared by all requests** | create, rename, touch, title and delete conversations; insert and list messages; newest resolved call | SQLite |
| Conversation routes (`session_routes.py`) | none | list, create, read, rename, delete | store |
| Follow-up resolution (`resolver.py`) | in-memory store of anonymous conversations | classify a turn, overlay it on the prior call | cache |
| Meta-tool routing (`meta_router.py`, `meta_schemas.py`, `validation/entity_intent.py`) | none | route a shape such as count to a tool, carry filters over | resolver |
| Filter-faithfulness guard (`validation/faithfulness.py`, `validation/detectors.py`) | known cities, statuses, categories loaded at start | repair a dropped filter, or refuse | orchestrator |
| In-memory cache (`cache.py`) | LRU store with deadlines | get, set, delete, clear | orchestrator, resolver |
| Planner and chains (`planner_schemas.py`, `chain_executor.py`) | none | normalise a plan, run dependent steps | functions |
| Model client (`model_client/`) | none; the call runs in a thread | one attempt; the orchestrator retries | external service |
| Query functions (`functions/`), value validators, SQL guard | registry | check arguments, build and run one SELECT | Postgres, read-only |
| Authentication and limits (`auth*.py`, `auth_rate_limit.py`, limiter in `main.py`) | auth_sessions; counters | log in, look up, log out, count requests | store |
| Start-up (`main.startup`, `migrate_app.py`) | schema_migrations | apply migrations | store |
| Web client (`session/SessionContext.tsx`, `pages/ChatPage.tsx`) | list, active conversation, transcript, requests in flight | ask, cancel, new chat, select, delete | the routes |

What makes it hard to test:

* **Interleaving.** The service is one event loop, so code between two `await`s is atomic and nothing
  else is. A turn is written by four repository calls, each an execute and a commit in two awaits, on
  a connection other requests write and commit on as well. A conversation is checked to belong to its
  user before a translation that takes seconds and may be gone when the turn is written.
* **Crashes.** The process may stop between any two awaits. SQLite keeps what was committed, whoever
  committed it; the in-memory stores are lost.
* **History.** What a follow-up means depends on what earlier turns stored, and a prior may itself
  have been inherited, carried over by a meta tool, repaired by the guard or written under another
  configuration.
* **Memory.** Two caches and two limiters live in the process: they are shared by all requests, cut at
  a limit, run out with time, are cleared by somebody else or lost in a restart.
* **Many tools, one database.** Some forty functions write SQL of their own for the joins,
  filters, dates and sums they need. Users put their answers side by side.
* **Late answers.** The client has fetches, creations, deletions and questions in flight at once; a
  callback keeps the values of the render that created it.

The properties that make each part correct are in section 4; `PROJECT.json` lists every hazard with
its line and the properties that cover it, or why none does.

## 2. The modules

| Module | Models | Lines of the model and lines of the code |
|---|---|---|
| `ChatTurns` | `POST /api/query` end to end, the two tables, rename and delete, crashes | one action per stretch between two awaits |
| `Conversation` | resolution, routing, guard, and the state a turn leaves | one action per outcome of a turn |
| `TTLCache` | `cache.TTLCache` | one action per method and branch |
| `LossyStore` | what users of the cache may rely on | abstract specification |
| `Translation` | from a question to its worded answer: translation cache, retries, `normalize_plan`, `execute_plan`, `format_answer` | one action per stretch between two awaits; extends `TTLCache` |
| `Window` | both sliding-window limiters | operators |
| `Accounts` | registration, login, logout, the lookup of a login, over users and auth_sessions | one action per await |
| `Gate` | one server process: start-up, limiters, routes, clearing the cache, crashes | composes `Translation`, `Window` and `Accounts` |
| `DateRange` | `validation/dates.py` | operators |
| `Olist` | the imported tables, value validators, the filter helpers shared by functions | operators over rows |
| `OrderTools`, `SalesTools`, `CustomerTools` | the query functions on orders and deliveries, on revenue, sellers and products, on customers and reviews | one operator per function |
| `Analytics` | all of them over one database | extends the three |
| `SessionUI` | `SessionProvider`, `sendCore`, cancel, new chat, delete, and the server they talk to | one action per callback, answered request, render or effect |
| `MC*` | small instances | |
| `*_proofs` | theorems | |

### ChatTurns

A request is a record with a program counter. `sess` and `msgs` are the tables as the shared
connection sees them, `disk` what was last committed; `CommitAll` makes everything pending durable,
which is what `conn.commit()` on a shared connection does. `Insert` models `insert_message` with the
foreign key that refuses a row of a deleted conversation; `PersistFails` any other exception, which
`_persist_turn` swallows, leaving what it executed pending; `Raise` the outer `except` of
`process_question`, whose response is not stored. `Crash` restores `disk`, empties the in-memory
store and ends every request in flight. `EditBelongs` ... `EditReread` are the awaits of rename and
delete. A question and its answer are abstracted to who asked (the turn) and which earlier turn the
resolved call inherited from (`base`): that is all these properties tell apart. Translation,
resolution and dispatch are a nondeterministic choice of their outcomes here; `Conversation` says
which outcome it is. `eph` is the resolver's store, an entry of which may vanish at any time
(`Forget`), as `LossyStore` allows.

Creating a conversation is one step: between its INSERT and its commit nobody knows the new id. The
other writers of the shared connection, users and login sessions, are in `Accounts`; beside the turns
they would only commit pending writes earlier, which other turns do already.

### Conversation

One conversation, a turn at a time. A question is what the detectors find in it (named filters,
reset words, "those", a topic, ...); a call is a tool, what it is about, its filters and the values it
compares. `Resolve` is `resolver.resolve`, `MetaResolve` the follow-up path with meta tools,
`Route` is `meta_router`, `Repaired` and `Refuse` the guard, `Callable` whether the handler can be
called with the arguments, `Stored` the two ways the code stores the state of a success: without meta
tools the dictionary the guard repairs in place, with them the arguments it never sees. `prior` is
what was stored and `shown` the call the user saw answered; several properties relate the two. A turn
has a mode: `fresh` takes the model's call, `inherited` overlays the question on the prior call, and
`carried`, which exists with meta tools, copies filters of the prior call into a call of another
shape. `Reconfigure` restarts the service with the other value of `meta_tools_enabled`.

The filters are the five overlay dimensions; payment type (a sixth filter of `count`, and what makes
it a count by payment type), seller and product ids, limits and sort orders are left out, as are the
lookup, breakdown, compare and query shapes, which take no carried filter, and the payments entity.
Which tools have a JSON schema with parameters is a constant (`Params`): a follow-up to one without is
resolved as a new question. The regular expressions are inputs: any combination the instance lists may
be found in a question.

### TTLCache and LossyStore

`TTLCache` keeps a deadline and a position per key. `LossyStore` is the contract the resolver and
the translation cache rely on: a lookup yields the value last put under that key, before its
deadline, or nothing, and entries may be lost. `KeepsPromise` is the refinement: a stored entry
maps to its value and deadline, and its place in the LRU order to nothing. Two history variables
(`due`, `since`) say what was set and which keys were used since, for the LRU property.

### Translation, Window, Accounts and Gate

`Gate` is the process around `ChatTurns`' turns. It starts (`Start` ... `Ready`: each migration file
statement by statement, because `executescript` commits each on its own, then the version row, then
the removal of expired logins), admits requests through `Arrive` (the middleware's limiter, the CSRF
check, the per-account limiter, validation, up to the first await), and lets `Accounts` take them on
await by await. A question then goes through `Translation`; a clear needs a login. `Crash` may come at
any step but within the atomic ones: memory is lost, the tables return to `disk`, requests in flight
are lost and what was answered is remembered, for that is what must still hold afterwards.

A cache hit is a `get` and, further down, a `set` of what was got, with no await between them. They
are two actions here and `loop` names the request that holds the event loop meanwhile; the fault that
releases it (`ReleaseLoop`) is what an await put there would do. The model may answer with a single
call, a plan that is a chain (`Chains`), or JSON that is neither: an error or a plan without a step
(`Toolless`); what is no JSON, or comes too late, is a failed attempt. Only a single call is cached
(`Single`), which is what the conditions of `orchestrator.py:195-218` come to. A chain is a tuple of
bindings, each the index of an earlier step or `None`. A step either ends the chain with an error (a
binding that resolves to nothing, routing, the guard, the handler) or goes on, also when what it binds
is NULL, or a field of a result without rows: that the step named has run is all the code asks
(`Resolvable`). An answered call or chain is worded by the model once more, with a timeout of
its own (`Formatted`), and by a template if that fails. `told`, `lastUse`, `late` and `life` are
history. Each request is named, and so are the user, login and cookie it makes.

A limiter keeps a set of attempts, each the request that made it and the time; the code keeps a list
of times, whose order it never uses. A refused attempt is not kept.

Time is one counter for the monotonic clock of the cache, the wall clock of logins and limiters, and
asyncio's timers; it does not advance past a timer that is due (`Prompt`), which is asyncio's promise
to a loop that is not blocked. A migration file stands for two of its tables; indexes are left out.
Password hashing and cookie signing are perfect: a cookie is what the server issued or nothing.

### Olist, the tools and Analytics

A database is a set of orders with items, payments and reviews, and the dimension tables. `Import`
loads one order, so every subset of the instance's kinds is reached; the functions only read. An
operator per function takes the handler's arguments and returns what it reports, or `Error` where the
handler returns an error: argument checks, which filters apply to which columns, joins as sets of
tuples (an order with two reviews and two items gives four), grouping, sort keys with their ties, and
limits. A sort with ties returns the set of orders the database may choose. Sums and averages are exact
(an average is a sum and a count): rounding what is reported is left out, but where the SQL sorts by a
rounded average, as the ratings of products and sellers do, so does the model (`Rounded`, `Better`).

A day has three instants, all that the windows of `DateRange` can tell
apart: midnight, the rest of the day up to its last whole second, and the fraction of a second after that, for some windows end on the one and some on the other.

The data set is any that the assumptions `DataSet` and `OlistConstants` admit: foreign keys are valid,
purchases are whole seconds, amounts are not negative, scores are 1 to 5, and there are finitely many
customers, sellers, products and statuses. A ranking shows at most 25 rows, so a tool is compared with a ranking only on the rows it shows, or if it has room left (`Says`).

`Shown` stands for the fixed `LIMIT 15` of some groupings and `Leaders` for the ten sellers of the
concentration; both are small so that the cut happens. How similar a typed city is to a known one is a
table (`Closest`); what is done with the result is the code's.

### SessionUI

An `await` ends a step. What a continuation sets is state; `Paint` is the render of it, which
callbacks capture (`shown`), and `Effect` the message effect of that render after the cleanup of the
one before (`RunEffect`). Between them anything else may happen: React 18 renders and runs passive
effects later than the update that asked for them, except for a click, whose update and effects it
flushes at once (`Select`). A load is a request of the message effect; the cleanup turns `live` off,
and a dead load may still be answered. `skipLoadFor` is the mark by which a new conversation is not
loaded. `ClickDelete` captures `activeId` and `sessions` of the last render. The server is part of the
model: the list and the messages a request reads are those of the moment it is served, an aborted
question is still stored. One login; titles, renaming and the health poll are left out.

## 3. Instances, bounds and fairness

* Unbounded counters: `MaxCrashes` (ChatTurns, Gate), `MaxClock` and `MaxMoves` (the cache in Gate) and
  `MaxPicks` (SessionUI) appear in guards. One crash is enough because a crash leaves only `disk`, from
  which later behaviour starts afresh.
* `Gate` has four requests, three questions and a cache of two entries, a time to live and timeout of
  1, two attempts and limits of 2 and 1, so that eviction, expiry, a timeout, a retry and both
  refusals all happen within `MaxClock` 3. With two entries a lookup moves one in front of the other,
  which a cache that drops the oldest entry would not do (mutant `InOrder`). The constraint `Few` keeps
  to any two requests of the accounts, or two questions and clears, at once, with a crash at any step;
  three without one, a clear among them and two at once, or one at a time; and four questions one
  after the other, which is what it takes to store two, use the first again and see the second go.
  After a crash a second request follows at the instants 0 and 1, and the last instant is for a single request, which may
  wait until then. Logins and questions share only the limiter, the clock and the crash, and clears are
  in both groups. Values are two single calls, a chain that binds, one of too many steps, and an answer
  without a tool.
* `ChatTurns` is run over the two situations of `MCChatTurns`. In one conversation: two queries of its
  owner with a rename or delete and a crash, or two queries, anonymous ones included, without. In two
  conversations of two users: three queries, of which no more than two overlap, and those only once
  one is stored. Two queries, an edit and a crash reach every pair of racing writes; three queries are
  what "the newest of two answers" and isolation need.
* `Analytics` loads up to three orders of six kinds chosen for what can go wrong: two payments, two
  reviews, one review over two sellers, no payment, no item, no category, no estimate, a delivery date
  on a cancelled order, and purchases at the last second and the first instant of weeks, months and
  years. Three reference dates: an ordinary Monday, the first of January and the first of a month.
* `MCConversation` takes the tables of the registry that matter to routing (supported and required
  filters, entities, parameters) from the code, two values per filter, sixteen kinds of question and
  twenty translations; the model may answer any question with any of them, so that a filter is
  dropped, kept or given another value.
* `SessionUI` has two conversations, of which one exists at the start, two questions, one pick and one
  new chat or delete, any three of these (`Few`).
* Symmetry is used only where no liveness property is checked, on sets of interchangeable names.
* Fairness is assumed in one run, `SessionUI`: every request of a question ends (`FairSpec`), answered,
  aborted or failed. A browser gives each fetch an end, for a connection that is lost is an error. Users,
  renders, effects, loads and the server have none. No property of the service needs fairness:
  that a question ends in time is a bound, `AnsweredInTime`.
* Runs do not check for deadlock: requests, ticks, clicks and imports are finite in number, and once
  all are answered the system comes to rest.

## 4. Runs

| Run | Shows |
|---|---|
| `ChatTurns` | no interleaving of turns with a rename or delete and a crash orphans a message or puts it in another user's conversation (`MessagesHaveOwner`), keeps an answer without its question (`QuestionBeforeAnswer`), loses a stored turn (`SavedIsDurable`), overwrites a title (`TitleOnlyRenamed`) or lets anything but a stored success change what a follow-up inherits (`OnlySuccessMovesPrior`); a question resolves against the newest success stored before it was sent, also across a restart (`FollowUpSeesAnswer`), and never against another user's or conversation's (`PriorOfSameConversation`) |
| `ChatTurns_chain` | finding: an answered chain never becomes the prior state |
| `Conversation` | an answer applies every filter its question names, with the value named unless the model's own call has another or, for a call of another shape, the previous turn had (`AnswerHonoursQuestion`; the second exception is the next run's finding); an inherited call can be made (`InheritedIsCallable`); an inherited answer has the scope last shown, and one of another shape what was stored of it (`FollowUpKeepsScope`) |
| `Conversation_override` | finding: with meta tools a carried filter hides that the model dropped the one named |
| `Conversation_pivot` | finding: with meta tools the entity guard never fires |
| `Conversation_repairs` | finding: with meta tools what the guard repaired is not stored |
| `Gate` | the cache keeps what was used lately (`RecentlyUsedKept`) and implements `LossyStore` (`KeepsPromise`); it holds only single calls given since the last clear, though the model gives chains, errors and answers without a tool as well (`CacheIsFresh`); the model is asked only when no translation can be left (`SparesModel`), and a question waits for it attempts times timeout at most until it is translated, and one timeout more until the answer is worded (`AnsweredInTime`); both limiters refuse exactly at their limit (`LimiterExact`); a registration, login or logout that was answered holds through races and crashes (`AnswersStand`); start-up cut short anywhere is completed by the next (`StartsAfterCrash`) |
| `Analytics` | counts, revenue, ratings and what is said of a seller, product, category, state or customer agree between all tools that report them (`CountsAgree`, `RevenueAddsUp`, `RatingsAddUp`, `SellerToolsAgree`, `SalesToolsAgree`, `CustomerToolsAgree`); pages cover a listing (`PagesCover`); on time and late are apart (`DeliveriesConsistent`); windows tile time and cohorts are disjoint (`WindowsTile`, `CohortsDisjoint`) |
| `Analytics_category` | finding: the same category has revenue but no orders |
| `SessionUI` | rows that arrive late enter only the transcript of the conversation the message effect last ran for (`LateFetchIgnored`); while the composer is locked Cancel reaches a running question, and until somebody has cancelled that is every running question (`CancelReachesSend`); the composer is unlocked however a question ends (`ComposerUnlocked`) |
| `SessionUI_transcript` | finding: messages of one conversation are shown in another |
| `SessionUI_cancel` | finding: after a cancel, the end of the cancelled question takes the cancel button from the next |

The findings, each a counterexample of the code's own words:

1. `orchestrator.py:93-95` promises resolution against the prior turn; a chain is stored without a
   resolved call, so the next question inherits from an older answer or from none.
2. `validation/faithfulness.py:14-17` repairs filters the model dropped; `inherit_meta_filters` has
   filled them with the previous turn's value by then.
3. `meta_router.py:20-22` describes a guard against turning "reviews" into "products"; it compares the
   entity of the stored operation, which for a meta turn is a shape and has none.
4. `orchestrator.py:487-491` promises that both modes store the same arguments, so that nothing is
   dropped in a follow-up; with meta tools the stored `meta_args` lack what the guard repaired, and a
   follow-up of another shape answers without it.
5. `SessionContext.tsx:25-27`: the transcript is that of the active conversation; the load keeps every
   message with a local id, which nothing ever replaces, whatever conversation it belongs to. It also
   goes wrong without one: a fetch answered between `setActiveId` of `newSession` and the cleanup of the
   old effect fills the new conversation with the old one's rows, and `skipLoadFor` keeps it from
   loading its own.
6. `ChatPage.tsx:42-43` and `66-67` say that Cancel can abort the request in flight. `handleCancel`
   unlocks the composer at once; when the aborted fetch then rejects, its `finally` clears the lock and
   the abort handle of the question asked meanwhile.
7. `functions/count_variants.py:67` gives `health_beauty` as an example; `_filters.py:118` turns the
   underscore into a space, which no category in the table has, and the count is zero, while
   `get_revenue` reports its revenue.

Observed while modelling, and in the models, without a run of their own:

* `session_routes.py:135-137` wants a 404 when a delete races a rename; one await later the re-read
  returns nothing and `SessionMeta(**None)` raises, a 500 (`EditReread`).
* `config.py:113` speaks of five failures per fifteen minutes; the limiter counts every admitted
  attempt, the successful ones too (`Counted`).
* `seller_comparison`, `category_comparison` and the lookups join items with reviews: revenue is
  multiplied for an order with several reviews. `SellerToolsAgree`, `SalesToolsAgree` and
  `CustomerToolsAgree` therefore compare it with other tools' revenue only where no order has two.
* `average_rating_by_product` sorts by the average rounded to two places and breaks ties by the number
  of reviews, `products_by_rating` by the exact average: the two rankings may differ in products less
  than a hundredth apart (`RatingsAddUp` shows they differ in no others).
* A chain binds a NULL of an earlier step's row like any value, and the filter it was for is then
  absent from the step (`chain_executor.py:25`).
* A new conversation left before it is rendered keeps its `skipLoadFor` mark, and is not loaded when
  it is picked later (`SessionContext.tsx:120`).
* `list_orders` and `list_low_reviews` sort by keys that may tie (two rows may share a review id and a
  date), so a row can be shown on two pages or none; `PagesCover` is stated for keys without ties.
* `products_by_rating` counts reviews once per item against `min_reviews`.
* `chain_executor.py:26-28` looks a binding up in a result's filters, which line 107 has dropped.

Each property of a passing run is shown to bite by a fault: operators marked `\* fault:` are variants
of a definition with a plausible mistake (a missing WHERE, a forgotten commit, a cleanup left out)
under which TLC finds the property violated.

## 5. Proofs

All theorems hold for every value of the constants that satisfies the named assumptions. These say
that `None`, `Error` and ids are distinct, that functions have their domains and limits are numbers
(`ChatConstants`, `CacheConstants`, `TranslationConstants`, `GateConstants`, `UIConstants`,
`ConversationConstants`, `OlistConstants`, `Distinct`, `AnalyticsConstants`); that the JSON schemas of
the routed tools have the filters and required arguments the registry gives them (`RoutedSchemas`);
that years start where months do and there was a last year (`CalendarAssumption`, `Calendar`); and
what section 2 says of the data set (`DataSet`). TLC evaluates each on the runs
of its module.

Every property of a passing run is also a theorem, but for `ComposerUnlocked`, which is liveness.

**ChatTurns_proofs**: `TypeCorrect`, `Ownership`, `QuestionsKept`, `PriorIsolation`. The types are not
inductive by themselves: that a row names a session rests on every turn that writes being durable
(`TypeInv`). The other three follow from one invariant, `IInv`. Its main conjunct says of the tables
in memory and on disk alike that they are *tidy*: each row was written by a turn in flight or
finished, for the session and user of that turn, at a time before the clock; each answer has its
question; a stored call is the call of its turn, which succeeded. A commit copies a tidy state and a
crash restores one, which is why the same predicate is needed of both. That a turn past the
ownership check asks in a session of its own user, or in one since deleted, carries `Ownership`
across the await between the check and the write; `PriorIsolation` needs in addition that
the in-memory store holds only successes of its own id.

**ChatTurns_durable_proofs**: `PriorMovesOnSuccess` and `TitlesKept` are action properties that follow
from `IInv`, one action at a time: only the insert of an answer can bring a newest resolved row, and
only the two title updates write a title. `SavedStaysDurable` and `FollowUpsSeeAnswers` need `HInv`.
`SavedIsDurable` speaks of the disk; the induction needs the same of the connection, which the next
commit copies, from the insert of the answer on (`SavedOk`), and that no session exists on the
connection alone, only a delete being uncommitted when another request looks (`Backed`). For what a
follow-up sees it needs that a stored answer is of a turn whose response is known, and has a call if
that succeeded (`AnswerOk`), and that what a question has seen are saved turns of its own
conversation (`AskedOk`): their rows are then still there, on disk after a crash, when it reads.

**TTLCache_proofs**: `BoundedSize`, `LruGuarantee` and the refinement `CacheKeepsPromise`. The
invariant: positions of stored keys differ, a key in front of another is among those used since the
other, deadlines agree with the history, and the number of entries is at most the capacity. Eviction
removes the unique oldest entry, and so the key that most others were used after.

**Gate_proofs** composes with them: each step of `Gate` is one method of the cache
or leaves it alone, so its invariant and refinement carry over to any number of
requests (`LatelyUsedStays`, `GateKeepsPromise`), and `ModelSpared` relates what a lookup missed to what
was used since. `GateInv` adds one conjunct per component. `BootInv`: the statements in front of the
program counter have been executed, and a recorded migration is complete (`Starts`). `TrInv`:
per request, what it holds in its local variables fits what the model was asked, how often, and how
long the request has waited for it (`Fits`; `InTime` needs besides that the clock never passes a timer
that is due); and a cached value was given since the last clear and is a single call, also while the
request that renews it holds the loop (`CachedFresh`). `AccountsType` with the rest gives `GateTypes`.

**Gate_requests_proofs**: `LimitersExact` rests on `LimitInv`: a limiter keeps, of the attempts it
admitted since the process started, all that are in the window and no others. `Answers` rests on
`AccInv`, which follows what each request has written (`Acts`): the account of a registration past its
insert is in the table, and on disk once its commit is done, before anything is answered; the row a
logout removes is gone. Emails are unique through the race of two registrations (`UsersOk`), a
cookie is only of a request that was welcomed (`JarOk`), so no login row is written again under an id
somebody has logged out (`LoginOk`). For a login, `KeptInv` follows its row from the insert to the disk
and says who may have removed it since: its running out, or a logout with its cookie.

**Conversation_proofs**: `TypeCorrect`, `NoProxyAnswer`, `FollowUpDispatchable`, `ScopeKept`. The
last two rest on `PriorShown`: a stored call that is a registered tool is the call of the last
answer and could be made, and one that is a shape has no filter value but those shown.
`NoProxyAnswer` is proved of the turn itself: a call that passes the guard has every detected filter
the tool supports, one it does not support is refused, and where a value comes from follows from how
the turn was resolved (`AppliedValues`).

**SessionUI_proofs**: `UITypes`, `LateFetchesIgnored`, `CancelReaches`. The
types need to know what taking a conversation out of a list leaves, which is proved by counting the
places before each. `UIInv` follows a question from the send to the row the server stores (`Turn`) and
the requests that carry it: rows are of the conversation they are stored in, a load still listened
to is for the conversation the effect last ran for (`Fetches`), and the ref behind Cancel holds a
running question while the composer is locked (`Locked`).

**Analytics_proofs** is about what forty functions return, with any orders, customers and calendar.
The invariant is only `Data`: the rows keep what the data set promises. The work is in the
operators. A sum is a fold, and a fold is defined by recursion over the set; `SumUnique` shows that its
value does not depend on the element taken first, by a least counterexample, for the library's
induction theorems take a predicate and cannot be used. From it follow `SumOfGroups` and
`CountOfGroups`: a total is the sum over any grouping, which is all of `CountsAlike`, `RevenueAlike`
and of the sums of `RatingsAlike` beside the filters. `RoundedClose` is the arithmetic of its rankings:
products that tie when rounded are less than a hundredth apart. `RevenueOnce` shows that joining items
with reviews repeats no row while no order has two reviews, the condition under which `SellersAlike`,
`SalesAlike` and `CustomersAlike` compare joined revenue; `FactsAre` says what such a join counts in any
case, and `ComparedAddUp` and `LeftPaidRows` do the same for orders without reviews or payments, which
outer joins keep.
`WindowRanges` gives the two ends of each relative window and of the one before it, and `Tile` that two
such windows meet (`WindowsMeet`, `CohortsApart`). `PagesAlwaysCover` counts, for each row, the rows in
front of it (`Ranks`): where no two tie there is one page for each offset and the pages are disjoint.
`DeliveriesAgree` splits the delivered orders by their delay.

`TTLCache` has no run of its own: `Gate` runs its actions among those of many requests, and checks
`RecentlyUsedKept` and `KeepsPromise` there.

Only model-checked: `ComposerUnlocked`, for the prover handles neither fairness nor `ENABLED`. The
seven findings are counterexamples, of which there is nothing to prove.

## 6. Not modelled, and why

* The regular expressions of `validation/detectors.py`, prompts, wording, formatting, logging and
  rendering: text, abstracted to what is decided from it.
* Postgres: what a SELECT returns is modelled, its execution, pool and timeouts are not.
* The SQL guard and scope check: decisions over a parsed statement, whose grammar is an external
  parser's; they keep no state. The escape to written SQL is therefore left out of the pipeline too.
* The fixed demo plans of the planner and a disabled translation cache, both off by default.
* The thread a timed-out model call leaves running: its result reaches nobody.
* `/me`, the CSRF seed, the cache and health statistics: they change nothing. The evaluation endpoint
  runs its cases through the pipeline modelled here.
* The MCP server: a second transport for single functions, without state.
* The model service and the SQL parser are external; what the code does with their answers is
  modelled.
* In the client: log-out and a second login in the same tab, two tabs of one user, titles.
* Evaluation and fine-tuning scripts, deployment, the schema packs' declarative tables.

## 7. Plan

What is modelled is what the code's own logic needs, and what it promises is proved. What is left:

1. Proofs about what the models say beside the properties the runs check: that `CommitAll` and a crash
   compose to a recovery of a prefix of the acknowledged turns, and that a refused request changes
   nothing but the limiter that refused it.
2. Shorter proofs: the lemmas of `Analytics_proofs` on filters follow one pattern and can share it.
3. When the code changes, the `map` of `PROJECT.json` names the definitions to read again, and the
   findings of section 4 say which runs turn from a violation to a pass once they are repaired.

## 8. Running

    tlc -workers 2 -config ChatTurns.cfg MCChatTurns.tla
    tlapm ChatTurns_proofs.tla

Each run takes from a few seconds to about four minutes on two cores, each proof module one to four
minutes. `PROJECT.json` maps every definition to the lines it models.
