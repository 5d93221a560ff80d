# EKAINE in TLA+

EKAINE keeps a database of the Elite Dangerous galaxy. It listens to EDDN, a
public feed of what players' clients see, imports Spansh's galaxy dumps, derives
views and time series inside PostgreSQL, lets users of a Discord bot submit
mining maps, and puts a login in front of Grafana. This directory specifies the
parts that change state: who may store what, in which order, what is left when a
step fails, and which claims of the code hold of it.

Paths below are relative to `src/ekaine/` unless they start with `docs/` or
`tools/`.

## 1. Inventory

| Part | State | Operations | Talks to |
|---|---|---|---|
| EDDN listener `ingestion/eddn/listener.py` | position in the loop, the local `obj` | receive, decode, validate, dispatch, heartbeat, exit | ZeroMQ feed, watchdog, processors |
| Watchdog `common/watchdog.py` | `last_progress`, `running`, the sleep of its thread | start, heartbeat, check, stop, `os._exit(1)` | the listener's process; Docker restarts it (`tools/docker/docker-compose.yaml`) |
| Journal processor `processors/journal_v1_0.py` | the session; the name-to-id map of one message | 10 storing steps, in an order per event | `upsert_all`, adapters, the station view |
| Commodity and signal processors | the session, the resolved station | listings, market time series, signal time series | adapters, the station view |
| `upsert_all` `postgresql/utils.py` | none | one statement, one commit, or a rollback and `[]` | PostgreSQL |
| Tables `postgresql/db.py`, `timeseries.py`, migrations | rows, unique keys, foreign keys | row builders `to_dict(s)_from_...` | everyone |
| Resolved-stations view | a snapshot of stations and owners | `REFRESH` by pg_cron every 10 min | read back by ingestion |
| Spansh import `ingestion/spansh/pipeline.py` | index, batch, `id_cache` | read, skip, flush, 5 layers of statements | `upsert_all`, the same tables |
| Download and hydration `common/utils.py`, `tools/scripts/hydrate_postgres.sh`, `Makefile` | `.part`, `.json.gz`, `.json` | check, request with a range, append, move, unpack, import | Spansh's server, the import, Docker's `setup` service |
| Raw and processed time series | raw reports, processed buckets | two SQL procedures, every 15 min | filled by the processors |
| REST proxy `interfaces/rest/api_handler.py` | the session store in Redis, a cookie per browser | `/login`, `/oauth2/callback`, `/logout`, proxy | Discord (OAuth), Redis, Grafana and its cache table |
| Mining maps `interfaces/discord/commands/mining_maps/` | maps and their commodities | submit, edit, list | adapters, `upsert_all` |
| Other Discord commands, CLI, views, monitoring | none of their own | read-only queries | adapters |

The parts meet in six places: the loop calls one processor at a time and is
ended by the watchdog; the processors and the import write to the same tables,
each statement a commit of its own; the processors read stations through a view
that a third process refreshes; pg_cron reads what the processors appended; the
setup service hands the import whatever the download left on disk; the requests
of all browsers share Redis and the cache table of Grafana.

What is hard here:

- **Partial failure.** One message is up to ten commits, a mining map two.
  `upsert_all` answers a refused batch with `[]`, and most callers never look.
- **Stale reads.** Stations are resolved through a view up to ten minutes old and
  written back; ids are cached by the import; `obj` survives a rejected message; a
  page load carries the cookie it was started with past logins in other tabs.
- **Ordering.** The feed brings messages in any order. A station's owner and the
  market time series are foreign keys that the schema does not declare.
- **Crashes and restarts**, of the listener anywhere between two commits, of the
  import anywhere in the dump, of the download anywhere in a file, of Redis between
  two snapshots.
- **Time.** The watchdog's detection, sessions that expire, and buckets processed
  once, after their end, with reports that arrive late.
- **Boundaries.** Batches whose columns are the first row's, deduplicating dicts
  whose key lacks a column, the first bucket of a week, a range request that starts
  at the end of the file.

`PROJECT.json` lists each of these hazards at its line with the property that
would catch it, or the reason why none does.

## 2. Modules

| Module | Models | Notes |
|---|---|---|
| `Watchdog` | `WatchdogTimer` | time in ticks; the clock's `quiet` is `time.time() - last_progress` |
| `EddnListener` | `run_listener`, Docker's restart | extends `Watchdog`: one step of the system is one step of both |
| `Upsert` | `upsert_all` | pure: `Accepted`, `UpsertAll`, and `UpsertDict` for batches that are dicts |
| `KnowledgeBase` | the abstract specification of every writer of the galaxy | see below |
| `JournalIngest` | journal processor, its tables, the view | one action per step of `process_model`; `todo` is the list of the steps left |
| `FeedIngest` | commodity and signal processors | extends `JournalIngest`; one message of any of the three schemas at a time |
| `SpanshImport` | the dump import beside the listener | extends `FeedIngest`; interleaves with all of its actions |
| `Hydration` | `hydrate_postgres.sh`, `download_file`, `ungzip` | the import is a sequence of blocks here, and batches in `SpanshImport` |
| `Timeseries` | the two bucket procedures | on its own: nothing else reads their tables |
| `ApiSession` | the REST proxy with Redis, Discord and Grafana | on its own: it shares no table with the rest |
| `MiningMaps` | the commands that submit and edit maps | extends `Upsert` |
| `MC...` | small instances of the above | messages and dumps as records, one per interesting shape |
| `..._proofs` | theorems and their lemmas | |

**How state and actions correspond to the code.** `JournalIngest.db` is the set of
tables: `db.systems` maps a system to the columns that some step or property reads,
`db.presences` and `db.stations` likewise, the others are sets of keys. A row stands
for its id: names are unique where the code looks rows up by name, and where they are
not (bodies) the key is the unique constraint. `todo` holds what `process_model` has
yet to call and `At(step)` is "the next call is this one"; each `Store...` action is
one call with the dicts it builds, the statement, its commit or its rollback.
`owner` is the pair that the station step resolved before it writes, a step
apart because the view may be refreshed in between. `Interrupt` is a killed process;
`Abort`, `StoreSystemRaises` and `MapFactionsRaises` are exceptions that end the
message. `clean`, `whole` and `flawless` are history variables: nothing was refused.

**The view.** `ResolvedStations` is the SQL view as a set of rows, `view` the
materialized copy, `RefreshView` pg_cron's action. Code that reads stations reads
`view`, never `db`.

**The import.** `cached` is `id_cache` as the set of the rows whose id it holds,
`Layers` the ten statements in order, `Lookups(l)` the ids a layer needs, and
`LookupRaises` the `KeyError` when one is missing. Each layer's dict is described by
`Kept` and `Dict`: the places in the dump that its key keeps, and what they store.
Of a system's "System Colonisation Ship" entries the newest is one station, as the
validator of the dump's systems makes it (`Decommissioned`). Signals that are missing
(`Null`) and signals that are there but empty are told apart, as the layers do.

**The proxy.** A tab is one page load with the redirects it follows, at the await
named by `tab[t].at`; `jar` holds the cookie that the tabs of a browser share.
`Authenticate` is `get_current_user`, `InsertCacheRow` and `CloseDatabaseSession` are
the two ends of `maybe_initialize_cache` with the row lock in between,
`StoreSession` and `Land` the two ends of the callback: the session in Redis comes
before the cookie in the browser. `SaveSnapshot` and `RestartRedis` are
`redis-server --save 60 1`. `granted`, `loggedOut` and `shaken` are history, and so are
`asked` and `away` of a tab: the path its load was opened for, and that `proxy` has sent
it to `/logout` for want of a name, the one way on which the code drops the path.

**Mining maps.** The handlers await nothing before their last commit, and the bot has
one event loop: commands do not interleave. What can come between the two commits of
a command is a crash, a refused batch, or in `edit` the exception of a list that
nothing has parsed yet. `told` is what a user last saw of a map. A list parses when the
metadata knows its symbols (`Symbols`); that one of them is no commodity shows only in
the foreign key that refuses the batch (`Refused`).

**Hydration.** Files are sequences of blocks `<<dump, number>>`, so that a file
resumed after Spansh has published a new dump is a visible mixture. A server may send
the rest of a dump or ignore `Range` and send all of it: `download_file` does not look
at the status, and appends either. gzip reads whole dumps one behind the other
(`Unpacks`), and ijson raises at a second one (`SecondDump`). An import goes on after a
skipped system or a lost batch: `db` has the blocks that were stored whole, `thin` those
of which something was passed over. `make` stops at the first failing step, and Docker
Compose starts the other services only after a setup that succeeded.

**The abstract specification.** `KnowledgeBase` says that facts are learned and never
lost, and that a fact is learned only when the facts it refers to are already known.
`JournalIngest`, `FeedIngest` and `SpanshImport` each implement it under a refinement
mapping (`Facts`, `AllFacts`, `WorldFacts`: every row and every non-NULL column is a
fact; `...Needs`: the foreign keys, declared or not). The step form matters: an
invariant could hold at the end of a message and fail between two commits, where
another process reads.

## 3. Runs

| Run | What it asks | Size |
|---|---|---|
| `listener` | with any order of six kinds of message, hangs, kills and restarts: which object goes to a processor, for which message, and does the loop come back | 4 messages, timeout of 3 check intervals in half-interval ticks |
| `journal` | station messages against a view of any age; bodies, rings, hotspots; a system that changes hands. Any order, repeated, interrupted; every station becomes resolvable | 12 messages in three topics, 1 database failure, 357 000 states |
| `journal_unoccupied` | an Unoccupied system has no controlling power (violated) | 4 messages |
| `journal_twin_stations` | one station per name (violated) | 6 messages |
| `journal_announced` | what the log announces is stored (violated) | 4 messages |
| `spansh` | imports killed and restarted at several places of the dump, the three processors, and the import beside them on the same station: what an undisturbed import or message has stored, when the import raises, which duplicate wins | 6 items, batch size 5, 2 starts, 1 database failure, 287 000 states |
| `spansh_presences` | every listed presence is imported (violated) | 6 items |
| `timeseries` | which reports the buckets hold, over late reports, failed calls and the end of a week | 3 reports, 4 buckets, week of 3 |
| `api` | as whom and for how long requests reach Grafana, when a login is asked for, which page it ends at, and that every load ends | 2 tabs, 2 accounts (one without a name), 4 moves of the users, or 3 and 1 fault, TTL 1, 262 000 states |
| `api_cold` | two requests on a cold cache do not collide (violated) | as `api` |
| `maps` | what users were told is what is stored; which maps are left without commodities; maps stay in the system of their ring | 2 maps, 3 rings of 2 names, 5 lists, 1 fault, 271 000 states |
| `hydration` | what is imported, what a failed setup leaves behind, when the services start, and that setup succeeds in the end | dumps of 2, 3 and 2 blocks, 2 faults, 609 000 states |

**Bounds.** All are CONSTANTS or sets in the MC modules. `MaxMessages`, `MaxReports`,
`MaxMaps` and `MaxMoves` bound histories, `Horizon` the clock, `MaxImports` restarts,
`MaxDbErrors` and `MaxFaults` the failures in a behaviour (refusals for a reason in
the data are not bounded). The journal and import runs do not bound how many messages
are taken: messages come from a finite set, so the state space closes, and every
order of them with every repetition is covered. `OneTopic` and `OneStress` keep a
behaviour to one group of messages, or to an import with two starts or one beside
messages: the groups meet in the rows they are about, and a product of all would
only repeat it. Two systems, two factions, two planets, one ring and two stations
are the least with which a row can be attached to the wrong parent, a name can be
in two systems and a body can have a twin. One database failure is enough to make
any one step of a message run without an earlier one; two would repeat it. The dump
has each system more than once, an item that the model refuses at a place inside a
batch, a second batch, and starts before and after the refused item. The time
series run uses buckets of one tick (the code: 15 minutes) and weeks of three; that
the reports of a behaviour go to one of the two tables (`OneTable`) is sound because
the procedures never read each other's. Two tabs are enough for every pair of
requests to race; `FirstBrowser` fixes the browser of the first tab, which is
symmetric. Two moves open the page in both tabs and two more log in twice, or out and
in again; with a fault there is one move less (`FewEvents`): a crash or a refusal
takes the place of the second tab's login. Two faults in `hydration` leave two parts of a
file, so that it can be put together from all three dumps, and a kill before the move can
be followed by an import that is interrupted; the dumps grow and shrink. `maps` permutes the names and
`timeseries` the powers, with safety properties only.

**Fairness.** `listener` assumes that Docker restarts the process (`Boot`; the
service has `restart: always`), that time passes and that the watchdog thread, a
daemon thread of its own, runs (`Tick`, `Recheck`, `Kill`). It assumes nothing of the
feed or of the processors: `HungIsRestarted` is about a processor that never returns.
`journal` assumes that pg_cron goes on refreshing the view (`RefreshView`), and
nothing of the messages. `api` assumes that the event loop resumes a handler whose
await is over, that the browser follows redirects and that PostgreSQL hands over a
row that is free again (`Serve`), per tab; nothing of the users. `hydration` assumes
that setup goes on while it can (`Setup`) and that the operator tries again (`Up`).

**Deadlock** is checked in every run but `timeseries`, which ends with its clock, and
`api`, which ends when the users have made their moves. In the listener's run the
clock goes on when all messages are taken, as a quiet feed does.

## 4. What the runs found

Confirmed by runs that end in a violation (`findings` in `PROJECT.json`):

1. `postgresql/utils.py:45` with `db.py:1777`: `COALESCE(EXCLUDED.c, t.c)` means that
   the `None`s which should clear a system's power columns never do.
2. `db.py:263`: a scanned ring is stored as a body of its parent's name; a planetary
   station then gets two owners, two rows and, with two rows in the view, its
   commodity messages are dropped.
3. `journal_v1_0.py:162`: a batch of presences with differing columns is refused by
   the compiler, and the log still says that it was stored.
4. `pipeline.py:120`: presences are deduplicated by faction name alone, so that only
   one system per faction and batch keeps its presence.
5. `interfaces/rest/api_handler.py:70`: `maybe_initialize_cache` never commits its
   `INSERT`, so that the race it is there to prevent remains.

Seen while modelling, and stated as what does hold:

- `listener.py:108`: the `ValueError` branch logs and falls through to the dispatch
  with the previous `obj`. The last valid message is processed again, or, when there
  is none, the `NameError` ends the process. Proved: the replay is always of the
  newest valid message (`StaleOnlyWhenRejected`), one call per message, in order.
- `common/utils.py:14`: `download_file` resumes behind `.part` without asking whether
  the dump is still the same one, or whether it is sent the rest or the whole. gzip's
  checksum refuses the mixture and ijson what follows the first dump
  (`ImportsWholeDumps`), but a `.part` with nothing behind it makes every later setup
  fail with 416 until a larger dump is published: one that a kill left whole, one that
  begins twice, or one of a dump that was larger (`NothingBehind`, `TriedUntilUp`).
- `tools/scripts/hydrate_postgres.sh`: an import that was interrupted after a system
  of the last day counts as hydrated, and the services start without the rest.
  They also start after an import that ran to its end and lost batches or skipped
  systems on the way, of which only the log tells (`UpAfterWholeImport`).
- `api_handler.py:222` with `:127`: a user without a name is sent to `/logout`, whose
  way back to the login has no path: the load ends at the root (`PageSurvivesLogin`
  says that this is the only way to lose it).
- `submit_mining_map.py:116`: a refused batch of commodities leaves a map that keeps
  its name and that no command finds, edits included (`BareOnlyAfterRefusal`).
- `submit_mining_map.py` looks a ring up by name alone, and may attach the ring of
  another system; edits never do (`MapsStayInside` is about steps for that reason).
- The market time series stores ids of presences where the columns are named for
  factions (`timeseries.py:508`); the last bucket of every week is never processed
  (`offset 1`, procedure line 18), and a gap may be filled with a report that is later
  than the bucket (line 78); the watchdog's docstring says SIGTERM and the code calls
  `os._exit`; `list_mining_maps.py:71` raises `ValueError("Boo")`.

## 5. What is proved

All theorems hold for every value of the constants, under the named assumptions of
the modules: types of the constants; `Timeout \in Nat`, `CheckInterval > 0`; a
`Null` that is none of the values it stands in for, nor a number; lists of commodities
that are not empty, as `str.split` returns them; commodities that are symbols the
metadata knows; dumps of at least one block; weeks of whole buckets. `OneOwnerUnlessTwinsCorrect` alone has a hypothesis of its own,
`NamesAreConsistent`: no two systems have planets of one name, and a station on the
ground stays on its planet. That is a promise of the game and not of the code; the
`journal` run evaluates it on its messages (`MCNames`).

Every safety property of every passing run is the subject of one of these theorems.

| Theorem | Says |
|---|---|
| `ListenerTypeCorrect` | the listener and the watchdog keep their types, and the loop is watched for as long as its process is there |
| `DetectionIsPrompt` | a process without progress lives at most `Timeout + CheckInterval` |
| `NewestValidCorrect`, `OneCallPerMessageCorrect`, `StaleOnlyWhenRejectedCorrect` | what a processor is called with, and why |
| `NothingOverlookedCorrect` | back at the socket, every message with a processor has been dispatched once, as itself |
| `JournalTypeCorrect`, `FeedTypeCorrect` | the tables, the view and the processors keep their types |
| `ControllersAreKnownCorrect` | every controlling faction, also those stored as text, is a stored faction, and the stale view names only stored rows |
| `LearnsInOrderCorrect`, `FeedLearnsInOrderCorrect` | the journal processor, and all three processors, implement `KnowledgeBase` |
| `NoDanglingReference` | no stored row refers to a missing one, station owners included |
| `CleanMessageAppliedCorrect`, `WholeFeedAppliedCorrect` | a message of which nothing was refused is stored |
| `OneOwnerUnlessTwinsCorrect` | while no two bodies have one name, a station is stored once in a system |
| `ImportTypeCorrect`, `ImportLearnsInOrderCorrect` | the import, for every dump, and the listener beside it implement `KnowledgeBase` |
| `RaisesOnlyAfterRefusalCorrect` | a lookup in `id_cache` fails only after a refused batch |
| `NewestItemWinsCorrect`, `CleanImportAppliedCorrect` | what an import has stored that was never refused |
| `FeedBesideImportCorrect` | what the processors promise they keep beside an import |
| `SessionTypeCorrect`, `ActsForOwnerCorrect`, `PageSurvivesLoginCorrect` | `proxy` works for the account that the browser of the load logged in with, and a load keeps the path asked for but on one way |
| `PassesOnlyWhileValidCorrect`, `AskedAgainOnlyWhenOverCorrect` | for how long after a login they do, and when the next login is due |
| `MapsTypeCorrect`, `AnswersAreTrueCorrect`, `BareOnlyAfterRefusalCorrect`, `MapsStayInsideCorrect` | all properties of the `maps` run |
| `HydrationTypeCorrect`, `ImportsWholeDumpsCorrect`, `UpAfterWholeImportCorrect`, `FailsOnlyForLeftoversCorrect` | the safety properties of the `hydration` run |
| `TSTypeCorrect`, `RowsComeFromReportsCorrect`, `TimelyReportsCountedCorrect`, `BackfillLeavesNoGapCorrect`, `ConflictNeverMixedCorrect` | all properties of the `timeseries` run, for buckets and weeks of any length |

**Watchdog.** `PromptDetection` is not inductive: it does not know how long the
thread still sleeps. `QuietBudget` (`quiet + sleep <= Timeout + CheckInterval`) is.
Every step of the listener is a step of the watchdog or leaves it alone
(`WatchdogStep`), so that the invariant is shown over five watchdog actions and holds
in the composition.

**Calls.** `CallInv` adds to the three properties where the loop is (`Position`: a
dispatch is for the message just taken, or that one was rejected) and what the calls
so far can refer to (`CallsSoFar`). Each needs the others: the order of the objects
needs `NewestValid`, which needs to know that a validating loop has taken something
since it started.

**Overlooked messages.** `CallInv` bounds the calls from above. `OwnCallMade` is the
other half: each handled message of this process has had its call by the time the loop
is back at the socket, and until then only the last one may still be owed it.

**Journal.** `Core` is what any other writer that only adds rows keeps: the shape of the
tables, where `process_model` is (`Progress`: `todo` is in the order of the plan, and
the system is stored before any step that follows it), what the name map knows
(`Mapped`) and what the view names (`ViewStored`). The heart is that each writing action
only adds (`Grows`) and that what it adds is `Grounded`; `Rank` and `HeadIsOrdered` say
which steps are behind the one at hand. What all of this needs of the upsert is proved
first (`UpsertAllGrows`, `UpsertAllKeepsValues`): a batch loses neither a row nor a known
column, since COALESCE keeps what a NULL would overwrite. That is the same line that
finding 1 is about. Four invariants stand on `Core`, one for each question:
`TablesControlled` and `ViewControlled` (controlling factions), `Typed` (types, and
that the station step holds an owner that it resolved), `Applied` and `Placed`.

`Applied` says of each call of a message none of whose batches was refused that it is
still pending or has its effect. A later call keeps the effect because it only adds;
the one effect that a later write could undo, the time of a station, is of the last call.
`Placed` says where bodies and stations can be: a body is one that a message told of, a
station's owner is its system or a body of the name that a message of the station gave.
Two rows of one station then have owners of one name, which is what `OneOwnerUnlessTwins`
excludes when bodies have no twins. The owner is resolved one step before it is used,
and from a view of any age: `OwnerPlaced` and the view's part of `Core` carry it across.

**Feed.** `FeedInv` adds that the station in hand is stored though it comes from the
view (`StationInHand`), which rests on `ViewStored`; the journal's steps are carried over
whole. `WholeFeedApplied` is about the step that commits, and not a state: an import
beside it may overwrite a listing's time at once. It needs that the batch holds every
commodity that has a symbol (`FeedHand` knows whose station it is). The symbols are a
fold that drops what has none, and that it loses nothing else is shown by a least
counterexample, for which the well-founded order of the naturals is enough
(`SymbolsKept`).

**Import.** `ImportInv` composes `FeedInv`, the types of both and `pending` within the
dump. `ControllersAreKnown` is not part of it and is no invariant of this system: the
import stores the faction of a station as unchecked text. `OthersAdd` is what makes the
composition work, in either direction: `Core` and the hands of the processors are kept by
a process that only adds. So each layer is shown to add (`ImportAdds`), and what it
returns to be stored (`CacheGrows`); that it is grounded follows from the ids it looked
up, since `cached` holds only stored rows (`WorldLearns`).

`RaisesOnlyAfterRefusal` needs what each layer of a batch has brought back while nothing
was refused (`BatchKnown`), and with it that the dicts that remove duplicates lose no key
on the way: of the places in the dump with one key, the last remains (`LastTriple`,
`LastQuadruple`, `KeptStation`, `KeptListing`). `NewestItemWins` needs the newest of
finitely many items (`NewestOf`). For `CleanImportApplied` an item is `Done` with a layer
once its batch has passed it, and `Stored` there for good; an item of the last batch is
done with all ten. What one batch of all the items would keep is, for the items of each
real batch, what that batch keeps (`KeptOfPart`): the last mention of a faction in the
whole dump is the last in its batch.

**Sessions.** `SessionInv` ties cookies (`JarFine`), tabs (`TabFine`) and Redis
(`SessionsFine`) to the logins that made them. None of the properties is inductive:
that a request is worked on under the right name at the end of `proxy` needs that its id was
its browser's when the page was opened, hence that the cookie was, hence that the
callback stored the session for the browser it answers. `StoreFine` also says where a
session that is neither old nor logged out can be: in Redis, unless a crash touched it.
The two action properties then follow from `ProxyDecides`: which two steps decide.

**Maps.** Between the two commits of a command `AnswersAreTrue` needs to know that the
map under way has commodities or gets some from a list that has been parsed
(`JobFine`), and that ids are given out one after the other (`Numbered`), or a
new map could take the place of another. Both first commits are one lemma (`Commits`).

**Hydration.** A `.part` may be put together from several dumps. What it always is:
either it begins a second time (`Restarted`), or its n-th block is the n-th of some dump
(`Placed`); then it ends, with the rest of the response, as the dump that is being sent
(`Resumes`, `EndsAs`), and left behind by anything but a kill before the move it is
shorter than the dump of its last block (`Unfinished`). So a file that is not a mixture
unpacks (`EndsAsUnpacks`), one that unpacks begins with a whole dump (`BeginsWhole`), and
behind that it ends or begins again, where ijson stops (`ThenBeginsAgain`).

**Time series.** `ClockTick`, `CallIsForLastBucket` and `CallForEveryBucketButOne` are
the calendar: for any lengths of bucket and week, "offset 1" of the buckets since the
start of the week is the one that is just over, and there is none only in the
week's first. `WrittenOnce` is the heart of the invariant: while a call is due its bucket
has no row, so a call never mixes with rows of another (`ConflictNeverMixed`) and never
takes a row away (`BackfillLeavesNoGap`). `TickCovers` says that time alone ends no
call, `EndCovers` that a call ends only its own bucket. That a row has the value
of a report needs that the mode of finitely many reports is one of them
(`ModeIsReported`), that a gap is filled that a known series has a latest report
(`LatestExists`, by well-foundedness of the natural numbers).

**Only model-checked**: liveness (`HungIsRestarted`, `StationsBecomeVisible`,
`EveryLoadEnds`, `TriedUntilUp`), since the prover has neither fairness nor ENABLED.
The five claims that the code does not keep are refuted by their runs.

## 6. Not modelled, and why

- Columns that no step and no property reads, formatting, logging, the shapes of ids.
- `load_metadata_yaml_into_pg` and the symbol tables: their result is `Commodities`.
- Rows that are deleted: nothing in the modelled code deletes.
- The isolation of concurrent statements within PostgreSQL: a statement is atomic,
  as it is in READ COMMITTED for statements with one `INSERT ... ON CONFLICT`. The one
  transaction that stays open across an await, that of `maybe_initialize_cache`, is
  modelled with its row lock.
- What EDDN publishes while the listener is down, and the same report uploaded by two
  players: the code promises nothing of either.
- Query strings and bodies that the proxy passes on unchanged, and the headers of the
  client, which it copies beside those it adds (`api_handler.py:198-226`). `ActsForOwner`
  is therefore about the account that the proxy works for and adds the name of. Which of
  two headers Grafana would go by is not said, nor is it claimed that it gets only one.
- Of a dump's stations, colonisation ships of which some have an `update_time` and some
  do not: comparing them raises.
- The sizes of a dump packed and unpacked: a block stands for some of its bytes in either
  form and for the systems in them.
- Read-only queries, views other than the resolved stations, autocompletion and the
  Discord commands that only format; the metrics of table sizes, which nothing reads
  back; migrations, of which the tables, keys and jobs they leave are modelled; the
  archived importer; the scripts of releases and certificates.

## 7. Plan

Done in this order, the most important first: listener and watchdog; upserts; the
journal processor with the view; the other processors; the import; the time series;
the REST proxy; the mining maps; download and hydration.

The safety properties of these models are proved. What is left is to say more:

1. What a second run of the same dump changes, and what of the journal's
   `CleanMessageApplied` and `OneOwnerUnlessTwins` survives beside an import, which
   stores bodies and stations of its own.
2. Ids per table, which alone can tell a station of a system from a station of a body
   (`db.py:880`).

Running: `tlc -config MCJournal.cfg MCJournalIngest.tla`, and alike for the other
pairs that `PROJECT.json` names; `tlapm JournalIngest_proofs.tla`.
