# mirror-me in TLA+

TLA+ models of the mirror-me server (`src/api`, Go, Postgres, the Sleeper API
behind it), checked with TLC on small instances and, where noted, proved with
TLAPS for every value of the constants.

The product: a visitor re-picks ("mirrors") the starters of somebody's fantasy
roster for an NFL week before the week's first kickoff. After the week the
server grades the pick against the real manager's and the best possible
line-up and shows season standings.

## 1. The system

| part | state | operations | shares with |
|---|---|---|---|
| week locks, live week | `week_locks` (seeded by migrations, never written at run time), the clock | `weekLocked`, `CurrentWeekFromLocks`, `newCurrentWeekResolver` | everything below |
| lineups | table `lineups`, unique on user, league, roster, week, source | POST and PATCH `/lineups`, the lineups half of POST `/auth/merge` | grading reads it; validation reads matchups |
| lineup visibility | none | GET `/lineups`, GET `/lineups/{id}`, `hidePreLockLineups` | lineups, users, locks |
| grading | table `week_results` | POST `/admin/grade` -> `GradeSeason` | lineups, matchup caches, scoring |
| matchup caches | table `week_matchups`; `Client.matchupCache` in memory | `cachingMatchups.GetWeekMatchups` -> `Client.GetWeekMatchups` | Sleeper, live week |
| league and roster caches | table `leagues`; `Client.rosterCache` | `GetLeague`, `GetRosters`, `InvalidateRosters` | Sleeper, player sync |
| player sync | table `players` | POST `/admin/sync-players` | roster cache |
| scoring | none | `GradeWeek`, `OptimalLineup`, slots | grading, compare |
| standings | none | `Leaderboard`, `WeeklyResults`, compare | `week_results` |
| accounts | table `users`, the JWT cookie | Google callback, profile, merge, logout | lineups, bookmarks |
| user leagues | table `league_bookmarks` | POST, GET, PATCH, DELETE, merge | accounts |
| lineup editor (web) | React state and query cache | `useLineup`, `useAuth` | POST/PATCH `/lineups`, merge |
| plumbing | none | routing, CORS, the 20 s `timeoutMiddleware`, shutdown | all handlers |

Requests run concurrently, each in its own goroutine, over one Postgres pool.
No handler holds a transaction or a lock across its Sleeper calls, so between
any two calls of a handler other requests, another grading run and a kickoff
can happen. The context of a request is cancelled 20 s after its arrival. A
process may stop at any point (shutdown waits 10 s only); Postgres keeps what
was committed.

What makes each part correct, and what is hard about it, is listed line by line
as hazards in `PROJECT.json`. In short: a write must respect a lock that was
checked seconds earlier; a merge must not lose or rewrite picks that are being
edited; a result is computed once from a copy and never looked at again, so it
has to be the right copy and the final score; every played week must get its
result in spite of failures; a score cached for good has to be the last one.

## 2. The modules

### SeasonClock - `week_locks` and the live week

Constants: `LocksAt` is the table. `WeekLocked` is `weekLocked`
(`!now.Before(locksAt)`, a missing row is open), `CurrentWeekFromLocks` the
`MAX(week)` query, `ResolvedWeek` the resolver's fallback to week 1.
`ClockAssumption` says that there are finitely many weeks (stated as "every
nonempty set of weeks has a latest") and that kickoffs come in week order.

### Lineups - create, edit and merge

| variable | code |
|---|---|
| `now` | the clock, shared by Go (`time.Now()`) and Postgres (`now()`) |
| `lineups` | the table, a function from the unique key to a row or `NoRow` |
| `inserts` | number of committed insert statements; a fresh uuid is the pair of that number and the key |
| `req` | per request in flight, what the handler's locals hold |

Each handler is two steps. `BeginCreate`, `BeginUpdate`, `BeginMerge` are the
reads and checks up to the first call that lets others in; `InsertLineup`,
`UpdateLineup`, `MergeLineups` are the one statement that writes. A refusal
(400, 401, 403, 404, 409) changes nothing and is the negation of a guard.
`Fail` is every way to end between the two: validation refused, Sleeper or
the database failing, a duplicate key, the row gone, the deadline, a crash.
The writing step needs `InTime`: a database call whose context is done fails.
The read of the row (or of the session) and the lock lookup are one step:
week, season and owner of an id never change, so nothing that commits between
the two makes a difference. The deadline is counted from the lock check, not from the arrival of the
request, which allows slightly more than the code does.

The merge is a single `WITH moved AS (INSERT ... ON CONFLICT DO NOTHING)
DELETE` under READ COMMITTED. Its two halves see one snapshot (`snapshot`,
taken by `BeginMerge`); the DELETE takes rows of the snapshot that still exist,
in whatever version (`Deleted`); the INSERT skips keys that are taken when it
gets there (`Inserted`). `season` and `id` are not among the copied columns
(`Copy`). An "anonymous" id may itself send requests: development logins and
rows from before accounts do.

Abstractions: a roster is a pair of league and roster id with the league's
season (`SeasonOf`, constant per league as `api.md` says); a starter list is a
model value, validation is a nondeterministic refusal; `created_at` is left
out.

### Grading - GradeSeason over Lineups

Extends `Lineups` by `results` (`week_results`) and `run` (the pending list of
each run in flight). A result row stores the starters it was computed from in
place of the three totals: that is what the properties compare. `BeginGrade`
is the call of the live-week resolver, whose failed lookup reads as week 1
(`LiveWeeks`); `ListLineups` is the listing query that follows, perhaps after
another kickoff; `GradeLineup` and `SkipLineup` are one turn of the loop;
`AbandonRun` is a listing that fails or the end of the process. The per-run memo of matchups and leagues is left
out: it saves calls. `KickoffGapAssumption`: kickoffs of one season are at
least a request deadline apart (days against 20 s).

### MatchupCache - the two layers of GetWeekMatchups

`saved` is `week_matchups`, `mem` the client's map, `get` the calls in flight.
A call resolves the live week, maybe reads `saved` (`ServeSaved`, `MissSaved`),
asks the client, which resolves the live week again and looks in `mem`
(`ServeMemory`, `MissMemory`), fetches (`FetchMatchups`), fills `mem`
(`FillMemory`) and saves a past week (`Return`). Each resolution may fail and
then answers 1 (`LiveWeeks`). `Restart` clears the memory.

Sleeper is external: the points of a week are named by the last instant they
changed at, and stop changing at `EndsAt`; an answer may have no rows.
`PlayedOutAssumption` says a week is settled a long TTL (24 h) and a deadline
before any later kickoff. With Monday games and Thursday kickoffs there are
almost three days; stat corrections later than Wednesday evening fall outside
the assumption. `CURRENT_WEEK` set by hand is left out here, since it breaks
the link between the live week and the clock.

`ComparedAsFinal` is the third look at the live week that the compare handlers
take once their reads are in (`scoreUserWeek`).

### Ledger - what grading promises

The abstract specification: an account's picks for a week are theirs to change
until the week has a result; the result is one of the picks standing at that
moment; from then on the picks are frozen, and grading again may only replace the
result by another of them. `Grading` maps to it (`Books`): the entries
are the accounts' keys of weeks with a lock, `picks` the starters standing for a
key, `result` the starters its row was computed from. Every step of requests,
merges and runs is a step of the ledger or none (`ImplementsLedger`).

### Slots, OptimalLineup, Standings, Boards and Scores - from points to boards

`Slots` is `slots.go`. `Augment` is the recursive search of `assignSlots`, a
function from what it is asked (the slot, `visited`, and `playerToSlot`, which the
code shares by reference) to what it leaves; `TakeNext` is one round of its loop.
`AssignedSlots` is the loop over the slots, which stops at the first that cannot be
filled. `IsLegal` is the reference: some assignment gives every starter a slot of
its own.

`OptimalLineup` is `optimal.go` as a state machine: `StartSolver` builds the
graph and its first round, `Relax` takes one node off the queue and relaxes its
open edges in adjacency order, `Send` pushes one unit along `prev`, `Finish` is
the end of the search, `Return` hands the total over. All capacities are 1, so
the flow is the set `used` of edges that carry it, and a residual edge is a used
one reversed. Points are integers: with them the tolerance of 1e-12 and the
rounding of doubles have no effect. The walk back along `prev` is the recursive
function `path`.

`Standings` has the rest of the arithmetic: `GradeWeek`, and the SQL of
`Leaderboard` and `WeeklyResults` with its NULLs (`SqlRatio` is NULL for an
optimum of 0, `SqlClamp` maps NULL to 0 as `GREATEST` and `LEAST` do, `Avg`
skips NULL), the orders, the window, the page, and `applyRanking`. A ratio is a
whole number of `Precision`-ths. `Listing` has the two forms of lists they share:
`InOrder` and `Filtered` are the ORDER BY and the WHERE, the entry of rank `i` being
the one with `i - 1` before it, a form the prover can expand. `Slots` filters the
bench out of a roster's positions with the same `Filtered`.

`Boards` is `week_results` and its readers. `results` is the table with its
totals; a lineup that has no row is taken up by `BeginGrade` and comes out with
any three totals (`EndGrade`, the upsert) or stays ungraded (`AbandonGrade`). `walk`
is a client that follows the pages of one roster's week, each page being two
queries. The queries read `results` only, so they commute with the grading of a
lineup and are taken between two. A username search is the set of users it
matches. One lineup is graded at a time: overlapping runs, which may upsert a row
again, are in `Grading`.

`Scores` computes the totals: `BeginLineup` is `BeginGrade` with the start of a
solver run, `EndLineup` its return with `EndGrade` of the totals it yields or with
`AbandonGrade`. That it implements `Boards` is the theorem `ScoresImplementsBoards`,
so what is proved of `Boards` holds of it.

### PlayerSync and Rosters - the players table and the roster cache

`sync` is each POST /admin/sync-players in flight: downloading, upserting,
upserted. `UpsertRow` is the next statement of the batch, in any order, since
the handler ranges over a map; it locks its row until the commit or waits for
the sync that holds it. `Commit` makes all rows visible at once. A commit may
fail unseen (`CommitLost`: the error of `Close` is dropped), a sync may fail
with its commit done (`FailSync`), Postgres aborts one of two syncs that wait
for each other (`DeadlockAbort`), and the request's deadline ends what is left
(`Expire`). What the feed and the rankings contain is one version number.

`Rosters` adds `Client.rosterCache` and the `GetRosters` calls: `BeginFetch` on
a missing or old entry, `ResolvePlayers` (the SELECT), `FillCache`.
`InvalidateRosters` is the end of a successful sync. Work in memory after the
last database call is taken to fit in the deadline that call met. An entry's
`seen` is the number of commits its SELECT saw; `begun` and `filled` are
auxiliary, the last answered sync when the fetch began and ended.

### Accounts and Bookmarks - who a request acts for

`users` is the table by its (provider, oauth id) key; an id is numbered instead
of random. `SignIn` is one attempt of the callback's loop: an existing row keeps
its username, an insert may meet the unique index and leads to the next attempt
with another generated name. `UpdateProfile` goes by the id in the claims, and a
claim is a copy that no one checks against the table. A statement and the
arrival of its cookie (`SetAuthCookie`) are separate steps, so answers overtake
each other. `google` in a token is auxiliary: whom Google vouched for.

`Bookmarks` adds `league_bookmarks` and the two hooks of the web app that keep
the anonymous id. `Send` is the arrival of a call with the owner the server has
resolved: of a page's (`SendFromPage`; a session wins over the id the page sends) or
of any client without a session, which may name any id (`SendAs`). The statement
follows later or never. `MergeCall` is the merge up to its snapshot,
`MergeBookmarks` its statement and commit, `MergeAnswered` the answer's arrival
at the page that asked (`useAuthState` forgets the id then). `OpenPage` is
`useUserId`; `LearnUser` the effect that asks for a merge when the user changes.
`LoseUser` is a failed refetch of `/auth/me`, after which that effect runs again.
`RequestMerge` is any client asking for any id. A `number` tells rows inserted
for an anonymous id apart, since the DELETE takes the rows it has read. The
lineups half of the merge is in `Lineups`. One page per browser is modelled; the
pages of several tabs share localStorage and would ask for the same merge, which
`RequestMerge` covers.

### MC modules

`MCLineups`, `MCGrading`, `MCMatchupCache` give the calendars and symmetry sets
for TLC, `MCScores` the leagues, points and lineups, `MCRosters` and
`MCBookmarks` the sets; `MCBookmarks` also has the constraint below.

### Fault operators

Operators introduced by a comment `Fault:` (`CopyWithSameId`, `NoDeadline`,
`WeekLockedAfter`, `DeletesAllNow`, ...) are not used by the specifications.
Each is a plausible mistake in the definition below it; `PROJECT.json` pairs
it with a property that must fail when it is substituted, which shows that the
property depends on that code.

## 3. What is checked

| run | asks | bounds |
|---|---|---|
| `lineups` | `TypeOK`, `IInv`, `LateWritesBounded`, `ChecksStillHold`, `PicksNeverVanish`, `OnlyOwnerEdits` | an account and an anonymous session, one roster, a week locking at 1 and a week without lock, 2 requests in flight, 3 inserts, instants 0..2, deadline 1 |
| `grading` | `GTypeOK`, `ResultsStandForPicks`, `OnlyAnotherSourceOverwrites`, `ImplementsLedger` (refinement) | 2 sources, weeks 1 and 3 (2 is missing, as 12 is in the 2026 seed), 2 grading runs, 1 request, 2 inserts, instants 0..3 |
| `backfill` | `PastWeeksGetGraded` (liveness) | as above with one source, one grading run, one starter list, instants 0..2, no symmetry |
| `matchup_cache` | `TypeOK`, `IInv`, `SavedIsFinal`, `PastAnswersAreFinal`, `FinalComparisonsAreFinal`, `LiveAnswersAreFresh` | 2 calls in flight, 2 weeks, TTLs 3 and 1, deadline 1, instants 0..7 |
| `scores` | `BoardsTypeOK`, `KuhnDecides`, `LegalNeverBeatsOptimal`, `FlowIsCheapest`, `OptimalIsBest`, `RanksRestOnScoredWeeks`, `EdgeReconciles`, `SearchKeepsStanding`, `PagesSkipNobody`, `SolverEnds` (liveness) | 5 players, up to 4 slots; every lineup of 3 from 4 players in four leagues, every assignment of points -1, 3, 8 in three; boards of 3 users, 2 leagues, 4 weeks; pages of a week three accounts mirror |
| `rosters` | `RTypeOK`, `RIInv`, `PlayersOfOneFeed`, `OnlyOvertakenFetchesAreStale`, `AnswersTrailByTTL`, `SyncsEnd` (liveness) | 2 players, 2 syncs, 1 reader, 2 feeds, 2 commits, TTL 1, deadline 1, instants 0..2 |
| `bookmarks` | `BTypeOK`, `TokensNameTheirAccount`, `OnlyProfileUpdatesRename`, `BookmarksNeverVanish`, `OnlyOwnerRelabels`, `NothingMergedIsLeftBehind` | 2 Google accounts, 2 names, 2 attempts, 1 browser, 2 requests and 2 calls in flight, 1 anonymous id, 1 league, 2 labels, 2 anonymous saves, `OneStory` |
| `edge_sample` | violation of `EdgeIsOverScoredWeeks` | the boards' worlds of `scores` |
| `late_write` | violation of `NoWriteAfterLock` | as `lineups` |
| `merge_season` | violation of `SeasonDerived` | as `lineups` |
| `last_week` | violation of `EveryPlayedWeekGetsGraded` | one source, one starter list, one run |
| `shared_result` | violation of `ResultsAreOfTheLineup` | as `grading`, with one run and instants 0..2 |

Why the bounds suffice to meet the interesting cases. Lineups: two requests are
the least that interleave, three inserts allow a create, a merge and a create
on the freed key while an edit holds the old id; three instants give before,
at, and after kickoff plus a full deadline. Grading: two inserts under two
sources are two lineups that share a result key, or a lineup and its merged copy;
two runs overlap; three
instants allow a late edit, a listing at the next kickoff and a slow run.
MatchupCache: week 2 kicks off at 6, one long TTL and one deadline after week 1
settles at 2, the tightest calendar the assumption allows, and instant 7 is
after it. Scores: three slots and five players are the least with two flex slots that
cross and a player to displace; -1 exercises a negative cost and a starter who
hurts; three scored weeks are the global board's gate and the fourth has no
optimum. Rosters: two syncs and two players deadlock; one reader suffices, since
readers meet only in the cache entry, which the next fetch of the same reader
replaces as well; two instants hold a TTL, a deadline, and the answer after
both. Bookmarks: two accounts race for one name, a save overtakes a merge, a
second merge follows a lost answer; a random id is used again once no trace of
it is left, so that one id plays all. `OneStory` keeps the product of the two
halves small: account steps interleave freely until the first page opens or the
first bookmark call is made, afterwards the two people sign in in turn under their
first names while calls, merges, answers and pages still interleave freely.

Time is bounded by `MaxTime`; after the last kickoff no answer of
the clock changes any more, so the behaviours that stop there stand for those
that go on. `MaxInserts` bounds insert statements, `MaxSaves` the bookmarks saved
under anonymous ids, `MaxFeed` and `MaxCommits` the feeds and commits of
syncs. Deadlock is checked in every run but `scores` and `edge_sample`, where all
lineups graded and all pages read is the end.

Fairness (`FairGSpec`): time passes up to `MaxTime`; each grader keeps taking
steps (grading is run on a schedule, as the handler's comment says, and a loop
over a finite list ends). The rest is strong fairness, one condition per thing
that may fail in a run: of the runs that start, some read the live week; of
those that could list a lineup, some do before they are cut off; of those that
have it in their list, some grade it (Sleeper is not down for one league on
every run). No fairness is assumed of users' requests.

`FairRSpec`: time passes, Postgres works on a batch it was sent (which includes
its deadlock detection), a passed deadline cancels a request, and the handler
goes on after the batch. Sleeper need never answer. `FairSSpec`: a solver's run
is a loop in one request and nothing but the processor holds it up.

### Findings

* `late_write`: the lock is checked before validation and not again by the
  statement that writes, so a write can commit after `locks_at`, contrary to
  the migration's comment. `LateWritesBounded` bounds it by the request
  timeout.
* `merge_season`: the merge drops `season`. The merged row is unlocked for good
  (no `week_locks` row for season `''`) and its result is filed under a season
  no board asks for.
* `last_week`: with the live week inferred, the last seeded week never becomes
  past; its lineups are never graded, whatever the number of runs.
* `shared_result`: the migration calls the upsert of a result "keyed by the
  lineup's identity", which includes `source`; the key of `week_results` does not.
  Two lineups of one account, roster and week under two sources share one result:
  a run that lists both overwrites the first with the second, and a lineup listed
  after the other has been graded never gets its own. The server accepts any source
  and `api.md` names several; the web app sends one. `OnlyAnotherSourceOverwrites`
  shows that an account's result of a week with a lock changes in no other way.
* `edge_sample`: the board's `edge` counts weeks without an optimum as 0, since
  `GREATEST(NULL, 0)` is 0 in Postgres, while `mean_efficiency` and
  `weeks_played` leave them out. `EdgeReconciles` shows agreement for users all
  of whose weeks are scored.

## 4. What is proved

`LineupsProofs` (from `ClockAssumption`, `LineupsAssumption`): for any number of
users, rosters, weeks, locks, requests and any deadline, `Spec` implies
`[]TypeOK`, `[]LateWritesBounded`, `[]ChecksStillHold`, `PicksNeverVanish` and
`OnlyOwnerEdits`. The bounds `MaxTime` and `MaxInserts` are arbitrary naturals.
The inductive invariant `IInv` adds what the two safety properties lack: a
write in flight was admitted before its lock (`AdmittedUnlocked`), an id in use
or in a handler's hands was issued by an earlier insert and names the key it
was inserted with (`IdsIssued`, so a merged or re-created row never answers to
an id a PATCH holds), and a merge's snapshot holds rows of its anonymous id
only (`SnapshotsOfOthers`). There is one lemma per conjunct, and the effect of
each step on one row is a lemma they share (`TableStep`, `RowStep`).

`MatchupCacheProofs` (from `ClockAssumption`, `CacheAssumption`,
`PlayedOutAssumption`): `[]SavedIsFinal`, `[]PastAnswersAreFinal`,
`[]FinalComparisonsAreFinal` and `LiveAnswersAreFresh`. `IInv` adds that points not yet final entered memory
within a deadline of being read (`MemoryRecent`, `FetchedRecent`) and that a
call which found its week past has a later kickoff behind it (`FinalIsPast`).
With the assumption, an entry young enough for the long TTL at that kickoff
was read after the week settled.

`RostersProofs` (from `SyncAssumption`, `RosterAssumption`): `[]PlayersOfOneFeed`,
`[]OnlyOvertakenFetchesAreStale` and `[]AnswersTrailByTTL`, for any number of
players, syncs and readers, any TTL and any deadline. `RIInv` adds why: commits
are not in the future (`CommitsArePast`), an answered sync has committed before
(`AnswersAreCommitted`), whatever a fetch on its way has missed happened after it
began (`FetchesMissLittle`), and an entry is never older than the last sync to
answer nor read more than a deadline before the first commit it misses
(`EntriesMissLittle`). `SyncEffect` and `TableEffect` say once what a step does
to the players and the commits, and each conjunct's lemma cites them.

`GradingProofs` (from `ClockAssumption`, `LineupsAssumption`, `GradingAssumption`,
`KickoffGapAssumption`): `[]GTypeOK`, `[]ResultsStandForPicks`,
`OnlyAnotherSourceOverwrites` and `ImplementsLedger`, for any number of runs,
requests, users, sources, weeks and locks. One hypothesis is stated where it is
needed, `Inferred` (`Override = 0`): a `CURRENT_WEEK` set by hand names a live week
whatever the locks say, and then a week can be graded while it is open. The
argument: a run lists a week only below the live week, and the live week has kicked
off, so whatever is listed or graded is `Played` (`RunsArePast`, `ResultsArePast`);
that kickoff is at least a request timeout after the listed week's own lock, so no
write that passed the lock check is still in time, and the row a run has copied is
the row that stands (`PendingStands`, with `AdmittedUnlocked` from `IInv`). `GInv` is
the conjunction. So an upsert writes the starters of a lineup that stands
(`UpsertShows`), and by `ResultsStandForPicks` so did the one before it: the result
stays, or the two lineups have one result key and differ in source (`ShownTwice`).
For the ledger the upsert grades an entry on a standing pick, for the first time or
again (`UpsertGrades`), and a played week's picks no longer move
(`PlayedPicksStay`). The lemmas `RowRewritten` and `RowsAreKept`
about the lineups table are those of `LineupsProofs`.

`BookmarksProofs`, whose first part is about accounts (from
`AccountsAssumption`, `BookmarksAssumption`): `[]TokensNameTheirAccount`,
`OnlyProfileUpdatesRename`, `[]BTypeOK`, `BookmarksNeverVanish`,
`OnlyOwnerRelabels` and `NothingMergedIsLeftBehind`, for any number of accounts,
names, requests, browsers, ids, leagues and calls; `OneStory`, the constraint of
the run, is not assumed. `AccInv`: ids are given out in order, and a token on its
way to a browser or in the hands of a request is as good as one in a jar. `BInv`
adds what the merge needs: its snapshot holds rows of one anonymous id
(`SnapshotsOfOne`); numbers are issued in order (`BegunBefore`); and while the
page that asked still stores the id, the rows present under it are either in the
snapshot in the same version or younger than the merge, and only younger once it
has committed (`MergesLeaveYounger`). The merge's answer is the only step that
makes a browser forget, so this is `NothingMergedIsLeftBehind`.

The type invariants of `MatchupCache` and `Rosters` are theorems as well
(`CacheTypeCorrect`, `RostersTypeCorrect`).

`StandingsProofs` (from `StandingsAssumption`) and the first part of `ScoresProofs`
(from `BoardsAssumption` too): `[]BoardsTypeOK`, `[]RanksRestOnScoredWeeks`,
`[]EdgeReconciles`, `[]SearchKeepsStanding` and `[]PagesSkipNobody` of `BoardsSpec`, for
any users, leagues, weeks, page sizes and searches and any integer totals, also
ones no solver returns.

* Lists. `FewerComeBefore` says of a strict total order on a finite set that the
  number of elements before one orders them, and `EveryRankIsTaken` that these
  numbers, an injection into as many places, leave none out. So `InOrder` lists
  each element once, at its rank (`ListedAtItsRank`), for the three orders in use
  (`BoardIsOrdered`, `SettersAreOrdered`, `NumbersAreOrdered`), and a search keeps
  its matches with their ranks and in their order (`MatchesKeepTheirRanks`,
  `MatchesAreInOrder`).
* Sums. That the fold behind `Avg` is a sum, the same for two operators that
  agree on the rows, follows from a smallest subset on which it would not be
  (`SmallestSubset`, `SumExists`, `SumsAgree`): the library's induction theorems
  are out of reach, well-foundedness is not.
* Pages. `BoardsInv` adds to the type that the lineup being graded has no row
  (`NotYetGraded`, so that an upsert inserts) and that whoever was there when the
  walk began and has not been seen is at or behind the offset
  (`UnseenAreAhead`). An inserted row moves others down and never up; a full page
  shows the places the offset passes; a short page shows all that are left.

`OptimalLineupProofs` (lemmas, from `SolverAssumption`: the marks for no distance and
for a running solver are not numbers) and the second part of `ScoresProofs` (from
`ScoresAssumption` too: a league's positions, a lineup's starters and a roster's
players are sequences, their points integers): `[]FlowIsCheapest`,
`[]OptimalIsBest`, `[]LegalNeverBeatsOptimal` and `SSpec => BoardsSpec`, for any
leagues, rosters of any size, and lineups with any points, negative ones included.
So `optimal.go` answers the points of the best full lineup the roster allows, or 0
if there is none, whatever units earlier rounds had to move, and no legal lineup of
the roster's players scores more.

* Cheapest flow. A price `pi` of every node at which no residual edge has a
  negative reduced cost (`Potential`) certifies that the flow is the cheapest of
  its size: telescoped over an assignment, the prices bound its cost by that of
  the flow (`FlowPaysLeast`, `FlowIsBest`). That a flow has a price at all moments
  is what the invariant has to say, and `FlowIsCheapest` alone is not inductive
  without it.
* The search. `Search` is the invariant of one round, with the price of the round
  before in it: a label is no less than that of the node `prev` and the cost of the
  residual edge from there (`Labels`), a node off the queue has no edge left to relax
  (`Settled`), no label is below the price (`NotBelow`), and the `prev` edges have no
  cycle (`Acyclic`). `SearchStarts` and `RelaxKeepsSearch` establish and keep it. A
  cycle would cost less than nothing, and the price forbids one: this is where a
  residual edge with the wrong sign of its cost would break the proof.
* The push. At the end of a round the labels, joined with the old price where no
  label is (`Raised`), are a price again (`SearchGivesPotential`), and tight along the
  way back (`TightAlong`); so sending a unit keeps the price (`SentKeepsPotential`)
  and yields a flow with one unit more (`SentIsFlow`, over `PathIsTheWay` and
  `WayAugments`).
* The end. If the search does not reach the sink and slots are left empty, the
  players and slots it did reach show by counting that no lineup fills them all
  (`NoFullLineup`).
* The result. A legal lineup is an assignment of its starters to slots of the
  graph (`LegalIsMatching`), which the flow's cost bounds. `SolverInv` says that the
  solver is on track or has an optimum in hand, `ScoresInv` that the problem it
  solves is that of the lineup being graded.

The sums over edges and assignments rest on the lemmas about `Avg` above, by a
smallest subset again.

The last part of `ScoresProofs` is validation: `[]KuhnDecides`, for any list of
starters, positions and slots.

* The recursion. That a function satisfies augment's equation, so that `Augment`
  is one, is built up by how many starters are left to visit (`OneMoreRound`,
  `AugmentIs`): each call of a round has visited more (`RoundDepends`). The two
  inductions are over sets in place of properties (`CountingUp`, `FromAboveDown`).
* A search. Called for a slot whose holder has been visited (`Ready`), it either
  gives the slot to someone new and keeps every other slot held by one starter
  (`Placed`), the old holder to be moved by the caller, or moves nobody and has
  visited everyone who could take the slot or that of a starter it visited
  (`Stuck`). `AugmentServes`, with a lemma for each way a round ends (`FreeTakes`,
  `MovedTakes`, `NextIsServed`).
* The loop. The slots up to the one at hand are filled (`FilledUpTo`); where the
  search is stuck, its slots are one more than the starters who can take any of
  them, and no lineup of these starters is legal (`StuckIsHopeless`).

`GInv`, `BInv` and `BoardsInv` hold on the instances of `grading`,
`bookmarks` and `scores` as well; they are parts of proofs, and no run lists them.
`ScoresInv` says that a price exists among all functions to the integers, which TLC
cannot enumerate; what it implies, the run checks.

Only model-checked: liveness (`PastWeeksGetGraded`, `SyncsEnd`, `SolverEnds`), which
needs fairness and `ENABLED` and is out of the prover's reach. Every invariant and
action property of a passing run is a theorem.

## 5. What is not modelled, and the plan

Not modelled, and why:

* Lineup visibility and listing: reads only, nothing they decide is kept.
* The lineup editor (`useLineup`, `useRosterCard`) and the pages: React state
  around requests that `Lineups` already admits in any order.
* The league cache: written once per league, no second write to race with.
* The players inside a cached matchup, and a baseline computed from them: the
  product of `MatchupCache` and `PlayerSync` has not been explored.
* Parsing of the rankings sheet, display names, emails, icons, wording, CORS,
  logging, configuration.
* Visits (an append-only log nothing reads), the offline tools, and the
  development login, which signs whatever identity it is asked for and is not
  registered in production.

What is left to do: `MatchupCache` composed with `PlayerSync`, for matchups persisted
without a player that was not yet synced. Then the optimum's baseline across
runs, which depends on the same players.
