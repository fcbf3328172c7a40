# codex-provider in TLA+

TLA+ modules, TLC configurations and TLAPS proofs for the pool of
codex-provider (`upstream/src/pool` in the repository): a proxy that serves
Codex clients from several upstream accounts. The models follow the source;
`PROJECT.json` names, for every definition, the lines it stands for. Unless
another directory is given, files are under `src/upstream/src/pool/`.

## 1. The system

| Component | State it keeps | Operations | Hard behaviour |
| --- | --- | --- | --- |
| Eligibility and identity guard (`app.rs`, `routing.rs`, `quota.rs`) | slots, credentials, upstream identities, quota snapshots, meters, cooldowns | usable, representative of an identity, candidate filter, best tier, overloaded fallback | several copies of one identity; several cooldowns per account |
| Session, thread and lineage routing (`routing.rs`, `routing_pin.rs`, `outcome.rs`) | sticky sessions, thread bindings, lineage bindings, the affinity switch | decide, select, succeed, fail over, round, clear, expire | successes that arrive after a sibling has moved the lineage; oscillation |
| HTTP attempt loop (`proxy.rs`, `outcome.rs`) | per request: excluded accounts, attempts, rounds, same-account retries; per account: 5xx streak | select, send, ten kinds of answer, backoff, give up | budgets that give attempts back; concurrent cooldowns |
| Client key limits (`client_limit.rs`) | per key: responses in flight, starts of the last minute | admit, count, refuse, drop a permit | clock read before the lock |
| Sign-in and repair (`login.rs`, `admin_api.rs`) | jobs, cancel tokens, the durable gate of a repair | start, cancel, finalize, publish, delete | cancellation at every point; two files saved in two orders |
| Credentials (`credentials.rs`, `crypto.rs`, `installation_id.rs`) | credential files, refresh locks, refused tokens | read, refresh, record a refusal | refresh tokens that can be spent once; callers that go away |
| Quota (`quota_refresh.rs`, `quota_schedule.rs`, `prime.rs`, `reset_credit.rs`) | snapshots, per-account schedule, graces, priming marks, failed redemptions | poll, plan, prime, redeem | waits in memory and waits on disk; retries of what may have been done |
| Responses WebSocket (`responses_ws.rs`, `routing_pin.rs`, `transport.rs`) | one session's sockets, the response in progress, overload drops | dial, create, relay, redial, finish | old and new upstream sockets; a terminal event against two closes |
| Response inspection (`stream.rs`, `response_info.rs`, `classify.rs`) | the buffered prefix of a stream | classify the end of a stream | failures before and after the first byte |
| Request shaping (`codex_request.rs`, `native.rs`, `catalog.rs`, `key_login.rs`) | the table of apps' conversations, the log of key-login calls | gate, bridge, normalise, complete, adapt, splice tools, answer calls | lists of names kept in several places; tables that forget |
| Server (`serve.rs`, `listener.rs`, `http_io.rs`) | open connections, the stop signal | accept, drain | bounded drain |
| Persistence (`state.rs`, `app.rs`) | `config.json`, `runtime.json` | save, load | crash between the two files |
| Owner API and web pages (`admin*.rs`, `dashboard.rs`, `web/`) | none of their own | account actions | an index kept across two locks |

The components share one `Inner` behind a read-write lock (`app.rs`). A request
takes the lock to be routed, again to select an account, and again to report
the outcome; between those it waits for upstream, so anything may happen. The
runtime is multi-threaded. Owner actions, quota refreshes and sign-in jobs take
the same lock in the same way. So an action of the models is what one handler
does under one acquisition of the lock, and everything a request remembers from
an earlier step (`RoutingDecision`, `excluded`, `capacity_excluded`) is local
state of the request. The credential of an account has a lock of its own, a
WebSocket session a state of its own; their modules treat those the same way.

What makes each component correct is in the comments of the `*Properties`
modules; what is hard to test is listed under `hazards` in `PROJECT.json`.

## 2. The modules

- **`Eligibility`**: the pool's facts and the predicates of selection. Slots are
  `in`, `out` or `gone`; credentials `ready`, `missing` or `pending` (in
  repair); quota is the five levels routing tells apart; a cooldown is an entry
  of its own with the ticks it has left. `Represents`, `Usable`, `Selectable`,
  `BestTier`, `MovesTo` and `OverloadedFallback` translate
  `primary_upstream_account_id`, `usable`, the candidate filter,
  `pick_balanced_account`, `bound_session_moves_to` and
  `overloaded_fallback_account`. The weighted draw inside the best tier is data:
  any account of the tier may be drawn. The actions are the owner's and the
  refresh's: add, remove, delete, clear cooldowns, store a quota snapshot, start
  and finish a repair, and the clock.
- **`LineageRouting`** (extends `Eligibility`): sticky, thread and lineage
  bindings, and requests that are routed (`Decide`), select (`Select`,
  `Refuse`), and are answered (`Succeed`, `End`, `RetrySame`, `FailOver`,
  `Round`, `EndFailed`). `LineageAfter` is `record_lineage_success`. Account
  changes clear the bindings the code clears. A restart loses the requests.
- **`LineagePin`**: what strict lineage binding promises (SPEC.md 6.2.1),
  without eligibility, sessions or failures. `LineageProperties` instantiates it
  with the refinement mapping: the pin is the account the lineage has now
  (recorded, or seeded by its members), it is firm while it is recorded, and a
  claim is a request in flight with the pin it observed. `LineageHistory` adds
  an observer of the accounts a lineage left while a request was in flight.
- **`ProxyAttempts`** (extends `Eligibility`): the loop of one HTTP request,
  every answer upstream can give, and its budgets. Which account a selection
  gives is `LineageRouting`'s matter; here any account it may give is possible.
  The pool starts ready and nobody repairs an account here; the answer to a
  session whose account is in repair is `Refuse` of `LineageRouting`.
- **`ClientLimit`**: `ClientLimit` of `client_limit.rs`, with times as ages.
  `ClientLimitProperties` adds an observer: the real ages of the latest starts,
  one more of them than a minute may hold.
- **`SignIn`**: the device-auth jobs of `login.rs`. `task[j].at` is where
  `run_login_job` is between two of its locks or awaits; `job[j]` is the entry
  of `inner.jobs`; `config` and `history` are a slot's part of the two files in
  memory, `disk` the files. Of a slot's history it is kept whether there is any;
  a credential is abstracted to the account it names (`Names`) and the workspace
  it acts as (`Acts`), which may differ. `Start` and `Adopt` are the two
  outcomes of `start_login_job_with_policy`; `Cancel` and `Delete` only mark the
  job; `Launch`, `SignsIn`, `CliEnds`, `LookForCancel`, `Finalize`,
  `ReadForRepair`, `RefreshForRepair`, `Release` and `Finish` are the task. Each
  save succeeds, fails or stops between the files, in the order of the source. A
  quota refresh reads the slot's account and credential (`StartRefresh`,
  `ReadAgain`), waits for upstream and stores what it learned (`Refresh`), the
  job's own like any other; a request may be sent to an open slot and be
  answered at any time, after a repair has begun or ended too; and the process
  may crash anywhere. `before` and `owed` are read by properties only: whether
  something of the history is older than the last sign-in's start, and whether
  `runtime.json` still holds what a repair has purged.
- **`TokenRefresh`**: the credential of one account. `auth` is its `auth.json`;
  `caller[c].at` is where a request or a quota read is on its way to it (waiting
  for `auth_lock`, for the exchange, or using the token); `task[x].at` is where
  the detached exchange (`RefreshSettle`) is; `refused` is the memory of refused
  tokens. `Enter` is the whole of `refresh_codex_auth_holding` under the lock,
  `Grant`, `Fail` and `TimeOut` are upstream's part, `Compare` and `Write` are
  `persist`, which reads the file and then replaces it. Sign-in and sign-out
  change the file without the lock; `Stop`, `DrainEnds`, `GraceExpires` and
  `Exit` are `serve_until_stopped`. `rejected` and `replaced` are read by
  properties only. **`RefreshPromise`** is what a refresh promises upstream: a
  token is presented by one exchange at a time, and never again once its
  successor has been stored; one whose exchange ended with nothing stored may be
  presented again. `TokenRefreshProperties` instantiates it.
- **`ResponsesSession`**: one WebSocket of `responses_ws.rs`. `loop` is `run`
  and what it calls, `bound` its `SessionState`, `sock` the upstream sockets the
  session has opened, `relay` the task of each (`Receive`, then `Pass`, `Hold`,
  `HandOver`, `Backoff`, `Commit`, `Record`, `Gone`), `response` what `Finish`
  works on, `channel` the writer to Codex, `codex` Codex. The reader and the
  relays share `bound` one lock at a time, and a step is what happens between
  two locks; making a response active (`Bind`) and counting it (`Count`) are
  two. An event belongs to the response that is active when it arrives,
  whichever socket brings it, one that a redial has replaced too. A socket
  speaks of the request it serves (`asked`); one that has carried requests may
  report a failure once more; and any socket may send what `Stray` has, at any
  time. Selection is any account not cooling down (`LineageRouting` says which);
  other sessions share the overload counts.
- **`QuotaCycle`**: the poll loop of `quota_refresh.rs`, the plans of
  `quota_schedule.rs` and the prime of `prime.rs`, with every instant written as
  the ticks left until it, so that the loop may run for ever in a finite model.
  A prime is made although the save of its mark may have failed; `charged` and
  `unsaved`, read by a property only, remember the primes that were made and
  which of them no file holds.
- **`ResetCredit`**: the redemption of an earned credit and its kept attempt.
- **`RequestShape`**: a payload as a function from field names to values, of
  which only what the code tells apart is kept; the gate, the Chat Completions
  bridge, the normalisation and completion of an app's request, the adaptation
  of a custom-provider Codex's. **`Conversations`**: the identifiers an app's
  conversation presents, in a table that is in memory and goes with the process.
  A conversation is what the pool takes for one, a key; its requests may hold
  any history, since unnamed ones that begin alike share a key. **`KeyLogin`**:
  the tools spliced into a key-login Codex's request, and the answers to the
  calls that come back.
- `*Properties` state the properties, `MC*` fix the constants, `*Proofs` hold
  the theorems and the lemmas they rest on. `MCRequests` runs the three modules
  of request shaping, which share no variable: a behaviour exercises one part,
  chosen at the start.

How they compose: `LineageRouting` and `ProxyAttempts` extend `Eligibility`,
and are two views of the same request (where it goes, and how often).
`TokenRefresh` is what an attempt does to get a token and what a 401 leads to;
`ResponsesSession` takes its accounts from the same selection; `QuotaCycle`
produces the snapshots `Eligibility` stores. Each of these meets the others in
one place only, and there the module that is not looking at the other takes any
outcome as possible.


## 3. The runs

`MCLineage` is a pool of three accounts, a main thread and its subagent. `s1`
and `s2` are copies of one identity, `s3` is another; `s1` serves one model and
is an ordinary account, `s2` and `s3` serve both and are Pro Lite, with "Use Pro
last" on. So the threads disagree about the best account, the first identity
has two copies, and only some accounts serve the whole lineage.

| Run | Bounds | Shows |
| --- | --- | --- |
| `lineage` | 2 requests, a binding lasts 2 ticks, 2 changes (rate limits, pool add and remove) | a lineage outlives its members; a strict request tries distinct identities; `LineageRouting` implements `LineagePin` |
| `sessions` | 1 request, every failure and account change, the switch, 2 of them in a run | one copy serves; a healthy copy represents; placement agrees with moves; sessions and lineages settle |
| `attempts` | 2 requests, 2 accounts, 1 round | budgets and exclusions agree |
| `attempts_end` | 1 request, 2 rounds, same-account retries of both kinds, a streak of 2 | every request that is answered ends |
| `client_limit` | 3 requests, 2 keys, limits 2, a window of 3, a delay of 1 | permits, the advertised wait, the minute |
| `signin` | 1 slot, 2 jobs, 2 identities, 3 credentials, 1 refresh under way beside the job's | one sign-in at a time, repairs start clean, safe crashes, the frozen identity, exact public repairs |
| `tokens` | 2 callers, 2 exchanges in flight, 2 tokens issued | one exchange at a time, deserved and exact refusals, tokens spent in turn, the drain waits, the lock reached, the process stops |
| `session` | 2 accounts, 2 upstream sockets, 2 responses, 2 pins, 2 attempts, 1 overload drop, 1 event held, notices on every socket | the active response, the drain, one socket, failures held back, nobody forgotten |
| `quota` | 2 accounts of one workspace, gaps of 1, idle gaps of 3, a grace of 1, an interval of 3, a window of 2 | no account starves, untouched windows start, primed once per interval |
| `requests` | 4 parts, below | completed requests are Codex's, native tools are adapted once, one thread per conversation, answers stand |
| `quota_loop` | as `quota`, a grace of 2, an interval of 1 | a divergence, below |
| `reset_credit` | 2 handlers, 2 credits, 3 ids | a divergence |

Types are not a property of a run: the type invariant of `LineageRouting`,
`ProxyAttempts`, `ClientLimit`, `SignIn`, `TokenRefresh`, `ResponsesSession` and
`QuotaCycle` is a theorem (section 4). It is evaluated for any run by adding
`INVARIANT TypeOK` to its configuration.

**Bounds.** `MaxChanges` bounds account changes and failures together: two are
enough for a lineage to be forced away and for its account to come back, and for
both copies of an identity to fail. `Ttl` is 2 where expiry has an
order to get wrong and 1 where it does not matter; cooldowns last a tick, or two
where two of them must overlap. Two accounts and two rounds exhaust every budget
of the attempt loop, and the second request supplies the cooldowns nobody
expects. A window of three ticks with a delay of one tells a prompt reading from
a late one at both of its ends. Job ids are used again once a job has ended, so
two jobs are a job and all that come after it; slots share nothing in `SignIn`
but the single flight and the order of saves, and what other slots save is
`Persist`. The three credentials name the identity they act as, none, or one
while acting as the other: all that the two identity checks tell apart. One
refresh beside the job's own is one of any age: it may have begun before the
repair, and ends whenever it likes.

In `tokens` callers and tasks are used again, so two of each are a request, the
request that finds its exchange under way, and all that come after; two tokens
issued (`MaxIssued`, over all logins and refreshes) let a refresh replace the
first login and a new login replace either. In `session` the second socket is
the redial, and the first the one it replaced; a response has a successor on the
same socket, and one drop is enough for a session to find the count of overloads
used up by another (`OtherDrops`); one event is held so that holding and
committing both happen. `Warmups` is empty: a prewarm differs only in what
counts as its outcome. In `quota` every wait is a tick long but those that must
outlast another: the idle gap and the interval outlast a window, so that a
window may reset and its account be polled while an earlier prime still counts.
In `quota_loop` the grace outlasts a poll. `Late` and `Horizon` bound how long
ago, or how far ahead, an instant is told apart. A deadline that is two ticks
past is as overdue as any; accounts are ordered by it, and the order of two
older ones is left to `Ord`. Two accounts of one workspace are an owner of the
window and a copy that must not prime it.

`requests` checks the parts of request shaping side by side (they share no
variable): an app's request with two of sixty edits, a Codex's with one, a Chat
Completions request with a message of every kind before a user's; three
conversations, one of which may hold any history of up to two items, in a table
of two; every splice of a tool list; three calls against a
log of two, of which the log may know two. The edits hold, for each list of
names in the source, a name on it, one next to it, and one on no list, so
that a name moved from one list to another is seen.

Requests, jobs, sockets and pins are interchangeable, so they are symmetry sets
in the runs that check no liveness. Deadlock is checked but where the
system really may stop: `tokens` (the process exits), `session` (both sockets are
closed), `requests` (the request is answered) and
`reset_credit` (every credit is spent).

**Fairness.** `attempts_end` assumes weak fairness of each request's own steps:
the runtime schedules every task, and a backoff is a timer. Nothing is assumed of
upstream, of clients, of the clock or of other requests: the wait for an answer
ends only with the answer or with the client (`proxy.rs`:1319, and the client of
`transport.rs` has no timeout), so `RequestsEnd` says that a request ends again
and again or one of its attempts is left unanswered for ever.
`LineageSettles` and `SessionSettles` need no fairness: a behaviour that stops
has settled. `tokens` assumes that a caller that again and again finds the lock
free gets it (`tokio`'s mutex is a fair queue, so strong fairness of `Enter`),
that a caller that may read does, that the timer of an exchange fires, that a
task whose exchange has ended writes back, and that the grace timer and the exit
happen. Nothing is assumed of upstream, of clients, of the owner or of the quota
poll. `quota` assumes that the loop runs and time passes; and, for
`WindowsStart`, that upstream answers an account it is asked about again and
again, and that a prime tried again and again goes through. Both properties are
about processes that are not restarted for ever (`Settled`): what the schedule
keeps is in memory.

**Divergences.** Two runs expect a violation, each of a sentence of the
repository that `findings` quotes. `NotDueAtOnce`: a grace whose end has passed
is removed only by a decision to prime; while the poll does not reach one, its
account is due again after every pause. The same stale grace lets a later,
untouched window be primed at first sight. `RetrySpendsOnce`: two retries of a
failed redemption that run at once spend two credits. With `Expires = TRUE`, the
ten minutes for which an attempt is kept do the same to one that comes later.

Others were met while modelling. The definitions and constants that show them
are kept, and no run checks them:

- `NeverMovedBack` of `LineageHistory`, with the constants of `lineage` and
  `HistorySpec`: a lineage that leaves an account and returns to it looks
  unmoved to a request placed meanwhile, whose late success moves it back.
- `DistinctIdentitiesTried` is about strict requests. Of the others, with
  `InitialAffinity = FALSE`, it does not hold: the sticky path does not look at
  the identities that have refused, only at the slots.
- `OverloadedStillServes` with the constants of `sessions`, but `Span <-
  MCLongOverload`, no switch, only `http_5xx` failures and 4 of them: an account
  with two overlapping overloads is not retried.
- `RefusedLast` with the constants of `attempts_end`: rounds are not spent when
  the last account of a sweep fails for another reason than capacity.
- `JobsSettle` of `SignIn`: a job cancelled after its task's last look, or
  deleted before its home could be made, stays "cancelling" for good and bars
  other sign-ins.
- What a repair leaves (`SignIn`): a request sent before a repair to another
  account records its success whenever it is answered, and what it records after
  the purge stays (`outcome.rs`:662); so `RepairStartsClean` speaks of what was
  recorded before the repair began. A quota refresh begun before the gate opens,
  or before the repair, stores the account id it learned afterwards
  (`quota_refresh.rs`:349), where the final check no longer sees it: a comment
  there (`login.rs`:838-842) says that later enrichment cannot smuggle history
  across an account boundary.
- What `persist` overwrites (`TokenRefresh`): it compares the file with what was
  presented (`credentials.rs`:419) and writes (440), and no lock keeps the Codex
  CLI from signing in between the two. The login is then lost, against the
  comment at 410. `SpentInTurn` holds all the same.
- A refresh token may be presented twice (`RefreshPromise`, `Abandon`): when an
  exchange ends with nothing stored, by a timeout, a crash or a failed write,
  the pool does not know whether upstream has rotated the token, and tries it
  again.
- A prime is sent although its mark could not be saved (`prime.rs`:339-343, only
  logged). A restart before the next save that succeeds forgets it, and the
  account may be primed again within the interval: `PrimedOncePerInterval`
  excepts just that.
- `CondemnsOnlyRefused`: a quota read that fails remembers the tokens that are
  in the file by then, not those it presented.
- A failure sent unasked on a socket a redial has replaced is taken for the
  active response's (`responses_ws.rs`:1069, 1125). With every failure in
  `Stray` TLC finds `RunningIsActive`, `DrainExact`, `NobodyForgotten` and
  `OneSocketCarries` to hold still (without a reviewer's socket), and
  `FailuresHeldBack` violated: the response is redialled for the stray failure,
  and its own is then shown. The run and the theorems have notices only there.
- `DrainReleased` with `Overlap = TRUE`: a client that sends its next request
  before the last has ended replaces the active response, which then ends
  unrecorded and holds the drain. Codex does not do this.
- `RequestShape` keeps what the gate does with odd input: fields on no list are
  dropped from `/v1` (SPEC.md:314 has them passed), the field `metadata` stays
  in a Codex-shaped one. Two messages pass the gate and are completed into what
  the native check refuses: one whose type is `null` is not taken for a message
  (`NullTyped`), and the content of one that is an object and no list, `{"type":
  "input_file"}` say, is looked at by neither check before `normalize_item`
  makes it the only part of a list (`codex_request.rs`:671, 992, 660;
  `FileWrapped`).
- `Conversations`: two conversations without a name that begin alike share a
  thread, and a restart gives every conversation a new one. `KeyLogin`: a call's
  answer is shown as another item once the log has forgotten the call (`Timely`
  bounds it to 4096 calls).

And these have no model: `installation_id.rs` resolves without a lock, so of two
first requests the second's rename fails and its client's own id passes; an
account is looked up by index under one lock and used under the next
(`admin_api.rs`:1080, 1134); the public page reads `pending` before it adds or
removes; deleting an account leaves its grace behind. `SendsBounded` counts
attempts: `forward` may send one of them twice, once more after a 401
(`proxy.rs`:704-731), so sends are at most twice as many.

## 4. The proofs

TLAPS checks them for every value of the constants under the named assumptions
(`EligibilityAssumption`, `LineageAssumption`, `AttemptsAssumption`,
`ClientLimitAssumption`, `SignInAssumption`, `TokenAssumption`,
`SessionAssumption`, `QuotaAssumption`, `RequestAssumption`,
`ConversationAssumption`, `KeyLoginAssumption`, `ToolAssumption`), which say
that sets are finite, ids ordered, functions typed, limits positive and marks
like `None` no members. Each is evaluated by the runs. What a theorem assumes
beyond them (a switch that stays on, an event that does not happen) is in its
statement and below.

- `LineageProofs`: `OneServes`, `HealthyRepresents` and `BestStays` are about
  the pool in any state. The representative is the least candidate of a
  lexicographic order; `LexLess` is shown asymmetric, transitive and total on
  keys, the last entry (the order of the ids) tells any two slots apart, and a
  finite set has a least element. A healthy copy is before any other because the
  health entries come first. `TypeCorrect` then gives the first two in every
  reachable state. The others assume that the strict mode is on throughout
  (`InitialAffinity`, `~ AffinitySwitched`). `LineageOutlives`: `OutlivesInv`
  adds what every request in flight was routed with: it is strict, and the root
  it carries is the one its thread's success records; a success renews both
  bindings in one step, so no member can get ahead of its lineage.
  `DistinctTried`, of strict requests, of pools whose slots are neither deleted
  nor repaired to another identity: `ApartInv` says that the accounts a request
  failed on and the one it is on have pairwise distinct identities, or none
  known; a strict choice, and the fallback to an overloaded account, leave out
  every identity that has failed. `PinImplemented`: every step of
  `LineageRouting` is a step of `LineagePin` or a stutter under the mapping; the
  hard ones are a success that turns a seeded pin into a recorded one (the
  members agree with the claim, or the lineage was free) and the clock, where
  members may lapse and so change the seed, which needs
  `LineageOutlivesMembers`.
- `ProxyAttemptsProofs`: the inductive invariant `IInv` relates a request's
  attempts, exclusions and capacity exclusions (the capacity exclusions are
  among the exclusions, the account in flight is in neither) and bounds sends by
  the retries, rounds and attempts spent so far. `AttemptsCountExclusions` and
  `SendsBounded` follow; `BarredStaysBarred` is an action property from the same
  invariant.
- `ClientLimitProofs`: the counter equals the permits, the table is no longer
  than the limit, its ages are within their bound; `RetryAfterIsEnough` follows
  because the entries behind the front leave no later than it does or the front
  leaves with those before them. `MinuteCorrect`: the clock is read before the
  lock, so a start may look older in the table than it is. `Tracks` says that
  the table and the observer end in the same starts, each older in the table by
  at most `MaxDelay`, and that what the table has dropped is at least `Window -
  MaxDelay` old. So no more than `MaxPerMinute` starts are younger.
- `SignInProofs`: `OneAtATime` needs that the job of a running task counts as
  active. The others follow from `Inv`, whose parts are about one repair: a task
  before its release has its slot gated, in memory and on disk, with the
  identity its job carries (`TaskGated`), so no other step opens the gate;
  nothing older than the sign-in is left unless the job knows that there may be
  and has not purged it (`TaskKnows`); the gate on disk is never ahead of
  memory's and is held to the same identity, whatever a save has lost
  (`DiskBehind`); a purge `runtime.json` lacks is of a slot `config.json` has in
  repair (`OwedGated`), which is what the two orders of saving are for. Requests
  and refreshes may end anywhere in this: they store an account id and record
  history, and touch neither gates nor what is `before`. So the release alone
  opens a gate, and it has compared the account stored by then.
- `TokenRefreshProofs`: the lock is held from a task's start to its end, so at
  most one is out (`ExchangesAlone`); one that is out once the drain has ended
  was started after its last look (`DrainSettles`). `ForcedIsDeserved` needs
  that a caller that waits with a rejected token has had it rejected, in every
  state before it enters. `RefusalsAreExact` is an action property: only the end
  of a task remembers a refused refresh, with the tokens it presented. For the
  refinement (`TokensSpentInTurn`), `SpentInv` says that no token held,
  presented or replied has been replaced: upstream rotates a token to one it has
  never issued, and a login brings a new one, so a token written back late, over
  a login even, is a fresh one (`ReplyFresh`). With it each step of
  `TokenRefresh` is a step of `RefreshPromise` or a stutter.
- `ResponsesSessionProofs`, under the assumptions `~ Overlap` and that a socket
  which has carried nothing says no more than notices (`Stray \subseteq
  {"life"}`). The invariant `SessInv` follows a request from Codex to the record
  of its outcome: at most one socket has ever carried a request, and a redial
  happens before that (`Carries`, `Opening`); while Codex asks, upstream serves
  nothing, and what it says then, a failure once more, is of no response
  (`Silent`, `Between`); what a socket serves is the active response or one that
  was (`Serves`); what a relay has in hand is of a response that started, of the
  active one when it may end it (`Hears`, `Owned`); the socket of an open
  session is open, or its relay is about to close the session (`Alive`, `Over`);
  the drain's count is the number of unfinished responses, but for the one that
  is active and not yet counted (`Counted1`). The five properties of the run
  `session` follow: four from `SessInv`, and `FailuresHeldBack` as an action
  property, one step per action.
- `QuotaCycleProofs`: `TypeCorrect`, that every wait stays within the bounds it
  is drawn from, and `PrimesAreSpaced`: a prime begins only when memory counts
  none, and memory counts every prime the observer does; so does the file a
  restart loads, but for those whose save has failed and that no other save has
  written since (`Counted`, inductive together with the types).
- `RequestProofs`, of the four parts of request shaping. `CompletedCorrect`: an
  app's payload that the gate lets through, over the Chat Completions bridge
  too, is `Fit` unless it is `FileWrapped`; normalising and completing a fit
  payload gives one the native check takes, whatever else it brings, unless a
  message has a null type; `ShapeInv` adds that the verdict is the gate's on the
  request that arrived. `NativeOffers`: a client's list is four lists one after
  the other (`FourLists`); the splice puts the helpers and the image tool
  between them, where Codex has them (`InOrder`), and every attempt splices the
  client's own list (`ToolsInv`). `AnswersAlike`: the log holds every call an
  open socket may be asked to answer (`Logged`), so what upstream is shown of an
  answer is what the call alone decides (`ShownAlike`). `OneThreadKept`: a new
  identifier is none of those in use and has its own rank among the unused ones
  (`FreshIs`), so identifiers drawn together differ; `ThreadInv` says that
  upstream was last shown what the table holds, and that a conversation the
  table has lost was unused for a day, went in a restart or had `Limit` others
  after it. For that, the conversations used after a kept one are counted in
  `since`.

Only model-checked: liveness (`LineageSettles`, `SessionSettles`, `RequestsEnd`,
`LockReached`, `Stops`, `NobodyStarves`, `WindowsStart`): fairness and `ENABLED`
are out of the prover's reach. Every safety property the passing runs check is a
theorem. The modules theorems are about declare no `RECURSIVE` operator.

## 5. What is not modelled

`PROJECT.json` says of each component what is left out of it. In summary:

- **Account actions by index.** The models change accounts by id. What an index
  shifted by a deletion hits depends on the order of the list alone.
- **Data.** The weighted draw inside a tier and the idle-first rule, balance
  keys, throughput statistics, cache accounting, time arithmetic, hashing;
  the numbers of a usage report behind a quota level; the order, escaping and
  compression of what is written; the bridge of an answer back to Chat
  Completions; the SSE parser; catalogues as they are fetched and cached.
- **Response bindings** (`previous_response_id`) and the issuers of turn state:
  they choose an account where selection is free, and `LineageRouting` and
  `ResponsesSession` let any account be chosen there.
- **Between two models.** What a quota refresh does to routing is
  `Eligibility`'s, to the schedule `QuotaCycle`'s, to the account id `SignIn`'s;
  its token is `TokenRefresh`'s, and `SignIn` only lets it read the credential
  again. Activation after a first sign-in is `Eligibility`'s; the
  CLI's output, and the CLI a prime may run through, are text.
- **Not the program's own logic**: the vendored Codex client, the web pages, the
  mock upstream, the conformance harness and the scripts.

## 6. What could come next

1. `AccountActions`: account actions by index against deletion, and the
   installation id's two first requests.
2. Proofs: the safety half of the liveness properties (the measures by which
   `RequestsEnd` and `LockReached` descend), and `DistinctTried` of pools whose
   slots are deleted while no request is in flight.
3. The issuers of turn state, composed with `ResponsesSession` and with the
   failover of `LineageRouting`.
