# appnime-api in TLA+

The backend of appnime is a NestJS process on PostgreSQL (through Prisma): accounts with a
subscription, members, devices and a turn to watch, and a catalogue that looks for streams.
Nothing in it takes a lock. Every Prisma call is one `await`; between two of them any other
request runs; transactions run at READ COMMITTED. So a use case is a *process*: it reads,
decides, and writes some awaits later. These modules model the use cases at that grain and say
what survives the interleavings, the crashes and the lost answers, and what does not.

Paths below are relative to `src/`; `modules/` stands for `src/modules/`.

## The system

| Component | State | Operations | Interacts with |
| --- | --- | --- | --- |
| Usage sessions (`modules/usage-sessions`) | rows `UsageSession`: who watches, on which device | acquire, heartbeat, release | reads the device and the entitlement, tells the devices that lost the turn (realtime); device revocation, member removal and account status revoke its rows |
| Devices (`modules/devices`) | rows `Device`, `DeviceChange` | register (a known installation, known hardware, replacement of the oldest, a new row), revoke | reads the membership and the plan; revokes sessions and usage sessions; called by the approval of a link |
| Authentication (`modules/auth`) | rows `Session`: the hash of the current refresh token, revocation, expiry | register, login, refresh with rotation, logout | the claim of a link creates a session; password change, device revocation and member removal end them |
| Device links (`modules/device-links`) | rows `DeviceLink`: PENDING, APPROVED, CLAIMED | request, approve, claim | approve registers a device, claim creates a session |
| Subscriptions (`modules/subscriptions`, `modules/activation-codes`, `modules/payments`) | rows `Subscription`, `ActivationCode`, `ActivationRedemption`, `Payment` | redeem a code, record a payment, resolve the entitlement (and mark what has expired), edit | resolve is called by acquire, leases, registration and invitations |
| Members (`modules/members`, `modules/accounts`) | rows `AccountMember`, `Invitation`, `Account` | invite, accept, remove | removal revokes devices and sessions and gives the person an account of their own |
| Licensing (`modules/licensing`) | rows `AccessLease`, a signing key | issue | reads membership, device, entitlement |
| Realtime (`modules/realtime`) | rooms of sockets | connect, emit | events of the others |
| Source registry and playback (`modules/catalog/application`) | rows `StreamSource` (score, circuit breaker), `DiscoveryNegativeCache`, leases in memory, calls in flight | discover, resolve, report | providers, with timeouts |
| Unavailable catalogue (`modules/catalog/application/catalog-unavailable.*`) | rows `CatalogUnavailable` | register, remove, check, re-check job | discovery, metadata |
| Vidlink token engine (`modules/catalog/infrastructure/providers/vidlink`) | a child process, pending requests, tokens | getToken | the worker's lines, its exit |
| Catalogue requests (`modules/catalog/catalog.controller.ts`, `application/catalog.service.ts`, `infrastructure/tmdb`, `infrastructure/search`) | the mode for adult titles, a field of the one `TmdbService`; the cache of TMDB; the search index and its synchronisation | popular, search, details, streams; unlock | the hidden titles filter every list; details and streams call playback |
| Providers and resolvers (`modules/catalog/infrastructure/providers`, `extractors`, `http`) | none | discover a title, resolve a source, validate a URL | external sites, FlareSolverr |
| Stream proxy (`modules/catalog/stream-proxy.controller.ts`) | none; what it serves leads the player on | playlist, proxy | leases point to it; it asks the host |
| Administration (`modules/admin`) | rows of all the others, `TermsVersion`, `Payment`, roles | status, password, role, invitation, terms, codes, payments, lists, reports, ... | everything |
| History, likes, support, releases, plans, users, content, storage | rows of one user | single statements | - |

What is hard: two calls that read before either writes (acquire, refresh, approve, grants, device
counts, invitations), rows written by id after they were read (approve, PAST_DUE), pairs of
statements with a crash between them (account status, claim), replies that are lost (refresh,
claim), timeouts and chained promises (playback, vidlink), a field that every request writes (the
mode for adult titles), results applied without an await (hidden titles), rows that move between
two pages (lists). `PROJECT.json` lists each at its line.

What makes each component correct:

- usage sessions: one person, one turn; nobody watches on a revoked device or in a suspended
  account; no one else's turn ends; who is told is who lost the turn.
- devices: the limit of the plan, one row for one machine, nobody touches another's device,
  a removed member keeps none.
- authentication: a token rotates once, reuse ends the session, what is revoked stays revoked, an
  old password opens nothing that lasts.
- links: tokens are delivered once, to the device of the person who approved, and are delivered.
- subscriptions: one live row, a code is redeemed once, one trial, paid time is kept, nothing
  ends early.
- members: one ACTIVE membership for each person, the limit of the plan, nobody left without an
  account.
- source registry and playback: the breaker is open exactly after so many failures in a row, an
  answer offers every language before it repeats one, every computation ends.
- hidden titles: the table says what the last operation on a title said.
- catalogue requests: what a list shows follows the person who asks.
- token engine: every caller is answered.
- stream proxy: a host that locks its streams to the server is never asked by a player.
- administration: one version of the terms is in force, reports add up, lists skip no row.

## Modules

Each call of a use case is a record with a `pc`, the step it takes next, and what it has read.
A set constant gives the calls that may be made; a call is made at most once. One action is one
Prisma call with the code up to the next `await`. Inside a transaction the reads see what is
committed when they run (READ COMMITTED) and the writes appear at the commit; where an UPDATE and
a later INSERT of the same transaction matter separately they are two steps. Payloads, tokens,
hashes and dates are model values, small sets or small numbers.

**`UsageSessions`** (`modules/usage-sessions`, with `revoke-device`, `remove-member` and the
account status of `admin.controller.ts`). A row is named after the acquire that inserted it.
`FindDevice`, `ResolvePolicy`, `ReadPrevious`, `UpdatePrevious`, `CommitAcquire`, `EmitRevoked`
are the awaits of acquire. `SetAccountStatus` and `SweepAccount` are the two statements of
`AdminController.status`. Liveness of the client is `HeartbeatLapses`: the row leaves the stale
window. History variables record overlaps, so that the invariants can say exactly which overlap
excuses which state. `policy.resolve` is its check of the account; what it does with the
subscription is in `Subscriptions`.

**`Devices`** (`modules/devices`, `remove-member`). `RegisterDeviceUseCase` step by step: known
installation, known hardware, count, oldest, replacement, window, create, log; revocation and
removal beside it. The fingerprint of an installation is the machine it is on, so a reinstallation
is another installation on the same machine.

**`AuthSessions`** (`modules/auth`, `admin.controller.ts` password change). Tokens are numbered
in the order in which they are issued; a session keeps the one whose hash is stored. A reply
can be lost, so the client may know an older token only. `User.status` is read by the code and
written nowhere, so it is not a variable. The id of the administrator's own session is spared
by the password change, as in the code.

**`LinkHandshake`** and **`DeviceLinks`** (`modules/device-links`). The first is what a link
promises: an approval opens a grant and closes the one before, an open grant is taken at most
once. The second is the code: request, approve (with the registration of the device), claim,
session, reply, expiry, revocation and crash. `Handshake == INSTANCE LinkHandshake WITH ...` maps
the rows to grants, and `GrantIsTakenOnce` is its specification.

**`Subscriptions`** (`modules/subscriptions`, `activation-codes`, `payments`,
`AdminController.updateSubscription`). The rows of one account; a row is named after its grant.
Grants run in a transaction; redeeming waits for the transaction that holds the code, as
PostgreSQL does. `Resolve` reads the current row and `MarkExpired` or `MarkPastDue` write it
later. Time is a number of periods.

**`Membership`** (`modules/members`, `modules/accounts`, `register-user`,
`AdminController.createUser`). `homes[u]` is the set of accounts in which the membership of `u` is
ACTIVE, `role` the column of the row, which outlives it. An account is named after the person who
registered it or the removal that created it, an invitation after the call that wrote it.
`FindInvitation`, `FindCurrent`, `EnsureClosable`, `CommitAccept` are the awaits of an acceptance;
the invitations of an owner and of an administrator share their steps and differ in how they begin
(`FindOwned`, `FindAccount`) and in the limit. A refused call has written nothing and may be made
again. The subscription is a set of accounts, which `Subscribe` and `Lapse` change freely.

**`SourceRegistry`** (`source-registry.service.ts`) has the rows of `StreamSource` and what is done
with them as operators: `SavedRow`, `SuccessFrom`, `FailureFrom` (what a report computes from the
row it read), `ReportedRow` (what it writes), `Candidates` (the query and its order), `Cached` and
`CheckAgainAt` (the negative cache). Scores count in fives. **`Resolvers`** extends it with what
each provider may answer and each resolver may find, fallback after fallback (`Tier1`, `Tier2`,
`ViaFlareSolverr`, the four extractors), and with `ValidateStreamUrl`: a page is abstracted to the
kinds of URL the code tells apart, so that what comes out is a set of possible results.
**`Playback`** (`playback.service.ts`, `discovery.service.ts`) is the machine: a *flight* is one
computation under a key of `singleFlight`, its steps the awaits of `prepare`, `resolveOnce`,
`discoverAndSave` and `resolveCandidates`; a *report* is a recordSuccess or recordFailure between
its read and its write. `Purge` is the administration's, `Tick` the clock. `Turn` gives each
candidate its place in the three rounds of `diversify`; the second round goes through the providers in
the order in which they first occur among the candidates, as the code's groups do.

**`Unavailable`** (`catalog-unavailable.service.ts`, its job, the routes of the administration) is
the table of hidden titles: by hand, by a check (`Enumerate`, `DiscoverBatch`, `Apply`) or by the
job (`StartRecheck`, `NextDue`), with the upsert nobody waits for (`WriteUnawaited`).
**`CatalogRequests`** extends it with the requests that read the table: the middleware (`Arrive`,
`ReadUser`), the controller, the index and its synchronisation, TMDB with its cache.
**`VidlinkTokens`** is the engine: `Files`, `Ready`, `StartTimeout` are the start, `Request`
chains callers, `Answer`, `TokenTimeout` and `Exit` settle them. **`BackOffice`** has the terms, the
roles, the payments and codes with the reports on them, and a reader of a list page by page
(`StartWalk`, `ReadPage`). **`StreamProxy`** is a player that follows a lease through `Playlist` and
`Proxy`; a line of a playlist is where its URL stands and where it points.
**`Server`** composes these four: `CatalogRequests` (with `Unavailable`), `VidlinkTokens`,
`BackOffice`, `StreamProxy`. Its actions say who may begin what, and hold their properties.

`MC*` modules extend these with the constants' values and the symmetry sets. A definition
commented "Faulty variant of X" is X with a plausible bug; no specification uses it. It
documents which mistake each property catches.

## Runs

| Run | Question |
| --- | --- |
| `usage_sessions` | what is true of the turns when three acquires of two persons, heartbeats, releases, revocations, removals, suspensions and a crash interleave |
| `usage_one_turn` | *violated*: "1 uso simultaneo por persona" (README.md:34) - two overlapping acquires both stay ACTIVE |
| `devices` | what is true of the devices under three concurrent calls of two persons and three accounts |
| `device_limit` | *violated*: the limit of devices (README.md:33, 59) - a replaced device that registers again is reactivated without a count, with no overlap at all |
| `device_links` | the link refines the handshake, revocation reaches the sessions, and an approved television is served |
| `link_claim_once` | *violated*: "claim entrega tokens una unica vez" (ARCHITECTURE.md:70) - an approval that read PENDING re-opens a claimed link |
| `auth_sessions` | rotation, reuse, revocation and password change with lost replies |
| `refresh_reuse` | *violated*: "reusar un refresh anterior revoca la sesion" (README.md:174) - two refreshes with one token both succeed |
| `subscriptions` | grants, lazy expiry and an administrator on one account |
| `playback` | what is true of sources, their breakers and the answers when three sources fail, answer, expire, are purged and are reported, in every order of two computations |
| `server` | what is true of the hidden titles, the lists, the tokens, the terms, the reports, the pages and the tunnel |
| `membership` | what is true of memberships, invitations and closed accounts when two persons who may invite each other accept, are removed and register in every order |

The properties of the passing runs come in two kinds. Some hold outright: `CodeIsRedeemedOnce`,
`NotMarkedEarly`, `GrantIsTakenOnce`, `ApprovedTelevisionIsServed`, `LanguagesComeFirst`,
`FlightsEnd`, `TunnelIsKept`. (So do `EndedTurnStaysEnded`, `AcquireEndsOwnTurnOnly`,
`NobodyIsPutOut`, `NoFlightIsStuck`, `GrantIsAnsweredOnce` and `OnlyOwnDevicesChange`, which are
proved and in no run.) Others say that the only way to the
bad state is a named overlap: two turns only from acquires of which one committed inside the
other's transaction (`OnlyOverlapSharesTurn`), a turn on a revoked device only when the
revocation overtook the acquire (`RevokedDeviceWasOvertaken`), an excess of devices no larger than
the number of calls that did not count each other (`ExcessIsUnchecked`), a token that rotates
twice only for refreshes that overlapped (`OnlyOverlapRotatesTwice`), a second live subscription
only after an overlap, a late PAST_DUE or an administrator (`OneLiveSubscription`), a second trial
only after an overlap (`SecondTrialOverlapped`), a second ACTIVE membership, a member beyond the
plan and a closed account that is not empty only from calls that were crossed
(`ExtraHomeWasCrossed`, `ExtraMemberWasMiscounted`, `ClosedAccountWasEmpty`), a breaker that does
not fit the failures only after a report was written over another it had not read
(`BreakerFollowsFailures`), a table that contradicts the last verdict on a title only after
operations that were not alone (`TableKeepsTheVerdict`), a list with the wrong titles only when
another request wrote the mode meanwhile (`AdultFollowsTheRequest`), a caller without a token or an
error only when it was chained to one that timed out (`CallersAreAnswered`, and
`NobodyIsForgotten`, which is proved and in no run), no or two versions of
the terms in force only after publications that crossed or broke off (`TermsAreInOrder`), a report
that does not add up only by payments recorded over a midnight (`ReportsAddUp`), and a page that
skips a row only after a row has left the list or among rows of one instant
(`PagesSkipOnlyAfterALeave`). That is what the code gives without locks, and
what a change of it must not lose.

Two things the search for `Subscriptions` showed are worth knowing. A row that an overlap leaves
live behind the newest stays there: it is not cancelled by later grants, only by its expiry once
it is the newest. And when that row is the one a later grant finds, the grant does not continue
the longer one: `PaidTimeIsKept` therefore speaks only of accounts in which no grants overlapped.

In `Membership`, "Un usuario solo debe tener una membresia ACTIVE a la vez" (ARCHITECTURE.md) is
what `ExtraHomeWasCrossed` bounds: two acceptances that read the same former account, or two
removals of one member, each leave a membership more. An invitation outlives the account it leads
to: one that was pending when its account was closed can still be accepted, with no overlap, and
its person then belongs to a closed account (`usedLate` accounts for it).

What writing the modules of the catalogue showed, beside the hazards of `PROJECT.json`:

- A provider that discovery skips because it is in the negative cache is marked again, and as one
  that failed: a title that is not there for six hours is asked for again after ten minutes. The
  comments (playback.service.ts:308-309, source-registry.service.ts:284-286) speak only of
  providers that failed.
- The comment on the caps (playback.service.ts:241-244) wants variety; one source with as many
  URLs as the answer has room for fills it alone.
- `checkTitle` is announced as changing nothing (catalog-unavailable.service.ts:153-156), and
  sends an upsert (230-233) that its caller does not know of; a re-check whose metadata fails
  writes the id over the title.
- The limit of episodes is announced as the end of a check (16-17), and is what makes it partial
  (216-223): a long show without sources is never hidden by a check.
- `remove` takes the content type as it comes and every other operation makes `anime` a series: an
  anime cannot be taken out under the name it was put in with.
- "Resolver TODAS las URLs relativas" (stream-proxy.controller.ts:79): the URIs of EXT-X-KEY and
  EXT-X-MEDIA stay relative, and a player asks the server for them in vain (`AskNothing`).
- The index is filled in the background with the mode of the moment, so adult titles that were
  synchronised while somebody with the mode on was asking are hits for everybody:
  `AdultFollowsTheRequest` speaks of the lists of TMDB.
- `getSeries` falls back to a search by name, and shows a series other than the one that was looked
  up in the table of hidden titles.
- The application can report a lease that has expired; the worker of vidlink is never started
  again after it dies; `usedCount` of a promotion is written nowhere.

### Bounds

- `UsageSessions.cfg`: three acquires (two that overlap and one that sees the result), two persons,
  three devices, two accounts. `UsageSessions_one_turn.cfg`: two acquires are enough.
- `Devices.cfg`: three calls, four installations, two persons, three accounts (the one shared, two personal), limits 1
  and 2, the change window enforced with one change. The hazards are between two calls; the third
  sees what they left.
- `AuthSessions.cfg`: four calls of one person (login, two refreshes, a password change or a reuse).
  Sessions of different persons share nothing.
- `DeviceLinks.cfg`: one link, two approvals by two persons, two polls open at a time, one crash.
- `Subscriptions.cfg`: three grants (two overlap, the third meets what they left), two trial codes,
  a monthly plan and one for life, one resolve in flight and one edit at a time, time to the end
  of the grace.

- `Membership.cfg`: two persons and an e-mail that never registers (so that the limit, one, can be
  exceeded), two invitations, two acceptances, two removals: each kind of call can cross another of
  its kind. `MaxSubscribed`, one, bounds the accounts with a subscription at a time.

- `Playback.cfg`: three sources of two providers and two languages, so that the order by language
  and the order by provider disagree; two computations, since one key is `prepare`'s and one
  `resolve`'s; a breaker that opens at two failures (three in the code); one
  report of the application, purge or tick (`MaxEvents`). Times keep the order of the code's: the
  breaker and a transient mark last one tick, a mark of absence two; one lease expires before the
  next tick and another does not.
- `Server.cfg`: one title, a check and a run of the job at a time, two requests, three calls of
  getToken for two ids (a chain, and another request), two clerks, two days, pages of one row,
  playlists nested twice. `MaxOperations` bounds what comes from outside: three events of the
  catalogue and of the administration, six of the engine (three calls, an exit, an expiry, a
  restart), two streams. The four parts share no variable and none waits for another, so a
  behaviour of the model is one of a single part (`part`): what would be added by interleaving them
  is stuttering, for each of the properties speaks of one part.

Symmetry is used only in runs without liveness, over sets whose members nothing distinguishes.

### Fairness

`device_links`, `playback` and `server` state it. In `device_links` the steps of a poll that has begun happen (`WF`; the process
runs), the television keeps polling (`WF` of `Find`; the protocol of README.md, "Vincular Android
TV"), and crashes are bounded by `MaxCrashes`. In `playback`, `WF` of `UnderWay`: every request of
a provider carries a timeout and every query ends, so a process with something under way does
something; which flight or report goes on is left open, and `FlightsEnd` does not need it, because
there are finitely many steps. In `server`, `WF` of `TokenStep`: the worker answers or a timer
fires. Nothing is assumed of persons: no approval, no request, no tick and no expiry is ever obliged
to happen.

## Proofs

`UsageSessionsProofs` proves, for every set of users, devices, accounts and calls, the five
state properties of the run `usage_sessions` and its two action properties, from
`UsageAssumption` (every device has an owner and an account, and `None` is neither a user nor a
device).

The invariants are not inductive. `OnlyOverlapSharesTurn` speaks of committed rows, but a commit
revokes the rows *its UPDATE saw*; so one needs `SnapshotIsComplete`: while a transaction is
open, every ACTIVE row of its person is in its snapshot or in `missed`. In the same way
`RevokedDeviceWasOvertaken` and `SuspendedAccountIsSwept` need `CallsAreOvertaken` (a call in
flight whose device or account has been lost is recorded as overtaken), `OnlyReplacedDevicesAreTold`
needs `PreviousAreLosers` and `ToldAreRows`, and `AcquireEndsOwnTurnOnly` needs
`SnapshotIsPersonal`. `IInv` is their conjunction with `TypeOK` and `CallsAreTyped`; there is
one lemma for each kind of action, and the temporal theorems follow with PTL.

`MembershipProofs` proves the four state properties of `Membership` and `NobodyIsPutOut` for every
finite set of persons, invitations, acceptances and removals, from `MembershipAssumption` (finite,
and the names of calls of different kinds differ).
`ClosedAccountWasEmpty` needs `ClosingIsEmpty`: between the check of
`ensureCurrentAccountCanBeClosed` and the commit the account stays empty or is in `usedLate`; and
that in turn needs `AccountsExist`, because a new account must not be one that some call
already means to close. `ExtraHomeWasCrossed` counts: it needs `HomesAreKnown` (a call that has not
been crossed still finds the memberships it read), so that an uncrossed commit replaces a home or
fills the only one, while a crossed one adds a home and, with it, a call that accounts for it;
`HomesWithin` is that arithmetic on cardinalities. `ExtraMemberWasMiscounted` is argued the same
way: a call of invite that has not been miscounted has counted all there is (`CountsAreKnown`), so
there is room for what it creates, and an acceptance that has not been miscounted uses up an
invitation that is still pending (`InvitationsAreOpen`); a call that has been miscounted accounts for
what it adds (`LoadKept`).

`ServerProofs` proves the seven state properties of the run `server`, and `NobodyIsForgotten`, for
any titles, requests, checks, callers and administrators (`Clerks`, `Requests` and the rest are
arbitrary sets), any number of payments, rows and pages and any depth of playlists. Each part has its own
inductive invariant, and the steps of the other parts leave its variables alone.

- `TunnelIsKept` from `StreamIInv`: no line a player holds of a locked stream points to the host, and
  none of another stream points to the proxy (`RewrittenLines` is the lemma on the rewriting).
- `AdultFollowsTheRequest` from `AdultIInv`: `Fits` says, for each step a request may be at, what the
  shared mode is if no other request has written it since.
- `TermsAreInOrder` from `TermsIInv`: publications that are under way together have crossed each
  other (`PublicationsCross`), a draft has a number above all others unless a draft was written
  since it was read (`DraftsAreNew`), and exactly one version is in force after a settled publication
  (`OneInForce`; its cardinality needs the newest among the instants of publication).
- `TableKeepsTheVerdict` from `TableIInv`: `Story` says of a title, for each number of operations
  since it was at rest, what they may still write. That is where the upsert nobody waits for counts: while it
  is under way the check that sent it has concluded the same.
- `ReportsAddUp` from `LedgerIInv`, which says of each payment that its day and its instant
  agree unless a midnight fell between (`PaymentFits`), of each clerk what is known of the code in hand
  (`TaskFits`), and that there are as many payments by code as redeemed codes. The
  sums of the reports are folds: `FibresAddUp` says that counting the days, or the batches, one by one
  and adding up gives the size of the whole.
- `PagesSkipOnlyAfterALeave` from `PagesIInv`: a row that is due and not yet seen has at least as
  many newer rows as the pages before this one hold, because rows are only added in front. It is this
  count, and not what has been read, that a step of another request may change.
- `TypeOK` from the invariants above with `TokenTypes`, `SyncTypes`, `HurriedTypes` and `DepthTypes`.
- `NobodyIsForgotten` from `WaitIInv`: who waits for the worker to start has a start under way, and
  who waits for a token is in the chain of an id that is in the input of a living worker (or was
  chained to a request that timed out). It is the safety half of `CallersAreAnswered`: there is always a
  step that answers; that it is taken is the fairness.

`AuthSessionsProofs` proves the four state properties of `AuthSessions`, from `AuthAssumption`, for
any number of logins, refreshes and the rest. `OnlyOverlapRotatesTwice` needs `RotatedIsReplaced` (a
token that has been rotated is never the stored hash again) and `RotationsAreSeen` (a refresh under
way whose token has been rotated since it read the session is recorded). The other two properties
speak of live sessions only; `TokensAreSent` and `OutdatedEnd` say the same of sessions that have
ended and of those a login is about to create, because that is what a step may build on.

`SubscriptionsProofs` proves the six properties of `Subscriptions` from `SubscriptionsAssumption` (the
set of grants is finite). `CodeIsRedeemedOnce` needs `CodesAreHeld`: a grant past the conditional
update of its code is the only one with that code. `NotMarkedEarly` needs `MarksAreDue`: what
`resolve` has decided on a row stays justified while the row may be extended under it.
`OneLiveSubscription` counts: while nobody else commits, a grant holds the newest row, if that row is
live (`NewestIsRead`), so the row that follows a live one comes from a grant that was overtaken
(`LiveRowsAreFollowed`), and taking the next row is an injection. `PaidTimeIsKept`
is an action property; it follows from `EndsAreAdded`.

`DeviceLinksProofs` proves the three state properties of `DeviceLinks`, and that it implements
`LinkHandshake`: `Approve` is `Open`, a successful `Claim` is `Take`, and every other step
leaves the grants alone. The refinement needs that the row of a link names an approval that was
written (`LinksAreKnown`) and that an open one was never claimed (`OpenIsUnclaimed`);
`OnlyOverlapApprovesTwice` needs that an approval under way knows the approvals of its link written
since it read it (`RereadsAreSeen`). `GrantIsAnsweredOnce` is the safety half of
`ApprovedTelevisionIsServed`: a claimed grant is in the hands of exactly one poll until that poll
answers or fails, and of none afterwards. It follows from `AnswersIInv`: a poll has a grant only
from its claim on, and an open grant was never claimed, so the poll that claims is alone with it.

`DevicesProofs` proves the four properties of `Devices` from `DevicesAssumption` (calls are finite,
there is a limit). `CallsAreReliable` is the heart: if a device of its machine, or an ACTIVE
device, appeared that a registration has not seen, the registration has been crossed, and if nothing
crossed it there is room for one device more. `AllWithin` counts the ACTIVE devices of each person in
an account against a limit of the plans and the calls that excuse an excess; steps that make nothing ACTIVE
(`RevokesKeep`) are told from those that do (`Wakes`). The action property `OnlyOwnDevicesChange`
(nobody touches another's device) follows from `CallsFindTheirOwn`: the devices that a call has read
several awaits before it writes were its person's then, and rows never change hands.

`PlaybackProofs` proves `BreakerFollowsFailures` for any sources, providers, languages and limits:
while nothing has crossed a source, its row counts the failures there were (`RowsCountFailures`) and
the reports under way have read the row as it is (`ReportsAreFresh`).
It also proves `TypeOK`, `LanguagesComeFirst` and `NoFlightIsStuck`.

- `LanguagesComeFirst` is not inductive, and needs what the order of the candidates is:
  `DiversityComesFirst` says of `Diversify`, for every sequence of candidates, that a second source of a
  language comes only after one of every language (`LanguagesLead`). Its lemmas are that no two
  candidates have one turn (`TurnsDiffer`), that the places of different turns are a permutation
  (`PlacesAreAPermutation`), and that the first of each language go ahead (`FirstsLead`). `AnswerIInv`
  carries this through a flight, with the types, and with the fact that the
  sources that gave leases are among those that were tried (`FlightFits`).
- `NoFlightIsStuck` from `WaitIInv` is the safety half of `FlightsEnd`: a flight that awaits the record of a
  failure has exactly one report of its own under way, no other flight has any, and one
  that is saving has a provider whose sources can be saved or one that can be marked, until all are done. Were
  a report lost, or a provider passed over, the flight would hold its key for good.

What is assumed of the constants: the sources are a finite set, each of a provider of the list, and
their languages are names (`SourceRegistryAssumption`); sizes and times are natural numbers
(`PlaybackAssumption`). That a resolution gives a positive, finite number of leases is not assumed
but follows from what the resolvers do (`AnswersAreFinite`, `LeasesAreCounted`). Where a proof needs an induction over data - a least row, a
last payment, the first of a language - it takes a least counterexample
of a set of natural numbers instead (`LeastOf`, from the well-foundedness of `<`).

Only model-checked: the liveness properties `CallersAreAnswered`, `FlightsEnd` and
`ApprovedTelevisionIsServed`. They need fairness, and with it ENABLED, which is out of the prover's
reach. Every other property of a passing run is stated by a theorem.

## Not modelled

- Licensing and the rooms of the realtime gateway: a lease is valid offline by design, the rooms
  are kept by socket.io. Both read what `Subscriptions` and `Devices` model and write nothing back.
- Code of the catalogue that nothing calls: `CatalogService.resolveMovie` and `resolveEpisode` with
  the provider classes behind them (`unlimplay`, `vidlink`, `nsrplay`, `multiapi`, `jkanime`
  `.provider.ts`), `StreamResolutionService`, `EmbedPassthrough`, `getMapping`, `saveMapping`,
  `hasAnyBlocked`. `distinctLanguages` and the detection of subtitles only describe.
- The text of pages: parsing, unpacking of scripts, decoding of URLs, ranking by similarity, the
  fields of a title, Cinemeta. `Resolvers` has the nsrplay branches; the run instantiates the other
  two providers.
- Promotions, plans, announcements, support, likes, history, releases, content, storage, the audit
  log, the lists of users and devices: single statements or reads. Codes of a batch are taken not
  to be TRIAL in `BackOffice` (a trial records no payment; `Subscriptions` has both).
- The count of concurrent users in `metrics`.
- `schema.prisma` is used for its unique constraints and enumerations; migrations are not.
- Equality of timestamps of different rows (`createdAt`, `lastSeenAt`) is left out, but for the codes
  of a batch: rows are ordered.
- Clock steps backwards, several instances of the process with different clocks.
- Calendar arithmetic (`common/dates`) and the making of codes (`common/crypto`).

## Plan

The modules of the first plan are written, and the theorems it named are proved. What is left, in the order of its worth:

1. `Licensing`: what a lease keeps valid after the device or the subscription is gone, composed of
   the entitlement of `Subscriptions`.
2. A run of `Playback` with nsrplay and a second title, for the caps on a provider that answers many
   languages.
