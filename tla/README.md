# InboxBridge: specification and proofs

InboxBridge copies mail from *source* mailboxes (IMAP or POP3) into a
*destination* mailbox (Gmail through its API, or any IMAP mailbox through
APPEND). A Quarkus backend polls the sources on a schedule, on demand, and when
an IMAP IDLE watcher reports new mail; a web application (the workspace, its
administration, and InboxBridge Go, the remote page) and browser extensions
watch and control it. This directory holds TLA+ models of the backend's core
and of the clients' state, the TLC configurations that check them on small
instances, and theorems about them that TLAPS proves for every instance.
`PROJECT.json` lists every component, run, mutant, hazard and theorem, and maps
each definition that models code to its lines.

## 1. Inventory

Paths are below `src/src/main/java/dev/inboxbridge/service/` unless they say
otherwise; `admin-ui` and `browser-extensions` are below `src/`.

| Component | State it keeps | Operations | What makes it correct |
|---|---|---|---|
| Source poll pipeline (`polling/PollingSourceExecutionService`, `mail/MailSource*`) | the batch in memory | fetch, look up, deliver, record, act on the source, mark the checkpoint | no mail lost, none deleted unimported, none delivered again without cause |
| Checkpoints (`mail/MailSourceCheckpointSelector`, `polling/SourcePollingStateService`) | tables `source_imap_checkpoint`, `source_polling_state` | select candidates, advance | nothing waits behind a checkpoint; rows only move forward |
| Import ledger (`polling/ImportDeduplicationService`) | table `imported_message` | match by key, hash, Message-ID; record | a row is true and unique |
| Live run (`polling/PollingLiveService`, `PollingLiveRunState`) | run state, queue, source states | start, pause, resume, stop, move, retry, take, mark, finish | queue and states agree; a run that ends is settled |
| Poll coordination (`polling/PollingService`) | run flag, shown poll, guard of busy sources, executor | batch run, workers, IDLE activations | one poll per source; a stop ends the run |
| Poll cancellation (`polling/PollCancellationService`) | open sessions per run and source | open, register, cancel, close | a stop reaches every session, even one registered late |
| Throttling (`polling/PollThrottleService`) | tables of leases and adaptive state per host | acquire, release, adapt, expire | bounded concurrency and spacing per host |
| Schedule and backoff (`polling/SourcePollingStateService`, settings) | next poll, cooldown, failure count | eligibility, record success and failure | a cooling source is left alone, a healthy one polled |
| Rate limits (`polling/ManualPollRateLimitService`, `remote/RemotePollRateLimitService`) | recent invocations per actor | acquire | no more than the limit in any window |
| IMAP IDLE (`mail/ImapIdleWatchService`, `ImapIdleHealthService`, `ImapIdleRenewal`) | a watcher per folder, pending sources, health | connect, notify, renew, drain, refresh | a notification is polled in the end, a stalled watcher is replaced |
| OAuth (`oauth/*`) | stored grants, token cache, one-time state | exchange, link, refresh | a consent enables only what may be enabled; a state is used once |
| Source and destination setup (`user/UserEmailAccountService`, `user/UserMailDestinationConfigService`, `destination/MailboxConflictService`) | accounts, destination, credentials | save, enable, link, unlink, delete, test | no enabled source is the destination's own mailbox |
| Users and application mode (`admin/AppUserService`, `admin/ApplicationModeService`) | accounts, override of the mode | register, create, update, delete, reset credentials, switch the mode | somebody can administer; the mode and the accounts agree |
| Logins (`auth/*`) | sessions, passkey ceremonies, challenges, failed calls | sign in, revoke, challenge, register | a solution counts once; a session is its user's |
| Protection settings (`auth/AuthSecuritySettingsService`) | one row of overrides | save, reset, check | what is stored can be used; a secret once entered stays |
| Extension sessions (`extension/*`) | sessions with their tokens, handoffs | authenticate, rotate, revoke, approve, redeem | a client never loses the tokens of a live session |
| Secrets (`security/Secret*`) | encrypted columns, active and legacy keys, one request, reviews | re-encrypt, queue, approve, review, deploy | every row can be decrypted at every moment |
| Page as its user (`admin-ui/src/app/App.jsx`, `lib/api.js`, hooks) | the user shown, the browser's cookie, calls under way | sign in, log out, load, approve a handoff, capture a location | the page acts as the user it shows |
| Live views (`App.jsx`, `RemoteApp.jsx`, `usePollingControllers`) | the run shown, a stream, timers | follow, ask, control, sign in again | a run that is over does not stay on the screen |
| Workspace (`useWorkspacePreferencesController`, `App.jsx`) | preferences, layout draft, notices | arrange, save, reload, notify | notices stay with their user |
| Mailbox, user and settings pages (`admin-ui/src/features/*`) | lists, forms, dialogs, requests | load, edit, save, confirm | what is saved is what was shown and tested |
| Statistics (`shared/components/ImportTimelineChart.jsx`, `lib/pollingStatsAlerts.js`) | range, resolution, loaded points, a warning | choose, load, sum | rows are their points; loads keep the view |
| Date formats (`lib/formatters.js`, `PreferencesDialog.jsx`) | stored pattern, draft in a language | localize, complete, normalize, save | an untouched pattern survives |
| Extension sign-in (`browser-extensions/shared/src/config.js`, `popup-`, `options-`, `background-controller.js`) | one stored bundle of tokens | load, rotate, save, clear | a live token is never thrown away |
| Extension status (`background-controller.js`, `live-status.js`) | cached status, badge, pending manual poll, stream | refresh, notify, trigger, reconnect | a running badge ends |
| Configuration backup, GeoIP look-ups, REST mapping, site, scripts | configuration, caches | transform, validate, present | formats and validation |

**How they interact.** `PollingService` admits one batch run, registers it with
`PollingLiveService`, and gives its workers the queue. A worker takes a source,
enters the guard of busy sources, asks the schedule whether it is due, and runs
the pipeline, which talks to the source, the ledger, the destination and the
checkpoints, each in a call or transaction of its own, and comes back to
`PollingLiveService` between two messages to be paused or stopped. A watcher
reports a source to a pending map; a scheduled drain asks `PollingService` to
poll it, beside a scheduler run or as a run of its own. `PollingLiveService`
pushes each change to the pages and extensions that hold a stream, which also
ask for snapshots on timers of their own. The web application sends one request
per button, and every thirty seconds loads everything it shows again; each
request carries the cookie of the moment, each answer is applied when it comes.
The extension has no cookie: its contexts share one stored bundle of tokens,
which a refresh replaces on both sides.

**What is hard here.** The pipeline is a chain of remote calls and transactions
with no transaction around them: it can fail, be stopped, or die between any
two. Its batch is ordered by received date while its checkpoint is a UID. Mail
servers renumber folders. Sources share a destination. Runs have many threads
that are paused, stopped and fed retries at any moment. Rules about several
rows (the last administrator, a source that is the destination, the keys that
secrets need) are kept by each transaction, not by the database. Clients act on
what they loaded some time ago, and answers come in any order, for a session,
a dialog or a form that may be gone. Every place where this bites is listed,
with its line, under `hazards` in `PROJECT.json`.

## 2. Modules

| Module | What it is |
|---|---|
| `MailFlow` | the pipeline of every source, the ledger, the checkpoints, the mail servers and the owners |
| `MailDelivery` | the abstract promise `MailFlow` implements: what a ledger entry means and what may be removed |
| `PollingLive` | the live run's operations, each one step under the service's lock |
| `PollRuns` | `PollingLive` composed with the run's thread, its workers, IDLE activations and controls |
| `ImapIdle` | watchers, their registry and health records, the queue of sources to poll, the sweeps and the safety poll |
| `PollThrottle` | leases and spacing of mail hosts, adaptive multipliers, and the polls that take and hold leases |
| `MailboxSetup` | one user's sources, destination and credentials on the server |
| `ConsoleMailboxes` | `MailboxSetup` composed with the page that sets mailboxes up |
| `UserAdministration` | accounts and the application mode on the server |
| `ConsoleUsers` | `UserAdministration` composed with the user management page |
| `SecretManagement` | stored secrets, keys, rotations, reviews and deployments |
| `SecretConsole` | `SecretManagement` composed with the page's secret section |
| `ExtensionAuth` | the extension's stored sign-in, its asynchronous calls, and the server's sessions |
| `ExtensionLive` | the extension's worker: status, badge, icon, manual polls, live stream |
| `ConsoleLive` | a page following the active run, in the workspace or in InboxBridge Go |
| `ConsoleSession` | the user a page acts as: sign-ins, calls, handoffs, locations |
| `ConsoleWorkspace` | preferences, layout editing and notices of a page |
| `ConsoleSettings` | the dialogs of poller, source, OAuth and protection settings |
| `SecuritySettings` | the protection settings of several administrators and the server's check of them |
| `Registration` | asking for an account: challenge, solution, check, block |
| `StatisticsChart` | the chart's ranges, resolutions and sums, and its warning |
| `DateFormats` | custom date formats in the user's language |
| `MailFlow_proofs`, `PollRuns_proofs`, `ImapIdle_proofs`, `PollThrottle_proofs`, `MailboxSetup_proofs`, `UserAdministration_proofs`, `SecretManagement_proofs`, `ExtensionAuth_proofs` | the theorems |
| `MCMailFlow`, `MCPollRuns`, `MCImapIdle`, `MCPollThrottle` | model values and constant operators for TLC |
| `MCLiveViews`, `MCSecurity`, `MCAdministration`, `MCPages` | several modules in one instance each: every behaviour is about one of them, the *part* it starts with, and the others keep their initial state |

### MailFlow

One action per remote call or transaction of `execute`:

| Action | Code |
|---|---|
| `Fetch` | resolve the destination, select candidates per folder, materialize, sort by received date |
| `Examine` | take the next message of the batch, `duplicateStatus` |
| `Deliver` | `importMessage`, with the one retry without prohibited attachments, or a rejection for good |
| `Record` | `recordImport`, whose unique constraints fail the poll when another poll was faster |
| `Act` | `applyPostPollSettings`: reopen the folder, find the message by UID, mark, move or delete |
| `Mark` | `recordSourceCheckpoint` |
| `Finish`, `Abort`, `Crash` | end of the batch; stop or exception; the process dies |
| `DeliverUnacknowledged`, `ActNotExpunged` | the destination took the message but its answer is lost; a swallowed expunge failure |
| `Arrive`, `OwnerDeletes`, `OwnerReads`, `Rebuild`, `Retarget` | the mail server, another mail client, a renumbered folder, a changed destination |

Abstractions. A batch is a set, and `Examine` takes a message that none
precedes in the batch's order, so ties across folders are a free choice. A fetch
is one step: what arrives while it runs is seen by the next one. A content
stands for a raw message and its SHA-256; `MessageIdOf` gives its normalized
Message-ID. POP3 mailboxes have one folder and a UIDL per message, numbered in
mailbox order. A folder a message is moved to is not watched. The history
variable `excused` records what a fetch or the rules pass over: mail before the
first fetch window, mail the owner read before an unread-only fetch, a message
that could not be read, a message rejected for good. `erased` records what the
importer removed. Throttle leases, the spam-folder probe, the `$Forwarded`
keyword, the fallback to the legacy single-row checkpoint, progress figures and
audit rows are left out.

### PollingLive and PollRuns

`PollingLive`'s actions are the synchronized methods of the service.
`PollRuns` gives the run's thread a place (`setup`, `register`, `launch`, `join`,
`decide`, `finish`, `close`), each worker a place from `top` to `release`, and
each IDLE source the thread of its activation. A run of one worker polls on the
run's own thread, which no shutdown interrupts; more workers get an executor.
Controls are pressed by permitted viewers and are accepted ones: a refused
request changes nothing. The scheduler's choice of due sources and the skips
inside `pollSingleSource` are free choices, as is whether a poll succeeds.
`CancelRun` is the part of a stop that runs after the lock is returned: it shuts
the executor and interrupts its workers. After `Finish` the states of the
sources are kept until `Close`, so that what a finished run leaves can be said.

### ImapIdle

| Action | Code |
|---|---|
| `SaveMailbox`, `RefreshWatches` | a saved configuration and its observer: watchers that no longer match are stopped and forgotten, missing ones started |
| `Connect`, `QueueCatchUp`, `MarkConnected` | `watchUntilInterrupted`: open and count, listen and queue a catch-up, record the connection |
| `Announce` | the listener, and the count after `idle()` returns |
| `ConnectFails`, `Drop`, `RenewalFails`, `LeaveIdle`, `Close`, `MarkDisconnected` | the ways out of a connection, the `finally` block, the loop |
| `Take`, `BeginPoll`, `Requeue` | `drainPendingSources`: take a source off the queue, poll it, put it back if the poll was busy |
| `SafetyPoll` | the scheduler's poll of an IDLE source whose safety deadline, or fallback, is due |
| `PollSucceeds`, `PollFails` | the end of a poll; a poll that is skipped counts as failed, for it is not queued again either |
| `AcknowledgementExpires`, `SuccessExpires` | time: a record, or a last success, gets older than the safety interval |
| `Arrive`, `OtherRunBegins`, `OtherRunEnds`, `Restart` | mail, a run of other sources, a new process |

`stop` clears the active flag, interrupts the thread and closes its connection;
the thread notices where the code looks: in `LeaveIdle`, `Close` and
`MarkDisconnected`, and not between opening the folder and recording the
connection, so a stopped watcher may still record its folder as connected.
Folders are numbered by count: a message that is removed does not lower it.
Times are only on one side or the other of the safety interval. The pipeline
behind a poll is `MailFlow`'s; here a poll handles what its folders held when it
began. Connecting (password, OAuth, a missing folder) is one step that may fail
for ever.

### PollThrottle

| Action | Code |
|---|---|
| `TryAcquire`, `FindNoRow`, `MakeRow` | one turn of `acquirePermit`: under the lock of the key's row, or making that row, which two first polls may attempt at once |
| `Waits`, `Grant` | the two ends of `tryAcquire`: widen the spacing and sleep, or insert a lease and set the next time |
| `Interrupted` | a stop interrupts the sleep of `pause` |
| `Start`, `NextMessage`, `Stop` | the pipeline between leases |
| `Deliver`, `Reject`, `DeliveryFails`, `Complete`, `Fail` | outcomes and what they do to the adaptive state (`recordSourceSuccess` and its like) |
| `ReleaseDestination`, `ReleaseSource` | the `finally` blocks; a release that fails is logged and the lease expires |
| `Tick`, `Crash` | time; the process dies and its rows stay |

A poll holds a lease of its source's host from start to end and one of its
destination while it delivers a message. Times are the ticks left until they
come, so a lease that has expired and one that was deleted are the same, as
every query makes them. A random UUID is a token that no poll holds. Spacing,
caps and lifetime are constants, greater than zero: with a zero the code takes
no lease at all. `distance` and `quiet` are history: how long ago a key was
last given, and the longest penalty its failures have earned. A failure has any
severity the classifier gives.

### MailboxSetup and ConsoleMailboxes

| Action | Code |
|---|---|
| `Upsert`, `Delete` | `UserEmailAccountService.upsert`, which refuses to enable the destination's own mailbox, and `delete` |
| `StoreSourceGrant`, `EnableAfterSuccessfulOauthConnection` | the two transactions of a source's consent: store the grant, later test the account and enable it |
| `UpdateDestination`, `LinkOutlook`, `LinkOutlookOnly`, `LinkGmail`, `UnlinkDestination` | `UserMailDestinationConfigService` and the exchanged codes of a destination; a destination that moves disables the accounts it matches |
| `LoadAppData`, `ApplyLoad`, `LoseLoad` | the load every thirty seconds, whose answer replaces what is shown |
| `OpenAdd`, `Edit`, `EditConnection`, `EditOption`, `TestConnection`, `HandleSaveSubmit`, `SaveAndConnectOAuth`, ... | the dialog of a source: a change of the connection discards a test, a save asks for one |
| `LoadFolders`, `FoldersArrive`, `FocusFolder` | the folders offered for the connection in the form, loaded as it changes |
| `Serve`, `Refused`, `Fail` and the `...Answered` | a request is served as it is when the server comes to it; its answer is applied to whatever is then shown |
| `ConnectOAuth`, `Consented`, `Exchange`, `ExchangeCode`, `ReturnToConsole` | the way to the provider and back by the callback page |

A mailbox is a host with a user name, and Gmail's address is not known to the
server before somebody enters it, as in the code. Other transactions commit
while an account is tested, and a test or a save may be answered after the form
was changed, closed or opened again. The history variables `overtaken` (sources
enabled by a comparison with a destination that had changed by then) and `late`
(the result shown came after its form had changed) say where the code gives a
promise up.

### UserAdministration and ConsoleUsers

A request is admitted by the filter with the rights its sender has then
(`Admit`), and handled later, in a transaction that reads the rows and the mode
(`ReadForCreate`, `ReadForUpdate`, `ReadForDelete`, `ReadForSwitch`), counts on
what it read, and writes whole rows (`Commit`, or `RollBack` when a row is gone
or a name taken); any number of others commit in between. `ResetCredentials`
and `SaveOAuthApps` are one step each, and a handler may refuse (`Refused`).
`reading` holds, of each open transaction, the rows and the mode as it read
them. The page knows the mode and the
accounts from its last loads (`Refresh`, `HearMode`, `ApplyLoad`,
`ApplyDetail`), asks before most requests (`AskForAccount`, `AskForMode`,
`Confirm`), and follows a request with loads that believe what the page
believed when it was sent. The OAuth form is saved with the override of the mode
the page knows, which may be an older one.

### SecretManagement and SecretConsole

| Action | Code |
|---|---|
| `ReencryptAllStoredSecrets` | a rotation at once or queued, with its requirements |
| `CooldownEnds`, `ApproveQueuedReencryption`, `BlockDrifted`, `ExecuteDueReencryption`, `FailedRun` | the queued request: due, approved, blocked because another key is active, run by the scheduler, failed and rolled back |
| `RecordRecoveryReview`, `RecordRetirementReview`, `VerifyReencryptionPassword` | what an administrator records |
| `SaveSecret` | a record saved with all of its secrets, which are then under the active key it names |
| `SaveBeside` | a record saved with some of its secrets or none (`SystemOAuthAppSettingsService.java:162`, `UserGmailConfigService.java:184`): it names the active key, and what was not sent stays as it was encrypted |
| `TouchBegin`, `TouchCommit` | an entity held by another transaction and written back |
| `Deploy` | the operator restarts with another active key and other legacy keys |
| `OpenReencryption`, `Acknowledge`, `Handle...`, `LoadSecretManagementStatus`, `ShowLoad` | the section's buttons, its dialogs, and its timer's load, which may be older than what is shown |
| `InRecoveryGuide`, `CanContinueToReencryption`, `HandleRetryReencryption`, ... | the two guides, which lead on to the re-encryption as they were when they were opened, and the review of retired keys |

Keys are values. A record has the key it names (`label`) and those its
ciphertexts are encrypted under (`sealed`), which the code takes for the same:
it decrypts with the named key, a rotation skips a record that names the active
one, and a retirement review counts by name. A record can be read when the key
it names is configured and is the one it is sealed under. `careless` remembers
that the operator dropped a key without a ready review of the running
deployment; `spoiled` the records that `SaveBeside` left under another key than
they name, or that a `TouchCommit` wrote back as they were before another's
save, until they are encrypted anew.

### ExtensionAuth and ExtensionLive

A *flow* of `ExtensionAuth` is one asynchronous call of the background worker,
the popup or the options page, with a step for each stretch between two
awaits: `LoadConfig`, the refresh of tokens about to expire (`FindForUpdate`,
`RotateSessionTokens` on the server, `RefreshAnswered`, `SaveRotated`), the
re-reads after a rejection (`Checked`, `WaitForRotated`, `DropConfig`), the
request itself (`AuthenticateRead`, `AuthenticateCommit`), and what each caller
does with a rejection. Answers may be lost (`RefreshUnanswered`) and requests
arrive after their caller has gone (`RefreshStray`). `authenticate` writes back
the row that it read, whatever has rotated it since; `crossed` holds the tokens
before and after a rotation that it undid. `saw` is what a flow saw in the
storage when it last looked after a rejection.

`ExtensionLive` is the worker that shows a run: refreshes of the status by
alarms, messages and events, the running indicator a manual poll puts over it
until its checks give it up, the badge and icon, the stream and its
reconnection, and a restart of the worker, which loses all of its variables.

### ConsoleLive and ConsoleSession

`ConsoleLive` has the run's number and state on the server, events in flight, a
page's stream with its watchdog, its two timers (*reconcile*, seldom, and
*fallback*, often while the stream is down), its calls, and what it shows. The
workspace and InboxBridge Go differ in what a 401 and a lost stream do.

`ConsoleSession` has the server's logins, the cookie of the browser, and the
user the page shows. Every call remembers the cookie it left with. Sign-ins
(password, passkey, from another tab), log-outs, revocations, handoffs and
captured locations are started for one user and end later, also after the
session they were begun in. `unsettled` says that the last sign-in began beside
something that was left of an earlier session, `stray` with whose cookies
handoffs then left.

### Workspace, settings, registration, statistics, date formats

* `ConsoleWorkspace`: every change writes the whole record of preferences, every
  answer replaces it; an effect saves a list of notices that differs from the
  record's; the timer loads through the functions of the render it was started
  in. A call the server no longer knows (`CallRefused`) resets the page, whoever
  is signed in by then, and answers come after a session has ended; `mixed` names the users
  for whom the page took an answer of someone else's session. The constant
  `Grouping` lets a notice return within the grouping window.
* `ConsoleSettings`: forms that follow a load unless they are dirty, as far as
  the function that loads remembers; a source's dialog that is loaded when it
  is asked for. Each dialog is opened from its section (`OpenUserPolling`, ...)
  and has its own fields (`EditUserPolling`, ...); a source's is drawn only
  while a source is noted (`Visible`). A source's dialog may be asked for while
  another load or save is under way; `straddled` remembers that it was. A
  behaviour is about one dialog (`kind`).
* `SecuritySettings`: views and forms of several administrators, and
  `BeginUpdate` and `CommitUpdate` of one row, which the server checks over the
  defaults of the environment, and which overlap. `entered` holds the secrets
  administrators entered, until a reset or a transaction that had read the row
  before takes them away.
* `Registration`: challenges asked for, issued, lost or late; a solution that is
  checked once; failed calls that block an address.
* `StatisticsChart`: presets and custom ranges in hours of a scaled calendar,
  loads that bring some of the presets, sums by resolution, the warning.
* `DateFormats`: patterns as sequences of characters, the years' letters of a
  language, completion, and the conversions in both directions. Characters are
  what the property is about.

Operators whose comment starts with *Fault* are plausible bugs. No
specification uses them: they are what the mutation entries of `PROJECT.json`
put in the place of an operator to see that a property notices.

## 3. Runs

| Run | Instance | Shows |
|---|---|---|
| `mail_delete` | one IMAP source, delete after import, one folder that may be renumbered once, two arrivals, a sanitized content, two faults | nothing is deleted unimported while UIDs hold; nothing waits behind a checkpoint; every message is imported in the end |
| `mail_dates` | one source, two folders, unread-only, dates in any order, two destinations it may be switched between | checkpoint rows only move forward |
| `mail_shared` | an IMAP source that deletes and a POP3 source with one destination and the same contents, one fault | the ledger stays true and unique, a content is delivered again only when another source recorded it after this poll's look-up, and the pipeline implements `MailDelivery` |
| `mail_failed_delivery` | two messages whose dates contradict their UIDs, one fault | **violation**: a failed delivery is already behind the checkpoint |
| `live_runs` | two sources, two workers, a watcher on one source, three controls | one poll per source, a source shown as running is held, no source left running, a stop ends the run |
| `live_lost_retry` | the same, two controls | **violation**: an accepted retry is lost when the run is deciding its outcome |
| `idle` | one folder, one message, two threads of it alive at once, one sweep, one disturbance | until a poll fails no message slips between watcher, queue and poll; mail is polled in the end even if the server never accepts the watcher; stopped watchers end |
| `poll_throttle` | two polls of one host and one destination, caps and spacing of one, leases of two ticks, a multiplier of at most two, one fault | leases are capped, spaced and given again, penalties are served |
| `live_views` | either page of the console, two runs, or a run and an act of the user, one fault; or the extension's worker with two calls, a manual poll and one unasked move | a shown run goes once it has ended, a page without a stream finds a run, a pending manual poll is always about to be checked, a running badge ends |
| `security` | two calls of any kind around one extension sign-in whose tokens are rotated twice; or two keys, one record, three rotations, two deployments, one fault, with the page or beside it | answers are stored before they are replaced, careful calls leave a live sign-in in the storage; secrets stay readable, runs are as approved, trouble is reviewed |
| `administration` | two accounts, a request of the page and one from elsewhere; or a dialog of settings and three steps; or two users of one browser; or a registration with three challenges | the last administrator is lost only to an outdated count, mode and accounts agree until one is overwritten, a dialog writes the source it shows, the page acts as its user, a handoff belongs to its approver, a solution counts once |
| `pages` | one account and two mailboxes; or a chart of six hours; or German and Spanish patterns of four characters; or two users' notices; or two administrators' protection settings | no mail loop, saves are tested, folders are the form's, rows are their points, loads keep the view, notices stay with their user, entered secrets stay, untouched formats survive |

**Bounds.** Two messages per source are the least that have an order to get
wrong, and one renumbering, one switch of destination, and two sources with a
common content are the least for their hazards. Two faults let a retry fail as
well. Two workers and two sources are the least for a race in the queue, and
three controls allow stop, retry, pause, after which a worker is interrupted in
a wait. `MaxMessages = 1` gives every poll one checkpoint between messages;
more repeat it. In `ImapIdle` one disturbance is one change of the mailbox, run
of other sources, failed poll or restart: the catch-up queue has to survive each
of them, and two threads of one folder are alive at once as soon as a watcher is
replaced. Two messages and two overlapping sweeps (millions of states) hold as
well but take longer than a run should; the theorem about `MailIsSpokenFor` has
no such bound.

In `PollThrottle` two polls are the least that compete; a lease outlasts the
spacing, so that both the cap and the spacing can be what a poll waits for; a
multiplier of two can be raised and eased, and a failure of severity two meets
its ceiling. Three tokens suffice for two polls and one lease a crash left
behind. One fault is a crash or a release that fails.

In the composed runs a behaviour is about one part, so their state spaces add up
and do not multiply. For clients the interesting cases are two things under way
at once: two flows around one bundle of tokens, rotated while the other reads,
saves or clears; a page's request beside one from elsewhere; a load begun before
a save and applied after it; two users, one after the other, in one browser; two
administrators with two dialogs. The bounds allow such a pair, and one
fault (a lost request, a lost answer, a refusal) at any point. Three rotations
and two deployments are the least with which a review of one rotation could be
taken for one of another. The chart's calendar is scaled so that a day
(two hours) and a week (four) begin and end within the six hours of a run. Four
characters hold a localized year between two neighbours.

Part of the interleavings the code allows breaks what it promises (section 5).
No constant keeps the runs away from them. A history variable marks exactly the
state that such a step spoils, until the code repairs it, and the property holds
of everything else:

| Property | Marked | By |
|---|---|---|
| `NoRedelivery` | what another source recorded since the look-up | `looked` |
| `NoMailLoop` | a source enabled by a comparison with an older destination, until either is saved again | `overtaken` |
| `SavesAreTested` | the result of a test that was answered after its form had changed, as long as it is shown | `late` |
| `NoticesStayWithUser` | a user for whom the page took another session's answer, or who signed in to a page that had | `mixed` |
| `EnteredSecretsStay` | secrets a save wrote over that had read the row before them | `entered` |
| `SecretsStayReadable` | a record named after a key it is not under, or written back as it was, until it is encrypted anew | `spoiled` |
| `AnswersAreCurrent`, `CarefulFlowsKeepLiveTokens` | the tokens of a rotation that `authenticate` undid | `crossed` |
| `AtLeastOneAdmin` | a commit whose counted administrators are none any more | `reading` |
| `ModeMatchesAccounts` | a commit over a row or a mode that changed since it was read; an OAuth form with another override than the stored one | `reading` |
| `EachSourceGetsItsOwn` | a save from a dialog that was asked for beside another's load, save or dialog | `straddled` |
| `ActsAsItsUser`, `HandoffBelongsToApprover` | sign-ins that began beside something of an earlier session | `unsettled`, `stray` |
| `UnchangedFormatsSurvive` | a text that stands for two patterns | `Ambiguous` |

Each mark is needed: without it TLC finds the property violated within the
bounds, by the behaviour section 5 tells of. In `administration` the two
sign-ins of a browser are the bound `MaxLogins`, and the state constraint
`UnsettledBound` drops lost answers and captured locations from behaviours
whose marked sign-in has already excused the page. `Grouping` is a bound of
another kind: notices of one group come further apart than the window, because
within it the page saves them without end (section 5).

**Fairness.** `MailFlow` assumes that each source's poll goes on
(`WF(PollStep(s))`): the scheduler fires every five seconds and each poll runs
on a thread of its own. Nothing is assumed of mail, owners, users or faults,
but faults are bounded, so liveness says what happens once they cease.
`PollRuns` assumes that the run's thread, its workers and the thread of a stop
keep running; nobody has to start a run, press a control or wake a source.
`ImapIdle` assumes that timers fire, threads run, polls and runs end, a server
announces mail to a client that waits, and an attempt to connect ends in one
way or the other, because connecting has a time limit; it does not assume that any
attempt succeeds, nor that a connection lasts.
`PollThrottle` assumes that time passes and that a poll that sleeps wakes and tries
again. It assumes nothing of a poll that holds a lease, which may hang for ever:
that the key is given again is the lease's expiry.
`ConsoleLive` assumes that a page's timers and watchdog fire, its stream
connects and delivers what is queued, and the server answers its snapshots and
its look at the login; a stream may die silently, and no user has to act.
`ExtensionLive` assumes that an await is resumed, that the browser's alarm and
the check's timer fire again and again when a call of the worker is free to take
them (strong fairness: the worker is busy in between), that calls with a time
limit end, and that the server finishes its runs.

## 4. Findings

1. **A failed delivery can be lost** (`mail_failed_delivery`). A batch is sorted
   by received date and the checkpoint keeps the highest UID handled. If a
   message with a larger UID and an older date goes first and the delivery of
   the smaller UID then fails, the next fetch starts behind it.
   `docs/ARCHITECTURE.md:442` says a failed message's checkpoint is not advanced.
2. **An accepted retry is lost** (`live_lost_retry`). A retry pressed after the
   last worker ended and before the run is finished is accepted and queued, and
   the run ends with it.

## 5. Other disagreements

Met while modelling. The models behave as the code does; the marks of section 3
name the disagreements that a property would otherwise stumble over, and of the
others no property speaks.

*Polling.* The post-poll action finds its message by UID alone
(`MailSourceMessageMapper.java:99`), without the UIDVALIDITY it was read under, so
in a renumbered folder it can delete a message that was never imported;
`CONTEXT.md:63` says the action follows an import or a duplicate match. This is
why the properties about deletions say *while UIDs hold*. A sweep puts a source
back only when its poll was busy (`ImapIdleWatchService.java:139`): after a poll
that failed, acknowledged renewals of a healthy connection move the safety
deadline for ever, although `docs/ARCHITECTURE.md:500` says the catch-up recovers
the mail. A lease is given once and never renewed, but a poll keeps its source's
as long as it lasts (`PollThrottleService.java:157`): after two minutes it is not
counted any more, and `CONTEXT.md:898` says polls of a host are capped.
`LeasedPollsAreCapped` therefore counts polls whose lease has not expired.

*Accounts.* Two administrators who suspend, demote or delete each other in
overlapping transactions leave none: each counts the other first
(`AppUserService.java:255`). Single-user mode switched on twice marks the
accounts it suspended as inactive anyway, and the way back reactivates nobody
(`AppUserService.java:287`); `CONTEXT.md:223` says they are reactivated. The second
switch leaves accounts that fit the mode, so `ModeMatchesAccounts` does not see it.
The OAuth form is saved with the override the page loaded, so an old form brings
an old mode back. A late configuration answer of one account replaces another's.

*Secrets.* A save that does not send all of a record's secrets names the record
after the active key and leaves the rest as it was
(`SystemOAuthAppSettingsService.java:162`, `UserGmailConfigService.java:184`): what
was under an older key can no longer be decrypted, a rotation passes the record
over, and a retirement review counts it as active. A record an overlapping
transaction read before a rotation and writes after it is back under the old
key. The mark of a failed
run is rolled back with its transaction, so an approved run that fails is tried
every minute (`CONTEXT.md:578`). A retry that is ready is not offered
(`SecretReencryptionDialog.jsx:98`, `CONTEXT.md:690`); acknowledgements survive a
status that names another key; the approval names no request.

*Mailboxes.* A consent that enables a source compares it with the destination,
tests it, and commits later; a destination that is changed meanwhile may be the
same mailbox (`UserEmailAccountService.java:396`). The address of a
Gmail destination is never recorded, so a source may be that mailbox whatever is
compared (`GoogleOAuthService.java:273`): `docs/SETUP.md:457` promises a protection
that `NoMailLoop` can only state for recorded destinations. Saving and
connecting enables a source without a test (`CONTEXT.md:65`), and a test that is
answered after its form has changed is taken for one of the new form
(`useEmailAccountsController.js:259`). `MailboxConflictService.java:100` takes every
host for Google's when it looks at an identity.

*Extension.* A request authenticated in a transaction that overlaps a rotation
writes the old tokens back, and both sides disagree
(`ExtensionSessionService.java:120`, `CONTEXT.md:132`). A call that looks at the
storage, finds the rejected sign-in, and erases it in a later step erases what
another context stored in between, live as it may be (`CONTEXT.md:129`). The popup
clears the sign-in
after a refresh that merely failed (`popup-controller.js:136`,
`browser-extensions/README.md:48`). The options page saves the tokens it loaded
earlier (`options-controller.js:220`). A stream its own timer aborts is not
replaced (`fetch-sse.js:34`, `browser-extensions/README.md:28`).

*The page.* A load of the last user may be applied after another has signed in;
a late 401 of an earlier session signs out the new one (`api.js:80`); an
approval or a location begun for one user completes as the next (`App.jsx:878`,
`useSessionDeviceLocation.js:129`); an answer of one user's save replaces the
preferences, and with them the notices, of the next. The settings of a source
that were asked for first may arrive in the dialog of the next, or over it
(`useEmailAccountsController.js:675`). The forms of
users and OAuth applications are overwritten by the load every thirty seconds; a
layout edit is lost to the timer's older functions (`App.jsx:953`). A grouped
notice that returns within the window is saved without end (`Grouping`,
`CONTEXT.md:348`). InboxBridge Go shows a run for ever once its login has expired
(`RemoteApp.jsx:607`, `admin-ui/README.md:210`). A silent stream that dies while
nothing runs is never noticed. Controls name no run.

*Registration.* A full list of used solutions refuses further ones
(`RegistrationChallengeService.java:149`), and a restart forgets the list; neither
is modelled, and `SolutionsCountOnce` says nothing of them. A CAPTCHA script that
failed to load is never tried again (`RegistrationCaptchaField.jsx:8`), and a late solution is
applied to another challenge, which the server then refuses.

*Settings and statistics.* Overlapping saves of the protection settings lose
what the other stored (no version column). The default chain of
Geo-IP providers cannot be saved without a token
(`AuthSecuritySettingsService.java:190`, `CONTEXT.md:1342`). A custom range answered
by the hour is not summed by days (`CONTEXT.md:387`), and a refresh without
`pastWeek` loses a resolution chosen by hand (`CONTEXT.md:382`). In Spanish,
French and Portuguese the year's alias is the meridiem's letter, and `AYY` is
read back as `YYA` (`formatters.js:61`), although `admin-ui/README.md:94` says the
stored pattern stays the same; the run is about German and Spanish.
## 6. What is proved

TLAPS proves, for every number of sources, folders, destinations, contents,
workers, messages, accounts, mailboxes, keys, records, calls and requests, from
the assumptions the modules state about their constants:

| Theorem | Statement | Condition |
|---|---|---|
| `MailFlow_proofs!TypeCorrect` | `Spec => []TypeOK` | |
| `LedgerAlwaysTrue` | `Spec => []LedgerIsTrue` | |
| `ErasedAlwaysImported` | `Spec => []ErasedWasImportedWhileUidsHold` | |
| `NothingRedelivered` | `Spec => NoRedelivery` | |
| `PipelineKeepsPromise` | `Spec /\ []UidsHold => KeepsPromise` (the pipeline implements `MailDelivery`) | in the statement |
| `CheckpointAlwaysCovers` | `Spec => []CheckpointCovers` | `InstantsFollowUids` |
| `CheckpointAdvances` | `Spec => CheckpointNeverRewinds` | |
| `PollRuns_proofs!TypeCorrect` | `Spec => []TypeOK` | |
| `OneAlwaysPolls` | `Spec => []OnePollPerSource` | |
| `RunningAlwaysHeld` | `Spec => []RunningIsHeld` | |
| `FinishedRunsAlwaysSettled` | `Spec => []FinishedRunsAreSettled` | |
| `ImapIdle_proofs!TypeCorrect` | `Spec => []TypeOK` | |
| `MailAlwaysSpokenFor` | `Spec => []MailIsSpokenFor` | |
| `PollThrottle_proofs!TypeCorrect` | `Spec => []TypeOK` | |
| `LeasesAlwaysCapped` | `Spec => []LeasedPollsAreCapped` | |
| `LeasesAlwaysKeepTheirDistance` | `Spec => LeasesKeepTheirDistance` | |
| `MailboxSetup_proofs!SetupTypeCorrect` | `SetupSpec => []SetupTypeOK` | |
| `MailNeverLoops` | `SetupSpec => []NoMailLoop` | |
| `ConsoleImplementsSetup` | `Spec => SetupSpec` (the page implements the server) | |
| `PageNeverLoops` | `Spec => []NoMailLoop` | |
| `FoldersAlwaysTheForms` | `Spec => []FoldersAreTheForms` | |
| `SavesAlwaysTested` | `Spec => []SavesAreTested` | |
| `LoadsAlwaysKeepTheView` | `StatisticsSpec => LoadsKeepTheView` | |
| `RowsAreAlwaysTheirPoints` | `StatisticsSpec => []RowsAreTheirPoints` | |
| `NoticesAlwaysStayWithUser` | `WorkspaceSpec => []NoticesStayWithUser` | |
| `EnteredSecretsAlwaysStay` | `SecuritySpec => []EnteredSecretsStay` | |
| `UserAdministration_proofs!TypeCorrect` | `UserSpec => []UserTypeOK` | |
| `AdminAlwaysRemains` | `UserSpec => AtLeastOneAdmin` | |
| `ModeAlwaysMatches` | `UserSpec => ModeMatchesAccounts` | |
| `PageImplementsServer` | `ConsoleUsersSpec => UserSpec` | |
| `EachSourceAlwaysGetsItsOwn` | `SettingsSpec => []EachSourceGetsItsOwn` | |
| `SolutionsAlwaysCountOnce` | `RegistrationSpec => []SolutionsCountOnce` | |
| `SessionTypeCorrect` | `SessionSpec => []SessionTypeOK` | |
| `AlwaysActsAsItsUser` | `SessionSpec => []ActsAsItsUser` | |
| `HandoffAlwaysBelongsToApprover` | `SessionSpec => []HandoffBelongsToApprover` | |
| `SecretManagement_proofs!TypeCorrect` | `SecretSpec => []SecretTypeOK` | |
| `SecretsAlwaysReadable` | `SecretSpec => []SecretsStayReadable` | |
| `RunsAlwaysApproved` | `SecretSpec => RunsAreAsApproved` | |
| `TroubleAlwaysReviewed` | `SecretSpec => TroubleIsReviewed` | |
| `ConsoleImplementsServer` | `ConsoleSpec => SecretSpec` | |
| `ExtensionAuth_proofs!TypeCorrect` | `Spec => []TypeOK` | |
| `AnswersAlwaysCurrent` | `Spec => []AnswersAreCurrent` | |
| `LiveTokensAreKept` | `Spec => []CarefulFlowsKeepLiveTokens` | |
| `WorkerTypeCorrect` | `WorkerSpec => []WorkerTypeOK` | |
| `OverlayAlwaysTimed` | `WorkerSpec => []OverlayIsTimed` | |

No theorem assumes that transactions, answers or sessions keep out of each
other's way: where the code lets such an overlap break a promise, the property
itself says what is marked by it (section 3), and the theorem says that nothing
else breaks it. `CheckpointAlwaysCovers` is about mail whose dates follow its
UIDs, because finding 1 is what happens otherwise; `PipelineKeepsPromise` is
about mailboxes that are not renumbered during a poll.

**The arguments.**

* *Deletions.* `ErasedWasImported` is not inductive: it does not say why a poll
  that reaches the post-poll action may act. `Actable` says that its message is
  accounted for in full by the ledger of its destination. A row found by key
  accounts for the message only if key and content belong together, and the
  message deleted is the one fetched only if both know it by the same UID of the
  same UIDVALIDITY. `KeysIdentify` says that a key (folder, UIDVALIDITY, UID)
  names one content in the mailbox, in every batch and in the ledger, and that
  no key of the current UIDVALIDITY has yet to be given; arrivals take a fresh
  UID, a rebuild a UIDVALIDITY nothing is known of, and every other step only
  moves what was there (`ShowsNothingNew`). The code finds the message to delete
  by UID alone, which is why this theorem is about UIDs that hold. The ledger
  only grows, so what held when a poll took its message holds when it acts.
* *Deliveries.* `LookedUp`: a poll about to deliver found nothing in the rows it
  looked at, and a source has one poll, so a row of its content that is there now
  was written since and by another source. `LookedIsLedger`: what it looked at is
  still in the ledger, which only grows.
* *The promise.* `Given` and `Entered` are the refinement mapping. A delivery maps
  to `Put`, a record to `Enter` (by `RecordIsDue`), a deletion to `Remove` (by
  `Actable` and `KeysIdentify`: what is found is one content, the ledger's),
  everything else to no step.
* *Checkpoints.* `CheckpointCovers` says what is true of a written checkpoint and
  not why the next one may be written. `CheckpointInv` and `CurrentIsFirst`
  follow a message from the fetch: it takes, excuses or passes over whatever its
  checkpoint has not passed (`FetchTakesTheRest`), so before a message of a batch
  everything is settled or in the batch (`BatchIsComplete`); dates follow UIDs
  (`DatesFollowUids`) and the message at hand is the first by date, so nothing
  unsettled is before it by UID when its checkpoint is written (`BehindCurrent`).
  New mail lies ahead of every checkpoint (`RowsAreKnown`), a rebuilt folder has
  none, and nothing settled is unsettled (`Grows`).
* *The ledger.* `RecordIsDue` says that a poll about to record has delivered.
* *The guard.* `GuardIsHeld` says that whoever polls a source, or has yet to
  release it, has it in `activeSources`, and alone.
* *The live view.* `RunShape` says in which places of the run's thread there are
  workers at all, and `ViewIsHeld` that the sources shown as running are those
  workers hold, whether or not a run is active.
* *IDLE mail.* `MailIsSpokenFor` holds by what a step hands a message on to: a
  sweep from the queue to its job, a busy poll back to the queue, a successful
  one to what is handled, a refresh to a watcher that has yet to connect. Three
  facts make it inductive: `Registry`, that without a refresh outstanding only
  watched folders have watchers, so that a folder a save adds has none;
  `Known`, that a watcher never counts more than has arrived, so that what
  arrives next is news to it; and `SchedulerHolds`, that the source the
  scheduler polls keeps the run flag, so that it never drops one poll for another.
* *Leases.* What the code counts is rows, what the property counts is polls.
  `LeasesOK` bounds the rows that have not expired, and `TokensAreUnique`, that no
  two polls hold the same lease, makes polls no more than rows. Spacing
  is not inductive by itself, because the multiplier changes between two leases:
  `KeyKeepsDistance` says that the time a key is still closed and the time since
  it was given last together are never less than its spacing, and that the first
  covers the longest penalty, so a key that is open has waited for both.
* *Mail loops.* The server compares an account with the destination in each
  transaction that enables the one or moves the other, except that a consent
  reads the account, tests it, and enables it later. `TestsHold` says that an
  account being tested does not match the destination it was compared with; when
  it is written back with that destination still there, it makes no loop, and
  with another it is marked. The page is no part of the argument: `ConsoleImplementsSetup`
  shows that whatever it loaded and lost, each of its steps is a step of the
  server or none, and needs `ConsoleType`, the shape of its requests.
* *The dialog of a source.* `FoldersInv`: the folders' key is that of a load for
  this form, and a load that is not the last one asked for is told apart by its
  number. `TestedInv`: a good test shown is one of the form's mailbox or came
  late, and a form asked to be saved enabled has one.
* *Administrators and modes.* `ReadingsChecked` says what each open transaction
  made sure of in the rows and the mode it read: not of the rows as they are now,
  which anybody may have changed. Counting what it read, a write leaves an
  administrator (`CountedCommit`: the last one is not among the rows it takes the
  rights from, and unless the count is outdated the others still are
  administrators); a switch that nobody overtook makes the accounts fit the mode
  (`SwitchFits`), and a write that nobody overtook keeps them so (`WriteFits`).
* *Secrets.* `RowsHonest`: a record that is not marked is under the key it names.
  `ReviewHolds`: after a ready retirement review of the running deployment every
  such record names the active key, and goes on doing so, because everything
  that is stored since names it. `KeysKept`: so a deployment without a careless
  operator drops no key that a record names. The approvals
  rest on `ApprovalIsItsOwn`, that an approved request carries the grant given to
  it and to its key, and reviews on `ReviewIsDated`, that a review is of the
  request whose time it carries and no later one has that time.
* *The extension's tokens.* `LockOK`: a row is locked by the one refresh that is
  between its read and its commit. `TokensKnown` and `DeadOK`: a token anybody
  holds was issued, and one a call was refused with is dead for good, since a row
  moves back only to tokens that are then in `crossed`. `FreshOK`: tokens a refresh
  brought are the row's until they are stored, because to replace them a caller
  would have to hold them, unless a rotation was undone. A careful call that is
  about to erase has been refused with one sign-in and has seen the storage since:
  what it saw was dead, or is not what is stored now.
* *The extension's worker.* A call that ends while a poll is pending must have set the
  check's timer or settled the poll. `MenuShowsOverlay` says that the menu's call,
  once it has shown the poll, has two steps left and no failure to report, so that
  its last one sets the timer. That a poll under way is below the bound of polls
  keeps the types.
* *A dialog of settings.* `DialogIsItsSource`: unless its dialog was asked for beside
  what another had left, an open dialog of a source holds what
  was loaded for it, and the one load under way is of the source last asked for.
* *Who the page is.* The type of a call is not inductive: an answer must be that of a
  login that exists, and a sign-in must be for an account (`Known`). Beyond it, on a
  page that is not `unsettled` the server, the browser and the page agree on the
  user because a sign-in that began alone stays the only
  call under way (`SignInIsAlone`), with nobody signed in and no location being
  captured, while every other call carries the cookie the browser has now
  (`CallsCarryCookie`); a login that was made never changes its owner
  (`OwnersStay`). `HandoffsAreApproved` follows an approval from the press to the
  call: the effect fires only for the user who pressed, and sends the cookie of
  that user unless the page is unsettled, which `stray` then records.
* *Registration.* `CountedOnce`: a challenge whose solution was let through is in the
  list of used ones or has expired, and the list forgets only what has expired.
* *The chart.* `ResolutionIsKept`: once statistics are loaded the resolution is one
  that `Kept` leaves alone, and `Kept` leaves alone what it returned
  (`KeptStays`), so a load that brings the shown range changes nothing. `KeysArePresets` bounds what the server may send. A row is a fold of
  its points when it is summed, and the point itself when the chart's unit is
  the server's, because then no two points share a bucket (`KeyIsBucket`,
  `RowsOfPoints`).

* *The notices of a browser.* `WorkspaceInv`: the list is for nobody or for the one
  it was loaded for; the record shown, every stored row and the body of every call
  that may still be served or answered hold notices of one user, whose they are,
  for every user who is not `mixed`; a call of the login of now is the user's of
  now or was made for one who is. An answer of an earlier login adds its taker to
  `mixed`, and a page nobody is signed in to passes its mark on. A list has
  no two notices of one group (`Alone`), so the one a new notice replaces is the
  only one.
* *The settings of security.* `EnteredInv`: each open transaction remembers the
  secrets entered when it read the row, all of which are in what it read; it writes
  them back, since no form carries one and an empty field clears none, so what
  it writes has every secret it leaves in `entered`.

**Only model-checked.** Liveness (`MailIsImported`, `StopEndsRun`,
`MailIsHandled`, `StoppedWatchersEnd`, `PermitsAreGiven`, `ShownRunEnds`,
`DisconnectedPageCatchesUp`, `RunningBadgeEnds`), which needs fairness. Safety
not proved: `UnchangedFormatsSurvive`, which is about what a recursive
conversion of patterns computes for every pattern: that needs induction over data,
which none of the provers does.

## 7. Not modelled

Cryptography, MIME parsing, Gmail labels and mail protocols are data. The
schedule and backoff of sources, the sliding windows of rate limits, the
cancellation scopes of a stopped run, the token cache of OAuth and the lockout
after wrong passwords are choices where other modules meet them. Configuration
backup, GeoIP look-ups, the mapping of REST requests, dashboards on the server,
texts and translations, the site, scripts and containers hold no state the
modelled parts depend on. `PROJECT.json` gives the reason per component.

## 8. Plan

Done: the pipeline, live runs, watchers, throttling, mailboxes, accounts,
secrets, the extension, and the pages in front of them, with the theorems above.

Next, in this order:

1. Proofs: the type invariants that no theorem states yet, and the console's views of a run.
2. `PollSchedule`: eligibility, backoff, aligned next poll, manual and remote
   rate limits; a cooling source is not polled, a limit holds in every window.
3. `PollCancellation`: scopes and sessions of a stopped run.
4. `OAuthTokens`: one-time state, token cache, refresh against revocation.
