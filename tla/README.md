# Pawgram: TLA+ specifications

Pawgram is a single-process asyncio application (FastAPI, SQLite, Telethon)
that runs invite jobs, group preparation, health checks, activity scans and a
heartbeat over a set of Telegram sessions, plus a separate licence server and
a self-updating launcher. This directory holds TLA+ models of the parts whose
correctness depends on the order of things, TLC configurations that check them
on small instances, and TLAPS proofs of the properties that matter most.

    tlc -workers 2 -config SessionLease.cfg MCSessionLease
    tlapm SessionLeaseProofs.tla       (and the other *Proofs.tla)

Every `.cfg` belongs to the MC module named in section 4. `PROJECT.json` lists,
for every definition, the lines of the source it stands for; for every property
the mutation of the code that breaks it; and the hazards the properties are for.

## 1. Inventory

| Component | State it keeps | Operations | Talks to |
|---|---|---|---|
| Session lease (`app/session_operation.py`) | one `asyncio.Lock` per session, table `session_operation_locks` | acquire (wait / no wait), release, read the holder, clear stale rows | every Telegram operation takes it |
| Invite executor (`app/telegram_service.py`) | `jobs`, `job_candidates`, `usage_counters`, `member_history`, the locals of one run | claim, select a session, open, try a candidate, record, hand over, complete | lease, session status, proxies, Telegram |
| Session status (`telegram_sessions`) | `status`, `flood_wait_until`, `batch_wait_until`, `batch_success_count`, `proxy_last_status` | written by login, proxy tests, proxy settings, executor, resolver, scan, batches, the wait-release sweep | read by every selector |
| Group preparation and health batches (`group_access_service`, `session_health_service`) | batch row, item rows, one asyncio task per batch | create, resume, stop, execute, startup recovery | lease, session status |
| Job API (`app/main.py`) | `transfer_jobs.status`, `job_candidates` | create, preview, select, approve, execute, quotas; scheduler loop | invite executor |
| Activity scans (`activity_service`, `main.py`, `telegram_service.scan_group_activity`) | `activity_scans`, daily usage, a task per scan | create, run, pause, resume, delete, scheduler loop | lease, session status |
| Heartbeat (`heartbeat_service`) | settings row, `heartbeat_session_status` | settings, due cycle, one attempt per session | lease, proxies, session status |
| Proxy login and proxy settings (`telegram_service` 495-1050, `main.py`, `licensing.py`) | `pending_auth`, `telegram_sessions` | start, verify, cancel; save, delete, bulk assign, test; every client made | Telegram, lease |
| Licence client (`app/licensing.py`) | the stored lease, the runtime block | activate, refresh, local status | licence server |
| Licence server (`license_server/`) | `licenses`, `activations` | create, revoke, extend, reset, activate, validate | licence clients |
| Updater and launcher (`app/updater.py`, `run.py`) | staged release, installed files, backup, health marker | check, stage, install, roll back, restart | the running program |
| Rate limiter (`app/rate_limit.py`) | sliding windows per key | allow, reset | login endpoint, licence server |
| Working window (`app/scheduling.py`) | none | next working time, next run | executor, scans |

How they interact. Everything in the program runs on one event loop: a
coroutine is never interrupted between two `await`s, and everything may happen
at an `await`. Components share the SQLite tables (each `with get_connection()`
block is a transaction without an `await` in it, so it is one atomic step), the
registries of tasks in `main.py` and `activity_service.py`, and the leases.
Handlers start tasks and cancel them; a cancelled task runs its `finally`
blocks first, which await `client.disconnect()`. The process may die at any
`await`; the `lifespan` handler repairs the tables at the next start.

What is hard in it, by component, and what makes the component correct:

- *Lease.* Two representations (lock and row) that must agree; the hand-off of
  `asyncio.Lock`, whose woken waiter runs later than it is woken; cancellation
  at every point of it; either of two statements failing; a crash with rows in
  the table. Correct: one holder per session, visible to others, never leaked,
  every wait answered, first come first served.
- *Invite executor.* A loop over candidates whose body awaits Telegram, changes
  session, defers candidates, meets limits, and must agree with the table after
  a crash at any point. Correct: no candidate lost, none asked twice, quotas
  and waits kept, leases returned, the loop ends.
- *Batches and scans.* Stop, pause, resume and delete race with a cancelled
  task that is still disconnecting; the registry takes it for a live one.
  Correct: what the user stopped stays stopped, what is queued has a task,
  counters agree with rows, nothing of a deleted scan remains.
- *Job API.* Status checked before an `await`, overwritten after it. Correct:
  only those selected at the approval are asked; a job does not go back.
- *Licensing.* Client and server exchange tokens while an administrator
  revokes, extends and resets; the server's handlers are threads, the device
  has several requests under way at once, answers are late or lost. Correct:
  never more active devices than allowed; a device works at most `lease_hours`
  after it was last entitled; the online edition stops working when it is not
  entitled and works again when the server answers again.
- *Heartbeat and proxies.* A client is made for a proxy that was tested seconds
  before, while proxies are saved, tested, logged in with and synchronised at every
  await. An attempt is recorded, made, and recorded again, and the program may die in
  between. Correct: no client over a proxy that was not tested, one row per account, one
  message per interval, and a turn for every session.
- *Updater.* Two processes and a script replace files under each other, and each
  of the script's file operations may fail or be cut off by a power failure.
  Correct: the last release that worked is never lost, an update is there as a whole or
  not at all, every wait ends, and a program that works is running afterwards.

## 2. Modules

| Module | Models | Uses |
|---|---|---|
| `SessionMutex` | what the lease promises: an owner per session | |
| `SessionLease` | `session_operation.py`, `asyncio.Lock` inside | refines `SessionMutex` |
| `SessionLeaseProofs` | the theorems about it | `SessionLease` |
| `InviteSelection` | `select_next_available_session`, a pure operator | |
| `InvitePromise` | what the executor promises: each candidate is decided once, a job ends when all are | |
| `InviteJob` | `execute_invite_job` for several jobs | extends `InviteSelection`, refines `InvitePromise` and, for its leases, `SessionMutex` |
| `InviteJobProofs` | the theorems about it and about the selector | `MCInviteJob` |
| `BatchRunner` | preparation and health batches | |
| `BatchRunnerProofs` | the theorems about it | `BatchRunner` |
| `JobLifecycle` | a transfer job from creation to completion | |
| `JobLifecycleProofs` | the theorems about it | `JobLifecycle` |
| `ActivityScan` | activity scans | refines `SessionMutex` for its leases |
| `ActivityScanProofs` | the theorems about it | `ActivityScan` |
| `Licensing` | `license_server/main.py` and `licensing.py`, together | |
| `LicensingProofs` | the theorems about it | `Licensing` |
| `Accounts` | session rows with their proxies, proxy tests, clients, logins, proxy settings | |
| `Heartbeat` | `heartbeat_service.py` over them | extends `Accounts`, refines `SessionMutex` for its leases |
| `HeartbeatProofs` | the theorems about both | `Heartbeat` |
| `Updater` | `run.py`, `updater.py` and the installer script it writes | |
| `UpdaterProofs` | the theorems about it | `Updater` |
| `MC*` | the constants, and for the selector the machine around it | each its module |

The conventions are the same everywhere. An action is what one coroutine does
between two awaits, all its writes included; where a coroutine goes through
several decisions without awaiting, the variable that says where it stands has
a value (`"loop"`, `"try"`) at which no other action is enabled (`Settled`).
Locals that survive an await are variables, named after the local. Tables are
functions from ids to the value of the column. Time is reduced to what has run
out (`late`, `due`, `waiting`, `floodRuns`); its arithmetic is checked in
`InviteSelection`, on a clock. Logs, notifications, progress texts and the
encryption of columns are left out. Bounds (`Max...`) count the events nobody
waits for: failures, crashes, requests; they appear in guards only.

**SessionLease.** `phase[t]` is where task `t` stands in
`acquire_session_operation` or the `SessionOperationLease` it returned. The
busy check and `lock.acquire()` are `RefuseBusy`, `AcquireNow` and `JoinLine`:
`asyncio.Lock.acquire` takes a free lock at once when nobody live is in line
(`FreeForAll`). `fut[t]` is the state of the future a queued task awaits:
`release()` resolves the first one and returns; the woken task runs later
(`Resume`) and takes the lock then. A task cancelled before or after it was
woken leaves the line and passes the turn on (`LeaveLine`). The INSERT after the
lock, and the DELETE of `release()`, may fail. `Crash` empties the memory and
keeps the rows; `ClearStale` is the start of the next process.

**InviteSelection** and **InviteJob.** `Select` is the whole function: rows
written back, session, earliest resume time. `InviteJob` has one action per
stretch of `execute_invite_job`: `Claim`, `Loop` (the head of the `while`, with
the selection and the switch of sessions), `Opened` and `OpenFails`
(`_open_invite_session`), `Try`, `Invited`, `NotInvited` and `SessionFails` (the
answers of Telegram), `Wake` (the delay) and `Close`. The environment is what
else touches the sessions: another operation takes leases (`OtherJoins`,
`OtherTakes`), proxies are tested, waits run out, days and processes end. `added`,
`lost` and `stale` are history variables. `Promise` reads the columns of `job_candidates` and
the completed jobs as the variables of `InvitePromise`, which knows no sessions. The limit of
a batch is a constant, whether the policy gives a full one minutes to rest is open.

**BatchRunner.** Both batch services have the same loop over items; the guards
differ where the code differs. `next` is what follows the `finally` that closes
the client, `cancelled` a `CancelledError` on its way. `torn` holds the items, one per
case, that a task had in hand when it was cut off from its clean-up (section 6).

**JobLifecycle.** Handlers are one step each, a preview is three
(`AskPreview`, `ReadHistory`, `WritePreview`), prepare-transfer adds the
selection of everybody (`SelectAll`). A run is reduced to what it writes to the
job: `Claim`, `Invite`, `OpenSession`, `Leave`, `TaskCloses`. `OtherJobAdds`
stands for every other job's effect on `member_history`. `crossed` marks the
jobs a preview wrote to after they had moved on, the behaviour of finding 4: the
other properties are stated for the jobs it did not happen to.

**ActivityScan.** `place[a]` is where the task of scan `a` stands, `tries[a]` the
sessions it has left to try, `owner` the leases. `Cancel` is `task.cancel()`: it
throws into the current await; a task that has opened a client still disconnects it
(`"leaving"`), any other is over. `deleting` is a delete handler that awaits that end;
`End` joins the end and what the handler does next, between which the code has one turn
of the loop (a task started in it finds no row and returns).

**Licensing.** One licence (`status`, `started`, `duration`, `expires`), the row of
each device in `activations` (`act`) and, per device, the stored lease (`token`) and
the block. Every device has three callers: the refresh loop (startup included), the
status page and the activation form; `call[d][c]` is the request of each, from
`"sent"` over what the server has read (`"checked"`) to the answer. `activate` is one
transaction (`Enter`), `validate` and `extend` are two steps each, because the
`SELECT` of `sqlite3` opens no transaction. A request whose sender has given up may
still be carried out (`ActivateLost`). `lapse[d]` is a history variable: when the
device was last entitled in the eyes of the server. Time is in ticks of about an
hour; what takes milliseconds, a handler between its reads, sees no tick, answers on
their way do.

**Accounts** and **Heartbeat.** An operation `o` is a proxy test (`Testers`, which takes
no lease), any operation that connects a session under its lease (`Workers`), or the
heartbeat (`Beats`). `at[o]` is where it stands in `_client_for`: `"testing"` awaits the
proxy test of the row it has read (`tested`), `TestPasses` reads the row again and makes
the client (`via`), `"connecting"` and `"connected"` follow. The results of a test are
written to the row whatever has become of it meanwhile. A login is `"requesting"` the code or
`"verifying"` it, each an await; `pending` is `pending_auth`, by account.
`overtaken[o]` says of the session's proxy during the test whether it stayed (`"no"`), was
replaced (`"changed"`) or taken away (`"dropped"`). `Heartbeat` adds the cycle: `StartCycle`
reads settings and due sessions once, `Attempt` is `_record_attempt_started` with the lease,
its refusal, or a place in line (`"lined"`, the case of finding 1, left by `TakesTurn`),
`Deliver` the moment Telegram has the message, `Record` the second writing. The history
variables `sent` and `wipes` count messages since a session's time last came, and the
savings of the settings since then that left it without a time. `RestartRows` is a restart with all operations
under way, and with or without the proxy of a new customer package.

**Updater.** `pc[p]` is where the process in slot `p` is between its start and its end,
`code[p]` the files it was started from, `step` the next operation of the script. A
release is a number, `sound` the ones that come up; the contents of `Pawgram.exe` and
`_internal` are a release, nothing, or `Torn`. `SaveExe`, `SaveInternal`, `CopyExe`,
`CopyInternal`, `Launch`, `Watch`, `Settle`, `Clean` are the `try` of the script and
`Stop`, `RestoreExe`, `RestoreInternal`, `Restart` its `catch`. `PowerCut` stops
everything in any step and leaves what that step writes half done. `good` is the last
release that proved itself, `left` what scripts that did not finish have left in their
backup folders, `mishaps` the kinds of failure the script or the program does not recover
from. `"failed"` is the error box of a release that does not come up; `Stop` may leave the
new process alive, which then keeps its files (`Survives`).

## 3. Abstractions that matter

- The lease is modelled in full in `SessionLease`. `InviteJob` has a holder and
  a line per session, `ActivityScan`, `Accounts` and `Heartbeat` a holder only. What
  `SessionLease` implements is what they use: `SessionMutex` stands between them, and each
  of them is proved to take and give back leases only as it allows (section 7).
- Telegram's answers are the classes the code distinguishes: success, refusal
  of one candidate, FloodWait, PeerFlood, no right to invite, failed proxy, time-out.
- `telegram_sessions.status` changes from outside (`SessionChanges`, `TestProxy`) in
  the modules of jobs and scans; who changes it and how is in `Accounts`.
- In `Updater`, download, signature and checks of the archive are one outcome of the
  check: a release is staged or it is not. The world is quiet while the script is at
  work: nobody publishes or starts the program by hand, and the user who is asked to
  install does not ask twice (two scripts at once are not modelled).
- In `Heartbeat` the licence is valid and the interval does not change, so that time is
  `none`, `later` or `passed`.
- The clocks of licence server and devices agree (the refusal of a clock that was
  set back, `licensing.py:126-136`, is not modelled), signatures are valid, and the
  two or three settings that one answer writes are written together: a crash in
  between leaves a program that is blocked or has no lease, which the next answer
  repairs.
- Names, groups, messages and candidate filters other than `member_history` are
  not modelled; neither are the forms and reports of the API.

## 4. Runs

| Run | Config / module | Instance | Shows |
|---|---|---|---|
| lease | `SessionLease.cfg` / `MCSessionLease` | 3 tasks (one `wait=False`), 2 sessions, 1 failed statement, 1 crash | a holder is visible, no stale row, no lost wakeup, refinement of `SessionMutex`, every wait ends |
| lease_nowait | `SessionLeaseNoWait.cfg` / `MCSessionLease` | 1 session, no failures | finding 1 |
| invite | `InviteJob.cfg` / `MCInviteJob` | 1 job with 2 candidates and 2 faults, or 2 jobs with 1 candidate each and 1 fault, over 2 sessions, and at most one other operation busy with a session; and the selector over every combination of 14 kinds of rows for 3 sessions, on a clock of a few ticks with a midnight in it | no candidate lost, decided or asked twice (refinement of `InvitePromise`), resting sessions unused, leases follow runs, quotas and batch limits hold across jobs, a run ends; resume times are exact, the rotation is fair |
| invite_flood | `InviteJobFlood.cfg` / `InviteJob` | 1 job, 2 faults | finding 2 |
| batches | `BatchRunner.cfg` / `MCBatchRunner` | one batch of each kind, 2 items, 3 interventions | completed means processed, only items cut off from their clean-up stay `checking`, stopped stays stopped, a task ends |
| batches_resume | `BatchRunnerResume.cfg` / `MCBatchRunner` | the same | finding 3 |
| jobs | `JobLifecycle.cfg` / `MCJobLifecycle` | 1 job, 2 users, 3 previews, 3 events | only those approved are asked, completed jobs are done, scheduled jobs run |
| jobs_preview | `JobLifecyclePreview.cfg` / `MCJobLifecycle` | the same, smaller | finding 4 |
| activity | `ActivityScan.cfg` / `MCActivityScan` | 2 scans (one recurring), 2 sessions, quota 1, 4 requests, 2 events | leases, registry, deletion, bounded overshoot of the quota, paused scans, queued scans run |
| licensing | `Licensing.cfg` / `MCLicensing` | 2 devices, 1 place, 2 requests of users, 2 orders, 1 failure, 2 ticks, lease of 2, both editions, a licence of 1 tick or unlimited | the device limit, the offline tolerance, the online edition is cut off and comes back |
| updater | `Updater.cfg` / `MCUpdater` | 3 releases (any of the later two broken), 2 processes, 2 faults | what worked is never lost, an update is whole or absent, the script ends, a program runs afterwards |
| accounts | `Heartbeat.cfg` / `MCHeartbeat` | 2 sessions, 2 accounts, 2 proxies, one proxy test, one operation, the heartbeat, 2 logins, 2 requests, 1 broken cycle | clients only over tested proxies unless the test was overtaken, one row per account, one message per interval and one more for each saving that wipes a session's time, everybody's turn comes |

The type invariant of every component is proved (section 7); the
runs check what is not about types.

Why the bounds are enough. The interesting cases are races of few actors. The
hand-off of a lock needs a holder, a waiter and a newcomer: three tasks. Two
sessions are what it takes to change session, to exclude one and to wait for
the other. Two candidates are enough for one to be deferred behind the other.
Jobs meet only at the sessions, the quotas and `member_history`; two jobs with a
candidate each show the first two, and `OtherJobAdds` is any number of jobs for
the third. Preview, approval and a second preview from another tab, followed by a
transfer, are three previews. Pause, resume, pause again and delete are the four
requests after which the registry of scans has seen every combination of an old
and a new task. Each failure the code handles is one event; the bounds allow a
second one while the first is being handled. The number of lease holders, waiters
and failures is unlimited in the proofs (section 7).

For the licence, two devices compete for one place; two requests are enough for one
device to be activated, reset and activated again while its loop asks, or for a
status page and a loop to cross; two ticks are the length of a lease, so that a
device may outlive its entitlement by one and not by two.

Quota and batch limit are 1 and 2 with NewDay as an event, so that a session is
used up by one invitation and rests after the second. Quota 1 for two scans is the
smallest instance in which both pass the check before either is counted.

Three releases allow an update over an update, and one over what a script that was cut
short has left behind; two process slots hold the old program and the new one, or two
instances of one. A power cut in the roll-back of a failed installation is two faults.
In `accounts` two rows are what it takes to mix up sessions, two proxies to change one
during a test, and two logins of one account to verify both at the same time. Two
requests let a proxy be changed twice in one test, or a restart follow a saving of the
settings. Rows and accounts are named in order, which loses only renamings.

Deadlock is checked in both lease runs; the other models stop when the jobs are
done and the bounded events are used up, so their configurations say
`CHECK_DEADLOCK FALSE`.

## 5. Fairness

- A coroutine that is ready runs: asyncio's loop is a FIFO queue. In `InviteJob`
  and `BatchRunner` a coroutine in the middle of a stretch disables all others for an
  instant (`Settled`), and a lease may be taken by others again and again, so what is
  assumed is strong fairness of each coroutine's steps: the FIFO loop and the FIFO
  line of the lock let each have its turn however often others come in between.
- Every call to Telegram ends: each is wrapped in `asyncio.wait_for` or bounded
  by Telethon's own time-outs. Hence the steps that answer it are fair; which
  answer comes is not.
- The scheduler loops poll every few seconds (`SchedulerStarts`), time passes
  (`ResumeTime`, `RunTime`), the working window opens again (`OpenWindow`), and the
  launcher starts the program again (`ClearStale`).
- `JobLifecycle` assumes in addition that a task closes its client sooner than the
  window opens again: `disconnect` takes seconds, windows are minutes.
- A thread of the licence server ends, a request of a device is answered or times out
  (`license_request_timeout`), and `license_refresh_loop` asks again and again. Failures
  are bounded, so the server answers in the end; `AccessReturns` is about that case only.
- In `Updater` the processes and the script run (`Program`, `Script`): they are separate
  processes of the operating system, and every wait in them has an end. Users do nothing
  on their own account.
- In `Heartbeat` the heartbeat's own steps are fair: each of its awaits has a time-out.
  Other operations may hold a session for ever, because the heartbeat skips a busy session,
  with one exception: by finding 1 it may stand in line for one. The line is first come,
  first served, so that its turn comes if the lease is given back again and again (strong
  fairness of `TakesTurn`), and of an operation in whose line the heartbeat stands it is
  assumed that it ends. Nothing bounds such an operation in the code: if it never ends, the
  cycle stands still, and `EveryoneBeats` does not hold without the assumption.
- Not fair: requests, cancellations, failures, crashes, proxy tests, licence
  changes, new days. No liveness property needs anybody to press a button.

## 6. Findings

1. `lease_nowait`: a `wait=False` caller that arrives between a `release()` and the
   turn of the waiter it woke finds `locked()` false, passes the busy check and then
   waits in line after all (`session_operation.py:67-70`), which the user interface
   says the heartbeat does not do (`static/index.html:231`).
2. `invite_flood`: a failing proxy test overwrites `flood_wait` by `proxy_error`, and
   the next good one makes the session `active` while Telegram's FloodWait still runs
   (`telegram_service.py:981,1008`); README.md:39-40 says it is never skipped.
3. `batches_resume`: a resume while the stopped task is still disconnecting keeps
   that task (`main.py:155,206`); the batch is `queued` for ever and further resumes
   are refused because it "is already working".
4. `jobs_preview`: a preview asked for before the approval writes after it
   (`telegram_service.py:1648`): an approved or running job is `previewed` again and
   its candidate rows are replaced.

More is modelled but not the subject of a run. prepare-transfer selects all
rows after its preview, so an approval of fewer in between is widened
(`SelectAll`, excluded by `crossed`). Executing a `proxy_error` job outside its
window is answered "scheduled" but changes nothing (`Execute`, `main.py:2373`).
The quota of scans may be exceeded by as many operations as scans wait together
(`OvershootBounded` is the bound that does hold). A refusal of the old lease that
arrives after a new activation wipes the new lease (`Refused`; `AccessReturns` asks
that the lease is kept), and of two extensions that read the licence at the same time
one is lost (`FinishExtend`). Extending a revoked licence makes it active again. As a
lease never outlives the licence, `local_license_status` never answers `expired`: it
answers `lease_expired` first.

In `BatchRunner`: when the process dies between the `stopped` of the stop handler and the
clean-up of the task, and no other batch of its kind is under way, the start repairs nothing,
and the item in hand stays `checking`; so it does when the disconnect of an interrupted task
raises. The resumed batch passes over it and is completed without a verdict for it.
`CheckingHasTask` and `CompletedMeansProcessed` leave out such items (`torn`), and nothing
else of their batches.

`NoUseWhileResting` leaves out jobs that waited in line for a lease (`stale`): what such a
job read of the session before may be outdated. `LimitsKept` speaks of the sessions and so
leaves out every run in which a job did. `HistoryHeeded` is
about the history as it stood when a preview wrote its rows; the executor does not read it
again. `PausedStays` allows a paused scan to become `error` when its disconnect fails.

In `Accounts`: `_client_for` reads the row again after the test of its proxy
(`telegram_service.py:857-862`) and makes a direct client if the proxy was deleted or
switched off in those seconds, whatever README.md:63-64 and QA_REPORT.md:70-71 say of the
main address. `TestedBeforeUse` leaves that case out (`"dropped"`); if the proxy was replaced
during the test, the client goes through the new one, untested. A test that ends after its
proxy was replaced or deleted writes its result to the row all the same. In `Heartbeat`: a cycle under way goes on after the heartbeat was
switched off; the row of an attempt that was cut off by a crash says `running` until the
next one; the interval is counted from the beginning of the cycle. Saving the settings
writes no time for a session that is not active (`heartbeat_service.py:67`), and without a
time it is due as soon as it is active again (160): a session that had its message before,
was limited when the settings were saved, and recovers, gets a second one within the
interval. `OneMessagePerInterval` allows one more message for each such saving (`wipes`)
and no other. A heartbeat in line behind an operation that never ends stands still (section 5).

In `Updater`: a release that fails its health check is rolled back and, as nothing
remembers the failure, staged again at the next start (`ServesAgain` is about releases
that come up). Cleaning the backup is inside the `try`: if it fails half-way, a proved
installation is rolled back to what is left of the old one (`"half cleaned"`). A retry of
the copy of `_internal` after half a copy nests the new folder in the half (`"torn copy"`).
The script gives up without a trace if the old program does not exit in 90 seconds
(`"gave up"`). The message box of a second instance keeps `_internal` in use, which makes
the move fail; the new program that `Stop-Process` could not end keeps it too, and then the
roll-back fails (`"no restore"`). `AllOrNothing` and `ServesAgain` name in their comments
the mishaps they leave out. After a power cut between the moves, no program starts any more: what
`Restorable` promises is that the last good files are still on the disk.

## 7. Proofs

`SessionLeaseProofs` proves for any sets of tasks and sessions and any bounds on
failures and crashes, from the assumptions of `SessionLease` only (the `wait=False`
callers are tasks, the null values are none, the bounds are naturals):

- `TypeCorrect`: `Spec => []TypeOK`
- `Exclusion`: at most one task holds a session
- `Visibility`: a holder owns the row and the lock is taken
- `NoLeak`: a taken lock has a holder
- `HandsOver`: a free lock with a line has a turn under way
- `Refinement`: `Spec => ImplementsMutex`, the lease implements `SessionMutex`
- `Order`: `Spec => FirstComeFirstServed`, nobody takes a lock past an older waiter
- `RowsAreHolders`: until a statement fails, a row is that of a holder (`NoStaleRow`)

The argument. Mutual exclusion is not inductive: a woken waiter takes the lock
without looking, so one must know who may be woken. `IInv` adds to the type
invariant: `LineSound` (exactly the queued tasks stand in line, each once, at its own
session, and exactly they await a future), `TurnSound` (only the head of a line is
woken, and only while the lock is free), `HolderSound` (a holder owns its row and its
lock is taken), `LockOwned` (a taken lock has a holder), `DownSound` (nothing runs
while the process is down) and `HandOff` (a free lock with a line has a turn under
way). There is one lemma per action (`AcquireNowStep`, `JoinLineStep`, `ResumeStep`,
...). What leaving a line does to the order of the others is `LeaveFrame`, which
rests on `WithoutLine`, a fact about sequences; what waking does is
`WakeFirstFuture`. For the refinement, the owner of a session is its holder
(`OwnerIsHolder`, by exclusion), so that every action is a grant, a give-back, a
restart or a stutter of `SessionMutex` (`StepRefines`). `NoStaleRow` is inductive given
`IInv`; only a grant and a release write rows (`RowsGranted`, `RowsGivenUp`).

`LicensingProofs` proves for any number of devices, administrators, places and ticks,
for finite sets of devices and durations that are positive or unlimited:

- `TypeCorrect`: `Spec => []TypeOK`
- `Limit`: never more active devices than `max_devices`
- `Tolerance`: a device that may work was entitled less than `lease_hours` ago

The tolerance is not inductive: the lease was issued by a `validate` that had read the
licence and the activation at two moments, and stored later. `IInv` follows the lease
backwards (`Backing`): stored leases and leases on their way were issued no later than
`lapse`, and while `validate` is between its reads an active activation means that
`lapse` is now. The last part survives an activation between the reads because
`activate` checks the licence in its own transaction (`EnterStep`), and a tick because
no handler sees one (`TickPreserves`). Every other action is a `BackedStep`: it stores
only what was on its way, issues only to an entitled device, and makes a device active
only when it is entitled; `BackingStep` shows that this is enough. `LimitedOnly` (only
a licence with an end is being extended) is needed for the type of `duration`.

`UpdaterProofs` proves for any number of releases, processes and faults, and any set of
sound releases:

- `TypeCorrect`: `Spec => []TypeOK`
- `NothingLost`: the last release that has proved itself is on the disk (`Restorable`)
- `Atomic`: an update is there as a whole or not at all, unless the power was cut, the
  roll-back failed, a copy was torn or the backup half deleted (`AllOrNothing`)

Whether the script overwrites the last good file depends on what that file is at that
step. `IInv` says what lies where at each step (`Layout`), that what has been moved away
was replaced by the new release or a rest of it (`Replaced`), that only a newer release is
installed (`Upgrade`), and, per file, that the good one is in place, in the backup, or left
behind (`Kept`); as long as nothing was cut short, which of them (`Whole`). The steps of the
processes touch no files (`QuietStep`), those of the script that only move on are one
lemma (`GoStep`), those that end it another (`LeavingStep`).

`InviteJobProofs` proves for any jobs, candidates and sessions, any quota and batch limit
and any number of faults:

- `TypeCorrect`: `Spec => []TypeOK`
- `Leaseholders`: a run holds the lease of the session it has open and no other (`LeaseKept`)
- `QueueAgrees`: the queue in memory is what the table calls eligible (`QueueMatchesTable`)
- `RestKept`: a resting session is not used (`NoUseWhileResting`)
- `LimitsHold`: jobs that share sessions keep the daily quota (`QuotaKept`, by itself
  `QuotaHolds`) and the batch limit (`BatchKept`) of each
- `PromiseRefined`: `Spec => KeepsPromise`, the executor implements `InvitePromise`
- `CompletedAreDone`: of a completed job everybody is decided (`CompletedIsDecided`)
- `VerdictsFinal`: no run changes what another has recorded (`DecidedForGood`)
- `Remembered`: whom Telegram has added is not asked again (`AddedIsRemembered`)
- `MutexRefined`: `Spec => Mutex!Spec`, the runs use the leases as `SessionMutex` allows
- `ResumeHolds`, `TurnsHold`: `ResumeIsExact` and `EveryoneGetsATurn` of the selector, for
  any finite set of ids, any limit and any rows

Jobs meet at the sessions only. The invariant is a predicate on one job (`Sound`: where a
session is selected, that the queue enumerates the eligible rows, that what was read of the
session when it was selected still holds of it) and one on leases and lines (`Leases`). An
action changes what its own job has, and does to a session either what is `Kind` to whoever
works with it (its count does not rise, it does not begin to rest) or what its leaseholder
does; `OthersSound` shows that the others lose nothing by either. For the selector the proof
needs of the row of the session it returns only that it does not rest, that its count is
below the quota and that nobody holds its lock (`Selected`); `RefreshedRow` says what is
written back. That the rows can be put in order at all is an argument by a least counterexample
(`Sortable`), because induction over the size of a set is not available.

The refinement of `InvitePromise` maps each step that records an answer to `Decide`. What it
needs is that the candidate the run is at is undecided in the table, which is
`QueueMatchesTable` for the head of the queue; that a job is completed only with an empty
queue and not claimed again afterwards, which `CompletedIsDecided` says; and that a death of
the process cuts off at most the one request each run has under way. The batch limit rests
on two counts, one in the memory of the run and one in the row of the session: they agree
while the run works with the session (`Counted`), because it holds the lease.

For the selector, the rows, the clock and the usage date are the machine of
`MCInviteSelection`, and all its proof needs of it is `ClockInv`: the rows have their types,
and the counts have been reset once midnight has passed. A row that is not out of the
question for good has obstacles, each an instant (the end of a wait, of a rest, midnight if
the quota is used up): it is usable when the last of them has passed, so the resume time is
the least of these (`ResumeExact`). The order by which rows are tried begins behind the
session returned last and wraps around (`FairTurns`): a set of usable sessions
that the rotation does not leave contains, with each, its successor among the usable, and
so all of them.

`BatchRunnerProofs` proves for any batches and any finite set of items:

- `TypeCorrect`: `Spec => []TypeOK`
- `CheckedByTask`: an item is `checking` only while a task is on it, unless a task was cut
  off from it (`CheckingHasTask`)
- `Processed`: a completed batch has a verdict for all other items, and its counter is the
  number of verdicts (`CompletedMeansProcessed`)
- `StaysStopped`: `Spec => StoppedStays`
- `ReadyForGood`: an item found `ready` is never done again (`ReadyStays`)
- `BoundedWork`: every step of a task brings it nearer to its end (`NearsItsEnd`)

Batches share nothing, so that the invariant is one predicate per batch (`Sound`) and every
step but crash and shutdown is `Local`. To the properties it adds where the task stands: an item
left in `checking` is the one the task is about to put back, a task at work for a
stopped batch has its cancellation before it. That `ready` is final needs nothing of this: a
task writes only to the item it has taken, and that one is `checking` while it works
(`AtWork`). How far a task is from its end (`Rank`) counts four steps for each queued item: the
item it takes is queued no more, and when it puts one back it does not turn to another.
Only a creation or a resumption raises the rank, so that between two of them a task of n items takes
at most 4n + 5 steps.

`JobLifecycleProofs` proves for any jobs and users:

- `TypeCorrect`: `Spec => []TypeOK`
- `Selection`, `Completion`, `Queued`, `History`: the four invariants of the run `jobs`
- `GoesOnward`: only a preview that writes late takes a job back (`OnlyOnward`)

`Sound` ties the status of the job to the task that works on it and to the rows: in a
status that can be executed the chosen rows are among those of the approval, what the
run has in memory covers what the table still calls chosen, a closing task has put the job
off or ended it. It says this of jobs no late preview has written to (`Steady`, until
`crossed`), and of all jobs that eligible rows are outside the history they were made from.
`OnlyOnward` is what is left of the rule finding 4 breaks. That no answer is written over
another needs two facts more (`Unasked`): a job that has not started has no answers, and a
run has before it only who is still eligible in the table.

`ActivityScanProofs` proves for any finite set of scans, any sessions and any quota:

- `TypeCorrect`: `Spec => []TypeOK`
- `Leases`, `RunningIsRun`, `Quietness`: `LeaseMatches`, `RunningHasTask`, `DeletedIsQuiet`
- `Overshoot`: the quota of a session is exceeded by less than the number of scans
- `StaysPaused`: `Spec => PausedStays`
- `Deletion`: results go only with their scan, which does not come back (`DeletedForGood`)
- `BoundedWork`: every step of a task brings it nearer to its end (`NearsItsEnd`)
- `MutexRefined`: scans use the leases as `SessionMutex` allows

`Sound` says of each status which task it allows: a running scan has one that was not
cancelled, a paused one at most one on its way out, a deleted one none. The bound on the
quota is inductive as it stands, usage plus pending operations being below quota plus
number of scans: an operation is counted only by a scan that pended, and a scan begins to
pend only below the quota. A task has two steps for each session it still may try (`ToGo`): a
failed access drops the session from its list.

`HeartbeatProofs` proves for any accounts, sessions, proxies, logins and operations of the
three kinds (kinds are disjoint, and there is one heartbeat):

- `TypeCorrect`: `Spec => []TypeOK`
- `Tested`: a client goes through the proxy that was tested for it if that stayed the
  session's proxy during the test, and through a proxy if it was not taken away in that
  time (`TestedBeforeUse`)
- `OneRow`: an account has one row (`OneRowPerAccount`)
- `OneMessage`: one message per interval, and one more for each saving of the settings that
  leaves the session without a time (`OneMessagePerInterval`)
- `LeaseCovers`: whoever works with a session holds its lease, and nobody else (`Covered`)
- `MutexRefined`: operations and heartbeat use the leases as `SessionMutex` allows

`Sane` follows the proxy from the test to the client through the three values of `overtaken`; `Configured` (a proxy
that is switched on is there) makes it a proxy at all. For the messages `sent` is a balance:
`Charged` says what it may be while a session is still in the cycle (`todo`), under way, or
between two attempts.

For the leases of runs, scans and operations, a step that takes one takes a free one for
somebody who has none, and the end of a task gives back the one it has: that a task has no
second one is the invariant of each module (`LeaseKept`, `LeaseMatches`, `Covered`).

Some properties are proved and not part of a run: `AddedIsRemembered`, `DecidedForGood` and `CompletedIsDecided` follow from
`InvitePromise` or go into its refinement, `QuotaKept` and `BatchKept` are the parts of
`LimitsKept`; `ReadyStays`, `OnlyOnward` and `DeletedForGood` say what no step may undo.
`NearsItsEnd` is the part of `TaskEnds` that is not liveness (and of `QueuedRuns`, where the last
task of a scan has to end first): what it leaves to TLC is that a task that has a step to
take takes it, which rests on the fairness of section 5. TLC finds no violation of any of them on the instances of section 4 either.

Only model-checked: all liveness properties (`EveryWaitEnds`, `RunEnds`, `TaskEnds`, `ScheduledRuns`, `QueuedRuns`, `CutOff`,
`AccessReturns`, `ScriptEnds`, `ServesAgain`, `EveryoneBeats`): fairness and ENABLED are out
of the prover's reach.

## 8. Not modelled

Left out of the modelled components: two installer scripts at once and a user who starts
the program during an installation (`Updater`), the quota and rotation settings and the
candidate filters other than `member_history` (`JobLifecycle`), a device clock that is set
back (`Licensing`), the detection of a proxy's type and the default login proxy
(`Accounts`), the arithmetic of `next_working_time`. The rate limiter, and the panel login
of the licence server, are planned (section 9). Not planned: the database schema and configuration (statements and
constants; the transactions are what makes a step atomic), the panel login, encryption
and request schemas (sequential library calls), release history and licence key
parsing (no state), the browser code (it renders answers; its requests are the
handlers, in any order), packaging and release scripts.

## 9. Plan

Done, in this order, the most shared first: lease, selector and executor, batches,
job lifecycle, activity scans, licensing, updater, accounts and heartbeat; the proofs about
the state machines of all of them, of the selector, and of the refinements that connect them.

Next:

1. `Updater`: two scripts at once (a release published while one is at work,
   `updater.py:279`), each with its own backup.
2. `Scheduling` and `RateLimit` as pure operators against reference definitions.
3. A `SessionStatus` module with every writer of `telegram_sessions.status`, which the
   modules of jobs, batches, scans and accounts refine.
4. One specification of the life of a job that `InviteJob` and `JobLifecycle` both refine.
