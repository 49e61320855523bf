----------------------------- MODULE AccountRuns -----------------------------
(***************************************************************************)
(* The job runs of one Douyin account: who may send on its behalf, how a   *)
(* run is recorded in the job_runs table, and when the 30 second scheduler *)
(* starts another one.                                                     *)
(*                                                                         *)
(*   app/scheduler.py   the scan loop, the scheduled run, restart cleanup  *)
(*   app/jobs.py        user-started runs: dedup check, row, runner thread *)
(*   app/trigger.py     auto_run / send_batch under the account lock       *)
(*   app/ai_worker.py   the AI reply, which only shares the lock           *)
(*   app/routers/api.py the single send (no lock) and the schedule form    *)
(*                                                                         *)
(* A thread of the program is a member of Threads; an action is one piece  *)
(* of code between two points where another thread can be seen: a commit,  *)
(* a query, the lock, one call to Douyin.  Every SELECT sees the latest    *)
(* commit.  Time is counted in ticks, DayLen ticks to the local day.       *)
(***************************************************************************)
EXTENDS Integers, FiniteSets

CONSTANTS
  Threads,        \* threads that can be alive at once (bounds the model)
  Runs,           \* ids of job_runs rows (bounds the number of runs)
  Contacts,       \* the contacts of the account
  NoThread, NoRun,
  Stale,          \* RUNNING_STALE_MINUTES (15), in ticks
  Backoff,        \* RETRY_BACKOFF_MINUTES (5), in ticks
  MaxRetries,     \* MAX_DAILY_RETRIES (3)
  Breaker,        \* consecutive failures that break the circuit (5)
  DayLen,         \* ticks in a day
  Times,          \* values of schedules.time_hhmm, as ticks of the day
  MaxTime,        \* the clock stops here (bounds the model)
  Requests,       \* what users and chats ask for (bounds the model)
  Faults          \* what may go wrong: "crash", "raise", "expiry", "commit"
                  \* (bounds the model)

ASSUME NullAssumption == NoThread \notin Threads /\ NoRun \notin Runs
ASSUME WindowAssumption == Stale \in Nat /\ Backoff \in Nat
ASSUME LimitAssumption == MaxRetries \in Nat /\ Breaker \in Nat \ {0}
ASSUME TimeAssumption == /\ DayLen \in Nat \ {0}
                         /\ Times \subseteq 0 .. DayLen - 1
                         /\ MaxTime \in Nat
ASSUME WorkloadAssumption ==
  /\ Requests \subseteq {"user_auto", "user_batch", "single", "ai", "form"}
  /\ Faults \subseteq {"crash", "raise", "expiry", "commit"}

VARIABLES
  runs,        \* the job_runs rows
  threads,     \* the program's threads and their local variables
  lock,        \* trigger._account_locks[account]: its holder
  schedule,    \* the schedules row
  account,     \* douyin_accounts.status
  mailed,      \* days with a retry_exhausted notification
  scan,        \* the local variables of scheduler._loop
  now,         \* the clock
  up, startup, \* is the process alive, and scheduler._STARTUP_AT
  \* what really happened, by run; the program does not see these
  delivered,   \* contacts that got a message
  acked,       \* contacts for whom Douyin answered OK
  unwritten    \* contacts whose item could not be committed

ghosts == <<delivered, acked, unwritten>>
vars == <<runs, threads, lock, schedule, account, mailed, scan, now, up,
          startup, ghosts>>

\* A thread's job: who started it and what it runs.
AutoJobs == {"sched_auto", "user_auto"}
UserJobs == {"user_auto", "user_batch"}
LockJobs == AutoJobs \cup {"user_batch"}
RowJobs  == LockJobs \cup {"single"}

\* The points of the code where the holder of the account lock can be.
Critical == {"create", "setup", "prepare", "send", "record", "release"}

\* The counters sent and failed are the sets of those they have counted.
Idle == [pc |-> "idle", job |-> "none", run |-> NoRun, todo |-> {},
         ok |-> {}, bad |-> {}, sent |-> {}, failed |-> {}, streak |-> 0,
         exc |-> "none"]

\* told and missed are the run's items, by their column ok.
Absent == [job |-> "none", status |-> "absent", start |-> 0, end |-> 0,
           told |-> {}, missed |-> {}, sent |-> {}, failed |-> {},
           cause |-> "none"]

NoDay == -1
Day(t) == t \div DayLen

NewRow(job) == [Absent EXCEPT !.job = job, !.status = "running", !.start = now]

\* Thread t takes its next local state; row r its next values.
Becomes(t, next) == threads' = [threads EXCEPT ![t] = next]
WithRow(r, row) == [runs EXCEPT ![r] = row]

Goto(t, pc) == Becomes(t, [threads[t] EXCEPT !.pc = pc])
Raise(t, pc, exc) == Becomes(t, [threads[t] EXCEPT !.pc = pc, !.exc = exc])

\* A thread that is started with its job; the others stay as they are.
Spawned(t, job, pc) ==
  /\ up
  /\ threads[t].pc = "idle"
  /\ Becomes(t, [Idle EXCEPT !.job = job, !.pc = pc])

\* Bound: a thread is only started while there is a row left for its run.
NeedsRow(t) ==
  \/ threads[t].pc = "insert"
  \/ threads[t].job = "sched_auto" /\ threads[t].pc \in {"trylock", "create"}
HasRoom ==
  Cardinality({r \in Runs : runs[r].status = "absent"})
    > Cardinality({t \in Threads : NeedsRow(t)})

------------------------------------------------------------------------------
(* The scheduler's scan of the account: scheduler._loop. *)

\* The query, and the checks 1 and 2 that only look at the rows it returned.
Due == /\ schedule.enabled
       /\ schedule.time <= now % DayLen
       /\ account = "active"
AlreadyRanToday == schedule.lastRan = Day(now)
MissedBeforeStartup == Day(now) * DayLen + schedule.time <= startup

SchedulerScan ==
  /\ up /\ scan.pc = "wait"
  /\ Due /\ ~AlreadyRanToday /\ ~MissedBeforeStartup
  /\ scan' = [pc |-> "running", at |-> now, failed |-> FALSE]
  /\ UNCHANGED <<runs, threads, lock, schedule, account, mailed, now, up,
                 startup, ghosts>>

ScanGoesTo(pc) == scan' = [scan EXCEPT !.pc = pc]

\* Check 3: an auto run is still running and not stale.
FreshAutoRun(at) ==
  \E r \in Runs : /\ runs[r].job \in AutoJobs
                  /\ runs[r].status = "running"
                  /\ runs[r].start + Stale >= at

SchedulerSeesRunning ==
  /\ scan.pc = "running"
  /\ ScanGoesTo(IF FreshAutoRun(scan.at) THEN "wait" ELSE "errors")
  /\ UNCHANGED <<runs, threads, lock, schedule, account, mailed, now, up,
                 startup, ghosts>>

\* Check 4: today's failed auto runs have reached the daily limit.
ErrorsSince(day) ==
  {r \in Runs : /\ runs[r].job \in AutoJobs
                /\ runs[r].status = "error"
                /\ Day(runs[r].start) >= day}

SchedulerCountsErrors ==
  /\ scan.pc = "errors"
  /\ LET errors == ErrorsSince(Day(scan.at))
     IN scan' = [scan EXCEPT
                   !.pc = IF Cardinality(errors) >= MaxRetries
                            THEN "wait" ELSE "backoff",
                   !.failed = errors # {}]
  /\ UNCHANGED <<runs, threads, lock, schedule, account, mailed, now, up,
                 startup, ghosts>>

\* Check 5: wait after a recent failure.
RecentError ==
  \E r \in Runs : /\ runs[r].job \in AutoJobs
                  /\ runs[r].status = "error"
                  /\ runs[r].start + Backoff >= now

SchedulerBacksOff ==
  /\ scan.pc = "backoff"
  /\ scan.failed /\ RecentError
  /\ ScanGoesTo("wait")
  /\ UNCHANGED <<runs, threads, lock, schedule, account, mailed, now, up,
                 startup, ghosts>>

\* Otherwise a _run_one thread is started; it has reserved nothing yet.
SchedulerTriggers(t) ==
  /\ scan.pc = "backoff"
  /\ ~(scan.failed /\ RecentError)
  /\ HasRoom
  /\ ScanGoesTo("wait")
  /\ Spawned(t, "sched_auto", "trylock")
  /\ UNCHANGED <<runs, lock, schedule, account, mailed, now, up, startup,
                 ghosts>>

------------------------------------------------------------------------------
(* The user's runs: jobs.start_auto_run and jobs.start_batch_send. *)

\* _find_active_run: a run of these jobs that is running and not stale.
FindActiveRun(jobs) ==
  \E r \in Runs : /\ runs[r].job \in jobs
                  /\ runs[r].status = "running"
                  /\ runs[r].start + Stale >= now

\* The dedup query found nothing; the row is inserted in a later step.
StartAutoRun(t) ==
  /\ "user_auto" \in Requests
  /\ ~FindActiveRun(AutoJobs)
  /\ HasRoom
  /\ Spawned(t, "user_auto", "insert")
  /\ UNCHANGED <<runs, lock, schedule, account, mailed, scan, now, up,
                 startup, ghosts>>

StartBatchSend(t) ==
  /\ "user_batch" \in Requests
  /\ ~FindActiveRun(LockJobs)
  /\ HasRoom
  /\ Spawned(t, "user_batch", "insert")
  /\ UNCHANGED <<runs, lock, schedule, account, mailed, scan, now, up,
                 startup, ghosts>>

\* The row is committed and the runner thread (or api_send) goes on with it.
OpenRow(t, r, pc) ==
  /\ runs[r].status = "absent"
  /\ runs' = WithRow(r, NewRow(threads[t].job))
  /\ Becomes(t, [threads[t] EXCEPT !.pc = pc, !.run = r])

InsertRun(t, r) ==
  /\ threads[t].pc = "insert"
  /\ OpenRow(t, r, IF threads[t].job = "single" THEN "call" ELSE "trylock")
  /\ UNCHANGED <<lock, schedule, account, mailed, scan, now, up, startup,
                 ghosts>>

------------------------------------------------------------------------------
(* Under the account lock: trigger.auto_run and trigger.send_batch. *)

\* (mutant) The acquire does not look whether the lock is taken.
AcquireLockBlindly(t) ==
  /\ threads[t].pc = "trylock"
  /\ lock' = t
  /\ Goto(t, IF threads[t].job = "sched_auto" THEN "create" ELSE "setup")
  /\ UNCHANGED <<runs, schedule, account, mailed, scan, now, up, startup,
                 ghosts>>

\* The acquire never blocks.  The scheduler's run opens its row under the lock.
AcquireLock(t) ==
  /\ threads[t].pc = "trylock"
  /\ lock = NoThread
  /\ lock' = t
  /\ Goto(t, IF threads[t].job = "sched_auto" THEN "create" ELSE "setup")
  /\ UNCHANGED <<runs, schedule, account, mailed, scan, now, up, startup,
                 ghosts>>

\* AlreadyRunning for a run, "locked" for an AI reply.
LockBusy(t) ==
  /\ threads[t].pc = "trylock"
  /\ lock # NoThread
  /\ Raise(t, "after", "locked")
  /\ UNCHANGED <<runs, lock, schedule, account, mailed, scan, now, up,
                 startup, ghosts>>

CreateRun(t, r) ==
  /\ threads[t].pc = "create"
  /\ OpenRow(t, r, "setup")
  /\ UNCHANGED <<lock, schedule, account, mailed, scan, now, up, startup,
                 ghosts>>

\* _ensure_active succeeded.  A batch knows whom to send to already.
EnsureActive(t, chosen) ==
  /\ threads[t].pc = "setup"
  /\ threads[t].job \in LockJobs
  /\ Becomes(t, IF threads[t].job = "user_batch"
                   THEN [threads[t] EXCEPT !.pc = "send", !.todo = chosen]
                   ELSE [threads[t] EXCEPT !.pc = "prepare"])
  /\ threads[t].job = "user_batch" => chosen # {}
  /\ UNCHANGED <<runs, lock, schedule, account, mailed, scan, now, up,
                 startup, ghosts>>

CloseAs(r, status, cause) ==
  WithRow(r, [runs[r] EXCEPT !.status = status, !.cause = cause, !.end = now])

\* It raised NotReady or anything else: auto_run closes the row itself and
\* re-raises, send_batch only lets the exception out.
EnsureActiveFails(t, exc) ==
  /\ threads[t].pc = "setup"
  /\ threads[t].job \in LockJobs
  /\ runs' = IF threads[t].job \in AutoJobs
               THEN CloseAs(threads[t].run, "error", "setup")
               ELSE runs
  /\ Raise(t, "release", exc)
  /\ UNCHANGED <<lock, schedule, account, mailed, scan, now, up, startup,
                 ghosts>>

\* Templates, switches, send interval: whom this run is for.
Prepare(t, chosen) ==
  /\ threads[t].pc = "prepare"
  /\ Becomes(t, [threads[t] EXCEPT !.pc = "send", !.todo = chosen])
  /\ UNCHANGED <<runs, lock, schedule, account, mailed, scan, now, up,
                 startup, ghosts>>

\* Code after the setup raised, outside every try: templates, switches, the
\* choice of a message; for a batch only the last commit.
RunRaises(t) ==
  /\ "raise" \in Faults
  /\ \/ threads[t].pc = "prepare"
     \/ /\ threads[t].pc = "send"
        /\ threads[t].job \in AutoJobs \/ threads[t].todo = {}
  /\ Raise(t, "release", "other")
  /\ UNCHANGED <<runs, lock, schedule, account, mailed, scan, now, up,
                 startup, ghosts>>

\* No template text for this contact: auto_run goes on to the next one.
SkipContact(t, c) ==
  /\ threads[t].pc = "send"
  /\ threads[t].job \in AutoJobs
  /\ c \in threads[t].todo
  /\ Becomes(t, [threads[t] EXCEPT !.todo = @ \ {c}])
  /\ UNCHANGED <<runs, lock, schedule, account, mailed, scan, now, up,
                 startup, ghosts>>

\* Douyin answered OK, which is taken as it is: an OK that Douyin drops
\* silently afterwards cannot be told from this one.
SendOk(t, c) ==
  /\ threads[t].pc = "send"
  /\ c \in threads[t].todo
  /\ Becomes(t, [threads[t] EXCEPT !.pc = "record", !.todo = @ \ {c},
                                   !.ok = {c}, !.sent = @ \cup {c},
                                   !.streak = 0])
  /\ delivered' = [delivered EXCEPT ![threads[t].run] = @ \cup {c}]
  /\ acked' = [acked EXCEPT ![threads[t].run] = @ \cup {c}]
  /\ UNCHANGED <<runs, lock, schedule, account, mailed, scan, now, up, startup,
                 unwritten>>

\* A failure or an exception; the answer may be what was lost.
SendFails(t, c, reached) ==
  /\ threads[t].pc = "send"
  /\ c \in threads[t].todo
  /\ Becomes(t, [threads[t] EXCEPT !.pc = "record", !.todo = @ \ {c},
                                   !.bad = {c}, !.failed = @ \cup {c},
                                   !.streak = @ + 1])
  /\ delivered' = [delivered EXCEPT ![threads[t].run] = @ \cup reached]
  /\ UNCHANGED <<runs, lock, schedule, account, mailed, scan, now, up, startup,
                 acked, unwritten>>

BreakerTrips(t) ==
  threads[t].job \in AutoJobs /\ threads[t].streak >= Breaker

\* (mutant) Only failures get an item.
FailuresRecorded(t, item, cause) ==
  [runs[threads[t].run] EXCEPT
     !.missed = IF item THEN @ \cup threads[t].bad ELSE @,
     !.cause  = IF BreakerTrips(t) /\ cause THEN "circuit" ELSE @]

\* The JobRunItem and the breaker's cause are commits of their own: either may
\* fail, which is printed and forgotten.
Commits == IF "commit" \in Faults THEN BOOLEAN ELSE {TRUE}
Recorded(t, item, cause) ==
  [runs[threads[t].run] EXCEPT
     !.told   = IF item THEN @ \cup threads[t].ok ELSE @,
     !.missed = IF item THEN @ \cup threads[t].bad ELSE @,
     !.cause  = IF BreakerTrips(t) /\ cause THEN "circuit" ELSE @]

\* The JobRunItem, then the circuit breaker of auto_run.
RecordItem(t, item, cause) ==
  /\ threads[t].pc = "record"
  /\ runs' = WithRow(threads[t].run, Recorded(t, item, cause))
  /\ unwritten' = IF item THEN unwritten
                  ELSE [unwritten EXCEPT
                          ![threads[t].run] = @ \cup threads[t].ok \cup threads[t].bad]
  /\ Becomes(t, [threads[t] EXCEPT
                   !.pc = "send", !.ok = {}, !.bad = {},
                   !.todo = IF BreakerTrips(t) THEN {} ELSE @])
  /\ UNCHANGED <<lock, schedule, account, mailed, scan, now, up, startup,
                 delivered, acked>>

\* (mutant) Any failure makes the run an error.
AnyFailureIsError(t) ==
  IF threads[t].job \in AutoJobs /\ threads[t].failed # {} THEN "error" ELSE "done"

\* final_status: an auto run that reached nobody and failed somebody is an error.
FinalStatus(t) ==
  IF threads[t].job \in AutoJobs /\ threads[t].sent = {} /\ threads[t].failed # {}
    THEN "error" ELSE "done"
FinalCause(t) ==
  LET row == runs[threads[t].run]
  IN IF FinalStatus(t) = "error" /\ row.cause = "none"
       THEN "all_failed" ELSE row.cause

\* (mutant) The summary is counted from the items.
SummaryOfItems(t) ==
  LET row == runs[threads[t].run]
  IN [row EXCEPT !.status = FinalStatus(t), !.cause = FinalCause(t), !.end = now,
                 !.sent = row.told, !.failed = row.missed]

\* The columns of a run that ended, from the thread's own counters.
Summary(t) ==
  [runs[threads[t].run] EXCEPT
     !.status = FinalStatus(t), !.cause = FinalCause(t), !.end = now,
     !.sent = threads[t].sent, !.failed = threads[t].failed]

\* (mutant) The day is marked however the run ended.
MarkRanAnyway(t) ==
  IF threads[t].job \in AutoJobs
    THEN [schedule EXCEPT !.lastRan = Day(now)] ELSE schedule

\* last_ran_date: the day the run ended, and only when it ended well.
MarkRan(t) ==
  IF threads[t].job \in AutoJobs /\ FinalStatus(t) = "done"
    THEN [schedule EXCEPT !.lastRan = Day(now)] ELSE schedule

\* The session does not autoflush: the query does not count this run yet.
RetriesExhausted(t) ==
  /\ FinalStatus(t) = "error"
  /\ Cardinality(ErrorsSince(Day(now))) >= MaxRetries

\* The one commit at the end of _auto_run_locked and _send_batch_locked.
FinishRun(t) ==
  /\ threads[t].pc = "send"
  /\ threads[t].todo = {}
  /\ runs' = WithRow(threads[t].run, Summary(t))
  /\ schedule' = MarkRan(t)
  /\ mailed' = IF RetriesExhausted(t) THEN mailed \cup {Day(now)} ELSE mailed
  /\ Goto(t, "release")
  /\ UNCHANGED <<lock, account, scan, now, up, startup, ghosts>>

\* (mutant) The release is not in a finally block.
ReleaseLockOnSuccess(t) ==
  /\ threads[t].pc = "release"
  /\ lock' = IF threads[t].exc = "none" THEN NoThread ELSE lock
  /\ Goto(t, "after")
  /\ UNCHANGED <<runs, schedule, account, mailed, scan, now, up, startup,
                 ghosts>>

\* The finally block of auto_run and send_batch, the end of account_lock.
ReleaseLock(t) ==
  /\ threads[t].pc = "release"
  /\ lock' = NoThread
  /\ Goto(t, "after")
  /\ UNCHANGED <<runs, schedule, account, mailed, scan, now, up, startup,
                 ghosts>>

------------------------------------------------------------------------------
(* After the lock: what the thread's caller does with the outcome. *)

\* (mutant) The UPDATE does not look at the status.
CloseRunAlways(r, status, cause) == CloseAs(r, status, cause)

\* jobs._close_run: a conditional UPDATE that leaves a closed row alone.
CloseRun(r, status, cause) ==
  IF runs[r].status = "running" THEN CloseAs(r, status, cause) ELSE runs

\* (mutant) The exception's name is stored as it is.
RawCause(exc) == exc

RunnerCause(exc) == IF exc = "locked" THEN "locked" ELSE "raised"

\* (mutant) The runner forgets the run when the job raised.
ClosedOnSuccess(t) ==
  IF threads[t].exc = "none" THEN CloseRun(threads[t].run, "done", "none")
                             ELSE runs

\* _ensure_finished, or _finish_with_error when the job raised.
ClosedByRunner(t) ==
  IF threads[t].exc = "none"
    THEN CloseRun(threads[t].run, "done", "none")
    ELSE CloseRun(threads[t].run, "error", RunnerCause(threads[t].exc))

\* jobs._spawn's runner.
RunnerCloses(t) ==
  /\ threads[t].pc = "after"
  /\ threads[t].job \in UserJobs
  /\ runs' = ClosedByRunner(t)
  /\ Becomes(t, Idle)
  /\ UNCHANGED <<lock, schedule, account, mailed, scan, now, up, startup,
                 ghosts>>

\* scheduler._run_one: NotReady expires the account, the rest is printed.
RunOneReturns(t) ==
  /\ threads[t].pc = "after"
  /\ threads[t].job = "sched_auto"
  /\ account' = IF threads[t].exc = "notready" /\ account = "active"
                  THEN "cookies_expired" ELSE account
  /\ Becomes(t, Idle)
  /\ UNCHANGED <<runs, lock, schedule, mailed, scan, now, up, startup,
                 ghosts>>

------------------------------------------------------------------------------
(* The AI reply (one worker): takes the lock, keeps no row in job_runs. *)

AiWantsToSend(t) ==
  /\ "ai" \in Requests
  /\ \A u \in Threads : threads[u].job # "ai"
  /\ Spawned(t, "ai", "trylock")
  /\ UNCHANGED <<runs, lock, schedule, account, mailed, scan, now, up,
                 startup, ghosts>>

AiSendToUid(t) ==
  /\ threads[t].pc = "setup"
  /\ threads[t].job = "ai"
  /\ Goto(t, "release")
  /\ UNCHANGED <<runs, lock, schedule, account, mailed, scan, now, up,
                 startup, ghosts>>

AiReturns(t) ==
  /\ threads[t].pc = "after"
  /\ threads[t].job = "ai"
  /\ Becomes(t, Idle)
  /\ UNCHANGED <<runs, lock, schedule, account, mailed, scan, now, up,
                 startup, ghosts>>

------------------------------------------------------------------------------
(* The single send of the chat page: api_send, without the account lock. *)

ApiSend(t) ==
  /\ "single" \in Requests
  /\ HasRoom
  /\ Spawned(t, "single", "insert")
  /\ UNCHANGED <<runs, lock, schedule, account, mailed, scan, now, up,
                 startup, ghosts>>

\* send_single answered; when it says no, the message may be there all the same.
ApiSendCalls(t, c, ok, reached) ==
  /\ threads[t].pc = "call"
  /\ ok => reached = {c}
  /\ Becomes(t, [threads[t] EXCEPT !.pc = "commit",
                                   !.ok  = IF ok THEN {c} ELSE {},
                                   !.bad = IF ok THEN {} ELSE {c}])
  /\ delivered' = [delivered EXCEPT ![threads[t].run] = @ \cup reached]
  /\ acked' = [acked EXCEPT ![threads[t].run] = @ \cup (IF ok THEN {c} ELSE {})]
  /\ UNCHANGED <<runs, lock, schedule, account, mailed, scan, now, up, startup,
                 unwritten>>

\* send_single raised: the handler answers, the row stays running.
ApiSendRaises(t, reached) ==
  /\ threads[t].pc = "call"
  /\ Becomes(t, Idle)
  /\ delivered' = [delivered EXCEPT ![threads[t].run] = @ \cup reached]
  /\ UNCHANGED <<runs, lock, schedule, account, mailed, scan, now, up, startup,
                 acked, unwritten>>

ApiSendCloses(t) ==
  LET r == threads[t].run
  IN /\ threads[t].pc = "commit"
     /\ runs' = WithRow(r, [runs[r] EXCEPT !.status = "done", !.end = now,
                                           !.told = threads[t].ok,
                                           !.missed = threads[t].bad,
                                           !.sent = threads[t].ok,
                                           !.failed = threads[t].bad])
     /\ Becomes(t, Idle)
     /\ UNCHANGED <<lock, schedule, account, mailed, scan, now, up, startup,
                    ghosts>>

------------------------------------------------------------------------------
(* The user's form, the account's status, the clock, the process. *)

\* api_set_schedule: a new time clears last_ran_date.
SetSchedule(enabled, time) ==
  /\ up /\ "form" \in Requests
  /\ schedule' = [enabled |-> enabled, time |-> time,
                  lastRan |-> IF time = schedule.time
                                THEN schedule.lastRan ELSE NoDay]
  /\ UNCHANGED <<runs, threads, lock, account, mailed, scan, now, up,
                 startup, ghosts>>

\* The login flow ended well.
Relogin ==
  /\ up /\ account # "active"
  /\ account' = "active"
  /\ UNCHANGED <<runs, threads, lock, schedule, mailed, scan, now, up,
                 startup, ghosts>>

\* The cookies were refused: the status is overwritten, whatever it is by then.
CookiesHealthCheck ==
  /\ up /\ "expiry" \in Faults
  /\ account' = "cookies_expired"
  /\ UNCHANGED <<runs, threads, lock, schedule, mailed, scan, now, up,
                 startup, ghosts>>

Tick ==
  /\ now < MaxTime
  /\ now' = now + 1
  /\ UNCHANGED <<runs, threads, lock, schedule, account, mailed, scan, up,
                 startup, ghosts>>

\* The process dies: threads and locks are gone, the tables stay.
Crash ==
  /\ "crash" \in Faults
  /\ up
  /\ up' = FALSE
  /\ threads' = [t \in Threads |-> Idle]
  /\ lock' = NoThread
  /\ scan' = [pc |-> "wait", at |-> 0, failed |-> FALSE]
  /\ UNCHANGED <<runs, schedule, account, mailed, now, startup, ghosts>>

\* (mutant) Only runs that are stale by the clock are cleaned up.
CleanupOldRuns ==
  [r \in Runs |->
     IF runs[r].status = "running" /\ runs[r].start + Stale < now
       THEN [runs[r] EXCEPT !.status = "error", !.cause = "restart", !.end = now]
       ELSE runs[r]]

\* scheduler._cleanup_stale_runs.
CleanupStaleRuns ==
  [r \in Runs |->
     IF runs[r].status = "running"
       THEN [runs[r] EXCEPT !.status = "error", !.cause = "restart", !.end = now]
       ELSE runs[r]]

\* scheduler.start.
Restart ==
  /\ ~up
  /\ up' = TRUE
  /\ startup' = now
  /\ runs' = CleanupStaleRuns
  /\ UNCHANGED <<threads, lock, schedule, account, mailed, scan, now, ghosts>>

------------------------------------------------------------------------------
Init ==
  /\ runs = [r \in Runs |-> Absent]
  /\ threads = [t \in Threads |-> Idle]
  /\ lock = NoThread
  /\ \E time \in Times :
       schedule = [enabled |-> TRUE, time |-> time, lastRan |-> NoDay]
  /\ account = "active"
  /\ mailed = {}
  /\ scan = [pc |-> "wait", at |-> 0, failed |-> FALSE]
  /\ now = 0
  /\ up = TRUE
  /\ startup = 0
  /\ delivered = [r \in Runs |-> {}]
  /\ acked = [r \in Runs |-> {}]
  /\ unwritten = [r \in Runs |-> {}]

\* The scheduler thread.
SchedulerStep ==
  \/ SchedulerScan
  \/ SchedulerSeesRunning
  \/ SchedulerCountsErrors
  \/ SchedulerBacksOff
  \/ \E t \in Threads : SchedulerTriggers(t)

\* A run, from its row to the lock and back.
RunStep(t) ==
  \/ \E r \in Runs : InsertRun(t, r) \/ CreateRun(t, r)
  \/ AcquireLock(t)
  \/ LockBusy(t)
  \/ \E chosen \in SUBSET Contacts : EnsureActive(t, chosen) \/ Prepare(t, chosen)
  \/ \E exc \in {"notready", "other"} : EnsureActiveFails(t, exc)
  \/ RunRaises(t)
  \/ \E c \in Contacts : SkipContact(t, c) \/ SendOk(t, c)
  \/ \E c \in Contacts : \E reached \in SUBSET {c} : SendFails(t, c, reached)
  \/ \E item, cause \in Commits : RecordItem(t, item, cause)
  \/ FinishRun(t)
  \/ ReleaseLock(t)
  \/ RunnerCloses(t)
  \/ RunOneReturns(t)

AiStep(t) == AiSendToUid(t) \/ AiReturns(t)

SingleStep(t) ==
  \/ \E c \in Contacts, ok \in BOOLEAN : \E reached \in SUBSET {c} :
       ApiSendCalls(t, c, ok, reached)
  \/ \E c \in Contacts : \E reached \in SUBSET {c} : ApiSendRaises(t, reached)
  \/ ApiSendCloses(t)

\* What a running thread does next.
ThreadStep(t) == RunStep(t) \/ AiStep(t) \/ SingleStep(t)

\* What users and chats ask for.
Request(t) ==
  \/ StartAutoRun(t)
  \/ StartBatchSend(t)
  \/ ApiSend(t)
  \/ AiWantsToSend(t)

Environment ==
  \/ \E enabled \in BOOLEAN, time \in Times : SetSchedule(enabled, time)
  \/ Relogin
  \/ CookiesHealthCheck
  \/ Tick
  \/ Crash

Next ==
  \/ SchedulerStep
  \/ \E t \in Threads : ThreadStep(t) \/ Request(t)
  \/ Environment
  \/ Restart

Spec == Init /\ [][Next]_vars

\* The threads of a live process go on, and a dead process is started again.
\* No user, chat or crash is ever obliged to happen.
Fairness == /\ \A t \in Threads : WF_vars(ThreadStep(t))
            /\ WF_vars(Restart)
FairSpec == Spec /\ Fairness

------------------------------------------------------------------------------
(* Properties. *)

Row ==
  [job : RowJobs \cup {"none"},
   status : {"absent", "running", "done", "error"},
   start : Nat, end : Nat,
   told : SUBSET Contacts, missed : SUBSET Contacts,
   sent : SUBSET Contacts, failed : SUBSET Contacts,
   cause : {"none", "setup", "locked", "raised", "all_failed", "circuit",
            "restart"}]

Thread ==
  [pc : {"idle", "insert", "trylock", "after", "call", "commit"} \cup Critical,
   job : RowJobs \cup {"none", "ai"},
   run : Runs \cup {NoRun},
   todo : SUBSET Contacts, ok : SUBSET Contacts, bad : SUBSET Contacts,
   sent : SUBSET Contacts, failed : SUBSET Contacts,
   streak : Nat,
   exc : {"none", "locked", "notready", "other"}]

\* Type invariant: the columns and local variables keep their domains.
TypeOK ==
  /\ runs \in [Runs -> Row]
  /\ threads \in [Threads -> Thread]
  /\ lock \in Threads \cup {NoThread}
  /\ schedule \in [enabled : BOOLEAN, time : Times, lastRan : Nat \cup {NoDay}]
  /\ account \in {"active", "cookies_expired"}
  /\ mailed \subseteq Nat
  /\ scan \in [pc : {"wait", "running", "errors", "backoff"}, at : Nat,
               failed : BOOLEAN]
  /\ now \in Nat /\ startup \in Nat /\ up \in BOOLEAN
  /\ delivered \in [Runs -> SUBSET Contacts]
  /\ acked \in [Runs -> SUBSET Contacts]
  /\ unwritten \in [Runs -> SUBSET Contacts]

\* Auto runs, batches and AI replies never drive the account at the same time:
\* at most one thread is between its acquire and its release, whoever started
\* it and however the runs before it ended.
OneSenderAtATime ==
  \A t, u \in Threads :
    threads[t].pc \in Critical /\ threads[u].pc \in Critical => t = u

\* A run the user started through jobs.py is never left open: while it is
\* running in a live process, some thread still holds its id and will close it,
\* and after a restart nothing of the dead process is still running.
UserRunHasRunner ==
  up => \A r \in Runs :
          runs[r].status = "running" /\ runs[r].job \in UserJobs
            => \E t \in Threads : threads[t].run = r

\* The scheduler may retry an auto run that auto_run itself judged a failure
\* (setup failed, everybody failed, the circuit broke, the lock was busy).  Douyin
\* acknowledged no message of such a run, whether its items could be written or
\* not, so the retry repeats none.  Runs closed from outside ("raised",
\* "restart") are retried too and may have told somebody.
RetryRepeatsNobody ==
  \A r \in Runs :
    /\ runs[r].job \in AutoJobs /\ runs[r].status = "error"
    /\ runs[r].cause \in {"setup", "all_failed", "circuit", "locked"}
    => acked[r] = {}

\* Items are committed one by one: wherever a run ends, at most the one message
\* in flight reached its contact without an item that says so, beside those
\* whose item the database refused.
AtMostOneUnrecorded ==
  \A r \in Runs :
    Cardinality(delivered[r] \ (runs[r].told \cup runs[r].missed \cup unwritten[r])) <= 1

\* The summary of a run that came to its own end is complete even where items
\* are missing: it counts as sent whom Douyin acknowledged, as sent or failed
\* everybody a message reached, and no item contradicts it.
Ended(r) ==
  \/ runs[r].status = "done"
  \/ runs[r].status = "error" /\ runs[r].cause \in {"all_failed", "circuit"}
Complete(r) ==
  /\ runs[r].sent = acked[r]
  /\ delivered[r] \subseteq runs[r].sent \cup runs[r].failed
  /\ runs[r].told \subseteq runs[r].sent /\ runs[r].missed \subseteq runs[r].failed
SummaryIsComplete == \A r \in Runs : Ended(r) => Complete(r)

\* last_ran_date is the day on which some auto run ended well: no failure,
\* batch, crash or change of the schedule marks a day nobody finished a run on.
MarkedDayHasDoneRun ==
  schedule.lastRan # NoDay =>
    \E r \in Runs : /\ runs[r].job \in AutoJobs /\ runs[r].status = "done"
                    /\ Day(runs[r].end) = schedule.lastRan

\* The rows keep the promises of RunLedger: opened once, closed once, done only
\* while the account is held, everything open closed by a restart.
RunState(row) == IF row.status # "running" THEN row.status
                 ELSE IF row.job = "single" THEN "single" ELSE "bulk"
LedgerState == [r \in Runs |-> RunState(runs[r])]
Holder == IF lock = NoThread THEN NoRun ELSE threads[lock].run
Ledger == INSTANCE RunLedger WITH ledger <- LedgerState, holder <- Holder
ImplementsLedger == Ledger!Spec

\* Every run the user started comes to an end, through crashes too.
UserRunEnds ==
  \A r \in Runs :
    (runs[r].status = "running" /\ runs[r].job \in UserJobs)
      ~> (runs[r].status # "running")

\* Whoever takes the account lock gives it back: a setup that fails, a broken
\* circuit or an exception never leaves the account busy.
LockIsReleased == \A t \in Threads : lock = t ~> lock # t

------------------------------------------------------------------------------
(* What the repository says of its runs and the code does not keep: each of   *)
(* these is violated by the run that checks it.                               *)

\* "A second click does not start a second run" (jobs.start_auto_run,
\* tests/test_jobs.py): at most one fresh user-started auto run is running.
OneFreshAutoRun ==
  \A r, s \in Runs :
    (\A x \in {r, s} : /\ runs[x].job = "user_auto"
                       /\ runs[x].status = "running"
                       /\ runs[x].start + Stale >= now)
    => r = s

\* "The row is created first, so that any exception is booked"
\* (_auto_run_locked): no scheduled run stays running without its thread.
ExceptionsAreBooked ==
  up => \A r \in Runs :
          runs[r].status = "running" /\ runs[r].job = "sched_auto"
            => \E t \in Threads : threads[t].run = r
==============================================================================
