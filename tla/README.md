# Formal models of douyin-spark

douyin-spark keeps Douyin "streaks" alive: it stores the cookies of its users'
Douyin accounts, sends each contact a message a day (by schedule or by a
click), shows the chats, and can answer messages with a language model. One
Python process holds a FastAPI server, a scheduler thread, one polling thread
per watched account, an AI worker thread and a thread per running job; they
share a SQLite database and a few in-process dictionaries and locks. What can
go wrong is what happens between those threads.

This directory holds TLA+ models of that, the TLC runs that check them, and
proofs checked by TLAPS.

    tlc -workers 2 -config AccountRuns_live.cfg MCAccountRuns
    tlc -workers 2 -config ChatStore_chat.cfg MCChatStore
    tlc -workers 2 -config AiReply_ai.cfg MCAiReply
    tlc -workers 2 -config RealtimeWatch_watch.cfg MCRealtimeWatch
    tlc -workers 2 -config SignerVM_run.cfg MCSignerVM
    tlc -workers 2 -config SM3_calls.cfg MCSM3
    tlc -workers 2 -config ABogus_signature.cfg MCABogus
    tlapm AccountRuns_proofs.tla
    tlapm RunRecords_proofs.tla
    tlapm ChatStore_proofs.tla
    tlapm AiReply_proofs.tla
    tlapm RealtimeWatch_proofs.tla
    tlapm SignerVM_proofs.tla
    tlapm SM3_proofs.tla
    tlapm ABogus_proofs.tla

## 1. The system

Sizes are lines of Python under `app/` unless said otherwise.

| Component | State | Operations | Talks to |
|---|---|---|---|
| `trigger.py` (841) job runs | `_account_locks`, one lock per account; rows of `job_runs`, `job_run_items`; `schedules.last_ran_date` | `auto_run`, `send_batch`, `send_single`, `send_to_uid`, `account_lock`, `_ensure_active` | Douyin, contacts, chat store, notifications |
| `jobs.py` (183) user-started runs | a daemon thread per run | `start_auto_run`, `start_batch_send`, `_spawn`, `_close_run` | called by the router, calls trigger |
| `scheduler.py` (280) | the scan loop, `_STARTUP_AT`, the daily cookie check | `_loop`, `_run_one`, `_cleanup_stale_runs`, `_cookies_health_check`, `start`, `stop` | spawns `auto_run`, writes account status |
| `ai_worker.py` (557), `ai_reply*.py` | bounded queue, one worker, `ai_reply_logs`, failure counters | `on_new_messages`, `handle`, `_claim`, `_rate_gate`, `_send`, `_finish` | fed by the poll threads, takes the account lock |
| `realtime.py` (330) | `_watchers`: thread, stop and wake events, subscriptions with bounded queues | `subscribe`, `unsubscribe`, `ensure_system_watch`, `wake`, `broadcast`, `_poll_loop` | browsers (SSE), chat store, AI worker |
| `messages_service.py` (319) chat store | `chat_messages`, negative ids for messages just sent | `sync_and_collect`, `_claim`, `append_local` | poll threads, every run, every send |
| `contacts_service.py` (217) | `contacts`: streak status and days | `upsert_cache`, reads | every run |
| `routers/login_flow.py` (369) | `LOGIN_STATE`, browser slots | QR and SMS login, code submission | headless browser thread, account status |
| `video_service.py`, `voice_service.py` | `video_parses`, transcripts in messages | parse, write back, play cache | chat page |
| `routers/api.py` (880) | none of its own | single send, schedule form, refresh, progress | all of the above |
| `ratelimit.py`, `csrf_mw.py`, `cache_mw.py`, `security.py`, `deps.py` | quotas kept by a library, small caches | per-request filters, sessions | router |
| `llm.py`, `knowledge_service.py`, `templates_service.py`, `notify.py`, `site_settings.py` | rows edited by one form each | HTTP client, search, mail | AI worker, trigger |
| `douyin_im.py` (3672, root) | cookies and keys in files | the private protocol | Douyin, the signers |
| `lib/dy_ab.js` (11055 lines of JavaScript) | per copy of its interpreter: operands `p`, `d`, saved activations `v`, handlers `m`, scopes | `get_ab` through 26 bytecode programs | runs in node, called by `abogus.js` and `dy_signer.js` |
| `lib/a_bogus_core.js` (430) | the hash object's `reg`, `chunk`, `size`; RC4's `s` | `write`, `sum`, `rc4_encrypt`, `result_encrypt`, `generate_rc4_bb_str` | as above |

### What is hard here

* **Interleaving.** Scheduler, button, batch and AI reply compete for one
  account. Only the lock of `trigger.py` keeps them apart; the checks before it
  (scheduler checks 1-5, `_find_active_run`) are queries whose answer may be
  old by the time the run starts.
* **Partial failure.** A run is many commits: row, items, circuit breaker,
  final commit. Exceptions leave it at different points; `jobs._spawn` closes
  what is left, `scheduler._run_one` does not.
* **Crash.** Threads and locks vanish, rows stay. `_cleanup_stale_runs` runs at
  the next start.
* **Retry.** The scheduler retries a run that ended as an error, so the meaning
  of "error" decides whether somebody gets a message twice.
* **Time.** Local days, a 15 minute staleness window, a 5 minute backoff, a
  daily limit, restarts after the scheduled time, runs across midnight.
* **Bytecode.** Most of the JavaScript is an interpreter whose activations
  share one operand array that neither a return nor an exception cuts back, and
  whose 26 copies each decode only the opcodes of their own program.
* **Bytes.** The hash object is shared by five digests; the characters that are
  encrypted are taken for bytes, and two of them are not.
* **Delivery.** A send that answers with a failure may have been delivered.

PROJECT.json lists the hazards one by one with the line where each bites.

### What makes each component correct

* Job runs: one sender per account; the lock is always given back; every row of
  a user's run is closed, once; a run that was judged a failure and will
  be retried has no acknowledged message; its summary is complete even where items
  are missing; a day is marked only if a run finished on it.
* Realtime: one poll thread per account (`realtime.py`, header); a subscriber
  gets the newest messages; no watcher without a thread.
* Chat store: ids are unique; what is stored stays (what the user wrote does not
  always: section 3); what the peer wrote is handed on once; a sent message appears once, before and after the
  synchronisation that brings its real id (it does not always either).
* AI reply: at most one answer per message, and a log that says what became of
  it; none to what arrived while it was switched off; failures in a row switch
  it off; the hourly and daily gates hold.
* Login: one browser per account, at most `MAX_CONCURRENT_BROWSERS` in all, a
  submitted code reaches the browser that waits for it.
* Account status: a health check does not undo a newer login.
* Contacts: an incomplete answer never lowers a streak.
* Signers: a program computes what it would with operands of its own for each
  activation, and ends; a digest is the one of its message; a receiver of the
  signature reads what was signed.

## 2. The modules

| Module | Content |
|---|---|
| `RunLedger` | what the job runs of one account promise, as an abstract specification |
| `AccountRuns` | the job runs of one account in detail: scheduler, user runs, batches, AI reply, single send, form, restart |
| `ChatStore` | the stored messages of one account: poll threads, visitors and backfills synchronise, each with an answer of its own window; senders leave placeholders |
| `PeerInbox` | what the chat store promises of the peer's messages, as an abstract specification |
| `ReplyLedger` | what the log of the AI's answers promises, as an abstract specification |
| `AiReply` | the AI worker of one account on top of `ChatStore`: queue, claim, model, answer, switch and form |
| `RealtimeWatch` | the polling of one account: pages, the AI's resident subscription, watchers and their threads |
| `SignerVM` | the bytecode interpreter of `lib/dy_ab.js` |
| `SignerCopies` | the 26 copies: loader, dispatch tree, opcodes of the program |
| `SignerPrograms` | seven programs of them, decoded |
| `SignerStacks` | a verifier for the programs of `SignerVM`: what is on the operand array at each instruction; no part of the machine |
| `SM3` | the hash object: cutting a message into blocks, padding, reset |
| `ABogus` | a signature: block, RC4, letters; and their receiver |
| `MC...` | what TLC needs: symmetry sets, inputs, programs |
| `AccountRuns_proofs`, `ChatStore_proofs`, `AiReply_proofs`, `RealtimeWatch_proofs`, `SignerVM_proofs`, `SM3_proofs`, `ABogus_proofs` | the inductive invariants and the theorems about the module of that name |
| `RunRecords_proofs` | on top of `AccountRuns_proofs`: what the rows and items of `AccountRuns` say of what was delivered |

`AiReply` extends `ChatStore`: the worker is one of its threads, and each of its
steps in the store is a step of `ChatStore`. `AccountRuns` and `RealtimeWatch`
share no variable: the job runs never touch a
watcher except by `wake`, which `RealtimeWatch` allows at any time. What the two
leave to each other is nondeterministic: `AccountRuns` lets an AI reply want
the lock at any time, `AiReply` lets the account be busy at any time
(`NotSent`), `ChatStore` lets two threads poll at once. The signers
run in a process of their own for each request.

### AccountRuns

A thread of the program is a member of `Threads` with a record of local
variables: `pc`, the job, the id of its row, the contacts still to do, the
result of the last send, the failures in a row and the exception that is being
raised. An action is the code between two points at which another thread can be
seen: a commit, a query, the lock, one call to Douyin.

| State | Code |
|---|---|
| `runs[r]` | a `job_runs` row: kind and trigger (`job`), `status`, `started_at`, `finished_at`, the class of `error` (`cause`), its items by outcome (`told`, `missed`), and the columns `sent` and `failed` |
| `lock` | `trigger._account_locks[account_id]`, by holder |
| `schedule` | `schedules.enabled`, `time_hhmm`, `last_ran_date` |
| `account` | `douyin_accounts.status` |
| `mailed` | days with a `retry_exhausted` notification |
| `scan` | locals of `scheduler._loop`: the time of the scan and how far it is |
| `now`, `up`, `startup` | the clock, is the process alive, `_STARTUP_AT` |
| `delivered[r]`, `acked[r]`, `unwritten[r]` | ghosts: whom Douyin really delivered to, for whom it answered OK, whose item could not be committed; no code reads them |

| Actions | Code |
|---|---|
| `SchedulerScan`, `SchedulerSeesRunning`, `SchedulerCountsErrors`, `SchedulerBacksOff`, `SchedulerTriggers` | `scheduler._loop`, one action per query, with the values read at the start of the scan |
| `StartAutoRun`, `StartBatchSend`, `InsertRun` | `jobs.start_*`: the dedup query and the insert are two steps |
| `AcquireLock`, `LockBusy`, `ReleaseLock` | the non-blocking acquire of `auto_run`, `send_batch`, `account_lock`, and the `finally` |
| `CreateRun`, `EnsureActive`, `EnsureActiveFails`, `Prepare`, `SkipContact`, `SendOk`, `SendFails`, `RecordItem`, `RunRaises`, `FinishRun` | `_auto_run_locked` and `_send_batch_locked` |
| `RunnerCloses` | the runner of `jobs._spawn` with `_close_run` |
| `RunOneReturns` | `scheduler._run_one` |
| `AiWantsToSend`, `AiSendToUid`, `AiReturns` | `ai_worker._send`, as far as the lock goes |
| `ApiSend`, `InsertRun`, `ApiSendCalls`, `ApiSendRaises`, `ApiSendCloses` | `api_send`, which takes no lock |
| `SetSchedule`, `Relogin`, `CookiesHealthCheck` | the form, and the other writers of the account's status |
| `Crash`, `Restart`, `Tick` | the process ends; `scheduler.start` with the cleanup; the clock |

What is abstracted: message texts and templates (a contact has a text or is
skipped); the counters `skipped` and `total`; log and audit rows; the pause between two sends; the order of the
contacts (any order is allowed, so also the code's). A batch chooses its
recipients at the end of its setup rather than in the request, which no other
thread can tell; an unknown recipient is a failed send that reached nobody.
The columns `sent` and `failed` are sets of contacts, so that they
can be compared with what was delivered. The commits that the code wraps in a `try`
and only prints when they fail are a fault (`"commit"`) for an item and for the
cause of the circuit breaker: the run goes on to the next contact
(`trigger.py:744`, `545`, `759`). The cleanup and the UPDATE of `_close_run`
(`jobs.py:86`) are assumed to succeed. An OK of Douyin counts as accepted: the
code cannot tell it from one that Douyin drops silently
(`trigger.py:720`, `douyin_im.py:3293`), and neither can the model. Deleting an account while it runs is not modelled either.
Ticks are coarse: the start of the process lies strictly inside its tick, so a
schedule at the same tick counts as missed (`<=` where the code compares finer
times with `<`).

### RunLedger

Rows are absent, open (`bulk` or `single`) or closed (`done` or `error`).
A bulk run takes the account when it is free, is completed only while it
holds the account, and may fail at any time while open; a restart turns
everything open into errors. `AccountRuns` implements it with the mapping
`LedgerState` (the status of a row, open rows split by kind) and `Holder` (the
row of the thread that has the lock). The interesting steps are the runner that
finds its row closed already (a stutter, because `_close_run` is conditional)
and the run whose row was closed by `auto_run` while the lock is still held.

### ChatStore and PeerInbox

| State | Code |
|---|---|
| `server` | what Douyin has; its ids are 1, 2, ... |
| `rows` | `chat_messages` of the account by primary key; a negative `id` is a placeholder |
| `threads[t]` | a thread in `sync_and_collect` or `append_local`: `answer` is the set of ids Douyin answered with, `known` the stored ids it found, `pending` the placeholders, `text` what it will send, `floor` the lowest id it read |
| `handed[m]` | ghost: how often a message of the peer reached `broadcast` and `_feed_ai` |

| Actions | Code |
|---|---|
| `Polls`, `Hands` | `realtime._poll_loop` before and after the synchronisation |
| `Visits` | `trigger._ensure_active`, alone or before a send |
| `Backfills` | `trigger.backfill_history` |
| `ReadsKnown`, `ReadsPending`, `Writes` | `sync_and_collect`: its two queries, and flush and commit, which fail as a whole when somebody stored one of the ids meanwhile (`NoneIsThere`, statement by statement: a message that was written over can be stored anew) |
| `SendOk`, `SendFails` | `send_text`: it may fail and be delivered |
| `ReadsFloor`, `Appends` | `append_local`: the query and the insert |
| `Arrives`, `Tick`, `Restarts` | the peer or the user's phone, the clock of the claim window, a restart |

`Claims` is `_claim` for the messages of one answer: a function from message to
row that gives each message what the messages before it have left (there is
exactly one). A text stands for a peer and what is said, which is the key of a
claim; a visit sends one text, so a batch is several visits; the transaction of
`api_send` is cut like the others'. A query sees what is committed (SQLite in WAL
mode, where a transaction begins with its first write).

**Windows.** An answer is not all of Douyin. `InitAnswers` has, of each conversation
it has at all, the `Recent` newest messages (about 21), and it may leave
conversations out (without the limit that only `_ensure_active` sends, Douyin
answers with about 25 of them). `HistoryAnswers` has the newest pages of one
conversation, as far as `fetch_history` came. An answer is composed when the thread
begins and stored whenever its transaction comes, so what is stored has gaps,
old messages come in after new ones, and a backfill may fill a gap at any time.
`fix_is_me`, the other half of a backfill's transaction, changes nothing here: no
row of the model has the wrong `is_me`.

`PeerInbox` has no rows, ids, queries or answers: messages arrive, a thread brings
in any of them that are not stored, and holds what it brought in or does not care;
who holds something hands it on, once; a restart forgets what is held. What is
stored stays; it has gaps and no order.
`ChatStore` implements it: `stored` are the peer's messages that have a row,
and a thread's `hands` are what its poll is about to broadcast.

### AiReply and ReplyLedger

| State | Code |
|---|---|
| `cfg` | the row of `ai_reply_configs`: `enabled`, `enabled_at` (`since`), `fail_streak` |
| `form` | a request that saves it: what it read and what the user wants |
| `queue` | `_Q` |
| `ai` | the locals of `handle`, of `_bump_failure` and the result of `_send` |
| `log[m]` | the `status` of the row in `ai_reply_logs`, `"none"` without one |
| `answered`, `silent`, `failures` | ghosts: answers Douyin has; what arrived while the switch was off; failed calls of the model in a row since it was on |

| Actions | Code |
|---|---|
| `Feeds` | `on_new_messages`: what finds the queue full is dropped |
| `SaveReads`, `SaveCommits` | `ai_reply_config.save` and the commit of `save_config`: the columns that differ from what was read |
| `TakesMessage`, `Checks`, `ClaimsMessage` | `_loop`, the gates at the start of `handle`, `_claim` |
| `Skips`, `HandleRaises`, `ModelFails`, `BumpsFailure`, `ModelAnswers` | the rest of `handle`, with `_bump_failure` read and written in two steps |
| `NotSent`, `SendsToUid`, `AiSendFails`, `AiSendOk`, `Finishes` | `_send` and `_finish`; between them the worker walks through `ChatStore` |
| `RestartsAll` | queue, worker and request are gone |

SQLAlchemy writes only the columns that changed since they were read, so the
form and the worker can overwrite each other's row in part; that is what
`SaveCommits` and `BumpsFailure` say. `since` is a number of messages, not a time:
the clocks are taken to agree with Douyin's. The hourly and daily gates, the
switch of a peer, and the kinds of messages that are not answered are
nondeterministic (`Skips`). One form is open at a time. Writes of the log are
assumed to succeed. Prompts, history and the text of the answer are left out.

An OK of Douyin counts as accepted here too. The only
threads that visit Douyin are poll threads and the worker; others, and
backfills, stand still (`ChatStore` has them).

`ReplyLedger` is what the table promises of each message: opened first,
answered at most once and only while open, closed once with a status that
fits; a row left open by a restart stays open. `AiReply` implements it with
`status <- log` and `answers <- answered`.

### RealtimeWatch

| State | Code |
|---|---|
| `registered` | `_WATCHERS[account_id]` |
| `watchers[w]` | a `_Watcher`: its subscriptions, `stop`, `wake_ev`; and of its thread the point in `_poll_loop` (`pc`) and `errors` |
| `resident`, `interval` | `_SYSTEM_SUBS[account_id]` and that subscription's interval |
| `callers[c]` | a thread inside `ensure_system_watch` or `drop_system_watch`, with its locals `old` and `sub` |

| Actions | Code |
|---|---|
| `Connect`, `Disconnect` | `api_messages_stream`: `subscribe` when a page opens its event stream, `unsubscribe` when it closes |
| `Wake` | `realtime.wake` |
| `EnsureCalled`, `EnsureReturnsOld`, `EnsureGoesOn`, `EnsureUnsubscribes`, `EnsureSubscribes`, `EnsureWrites` | `ensure_system_watch`, one action per block under `_LOCK` |
| `DropPops`, `DropUnsubscribes` | `drop_system_watch`, likewise |
| `TestsStop`, `PollAnswers`, `PollFails`, `WakesUp`, `TimesOut`, `ClearsWake`, `Leaves`, `Dies` | `_poll_loop`, cut where another thread can set an event or take the lock; `Dies` is the moment `is_alive()` turns false, after the last block |

A `_Watcher` that is neither registered nor run by a thread is garbage, so its
id is used again for a new object; the same holds for a subscription nobody
knows. Without that no finite set would do. The field `asked` is no field of
the code: it records that no request has begun since the last wake-up, which is
what "a fresh poll" means to the user who just sent a message. A thread that
clears the event may lose a wake-up of the same moment, which is harmless
because a request follows at once.

Abstracted: how long the pause is (`next_interval`, `effective_interval`), what
a poll returns, and the queues of the subscriptions. `shutdown_all`, which only
tests call, is left out.

### SignerVM, SignerCopies, SignerPrograms, SignerStacks

| State | Code (one copy, e.g. `dy_ab.js:4715`) |
|---|---|
| `img` | the copy, its decoded program and its outer scopes |
| `frames` | `v` and the current activation: `pc` is `t`, `scope` is `g`, `hs` is `m` |
| `stack` | `p[0..d]` |
| `scopes`, `given`, `calls` | scope objects; closures the host has, and how often it called one |
| `ops`, `base` of a frame, `ops` of a handler | ghosts: the operands a machine with a stack per activation would hold, and what the array held when the activation, or the `try`, began |

| Actions | Code |
|---|---|
| `HostCalls`, `Return`, `CallInline`, `CallHost` | `(0, e._u)(...)`; opcode 66; opcode 67 with a closure of this copy, and 67 or 68 with anything else |
| `PushConstant`, `MakeArray`, `Compute`, `Load`, `Store`, `PushRef`, `Write`, `MakeClosure`, `Jump`, `Branch`, `Pop`, `Dup`, `ForIn`, `NextKey` | the other opcodes, grouped by what they do with operands |
| `EnterTry`, `SetExit`, `LeaveTry`, `Throw` | opcodes 62, 61, 65; the `catch` around the loop |

A value is its kind: whether reading it, calling it or converting it can throw,
and where a branch may go. A read or a call of something the file does not
define itself may answer anything and may throw. Strings and numbers are not
modelled. `finally` (opcode 63) is left out: no program of the file has one.
`Leaf` follows a copy's dispatch tree as data: the opcodes at which the leaf
changes, and the instruction that leaf executes. `SignerCopies` has these for
all 26 copies, `SignerPrograms` the instructions of seven programs (those with a
`try`, with inlined calls, with closures in loops). Jump targets are numbered
by instruction.

### SM3 and ABogus

| State | Code (`a_bogus_core.js`) |
|---|---|
| `absorbed` | `this.reg`: the registers are what the bytes compressed so far make them |
| `chunk`, `size`, `arg`, `f` | `this.chunk`, `this.size`, the argument and the local `f` of `write` and `sum` |
| `msg`, `digest`, `asked` | ghosts: what was written since the last reset, what the last digest is of, what it was asked for |
| `s`, `i`, `j`, `cipher`, `key`, `input` | locals of `rc4_encrypt` |
| `text`, `n`, `lound`, `long`, `result` | locals of `result_encrypt`; `n` is its `i` |
| `plain`, `sealed`, `prefix` | the block or the user agent that is signed, and the random string before it |

`Write`, `Sum`, `WriteLoop`, `Fill`, `Drain` are the calls and turns of the
loops of the hash object; `Mix`, `Stream`, `StartWriting` and `Write` those of
RC4 and of the letters. `Receive` and `FinishReading` are the server's side,
which the repository does not contain: it turns letters into bytes and calls
RC4 again. The compression function is abstract (`absorbed`), because every
property is about which bytes reach it. `Onto` is JavaScript's
`a << 16 | b << 8 | c` for characters that may have a ninth bit: two bytes of a
block are the time divided by 2^32, which has not fitted a byte since 2004.

## 3. The runs

| Run | Instance | Shows |
|---|---|---|
| `items` | 2 threads, 2 rows, 2 contacts, a breaker at 2, crashes, item commits that fail | `UserRunHasRunner`, `RetryRepeatsNobody`, `AtMostOneUnrecorded`, `SummaryIsComplete` |
| `live` | 2 threads, 1 row, every kind of job, a midnight, the form, crashes, exceptions, expired cookies, fairness | `TypeOK`, `OneSenderAtATime`, `MarkedDayHasDoneRun`, refinement of `RunLedger`, `UserRunEnds`, `LockIsReleased` |
| `chat` | 2 poll threads and another, 2 messages, answers of 1 message, 2 times, a restart | `TypeOK`, `HandedOnce`, `OnlyATwinReplaces`, refinement of `PeerInbox` |
| `ai` | a poll thread, the worker, the form, 3 messages, a queue of 2, a limit of 2 failures, a restart | `AiTypeOK`, `SilenceIsKept`, `FailuresStop`, `LogIsTrue`, refinement of `ReplyLedger` |
| `watch` | 2 watchers, 1 page, 3 resident subscriptions, 2 callers, 2 intervals, 2 errors | `TypeOK`, `StrayThreadsAreStopped`, `WatchedIsPolled`, `NoWakeIsLost`, `ResidentIsSubscribed` |
| `watch_live` | 2 watchers, 1 page, 1 caller, fairness | `UnwatchedThreadEnds` |
| `signer_vm` | 7 programs and 26 copies, two calls of the host, an exception wherever one can be raised | `TypeOK`, `OperandsAreTheExpressions`, `CallersOperandsStay`, `EveryCallEnds` |
| `sm3` | blocks of 5 bytes, a length of 2, messages of 0 to 12 bytes, 4 calls | `TypeOK`, `NothingIsLost`, `ChunkHasRoom`, `DigestIsOfTheMessage`, `BlocksAreWhole` |
| `signature` | bytes of 4 bits, 8 letters, strings of every length modulo 3 | `TypeOK`, `EveryByteIsSomewhere`, `ReceiverReads`, `SealFits` |

What `items` says of messages has limits. `AtMostOneUnrecorded` counts
beside the items those whose commit failed; how many these are is up to the
database. `SummaryIsComplete` is what the code has instead: the columns of a run that
came to its own end are counted in the thread and miss nobody.
`RetryRepeatsNobody` is about the failures that `auto_run` judges itself. A run
closed as raised, or by the cleanup after a crash, is an error too and the scheduler
retries it; it may have told somebody, and nothing in the repository says it
may not.

`WatchedIsPolled` exempts threads that gave up; those are the run `given_up`'s.

Before `signer_vm` starts, TLC evaluates three facts about the code's own
constants, as assumptions: `LeavesAssumption` (each of the 26 dispatch trees, which
were cut down to the opcodes of one program, executes these opcodes and no
neighbour), `VerifiedAssumption` (the verifier of `SignerStacks` accepts the
programs) and `FlatAssumption` (five of them call their own closures with
no operand waiting).

Three more runs show a sentence of the repository that the code does not keep
(expected violations); PROJECT.json quotes the sentence and the code:

| Run | What happens |
|---|---|
| `two_clicks` | two requests pass the dedup query before either inserts |
| `unbooked` | an exception after the setup leaves a scheduled run's row running |
| `given_up` | `ensure_system_watch` answers although the thread has given up |

Further disagreements were seen while modelling; the models have them as the
code does, but no run is kept for them:

* the last failed attempt does not count itself, because the session does not
  flush before the query, so the mail about the limit that `trigger.py:809`
  announces is never sent (`trigger.py:816`);
* a run that crosses midnight marks the next day (`trigger.py:787`), against
  `scheduler.py:83`;
* two concurrent calls of `ensure_system_watch` leave a subscription nobody
  will drop (`realtime.py:185`), against the comment at `realtime.py:179`
  (`ResidentIsSubscribed` is about the registered one and does not catch it);
* a synchronisation between a send and its `append_local` stores the real
  message first; the placeholder that follows finds nothing to claim it, and
  the message is in the chat twice (`messages_service.py:298`), which
  `tests/test_sent_messages_recorded.py:124` forbids for the other order;
* two synchronisations that read the same placeholder, and whose answers have
  different messages of its text, each claim the row for their own
  (`messages_service.py:200`). The second UPDATE goes by the primary key, and the
  message of the first is gone until an answer brings it again, against "old
  messages stay" (`messages_service.py:8`). With 21 messages to an answer that takes
  a text sent twice within the hour and answers that do not overlap, as a backfill
  that stores pages fetched minutes before and a poll after a lively exchange.
  `OnlyATwinReplaces` is what remains true: a message of the peer is never
  written over, and one of the user's only by another with the same text.

In the part that is not modelled yet, one more was read off the code: a login
that waits for a text message code can be started again (`login_flow.py:117`
looks for two states only); the first browser goes on, its state is counted no
more, and so there can be more browsers than `login_flow.py:33` allows.

Some observations contradict no sentence. `ChatStore` and `AiReply` show that
two threads may claim one placeholder for the same message (both answers go to the
pages); that what an answer's own
`_ensure_active` finds is stored and then known, so it is handed neither to the
pages nor to the worker (`trigger.py:218`), and likewise what a backfill stores; that an answer in preparation goes out
although the switch is off by then; and that the unique row of `_claim` is a
second line of defence: no claim ever finds a row (`ClaimsNeverCollide`, section 4). A history whose last
entry is the user's is cut by one (`ai_worker.py:286`), also when that entry is
newer than the message in hand; the model leaves histories out. A row that
`api_send` leaves running waits for the next start (`api.py:568`); its broadcast
precedes its commit (`api.py:561`).

Of the job runs: the auto button looks only for auto runs
and so opens a run beside a batch (`jobs.py:109`). The retry mail counts
the user's failed runs as the schedule's (`trigger.py:816`). A scan that
read the schedule before a run finished may start another one on the same day
(`scheduler.py:86`). `AccountRuns` models all three as the code has them.

**Bounds.** `Threads`, `Runs`, `MaxTime`, `Requests` and `Faults` bound the
model; `HasRoom` starts a thread only while a row is left for it. The windows
and limits of the code are constants too: `Stale` (15 minutes) is 0 or 1 tick,
`Backoff` (5 minutes) is 0, `MaxRetries` (3) and `Breaker` (5) are 1 or 2.
Two threads are one that holds the lock and one that is refused, or two between
check and act. Two rows (`items`) are a run and its retry or rival. Two contacts give a partial
failure. A day of two ticks has a before
and an after the scheduled time; `MaxTime = 2` (ticks 0 to 2, in `live`) crosses a
midnight. In `items` the limit is two failures, and two ticks are enough: a run of the
user's fails in the first, and in the second, when the schedule is due, the scheduler
retries it beside whatever the user starts; with a run of the second tick the
scheduler waits.
`live` has one row because its properties are about one run and
whoever else wants the lock: `single` and `ai` jobs need no row. Item commits
fail in `items` only, where the items are looked at; exceptions and expired
cookies come in `live` only. The
properties that depend on no window are proved for every value, with all faults
at once (section 4).

In `chat` two messages are one of the peer and one sent, or two sent; two poll
threads and a visitor make every race of two writers with a third that
looks. One message to an answer (`Recent`) and two on Douyin give answers that
overlap, that are disjoint, that leave a gap, and histories that fill it. One
conversation is enough for that, and leaving it out is an empty answer. In `ai`
two of three messages fit an answer. Window 0 with two times has placeholders that are too old to be claimed.
In `ai` three messages are one in hand, one in the queue and one dropped at a full
queue, or, with `MaxStreak = 2`, two failures and the call that must not
happen. One poll thread is enough there: that nothing is handed on twice is
checked in `chat`, and the proofs of section 4 hold for any number of them. Both
runs stop when the messages are used up, so `CHECK_DEADLOCK` is off.

In `RealtimeWatch` two watchers are the one that is registered and the one that
was and whose thread has not ended; a third one could only be another of the
latter kind. Two callers are one between its check and its write, and its rival.
They hold two new subscriptions beside the registered one, so there are three;
`UnusedSub` only limits who can be subscribed at once. Two intervals are the
least that make a swap, two errors the least with a failure that is forgiven.

In `signer_vm` the host makes two calls: the second meets what the first left in
the scopes. `MaxSlot` is the largest slot a program of the run uses. The
programs are the code's own, so nothing else is bounded. In `sm3` a block of 5
with a length of 2 has all cases of the code's 64 and 8: a chunk that is just
filled, a rest that leaves room for the length, and one that does not; four
calls are a digest after a digest after a message in two pieces. In `signature`
N = 16 and D = 8 keep the relation that three bytes are four letters, and
lengths are taken with every remainder by three. All but
the liveness is proved for every size, `OperandsAreTheExpressions` under
conditions on the program (section 4).

**Fairness.** `FairSpec` asks weak fairness of each thread's next step and of
`Restart`. A thread's step never blocks: the lock is tried, not waited for, and
every call to Douyin has a timeout. Weak fairness is therefore what the
operating system's scheduling gives. A dead process is restarted by systemd or
Docker (`restart:` in `docker-compose.yml`). Users, chats, the clock and
crashes are never obliged to happen. The crash may happen again and again:
`UserRunEnds` then holds because the cleanup closes the row.

In `RealtimeWatch` a polling thread is scheduled fairly: its request has a
timeout, and its pause is a wait with a timeout. Callers and pages need no
fairness for `UnwatchedThreadEnds`.

In `SignerVM` the interpreter goes on: JavaScript has one thread, and the loop
does not wait. The host is never obliged to call.

`ChatStore` and `AiReply` state no fairness: their properties are safety.

The liveness runs have no symmetry. `CHECK_DEADLOCK` is off in `chat` and `ai`
only, where the bounded messages run out.

## 4. What is proved

`AccountRuns_proofs` proves, for any sets of threads, runs and contacts and any
windows, limits, requests and faults:

* `TypeCorrect`: `Spec => []TypeOK`
* `AccountHasOneSender`: `Spec => []OneSenderAtATime`
* `UserRunsAreNotOrphaned`: `Spec => []UserRunHasRunner`
* `RunsImplementLedger`: `Spec => ImplementsLedger`

The assumptions are the ones `AccountRuns` declares about its constants: the
null values are no thread and no row, windows and limits are naturals, a day
has at least one tick and scheduled times lie in it, requests and faults are of
the known kinds.

None of the invariants is inductive alone. That nobody else is between acquire
and release needs that whoever is there holds the lock, which needs to know
that a thread leaves these points only by releasing. That a row has its thread
needs that the thread closes only its own row, that no two threads share a row,
and that a row is closed before its thread forgets it. The inductive invariant
`IInv` says this:

* `Local`: which jobs can be at which point, and whether a row is held there;
* `LockInv`: a thread is at a critical point iff it holds the lock;
* `RowInv`: a thread's row is of its job and its own, running up to the point
  at which the thread closes it, and closed once a thread has left its work
  without an exception;
* `UpInv`: a dead process has no threads;
* `UserRunHasRunner` itself.

Every step of a thread has one of a few shapes (the lock is kept, taken or
given back; the row is opened, worked on or left; `StepShape`). One lemma
shows that the shapes keep `IInv`, and one lemma per group of actions that the
actions have these shapes, so a new action needs only its shape. The refinement
proof uses `IInv` to know whose row `Holder` is and that `Complete` is only
taken by the holder; a step whose row is already closed maps to a stutter.

`RunRecords_proofs` goes on from there, under the same assumptions, with what the
rows say about the messages:

* `RetriesRepeatNobody`: `Spec => []RetryRepeatsNobody`
* `OneMessageUnrecorded`: `Spec => []AtMostOneUnrecorded`
* `SummariesAreComplete`: `Spec => []SummaryIsComplete`
* `MarkedDaysAreEarned`: `Spec => []MarkedDayHasDoneRun`
* `ClosedRunsAreFinal`: a step never changes a row that is closed, nor sends for
  it (`[][ClosedRunIsFinal]_vars`, stated in that module).

`RecordInv` adds two facts to `IInv`. `Progress` follows a thread: between two
sends everything it delivered is in an item or lost with one (`Unrecorded`), before
the commit of an item everything but the message in flight, and before its work
begins nothing is delivered; meanwhile its counters agree with what Douyin
acknowledged (`Counted`). `Booked` says the same of a row whoever works on it: that
a row which ended with one of the causes `auto_run` gives was acknowledged nothing,
and that the summary of an ended one is complete. A step touches one row at most,
its own (`Touches`, `BookStep`), so `NextBooks` has one case per kind of step. The
crash is the reason for "at most one": the thread is gone, and what it had in
flight is what the row does not know.

`ChatStore_proofs` proves, for any threads, texts, conversations, answers, windows, messages, times and
restarts (`ThreadsAssumption`, `WindowAssumption`, `ChatBoundsAssumption`):

* `ChatTypes`: `ChatSpec => []TypeOK`
* `PeersAreHandedOnce`: `ChatSpec => []HandedOnce`
* `RowsAreReplacedByTwins`: `ChatSpec => OnlyATwinReplaces`
* `ChatImplementsInbox`: `ChatSpec => ImplementsInbox`
* `MissedMessagesStayMissed`: `ChatSpec => MissedStaysMissed` (stated in that module)

The difficulty is that two threads store at once, each with what it read before the
other's commit, and that nothing relates their answers. `ChatInv` says that what a
poll is about to hand on was new, is stored by now and is in no other poll's hands
(`InHands`, `Apart`); that a row has the text of the message in it
(`RowsAreSent`); and what a thread that has read the placeholders may still believe
of one (`StillOwn`, `PendingOK`): the row is there, with that text, and is a
placeholder still or has an own message. So what a commit writes over is never the
peer's (`ClaimedRow`). That the ids stay unique although rows change their message
is `UniqueAfter`: who is stored meanwhile fails the commit, unless its row is
written first. A commit can lose the id of an own message, so `RowsAreSent`
and `StillOwn` speak of rows and `HandedIsStored` only of the peer's.

The refinement rests on `CommitStores`: a commit stores of the peer exactly what the
thread found unknown, although others may have committed since it looked (whoever
stored one of them makes this commit fail), and takes none away. So a poll
hands on what it brought in, and a step of a thread that does not commit, hand on or
restart leaves all four variables of `PeerInbox` alone, up to an arrival (`Quiet`).
`MissedMessagesStayMissed` is the other side of it: a message that a send, a
visit or a backfill has stored (`trigger.py:218`, `372`), or that a poll held when the process ended, is
handed on by nobody, ever.

`AiReply_proofs` proves, for any number of messages, poll threads and
texts, any answers of Douyin, any queue size and limit (`LimitsAssumption`, and
`WorkerAssumption` that the worker is no poll thread; other visitors stand still in
`AiReply`):

* `TheLogIsTrue`: `AiSpec => []LogIsTrue`
* `RepliesImplementLedger`: `AiSpec => ImplementsReplies`
* `FailuresEnd`: `AiSpec => []FailuresStop`
* `WorkerIsAThread`: `AiSpec => ChatSpec`
* `AiTypes`: `AiSpec => []AiTypeOK`
* `SilenceStays`: `AiSpec => []SilenceIsKept`
* `OnlyHandedOnIsAnswered`: `AiSpec => []OnlyHandedOnIsLogged`, and
  `ClaimsNeverCollide`: `AiSpec => ClaimsFindNoRow` (both stated in that module)

`LogInv` is inductive: `Shape` and `Tabled` are types; `InHand` says that the row of
the message in hand is open, and whether Douyin has its answer; `Results` which
outcome is possible at which point; `Visit` that the worker's place in `ChatStore`
fits its place here, so that nobody but `SendsToUid` starts a send. The lemmas have one
case per group of actions; whatever others do in the store cannot matter
(`Elsewhere`). The refinement follows: a step of the store is a stutter.
`StreakInv` is the argument about the two writers of one row. Its part `Counted`
says that a failure is in the row or in the hands of the worker who is about to
write it; `Left` that whoever may ask the model has a failure to spare, and that a
switch which is on although the worker read it as off has been turned since, with
the failures forgotten.

`WorkerIsAThread` says that the worker and the form are nothing new to the store:
each of their steps is a step of `ChatStore` or leaves it alone. The theorems of
`ChatStore_proofs` therefore hold under `AiSpec` too (`ChatUnderWorker`), and
`AiTypes` needs only the worker's own variables. `SilenceInv` is the argument that
switching on answers no old message: a message that arrived in silence
is at most `since` while the switch is on, and at most what the form is about to
write as `since` while a form that switches on is in between its read and its
commit (`Ignored`); and the worker never holds a message Douyin does not have yet
(`InSight`).

`OnceInv` says that what is logged, queued or in hand is a message of the peer that
a poll has handed on, and that no message is in two of these places but the
one whose row the worker has opened. A poll adds to the queue what nobody had
been handed (`InHands`), so it adds nothing that is in one of them (`OnceFeeds`). The
worker therefore answers no message of the user's own and none that was missed, and
its claim always finds the row free. TLC checked `OnceInv` on the instance of
`ai` first.

`RealtimeWatch_proofs` proves, for any sets of watchers, pages, resident
subscriptions and callers, any intervals and any positive `MaxErrors`, each as
`Spec => []...`:

* `TypeCorrect` (`TypeOK`), `OneThreadStays` (`StrayThreadsAreStopped`),
  `WatchedAccountsArePolled` (`WatchedIsPolled`), `WakesAreKept`
  (`NoWakeIsLost`), `ResidentStays` (`ResidentIsSubscribed`).

The assumptions: `NoWatcher` and `NoSub` are nobody, and a subscription is a
page's or resident, not both (a page could otherwise disconnect the resident).

The inductive invariant has two halves. `WatcherInv` holds the three watcher
properties together, because each needs the others (a thread that gives up is
covered by `errors`, one that is told to stop is no longer registered), and
strengthens `NoWakeIsLost` to the request itself (`WakeInv`): the event
that is set while the thread polls is the one it finds when it sleeps.
`ResidentInv` follows the callers: what a caller is about to write is subscribed
and known to nobody else (`WriteInv`), a resident that is subscribed no more has
a caller on its way to replace it (`ReplaceInv`), and what is being dropped is
registered no more (`OldInv`). When all callers are idle, `ReplaceInv` is
`ResidentIsSubscribed`. Every step of a thread has one shape (`StepShape`), every
step of a caller that does not end in a write another (`NoWriterMoves`).
TLC checked this invariant on the instance of `watch` first.

`SignerVM_proofs` proves, for any programs whose instructions have operands and
slots (`ImagesAssumption`), that values stay values (`VMTypeCorrect`) and that no
activation touches the operands of those that wait for it
(`OperandsOfCallersStay`: `FairSpec => []CallersOperandsStay`). The property is
not inductive: an exception goes to a handler far below, and a return takes its
value from an array nobody cuts. `VMInv` adds `Nested`: the operands of the
waiting activations and the places where theirs began nest in the array, and a
handler remembers no more operands than its expression has. `StepNests` shows it
for an instruction that replaces operands of its own, `Begin` and `Resume` for
calls and returns, `CatchNests` for exceptions.

Three more theorems need that the programs are verified (`VerifiedAssumption`).
`OperandsNeverLack` (`FairSpec => []OperandsAreThere`) says that every instruction
finds the operands it uses and the open `try` it ends, so that the guards of the
model which say so take no behaviour away: the interpreter itself reads `p[d]`
and `m[m.length - 1]` as they are. Its invariant `ShapesHold` says of every activation
that its operands fit the shape which the verifier gives to its instruction, of
every handler that it leads to a shape that has its operands, and of
every closure that it opens an entry the verifier knows. The like guards about the
scopes (`Up(l)`: a chain of `l` scopes is there) are not covered: `Up` is
recursive, and the number of scopes below a closure would need an induction.

`LeftoversDoNoHarm` reduces `OperandsAreTheExpressions` to one instruction:
`FairSpec /\ []ReturnsAreTidy => []OperandsAreTheExpressions`. What an exception
leaves behind lies between activations (`Aligned`); only a return, which pushes its
result wherever `d` stands, could bring it into an expression, and then only into
one that has operands waiting. `FlatPrograms` has no such premise: in a program that
calls its closures between expressions (`Flat`), no activation ever waits
with operands, so every return is tidy.

`SM3_proofs` proves all five properties of `SM3` for blocks and lengths of any
size (`BlockAssumption`) and any inputs. `SM3Inv` says that what is absorbed is
whole blocks, where the local `f` stands, that `absorbed`, `chunk` and the rest
of the argument are the message, and, during the drain, that they are its
padding. `FillsUp` shows that the zeros of `_fill` end a block, `OneFilling`
that fewer zeros cannot, and so that it is the padding of the standard.

`ABogus_proofs` proves, for any keys, user agents, random strings and facts, that

* characters stay characters and letters letters (`SignatureTypes`: `TypeOK`),
* the swaps of RC4 only rearrange `s` (`EveryByteStays`: `EveryByteIsSomewhere`),
* the receiver reads what was encrypted (`WhatIsRead`: `ReceiverReads`),
* the last character of a block is a byte and cancels the rest but for `b[34]`
  (`SealIsRight`: `SealFits`).

The sizes are any for which three bytes are four letters (`ByteAssumption`: 256 and
64 are 4^4 and 4^3, the run has 2^4 and 2^3). `XorAssumption` lists the laws of `^`
that are used, on characters of nine bits. `FactsAssumption` says what the fields of
a block are; times lie between 2004 and 2039, when their upper part has nine bits.
TLC evaluates all three on the instance of the run.

`WhatIsRead` has three parts. The sender and the receiver start `rc4_encrypt` in the
same state and go on without looking at the text, so both go through one tape of
states (`Tape`; the sender lays it down, `Laying`, the receiver plays it, `Playing`).
Four letters are the digits of the three bytes they were made of (`DigitsOf`,
`BytesOf`, `ByteIs`), also in the last group, where characters are missing and read
as 0. And `^` with the same byte of the stream brings a character back, its lowest
bit aside (`ShownAgain`, `SpoiledOnlyBelow`). `SealIsRight` needs that `^` over a list
does not depend on its order (`AnyOrder`), since `Terms` is `Order` in another
order and without the sixth, and that exactly two terms are wide (`TwoWide`).

Where such an argument goes along a list, the proof takes the least place at which it
would fail and looks at the one before it (`LeastNumber`): the library's
induction theorems have an operator as a parameter, which the installed provers
cannot instantiate, but a set of places is a set.

Only model-checked: `OperandsAreTheExpressions` for the programs 7968 and 8533, for
which the premise that returns are tidy is not proved. They call closures of their own while an
object literal is being built, and it is what these closures read that keeps
their `try` from catching in the middle of an expression: objects of the stub
environment that are there for certain. The verifier does not follow values through
scopes, so it cannot see that; TLC runs both programs. Then the assumptions about
constants (section 3), which TLC evaluates, and the liveness properties
`UserRunEnds`, `LockIsReleased`, `UnwatchedThreadEnds` and `EveryCallEnds`, because the
prover has no support for liveness under fairness. Every other invariant and
action property that a run checks, and the three refinements, are theorems. `IInv` itself
was also checked by TLC on small instances before it was proved.

## 5. Not modelled

Of the signers: `dy_ab.js:62-4624` (vendored polyfills of core-js), the
strings the 26 programs compute with and the checks of the browser environment
they make (`4857-5235` in JavaScript), the table of obfuscated strings
(`10112-10308`), the compression function of SM3 (arithmetic on words), and
`login.js` and `x_bogus_core.js`, which nothing in the repository calls. The
guard of `_compress` (`t < 64`) compares an array with a number and never
holds; the runs show that it is not needed.

Of the chat store: `fix_is_me`, which repairs one column of old rows, and the
length of a page. Quotas of
logins are counted by a library.

Protocol bytes, sessions and cryptography, pages and forms that write one row, mail transport,
deployment. Everything else that is not modelled yet is in the plan.

## 6. Plan

In this order:

1. `BoundedFeed` (`realtime.Subscription.put`, `broadcast`, the consumer of
   `api_messages_stream`): the bounded queue with several producers, and as its
   abstract specification that a subscriber sees messages in order and loses
   only old ones. `RealtimeWatch` itself is done but for `shutdown_all` and the
   length of the pause.
2. `AccountStatus` (`scheduler._cookies_health_check`, `login_flow.py`,
   `_run_one`) and `LoginFlow`: browser slots, codes, pruning.
3. `RetryNotice`: two accounts of one user and the deduplication of the mail.
4. `ContactsCache`, `MediaCache`: merges that must never lower what is known.
5. What `AiReply` leaves open: the rate gates, and the history of a prompt.
6. Pure algorithms against a reference definition: `realtime.next_interval`,
   the risk factor of the send interval, paging of a conversation.

Theorems next: with each of the modules above its invariants. For the modules there
are, a verifier that follows the objects of the stub environment through the scopes, so
that the two programs with calls inside object literals are covered too, and the
depth of the scopes with it; and an abstract specification of the hash object that
`SM3` implements.
