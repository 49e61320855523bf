-------------------------- MODULE RunRecords_proofs --------------------------
(***************************************************************************)
(* What the job_runs rows of AccountRuns say about the messages that were  *)
(* really delivered, for any number of threads, runs and contacts.         *)
(***************************************************************************)
EXTENDS AccountRuns_proofs, FiniteSetTheorems

------------------------------------------------------------------------------
(* The inductive invariant, beside IInv. *)

\* A set of one element or none.
AtMostOne(S) == \A x, y \in S : x = y

\* What Douyin delivered for a run and neither an item of the run mentions nor
\* a failed item commit has lost.
Unrecorded(r) == delivered[r] \ (runs[r].told \cup runs[r].missed \cup unwritten[r])
Untouched(r) == /\ runs[r].told = {} /\ runs[r].missed = {}
                /\ delivered[r] = {} /\ acked[r] = {}

\* The message whose answer a thread has and has not written down yet.
InFlight(t) == threads[t].ok \cup threads[t].bad

\* The counters of a thread agree with what happened and with the items of row r.
Counted(t, r) ==
  /\ acked[r] = threads[t].sent
  /\ delivered[r] \subseteq threads[t].sent \cup threads[t].failed
  /\ runs[r].told \cup threads[t].ok \subseteq threads[t].sent
  /\ runs[r].missed \cup threads[t].bad \subseteq threads[t].failed

\* Before the first message of a run.
Early == {"insert", "trylock", "create", "setup", "prepare"}

\* How far a thread is with its row: nothing sent and counted before its work
\* begins and nothing ever when the lock was busy, everything recorded or lost
\* between two sends, everything but the message in flight before the item's
\* commit.
Progress(t) ==
  /\ threads[t].pc \notin {"record", "commit"} => InFlight(t) = {}
  /\ AtMostOne(InFlight(t))
  /\ threads[t].exc = "locked" => threads[t].pc = "after"
  /\ threads[t].pc \in Early => threads[t].sent = {} /\ threads[t].failed = {}
  /\ threads[t].run \in Runs =>
       /\ \/ threads[t].pc \in {"trylock", "setup", "prepare", "call"}
          \/ threads[t].exc = "locked"
          => Untouched(threads[t].run)
       /\ threads[t].pc \in {"send", "record"} => Counted(t, threads[t].run)
       /\ threads[t].pc = "send" => Unrecorded(threads[t].run) = {}
       /\ threads[t].pc = "record"
            => Unrecorded(threads[t].run) \subseteq InFlight(t)
       /\ threads[t].pc = "commit"
            => /\ delivered[threads[t].run] \subseteq InFlight(t)
               /\ acked[threads[t].run] = threads[t].ok

\* The causes auto_run and the lock give an error of their own.
OwnCauses == {"setup", "all_failed", "circuit", "locked"}

\* What a row says, whoever works on it and whether anybody still does.
Booked(r) ==
  /\ runs[r].status = "absent" => Untouched(r)
  /\ AtMostOne(Unrecorded(r))
  /\ runs[r].job \in AutoJobs /\ runs[r].status = "error"
     /\ runs[r].cause \in OwnCauses
     => acked[r] = {}
  /\ Ended(r) => Complete(r)

Books == /\ \A t \in Threads : Progress(t)
         /\ \A r \in Runs : Booked(r)

RecordInv == IInv /\ Books /\ MarkedDayHasDoneRun

------------------------------------------------------------------------------
(* The shape of a thread's step: it writes one open row at most, its own. *)

\* A step of thread t writes row x and delivers for it, and for no other; x is
\* not closed and no other thread's.  NoRun: no row is written.
OnlyDelivery(x) ==
  \A r \in Runs \ {x} : /\ delivered'[r] = delivered[r] /\ acked'[r] = acked[r]
                        /\ unwritten'[r] = unwritten[r]
Touches(t, x) ==
  /\ OnlyThread(t) /\ OnlyRow(x) /\ OnlyDelivery(x)
  /\ x \in Runs => /\ runs[x].status \in {"absent", "running"}
                   /\ \A u \in Threads \ {t} : threads[u].run # x

BookStep(t) ==
  \E x \in Runs \cup {NoRun} :
    Touches(t, x) /\ Progress(t)' /\ (x \in Runs => Booked(x)')

\* A step of that shape keeps the books of every thread and row.
LEMMA BookStepKeeps ==
  ASSUME Books, NEW t \in Threads, BookStep(t)
  PROVE  Books'
<1>1. PICK x \in Runs \cup {NoRun} :
        Touches(t, x) /\ Progress(t)' /\ (x \in Runs => Booked(x)')
  BY DEF BookStep
<1>2. ASSUME NEW u \in Threads PROVE Progress(u)'
  <2>1. CASE u = t
    BY <1>1, <2>1
  <2>2. CASE u # t
    <3>1. threads'[u] = threads[u] /\ Progress(u)
      BY <1>1, <2>2 DEF Touches, OnlyThread, Books
    <3>2. threads[u].run \in Runs =>
            /\ runs'[threads[u].run] = runs[threads[u].run]
            /\ delivered'[threads[u].run] = delivered[threads[u].run]
            /\ acked'[threads[u].run] = acked[threads[u].run]
            /\ unwritten'[threads[u].run] = unwritten[threads[u].run]
      BY <1>1, <2>2 DEF Touches, OnlyRow, OnlyDelivery
    <3> QED BY <3>1, <3>2 DEF Progress, InFlight, Untouched, Unrecorded, Counted
  <2> QED BY <2>1, <2>2
<1>3. ASSUME NEW r \in Runs PROVE Booked(r)'
  <2>1. CASE r = x
    BY <1>1, <2>1
  <2>2. CASE r # x
    <3>1. /\ runs'[r] = runs[r] /\ Booked(r) /\ delivered'[r] = delivered[r]
          /\ acked'[r] = acked[r] /\ unwritten'[r] = unwritten[r]
      BY <1>1, <2>2 DEF Touches, OnlyRow, OnlyDelivery, Books
    <3> QED BY <3>1 DEF Booked, Untouched, Unrecorded, Ended, Complete
  <2> QED BY <2>1, <2>2
<1> QED BY <1>2, <1>3 DEF Books

\* Writing a thread's next local state.
LEMMA NextLocal ==
  ASSUME IInv, NEW t \in Threads, NEW next, Becomes(t, next)
  PROVE  threads'[t] = next /\ OnlyThread(t)
BY DEF IInv, Becomes, OnlyThread

\* A thread's step that writes no row and sends nothing.
LEMMA QuietStep ==
  ASSUME IInv, NEW t \in Threads, NEW next, Becomes(t, next),
         runs' = runs, ghosts' = ghosts, Progress(t)'
  PROVE  BookStep(t)
<1>1. Touches(t, NoRun)
  BY NextLocal, NullAssumption DEF Touches, OnlyRow, OnlyDelivery, ghosts
<1> QED BY <1>1, NullAssumption DEF BookStep

\* A thread's step that writes its own row.
LEMMA RowStep ==
  ASSUME IInv, NEW t \in Threads, NEW r \in Runs, threads[t].run = r,
         OnlyThread(t), OnlyRow(r), OnlyDelivery(r),
         runs[r].status = "running", Progress(t)', Booked(r)'
  PROVE  BookStep(t)
<1>1. \A u \in Threads \ {t} : threads[u].run # r
  BY DEF IInv, RowInv
<1>2. Touches(t, r)
  BY <1>1 DEF Touches
<1> QED BY <1>2 DEF BookStep

\* A thread that only moves on, with nothing in flight before or after: its row
\* must already be what the next point of the code expects.
LEMMA QuietMove ==
  ASSUME IInv, Books, NEW t \in Threads, NEW next, Becomes(t, next),
         runs' = runs, ghosts' = ghosts,
         next.run = threads[t].run, next.ok = threads[t].ok,
         next.bad = threads[t].bad, next.sent = threads[t].sent,
         next.failed = threads[t].failed,
         threads[t].pc \notin {"record", "commit"},
         next.pc \notin {"record", "commit"},
         next.exc = "locked" => next.pc = "after",
         next.pc \in Early => threads[t].sent = {} /\ threads[t].failed = {},
         threads[t].run \in Runs =>
           /\ next.pc \in {"trylock", "setup", "prepare", "call"}
                \/ next.exc = "locked"
                => Untouched(threads[t].run)
           /\ next.pc = "send" => /\ Unrecorded(threads[t].run) = {}
                                  /\ Counted(t, threads[t].run)
  PROVE  BookStep(t)
<1>1. threads'[t] = next /\ Progress(t)
  BY NextLocal DEF Books
<1>2. Progress(t)'
  BY <1>1 DEF Progress, InFlight, AtMostOne, Untouched, Unrecorded, Counted, ghosts
<1> QED BY <1>2, QuietStep

\* What such a move leaves alone.
Moves(th, next) == /\ next.run = th.run /\ next.ok = th.ok /\ next.bad = th.bad
                   /\ next.sent = th.sent /\ next.failed = th.failed

------------------------------------------------------------------------------
(* Every step of a thread has that shape. *)

\* A thread that is started, goes into the lock or out of it, or ends.
LEMMA QuietSteps ==
  ASSUME IInv, Books, NEW t \in Threads,
         \/ Request(t) \/ SchedulerTriggers(t)
         \/ AcquireLock(t) \/ LockBusy(t) \/ ReleaseLock(t)
         \/ RunOneReturns(t) \/ AiReturns(t)
  PROVE  BookStep(t)
<1>1. threads[t] \in Thread /\ Progress(t)
  BY ThreadFacts DEF Books
<1>2. runs' = runs /\ ghosts' = ghosts
  BY DEF Request, StartAutoRun, StartBatchSend, ApiSend, AiWantsToSend,
     SchedulerTriggers, AcquireLock, LockBusy, ReleaseLock, RunOneReturns,
     AiReturns
<1>3. CASE Request(t) \/ SchedulerTriggers(t)
  <2>1. PICK job, pc : /\ Becomes(t, [Idle EXCEPT !.job = job, !.pc = pc])
                       /\ pc \in {"insert", "trylock"}
    BY <1>3 DEF Request, StartAutoRun, StartBatchSend, ApiSend, AiWantsToSend,
       SchedulerTriggers, Spawned
  <2> DEFINE next == [Idle EXCEPT !.job = job, !.pc = pc]
  <2>2. /\ next.pc = pc /\ next.run = NoRun /\ next.ok = {} /\ next.bad = {}
        /\ next.exc = "none" /\ next.sent = {} /\ next.failed = {}
    BY DEF Idle
  <2> HIDE DEF next
  <2>3. threads'[t] = next
    BY <2>1, NextLocal DEF next
  <2>4. Progress(t)'
    BY <2>1, <2>2, <2>3, NullAssumption DEF Progress, InFlight, AtMostOne, Early
  <2> QED BY <1>2, <2>1, <2>4, QuietStep
<1>4. CASE RunOneReturns(t) \/ AiReturns(t)
  <2>1. Becomes(t, Idle)
    BY <1>4 DEF RunOneReturns, AiReturns
  <2>2. Progress(t)'
    BY <2>1, NextLocal, NullAssumption DEF Progress, InFlight, AtMostOne, Idle, Early
  <2> QED BY <1>2, <2>1, <2>2, QuietStep
<1>5. CASE AcquireLock(t)
  <2> DEFINE next == [threads[t] EXCEPT
                       !.pc = IF threads[t].job = "sched_auto" THEN "create" ELSE "setup"]
  <2>1. Moves(threads[t], next) /\ next.pc \in {"create", "setup"} /\ next.exc = threads[t].exc

    BY <1>1, <1>5 DEF AcquireLock, Moves, Thread
  <2>2. Becomes(t, next)
    BY <1>5 DEF AcquireLock, Goto
  <2> HIDE DEF next
  <2> QED BY <1>1, <1>2, <1>5, <2>1, <2>2, QuietMove
         DEF AcquireLock, Moves, Progress, Early, Counted
<1>6. CASE LockBusy(t)
  <2> DEFINE next == [threads[t] EXCEPT !.pc = "after", !.exc = "locked"]
  <2>1. Moves(threads[t], next) /\ next.pc = "after" /\ next.exc = "locked"

    BY <1>1, <1>6 DEF LockBusy, Moves, Thread
  <2>2. Becomes(t, next)
    BY <1>6 DEF LockBusy, Raise
  <2> HIDE DEF next
  <2> QED BY <1>1, <1>2, <1>6, <2>1, <2>2, QuietMove
         DEF LockBusy, Moves, Progress, Early, Counted
<1>7. CASE ReleaseLock(t)
  <2> DEFINE next == [threads[t] EXCEPT !.pc = "after"]
  <2>1. Moves(threads[t], next) /\ next.pc = "after" /\ next.exc = threads[t].exc

    BY <1>1, <1>7 DEF ReleaseLock, Moves, Thread
  <2>2. Becomes(t, next)
    BY <1>7 DEF ReleaseLock, Goto
  <2> HIDE DEF next
  <2> QED BY <1>1, <1>2, <1>7, <2>1, <2>2, QuietMove
         DEF ReleaseLock, Moves, Progress, Early, Counted
<1> QED BY <1>3, <1>4, <1>5, <1>6, <1>7

\* The work under the lock that changes only the thread's local variables.
LEMMA LocalSteps ==
  ASSUME IInv, Books, NEW t \in Threads,
         \/ RunRaises(t) \/ AiSendToUid(t)
         \/ \E chosen \in SUBSET Contacts : EnsureActive(t, chosen) \/ Prepare(t, chosen)
         \/ \E c \in Contacts : SkipContact(t, c)
  PROVE  BookStep(t)
<1>1. threads[t] \in Thread /\ Progress(t)
  BY ThreadFacts DEF Books
<1>2. runs' = runs /\ ghosts' = ghosts
  BY DEF RunRaises, AiSendToUid, EnsureActive, Prepare, SkipContact
<1> USE DEF Untouched, Unrecorded
<1>3. CASE RunRaises(t)
  <2> DEFINE next == [threads[t] EXCEPT !.pc = "release", !.exc = "other"]
  <2>1. Moves(threads[t], next) /\ next.pc = "release" /\ next.exc = "other"

    BY <1>1, <1>3 DEF RunRaises, Moves, Thread
  <2>2. Becomes(t, next)
    BY <1>3 DEF RunRaises, Raise
  <2> HIDE DEF next
  <2> QED BY <1>1, <1>2, <1>3, <2>1, <2>2, QuietMove
         DEF RunRaises, Moves, Progress, Early, Counted
<1>4. CASE AiSendToUid(t)
  <2> DEFINE next == [threads[t] EXCEPT !.pc = "release"]
  <2>1. Moves(threads[t], next) /\ next.pc = "release" /\ next.exc = threads[t].exc

    BY <1>1, <1>4 DEF AiSendToUid, Moves, Thread
  <2>2. Becomes(t, next)
    BY <1>4 DEF AiSendToUid, Goto
  <2> HIDE DEF next
  <2> QED BY <1>1, <1>2, <1>4, <2>1, <2>2, QuietMove
         DEF AiSendToUid, Moves, Progress, Early, Counted
<1>5. ASSUME NEW chosen \in SUBSET Contacts, EnsureActive(t, chosen)
      PROVE  BookStep(t)
  <2> DEFINE next == IF threads[t].job = "user_batch"
                     THEN [threads[t] EXCEPT !.pc = "send", !.todo = chosen]
                     ELSE [threads[t] EXCEPT !.pc = "prepare"]
  <2>1. Moves(threads[t], next) /\ next.pc \in {"send", "prepare"} /\ next.exc = threads[t].exc

    BY <1>1, <1>5 DEF EnsureActive, Moves, Thread
  <2>2. Becomes(t, next)
    BY <1>5 DEF EnsureActive
  <2> HIDE DEF next
  <2> QED BY <1>1, <1>2, <1>5, <2>1, <2>2, QuietMove
         DEF EnsureActive, Moves, Progress, Early, Counted, InFlight
<1>6. ASSUME NEW chosen \in SUBSET Contacts, Prepare(t, chosen)
      PROVE  BookStep(t)
  <2> DEFINE next == [threads[t] EXCEPT !.pc = "send", !.todo = chosen]
  <2>1. Moves(threads[t], next) /\ next.pc = "send" /\ next.exc = threads[t].exc

    BY <1>1, <1>6 DEF Prepare, Moves, Thread
  <2>2. Becomes(t, next)
    BY <1>6 DEF Prepare
  <2> HIDE DEF next
  <2> QED BY <1>1, <1>2, <1>6, <2>1, <2>2, QuietMove
         DEF Prepare, Moves, Progress, Early, Counted, InFlight
<1>7. ASSUME NEW c \in Contacts, SkipContact(t, c)
      PROVE  BookStep(t)
  <2> DEFINE next == [threads[t] EXCEPT !.todo = @ \ {c}]
  <2>1. Moves(threads[t], next) /\ next.pc = "send" /\ next.exc = threads[t].exc

    BY <1>1, <1>7 DEF SkipContact, Moves, Thread
  <2>2. Becomes(t, next)
    BY <1>7 DEF SkipContact
  <2> HIDE DEF next
  <2> QED BY <1>1, <1>2, <1>7, <2>1, <2>2, QuietMove
         DEF SkipContact, Moves, Progress, Early, Counted
<1> QED BY <1>3, <1>4, <1>5, <1>6, <1>7

\* Douyin may have the message: the answer is in the thread, or lost with it.
LEMMA SendSteps ==
  ASSUME IInv, Books, NEW t \in Threads,
         \/ \E c \in Contacts : SendOk(t, c)
         \/ \E c \in Contacts : \E reached \in SUBSET {c} : SendFails(t, c, reached)
         \/ \E c \in Contacts, ok \in BOOLEAN : \E reached \in SUBSET {c} :
              ApiSendCalls(t, c, ok, reached)
         \/ \E c \in Contacts : \E reached \in SUBSET {c} : ApiSendRaises(t, reached)
  PROVE  BookStep(t)
<1>0. PICK r : r = threads[t].run
  OBVIOUS
<1>1. threads[t] \in Thread /\ Fits(threads[t]) /\ Progress(t)
  BY ThreadFacts DEF Local, Books
<1>2. runs' = runs /\ threads[t].pc \in {"send", "call"}
  BY DEF SendOk, SendFails, ApiSendCalls, ApiSendRaises
<1>3. r \in Runs /\ runs[r].status = "running" /\ Booked(r)
      /\ delivered \in [Runs -> SUBSET Contacts] /\ acked \in [Runs -> SUBSET Contacts]
  BY <1>0, <1>1, <1>2, ThreadFacts
  DEF Fits, HasRow, OwnRow, OpenAt, Books, LockJobs, AutoJobs, UserJobs, IInv,
      TypeOK
\* One message at most becomes unrecorded: all the others had their items.
<1>4. ASSUME NEW c \in Contacts, NEW reached \in SUBSET {c}, NEW yes \in SUBSET {c},
             NEW next, Becomes(t, next),
             delivered' = [delivered EXCEPT ![r] = @ \cup reached],
             acked' = [acked EXCEPT ![r] = @ \cup yes], unwritten' = unwritten,
             \/ next = Idle
             \/ /\ next.run = r /\ next.exc = threads[t].exc
                /\ next.ok = yes /\ next.bad = {c} \ yes
                /\ \/ /\ threads[t].pc = "send" /\ next.pc = "record"
                      /\ next.sent = threads[t].sent \cup yes
                      /\ next.failed = threads[t].failed \cup ({c} \ yes)
                   \/ threads[t].pc = "call" /\ next.pc = "commit"
      PROVE  BookStep(t)
  <2>1. threads'[t] = next /\ OnlyThread(t)
    BY <1>4, NextLocal
  <2>2. /\ delivered'[r] = delivered[r] \cup reached /\ acked'[r] = acked[r] \cup yes
        /\ unwritten'[r] = unwritten[r] /\ OnlyDelivery(r)
    BY <1>3, <1>4 DEF OnlyDelivery
  <2>3. Unrecorded(r) = {}
    BY <1>0, <1>1, <1>2, <1>3 DEF Progress, Untouched, Unrecorded
  <2> DEFINE items == runs[r].told \cup runs[r].missed \cup unwritten[r]
  <2>4. delivered'[r] \ items \subseteq {c}
    BY <2>2, <2>3 DEF Unrecorded
  <2>5. threads[t].pc = "call" => delivered'[r] \subseteq {c} /\ acked'[r] = yes
    BY <1>0, <1>1, <1>3, <2>2 DEF Progress, Untouched
  <2>6. Progress(t)'
    <3>1. CASE next = Idle
      BY <2>1, <3>1, NullAssumption
      DEF Progress, InFlight, AtMostOne, Idle, Early
    <3>2. CASE next # Idle
      <4>1. /\ threads'[t].run = r /\ InFlight(t)' = {c}
            /\ threads'[t].exc = threads[t].exc /\ threads'[t].exc # "locked"
        BY <1>1, <1>2, <1>4, <2>1, <3>2 DEF InFlight, Progress
      <4>2. CASE threads[t].pc = "send"
        <5>1. Counted(t, r)
          BY <1>0, <1>1, <1>3, <4>2 DEF Progress
        <5>2. Counted(t, r)'
          <6>1. /\ next.sent = threads[t].sent \cup yes /\ next.ok = yes
                /\ next.failed = threads[t].failed \cup ({c} \ yes)
                /\ next.bad = {c} \ yes /\ runs'[r] = runs[r]
            BY <1>2, <1>4, <3>2, <4>2
          <6>2. acked'[r] = next.sent
            BY <2>2, <5>1, <6>1 DEF Counted
          <6>3. delivered'[r] \subseteq next.sent \cup next.failed
            BY <2>2, <5>1, <6>1 DEF Counted
          <6>4. runs[r].told \cup next.ok \subseteq next.sent
            BY <5>1, <6>1 DEF Counted
          <6>5. runs[r].missed \cup next.bad \subseteq next.failed
            BY <5>1, <6>1 DEF Counted
          <6> QED BY <2>1, <6>1, <6>2, <6>3, <6>4, <6>5 DEF Counted
        <5>3. Unrecorded(r)' \subseteq {c}
          BY <1>2, <2>2, <2>4 DEF Unrecorded
        <5> QED BY <1>4, <2>1, <3>2, <4>1, <4>2, <5>2, <5>3 DEF Progress, AtMostOne, Early
      <4>3. CASE threads[t].pc = "call"
        BY <1>4, <2>1, <2>5, <3>2, <4>1, <4>3 DEF Progress, AtMostOne, Early
      <4> QED BY <1>2, <4>2, <4>3
    <3> QED BY <3>1, <3>2
  <2>7. delivered'[r] \ (runs'[r].told \cup runs'[r].missed \cup unwritten'[r]) \subseteq {c}
    BY <1>2, <2>2, <2>4
  <2>8. Booked(r)'
    BY <1>2, <1>3, <2>7 DEF Booked, AtMostOne, Unrecorded, Ended
  <2>9. OnlyRow(r)
    BY <1>2 DEF OnlyRow
  <2> QED BY <1>0, <1>3, <2>1, <2>2, <2>6, <2>8, <2>9, RowStep
<1>5. ASSUME NEW c \in Contacts, SendOk(t, c)
      PROVE  BookStep(t)
  <2> DEFINE next == [threads[t] EXCEPT !.pc = "record", !.todo = @ \ {c},
                                        !.ok = {c}, !.sent = @ \cup {c},
                                        !.streak = 0]
  <2>1. /\ next.run = r /\ next.exc = threads[t].exc /\ next.pc = "record"
        /\ next.ok = {c} /\ next.bad = threads[t].bad
        /\ next.sent = threads[t].sent \cup {c} /\ next.failed = threads[t].failed
    BY <1>0, <1>1 DEF Thread
  <2>2. /\ Becomes(t, next) /\ threads[t].pc = "send" /\ threads[t].bad = {}
        /\ delivered' = [delivered EXCEPT ![r] = @ \cup {c}]
        /\ acked' = [acked EXCEPT ![r] = @ \cup {c}] /\ unwritten' = unwritten
    BY <1>1, <1>0, <1>5 DEF SendOk, Progress, InFlight
  <2> HIDE DEF next
  <2>3. {c} \ {c} = {} /\ threads[t].failed \cup ({c} \ {c}) = threads[t].failed
        /\ {c} \in SUBSET {c}
    OBVIOUS
  <2> QED BY <1>4, <2>1, <2>2, <2>3
<1>6. ASSUME NEW c \in Contacts, NEW reached \in SUBSET {c},
             SendFails(t, c, reached)
      PROVE  BookStep(t)
  <2> DEFINE next == [threads[t] EXCEPT !.pc = "record", !.todo = @ \ {c},
                                        !.bad = {c}, !.failed = @ \cup {c},
                                        !.streak = @ + 1]
  <2>1. /\ next.run = r /\ next.exc = threads[t].exc /\ next.pc = "record"
        /\ next.ok = threads[t].ok /\ next.bad = {c}
        /\ next.sent = threads[t].sent /\ next.failed = threads[t].failed \cup {c}
    BY <1>0, <1>1 DEF Thread
  <2>2. /\ Becomes(t, next) /\ threads[t].pc = "send" /\ threads[t].ok = {}
        /\ delivered' = [delivered EXCEPT ![r] = @ \cup reached]
        /\ acked' = acked /\ unwritten' = unwritten
    BY <1>1, <1>0, <1>6 DEF SendFails, Progress, InFlight
  <2> HIDE DEF next
  <2>3. acked' = [acked EXCEPT ![r] = @ \cup {}]
    BY <2>2 DEF IInv, TypeOK
  <2>4. PICK none \in SUBSET {c} : none = {}
    OBVIOUS
  <2>5. /\ acked' = [acked EXCEPT ![r] = @ \cup none]
        /\ next.ok = none /\ next.bad = {c} \ none
        /\ next.sent = threads[t].sent \cup none
        /\ next.failed = threads[t].failed \cup ({c} \ none)
    BY <2>1, <2>2, <2>3, <2>4
  <2> QED BY <1>4, <2>1, <2>2, <2>5
<1>7. ASSUME NEW c \in Contacts, NEW ok \in BOOLEAN, NEW reached \in SUBSET {c},
             ApiSendCalls(t, c, ok, reached)
      PROVE  BookStep(t)
  <2> DEFINE yes == IF ok THEN {c} ELSE {}
             next == [threads[t] EXCEPT !.pc = "commit",
                                        !.ok  = IF ok THEN {c} ELSE {},
                                        !.bad = IF ok THEN {} ELSE {c}]
  <2>1. /\ next.run = r /\ next.exc = threads[t].exc /\ next.pc = "commit"
        /\ next.ok = yes /\ next.bad = {c} \ yes
    BY <1>0, <1>1 DEF Thread
  <2>2. /\ Becomes(t, next) /\ threads[t].pc = "call" /\ unwritten' = unwritten
        /\ delivered' = [delivered EXCEPT ![r] = @ \cup reached]
        /\ acked' = [acked EXCEPT ![r] = @ \cup yes]
    BY <1>0, <1>7 DEF ApiSendCalls
  <2>3. yes \in SUBSET {c}
    OBVIOUS
  <2> HIDE DEF next, yes
  <2> QED BY <1>4, <2>1, <2>2, <2>3
<1>8. ASSUME NEW c \in Contacts, NEW reached \in SUBSET {c},
             ApiSendRaises(t, reached)
      PROVE  BookStep(t)
  <2>1. /\ Becomes(t, Idle) /\ acked' = acked /\ unwritten' = unwritten
        /\ delivered' = [delivered EXCEPT ![r] = @ \cup reached]
    BY <1>0, <1>8 DEF ApiSendRaises
  <2>2. acked' = [acked EXCEPT ![r] = @ \cup {}] /\ {} \in SUBSET {c}
    BY <2>1 DEF IInv, TypeOK
  <2> QED BY <1>4, <2>1, <2>2
<1> QED BY <1>5, <1>6, <1>7, <1>8

\* A row is opened: nothing was sent for it, nothing is written in it.
LEMMA OpenSteps ==
  ASSUME IInv, Books, NEW t \in Threads, NEW r \in Runs,
         InsertRun(t, r) \/ CreateRun(t, r)
  PROVE  BookStep(t)
<1>1. threads[t] \in Thread /\ Progress(t) /\ Booked(r) /\ now \in Nat
  BY ThreadFacts DEF Books, IInv, TypeOK
<1>2. PICK pc \in {"call", "trylock", "setup"} : OpenRow(t, r, pc)
  BY DEF InsertRun, CreateRun
<1>3. ghosts' = ghosts /\ threads[t].pc \in {"insert", "create"}
  BY DEF InsertRun, CreateRun
<1> DEFINE next == [threads[t] EXCEPT !.pc = pc, !.run = r]
           row  == NewRow(threads[t].job)
<1>4. /\ next.pc = pc /\ next.run = r /\ next.exc = threads[t].exc
      /\ next.ok = threads[t].ok /\ next.bad = threads[t].bad
      /\ next.sent = threads[t].sent /\ next.failed = threads[t].failed
  BY <1>1 DEF Thread
<1>5. row.told = {} /\ row.missed = {} /\ row.status = "running"
  BY DEF NewRow, Absent
<1>6. /\ runs[r].status = "absent" /\ runs' = WithRow(r, row)
      /\ Becomes(t, next)
  BY <1>2 DEF OpenRow
<1> HIDE DEF next, row
<1>7. /\ runs'[r] = row /\ OnlyRow(r) /\ OnlyDelivery(r)
      /\ threads'[t] = next /\ OnlyThread(t)
  BY <1>3, <1>6, NextLocal
  DEF WithRow, OnlyRow, OnlyDelivery, IInv, TypeOK, ghosts
<1>8. delivered'[r] = {} /\ acked'[r] = {}
  BY <1>1, <1>3, <1>6 DEF Booked, Untouched, ghosts
<1>9. Progress(t)'
  BY <1>1, <1>3, <1>4, <1>5, <1>7, <1>8
  DEF Progress, InFlight, AtMostOne, Untouched, Early
<1>10. Booked(r)'
  BY <1>5, <1>7, <1>8 DEF Booked, AtMostOne, Unrecorded, Ended
<1>11. ASSUME NEW u \in Threads \ {t} PROVE threads[u].run # r
  BY <1>6 DEF IInv, RowInv, OwnRow
<1> QED BY <1>6, <1>7, <1>9, <1>10, <1>11 DEF BookStep, Touches

\* A row that is closed from outside the work keeps its items, what happened
\* for it and its unrecorded message.
LEMMA CloseStep ==
  ASSUME IInv, Books, NEW t \in Threads, NEW r \in Runs, threads[t].run = r,
         runs[r].status = "running", ghosts' = ghosts,
         NEW cause \in {"setup", "locked", "raised"},
         runs' = CloseAs(r, "error", cause),
         cause # "raised" => acked[r] = {},
         NEW next, Becomes(t, next),
         \/ next = Idle
         \/ /\ next.run = r /\ next.pc = "release" /\ next.exc # "locked"
            /\ next.ok = {} /\ next.bad = {}
  PROVE  BookStep(t)
<1>1. runs[r] \in Row /\ Booked(r)
  BY DEF IInv, TypeOK, Books
<1>2. /\ runs'[r].told = runs[r].told /\ runs'[r].missed = runs[r].missed
      /\ runs'[r].status = "error" /\ runs'[r].cause = cause
      /\ runs'[r].job = runs[r].job
  BY <1>1 DEF CloseAs, WithRow, Row, IInv, TypeOK
<1>3. /\ OnlyRow(r) /\ OnlyDelivery(r) /\ delivered'[r] = delivered[r]
      /\ acked'[r] = acked[r] /\ unwritten'[r] = unwritten[r]
      /\ threads'[t] = next /\ OnlyThread(t)
  BY NextLocal DEF CloseAs, WithRow, OnlyRow, OnlyDelivery, IInv, TypeOK, ghosts
<1>4. Progress(t)'
  BY <1>3, NullAssumption DEF Progress, InFlight, AtMostOne, Idle, Early
<1>5. Booked(r)'
  BY <1>1, <1>2, <1>3 DEF Booked, AtMostOne, Unrecorded, OwnCauses, Ended
<1> QED BY <1>3, <1>4, <1>5, RowStep

\* The work's own end: the setup failed, or the last commit.
LEMMA FinishSteps ==
  ASSUME IInv, Books, NEW t \in Threads,
         \/ \E exc \in {"notready", "other"} : EnsureActiveFails(t, exc)
         \/ FinishRun(t)
  PROVE  BookStep(t)
<1>1. threads[t] \in Thread /\ Fits(threads[t]) /\ Progress(t)
  BY ThreadFacts DEF Local, Books
<1>2. PICK r : r = threads[t].run
  OBVIOUS
<1>3. ASSUME NEW exc \in {"notready", "other"}, EnsureActiveFails(t, exc)
      PROVE  BookStep(t)
  <2> DEFINE next == [threads[t] EXCEPT !.pc = "release", !.exc = exc]
  <2>1. /\ next.pc = "release" /\ next.exc = exc /\ Moves(threads[t], next)
    BY <1>1 DEF Thread, Moves
  <2>2. Becomes(t, next) /\ ghosts' = ghosts /\ threads[t].pc = "setup"
    BY <1>3 DEF EnsureActiveFails, Raise
  <2> HIDE DEF next
  <2>3. CASE threads[t].job \in AutoJobs
    <3>1. r \in Runs /\ runs[r].status = "running" /\ acked[r] = {}
      BY <1>1, <1>2, <2>2, <2>3, ThreadFacts
      DEF Fits, HasRow, AutoJobs, OwnRow, OpenAt, Progress, Untouched
    <3>2. runs' = CloseAs(r, "error", "setup")
      BY <1>2, <1>3, <2>3 DEF EnsureActiveFails
    <3> QED BY <1>1, <1>2, <2>1, <2>2, <3>1, <3>2, CloseStep
            DEF Moves, Progress, InFlight
  <2>4. CASE threads[t].job \notin AutoJobs
    <3>1. runs' = runs
      BY <1>3, <2>4 DEF EnsureActiveFails
    <3> QED BY <1>1, <2>1, <2>2, <3>1, QuietMove DEF Moves, Progress, Early
  <2> QED BY <2>3, <2>4
<1>4. CASE FinishRun(t)
  <2> DEFINE next == [threads[t] EXCEPT !.pc = "release"]
  <2>1. /\ next.pc = "release" /\ next.exc = threads[t].exc
        /\ Moves(threads[t], next)
    BY <1>1 DEF Thread, Moves
  <2>2. Becomes(t, next) /\ ghosts' = ghosts /\ threads[t].pc = "send"
    BY <1>4 DEF FinishRun, Goto
  <2> HIDE DEF next
  <2>3. r \in Runs /\ runs[r].status = "running" /\ runs[r].job = threads[t].job
        /\ runs[r] \in Row
    BY <1>1, <1>2, <2>2, ThreadFacts
    DEF Fits, HasRow, LockJobs, AutoJobs, UserJobs, OwnRow, OpenAt
  <2>4. PICK row \in Row :
          /\ row = Summary(t) /\ row.job = runs[r].job
          /\ row.status \in {"done", "error"} /\ row.status = FinalStatus(t)
          /\ row.told = runs[r].told /\ row.missed = runs[r].missed
          /\ row.sent = threads[t].sent /\ row.failed = threads[t].failed
    BY <1>1, <1>2, <2>3, SummaryRow DEF IInv
  <2>5. /\ runs'[r] = row /\ OnlyRow(r) /\ OnlyDelivery(r)
        /\ delivered'[r] = delivered[r] /\ acked'[r] = acked[r]
        /\ unwritten'[r] = unwritten[r]
        /\ threads'[t] = next /\ OnlyThread(t)
    BY <1>2, <1>4, <2>2, <2>3, <2>4, NextLocal
    DEF FinishRun, WithRow, OnlyRow, OnlyDelivery, IInv, TypeOK, ghosts
  <2>6. Counted(t, r) /\ Unrecorded(r) = {} /\ InFlight(t) = {}
        /\ threads[t].exc # "locked"
    BY <1>1, <1>2, <2>2, <2>3 DEF Progress
  <2>7. Progress(t)'
    BY <1>2, <2>1, <2>5, <2>6 DEF Progress, InFlight, AtMostOne, Moves, Early
  <2>8. Unrecorded(r)' = {}
    BY <2>4, <2>5, <2>6 DEF Unrecorded
  <2>9. Complete(r)'
    BY <2>4, <2>5, <2>6 DEF Complete, Counted
  <2>10. row.status = "error" => acked'[r] = {}
    BY <2>4, <2>5, <2>6 DEF FinalStatus, Counted
  <2>11. Booked(r)'
    BY <2>4, <2>5, <2>8, <2>9, <2>10 DEF Booked, AtMostOne
  <2> QED BY <1>2, <2>3, <2>5, <2>7, <2>11, RowStep
<1> QED BY <1>3, <1>4

\* The runner's end: it closes what the job left open, and only that.
LEMMA RunnerSteps ==
  ASSUME IInv, Books, NEW t \in Threads, RunnerCloses(t)
  PROVE  BookStep(t)
<1>1. threads[t] \in Thread /\ Fits(threads[t]) /\ Progress(t)
  BY ThreadFacts DEF Local, Books
<1>2. PICK r : r = threads[t].run
  OBVIOUS
<1>3. r \in Runs /\ Becomes(t, Idle) /\ ghosts' = ghosts
  BY <1>1, <1>2 DEF RunnerCloses, Fits, HasRow
<1>4. CASE runs[r].status = "running"
  <2>1. threads[t].exc # "none"
    BY <1>2, <1>3, <1>4 DEF RunnerCloses, IInv, RowInv, OwnRow
  <2>2. PICK cause \in {"locked", "raised"} :
          /\ runs' = CloseAs(r, "error", cause)
          /\ cause = "locked" => threads[t].exc = "locked"
    BY <1>2, <1>4, <2>1 DEF RunnerCloses, ClosedByRunner, CloseRun, RunnerCause
  <2>3. threads[t].exc = "locked" => acked[r] = {}
    BY <1>1, <1>2, <1>3 DEF Progress, Untouched
  <2> QED BY <1>2, <1>3, <1>4, <2>2, <2>3, CloseStep
<1>5. CASE runs[r].status # "running"
  <2>1. runs' = runs
    BY <1>2, <1>5 DEF RunnerCloses, ClosedByRunner, CloseRun
  <2>2. Progress(t)'
    BY <1>3, NextLocal, NullAssumption DEF Progress, InFlight, AtMostOne, Idle, Early
  <2> QED BY <1>3, <2>1, <2>2, QuietStep
<1> QED BY <1>4, <1>5

\* An item is committed or lost, or the one row of a single send is written:
\* nothing is unrecorded any more.
LEMMA ItemStep ==
  ASSUME IInv, Books, NEW t \in Threads, NEW item \in Commits, NEW cause \in Commits,
         RecordItem(t, item, cause)
  PROVE  BookStep(t)
<1>1. threads[t] \in Thread /\ Fits(threads[t]) /\ Progress(t)
  BY ThreadFacts DEF Local, Books
<1>2. PICK r : r = threads[t].run
  OBVIOUS
<1>3. r \in Runs /\ runs[r].status = "running" /\ runs[r] \in Row
      /\ delivered' = delivered /\ acked' = acked /\ threads[t].pc = "record"
  BY <1>1, <1>2, ThreadFacts
  DEF Fits, HasRow, LockJobs, AutoJobs, UserJobs, OwnRow, OpenAt, RecordItem
<1>4. PICK row \in Row :
        /\ row = Recorded(t, item, cause)
        /\ row.job = runs[r].job /\ row.status = "running"
        /\ item => /\ row.told = runs[r].told \cup threads[t].ok
                   /\ row.missed = runs[r].missed \cup threads[t].bad
        /\ ~item => row.told = runs[r].told /\ row.missed = runs[r].missed
  BY <1>1, <1>2, <1>3, RecordedRow
<1> DEFINE next == [threads[t] EXCEPT
                      !.pc = "send", !.ok = {}, !.bad = {},
                      !.todo = IF BreakerTrips(t) THEN {} ELSE @]
<1>5. /\ next.pc = "send" /\ next.run = r /\ next.exc = threads[t].exc
      /\ next.ok = {} /\ next.bad = {}
      /\ next.sent = threads[t].sent /\ next.failed = threads[t].failed
  BY <1>1, <1>2 DEF Thread
<1>6. Becomes(t, next) /\ runs' = WithRow(r, row)
  BY <1>2, <1>4 DEF RecordItem
<1>7. /\ item => unwritten' = unwritten
      /\ ~item => unwritten' = [unwritten EXCEPT
                                 ![r] = @ \cup threads[t].ok \cup threads[t].bad]
  BY <1>2 DEF RecordItem
<1> HIDE DEF next
<1>8. /\ runs'[r] = row /\ OnlyRow(r)
      /\ threads'[t] = next /\ OnlyThread(t)
  BY <1>3, <1>6, NextLocal DEF WithRow, OnlyRow, IInv, TypeOK
<1>9. /\ item => unwritten'[r] = unwritten[r]
      /\ ~item => unwritten'[r] = unwritten[r] \cup InFlight(t)
      /\ \A s \in Runs \ {r} : unwritten'[s] = unwritten[s]
  BY <1>3, <1>7 DEF InFlight, IInv, TypeOK
<1>10. Unrecorded(r) \subseteq InFlight(t) /\ Counted(t, r) /\ threads[t].exc # "locked"
  BY <1>1, <1>2, <1>3 DEF Progress
<1>11. Unrecorded(r)' = {}
  BY <1>3, <1>4, <1>8, <1>9, <1>10 DEF Unrecorded, InFlight
<1>12. Counted(t, r)'
  BY <1>3, <1>4, <1>5, <1>8, <1>10 DEF Counted
<1>13. Progress(t)'
  BY <1>5, <1>8, <1>10, <1>11, <1>12 DEF Progress, InFlight, AtMostOne, Early
<1>14. Booked(r)'
  BY <1>4, <1>8, <1>11 DEF Booked, AtMostOne, Ended
<1>15. OnlyDelivery(r)
  BY <1>3, <1>9 DEF OnlyDelivery
<1> QED BY <1>2, <1>3, <1>8, <1>13, <1>14, <1>15, RowStep

LEMMA SingleItemStep ==
  ASSUME IInv, Books, NEW t \in Threads, ApiSendCloses(t)
  PROVE  BookStep(t)
<1>1. threads[t] \in Thread /\ Fits(threads[t]) /\ Progress(t)
  BY ThreadFacts DEF Local, Books
<1>2. PICK r : r = threads[t].run
  OBVIOUS
<1>3. r \in Runs /\ runs[r].status = "running" /\ runs[r] \in Row
      /\ ghosts' = ghosts /\ threads[t].pc = "commit"
  BY <1>1, <1>2, ThreadFacts DEF Fits, HasRow, OwnRow, OpenAt, ApiSendCloses
<1> DEFINE row == [runs[r] EXCEPT !.status = "done", !.end = now,
                                  !.told = threads[t].ok,
                                  !.missed = threads[t].bad,
                                  !.sent = threads[t].ok,
                                  !.failed = threads[t].bad]
<1>4. /\ row.status = "done" /\ row.told = threads[t].ok
      /\ row.missed = threads[t].bad /\ row.sent = threads[t].ok
      /\ row.failed = threads[t].bad
  BY <1>3 DEF Row
<1>5. Becomes(t, Idle) /\ runs' = WithRow(r, row)
  BY <1>2 DEF ApiSendCloses
<1> HIDE DEF row
<1>6. /\ runs'[r] = row /\ OnlyRow(r) /\ OnlyDelivery(r)
      /\ delivered'[r] = delivered[r] /\ acked'[r] = acked[r]
      /\ threads'[t] = Idle /\ OnlyThread(t)
  BY <1>3, <1>5, NextLocal DEF WithRow, OnlyRow, OnlyDelivery, IInv, TypeOK, ghosts
<1>7. Progress(t)'
  BY <1>6, NullAssumption DEF Progress, InFlight, AtMostOne, Idle, Early
<1>8. delivered[r] \subseteq threads[t].ok \cup threads[t].bad /\ acked[r] = threads[t].ok
  BY <1>1, <1>2, <1>3 DEF Progress, InFlight
<1>9. Unrecorded(r)' = {} /\ Complete(r)'
  BY <1>4, <1>6, <1>8 DEF Unrecorded, Complete
<1>10. Booked(r)'
  BY <1>4, <1>6, <1>9 DEF Booked, AtMostOne
<1> QED BY <1>2, <1>3, <1>6, <1>7, <1>10, RowStep

\* Whatever a thread does, it writes and sends for one open row at most, and
\* leaves the books in order.
LEMMA ThreadBooks ==
  ASSUME IInv, Books, NEW t \in Threads,
         ThreadStep(t) \/ Request(t) \/ SchedulerTriggers(t)
  PROVE  BookStep(t)
BY QuietSteps, LocalSteps, SendSteps, OpenSteps, FinishSteps, RunnerSteps,
   ItemStep, SingleItemStep
DEF ThreadStep, RunStep, AiStep, SingleStep

------------------------------------------------------------------------------
(* The books hold. *)

\* Nothing is delivered and nothing is written at the start.
LEMMA InitBooks == Init => Books /\ MarkedDayHasDoneRun
BY NullAssumption
DEF Init, Books, Progress, Booked, InFlight, AtMostOne, Untouched, Unrecorded,
    Idle, Absent, AutoJobs, MarkedDayHasDoneRun, Early, Ended

\* A crash takes what was in flight along: the rows stay as they are.
LEMMA CrashBooks ==
  ASSUME Books, Crash
  PROVE  Books'
<1>1. \A t \in Threads : threads'[t] = Idle
  BY DEF Crash
<1>2. runs' = runs /\ ghosts' = ghosts
  BY DEF Crash
<1>3. ASSUME NEW t \in Threads PROVE Progress(t)'
  BY <1>1, NullAssumption DEF Progress, InFlight, AtMostOne, Idle, Early
<1>4. ASSUME NEW r \in Runs PROVE Booked(r)'
  BY <1>2 DEF Books, Booked, Untouched, Unrecorded, Ended, Complete, ghosts
<1> QED BY <1>3, <1>4 DEF Books

\* What the restart's cleanup writes into a row, and where it writes nothing.
LEMMA RestartRow ==
  ASSUME IInv, Restart, NEW r \in Runs
  PROVE  /\ runs[r].status # "running" => runs'[r] = runs[r]
         /\ runs[r].status = "running" =>
              /\ runs'[r].status = "error" /\ runs'[r].cause = "restart"
              /\ runs'[r].told = runs[r].told /\ runs'[r].missed = runs[r].missed
BY DEF Restart, CleanupStaleRuns, IInv, TypeOK, Row

\* The restart blames itself, not the run: its rows may have told somebody.
LEMMA RestartBooks ==
  ASSUME IInv, Books, Restart
  PROVE  Books'
<1>1. \A t \in Threads : threads'[t] = Idle
  BY DEF IInv, UpInv, Restart
<1>2. delivered' = delivered /\ acked' = acked /\ unwritten' = unwritten
  BY DEF Restart, ghosts
<1>3. ASSUME NEW t \in Threads PROVE Progress(t)'
  BY <1>1, NullAssumption DEF Progress, InFlight, AtMostOne, Idle, Early
<1>4. ASSUME NEW r \in Runs PROVE Booked(r)'
  <2>1. Booked(r)
    BY DEF Books
  <2> QED BY <1>2, <2>1, RestartRow
          DEF Booked, Untouched, Unrecorded, OwnCauses, Ended, Complete
<1> QED BY <1>3, <1>4 DEF Books

\* The scan, the form, a login and the clock write no row.
LEMMA OthersQuiet ==
  ASSUME \/ SchedulerScan \/ SchedulerSeesRunning \/ SchedulerCountsErrors
         \/ SchedulerBacksOff
         \/ \E enabled \in BOOLEAN, time \in Times : SetSchedule(enabled, time)
         \/ Relogin \/ CookiesHealthCheck \/ Tick
         \/ UNCHANGED vars
  PROVE  UNCHANGED <<runs, threads, ghosts>>
BY DEF SchedulerScan, SchedulerSeesRunning, SchedulerCountsErrors,
   SchedulerBacksOff, SetSchedule, Relogin, CookiesHealthCheck, Tick, vars

\* A step is a thread's, a crash, a restart, or none that writes a row.
LEMMA StepKinds ==
  ASSUME [Next]_vars
  PROVE  \/ \E t \in Threads : ThreadStep(t) \/ Request(t) \/ SchedulerTriggers(t)
         \/ Crash
         \/ Restart
         \/ UNCHANGED <<runs, threads, ghosts>>
BY OthersQuiet DEF Next, SchedulerStep, Environment

\* Every step keeps the books.
LEMMA NextBooks ==
  ASSUME IInv, Books, [Next]_vars
  PROVE  Books'
<1>1. CASE \E t \in Threads : ThreadStep(t) \/ Request(t) \/ SchedulerTriggers(t)
  BY <1>1, ThreadBooks, BookStepKeeps
<1>2. CASE Crash
  BY <1>2, CrashBooks
<1>3. CASE Restart
  BY <1>3, RestartBooks
<1>4. CASE UNCHANGED <<runs, threads, ghosts>>
  <2>1. ASSUME NEW t \in Threads PROVE Progress(t)'
    <3>1. Progress(t)
      BY DEF Books
    <3> QED BY <1>4, <3>1 DEF Progress, InFlight, Untouched, Unrecorded, Counted, ghosts
  <2>2. ASSUME NEW r \in Runs PROVE Booked(r)'
    <3>1. Booked(r)
      BY DEF Books
    <3> QED BY <1>4, <3>1 DEF Booked, Untouched, Unrecorded, Ended, Complete, ghosts
  <2> QED BY <2>1, <2>2 DEF Books
<1> QED BY <1>1, <1>2, <1>3, <1>4, StepKinds

------------------------------------------------------------------------------
(* A closed row is final, and the marked day rests on one. *)

\* Once a run is closed nothing about it changes: no late item, no second close
\* by the runner or the restart, no message on its account.
ClosedRunIsFinal ==
  \A r \in Runs : runs[r].status \in {"done", "error"} =>
    /\ runs'[r] = runs[r] /\ delivered'[r] = delivered[r]
    /\ acked'[r] = acked[r] /\ unwritten'[r] = unwritten[r]

LEMMA NextClosed ==
  ASSUME IInv, Books, [Next]_vars
  PROVE  ClosedRunIsFinal
<1>1. ASSUME NEW t \in Threads,
             ThreadStep(t) \/ Request(t) \/ SchedulerTriggers(t)
      PROVE  ClosedRunIsFinal
  <2>1. PICK x \in Runs \cup {NoRun} : Touches(t, x)
    BY <1>1, ThreadBooks DEF BookStep
  <2> QED BY <2>1 DEF Touches, OnlyRow, OnlyDelivery, ClosedRunIsFinal
<1>2. CASE Restart
  BY <1>2, RestartRow DEF ClosedRunIsFinal, Restart, ghosts
<1>3. CASE Crash \/ UNCHANGED <<runs, threads, ghosts>>
  BY <1>3 DEF ClosedRunIsFinal, Crash, ghosts
<1> QED BY <1>1, <1>2, <1>3, StepKinds

\* The day is marked by a run that ends well, in the commit that closes it, and
\* by nothing else; the form can only forget it.
LEMMA MarkSteps ==
  ASSUME IInv, [Next]_vars
  PROVE  \/ schedule'.lastRan \in {schedule.lastRan, NoDay}
         \/ /\ schedule'.lastRan = Day(now)
            /\ \E r \in Runs : /\ runs'[r].job \in AutoJobs
                               /\ runs'[r].status = "done"
                               /\ runs'[r].end = now
<1>1. ASSUME NEW t \in Threads, FinishRun(t)
      PROVE  \/ schedule' = schedule
             \/ /\ schedule'.lastRan = Day(now)
                /\ \E r \in Runs : /\ runs'[r].job \in AutoJobs
                                   /\ runs'[r].status = "done"
                                   /\ runs'[r].end = now
  <2>1. CASE threads[t].job \in AutoJobs /\ FinalStatus(t) = "done"
    <3>1. PICK r : r = threads[t].run
      OBVIOUS
    <3>2. r \in Runs /\ runs[r].job \in AutoJobs /\ runs[r] \in Row
      BY <1>1, <2>1, <3>1, ThreadFacts
      DEF FinishRun, Local, Fits, HasRow, AutoJobs, OwnRow
    <3>3. PICK row \in Row : /\ row = Summary(t) /\ row.job = runs[r].job
                             /\ row.status = "done" /\ row.end = now
      BY <2>1, <3>1, <3>2, ThreadFacts, SummaryRow DEF IInv, Local
    <3>4. /\ runs'[r].job \in AutoJobs /\ runs'[r].status = "done"
          /\ runs'[r].end = now
      BY <1>1, <3>1, <3>2, <3>3 DEF FinishRun, WithRow, IInv, TypeOK
    <3>5. schedule' = [schedule EXCEPT !.lastRan = Day(now)]
      BY <1>1, <2>1 DEF FinishRun, MarkRan
    <3>6. schedule'.lastRan = Day(now)
      BY <3>5 DEF IInv, TypeOK
    <3> QED BY <3>2, <3>4, <3>6
  <2>2. CASE ~(threads[t].job \in AutoJobs /\ FinalStatus(t) = "done")
    BY <1>1, <2>2 DEF FinishRun, MarkRan
  <2> QED BY <2>1, <2>2
<1>2. ASSUME NEW enabled \in BOOLEAN, NEW time \in Times,
             SetSchedule(enabled, time)
      PROVE  schedule'.lastRan \in {schedule.lastRan, NoDay}
  BY <1>2 DEF SetSchedule
<1>3. ASSUME NEW t \in Threads, RunStep(t), ~ FinishRun(t)
      PROVE  schedule' = schedule
  BY <1>3 DEF RunStep, InsertRun, CreateRun, AcquireLock, LockBusy,
     EnsureActive, Prepare, EnsureActiveFails, RunRaises, SkipContact, SendOk,
     SendFails, RecordItem, ReleaseLock, RunnerCloses, RunOneReturns
<1>4. ASSUME NEW t \in Threads,
             AiStep(t) \/ SingleStep(t) \/ Request(t) \/ SchedulerTriggers(t)
      PROVE  schedule' = schedule
  BY <1>4 DEF AiStep, SingleStep, AiSendToUid, AiReturns, ApiSendCalls,
     ApiSendRaises, ApiSendCloses, Request, StartAutoRun, StartBatchSend,
     ApiSend, AiWantsToSend, SchedulerTriggers
<1>5. CASE \/ SchedulerScan \/ SchedulerSeesRunning \/ SchedulerCountsErrors
           \/ SchedulerBacksOff
           \/ Relogin \/ CookiesHealthCheck \/ Tick \/ Crash \/ Restart
           \/ UNCHANGED vars
  BY <1>5 DEF SchedulerScan, SchedulerSeesRunning, SchedulerCountsErrors,
     SchedulerBacksOff, Relogin, CookiesHealthCheck, Tick, Crash, Restart, vars
<1> QED BY <1>1, <1>2, <1>3, <1>4, <1>5
        DEF Next, SchedulerStep, Environment, ThreadStep

LEMMA NextMarked ==
  ASSUME RecordInv, [Next]_vars
  PROVE  MarkedDayHasDoneRun'
<1>1. SUFFICES ASSUME schedule'.lastRan # NoDay
               PROVE  \E r \in Runs :
                        /\ runs'[r].job \in AutoJobs /\ runs'[r].status = "done"
                        /\ Day(runs'[r].end) = schedule'.lastRan
  BY DEF MarkedDayHasDoneRun, Day
<1>2. CASE schedule'.lastRan = schedule.lastRan
  <2>1. PICK r \in Runs : /\ runs[r].job \in AutoJobs /\ runs[r].status = "done"
                          /\ Day(runs[r].end) = schedule.lastRan
    BY <1>1, <1>2 DEF RecordInv, MarkedDayHasDoneRun
  <2>2. runs'[r] = runs[r]
    BY <2>1, NextClosed DEF RecordInv, ClosedRunIsFinal
  <2> QED BY <1>2, <2>1, <2>2
<1>3. CASE schedule'.lastRan # schedule.lastRan
  BY <1>1, <1>3, MarkSteps DEF RecordInv
<1> QED BY <1>2, <1>3

\* The strengthened invariant holds in every reachable state.
LEMMA RecordInvariant == Spec => []RecordInv
<1>1. Init => RecordInv
  BY InitIInv, InitBooks DEF RecordInv
<1>2. RecordInv /\ [Next]_vars => RecordInv'
  BY NextIInv, NextBooks, NextMarked DEF RecordInv
<1> QED BY <1>1, <1>2, PTL DEF Spec

------------------------------------------------------------------------------
(* What follows for the runs. *)

\* Douyin has acknowledged no message of an auto run that auto_run, its setup or
\* the lock itself judged a failure, items written or not, for any breaker,
\* backoff and retry limit and whatever runs, crashes and restarts surround it:
\* the scheduler's retry of such a run repeats none.
THEOREM RetriesRepeatNobody == Spec => []RetryRepeatsNobody
<1>1. RecordInv => RetryRepeatsNobody
  BY DEF RecordInv, Books, Booked, OwnCauses, RetryRepeatsNobody
<1> QED BY <1>1, RecordInvariant, PTL

\* A set of one element or none, counted.
LEMMA CountAtMostOne ==
  ASSUME NEW S, AtMostOne(S)
  PROVE  Cardinality(S) <= 1
<1>1. CASE S = {}
  BY <1>1, FS_EmptySet
<1>2. CASE S # {}
  <2>1. PICK x : x \in S
    BY <1>2
  <2>2. S = {x}
    BY <2>1 DEF AtMostOne
  <2>3. Cardinality(S) = 1
    BY <2>2, FS_Singleton
  <2> QED BY <2>3
<1> QED BY <1>1, <1>2

\* Of every run at most one message reached its contact without an item that
\* says so and without an item commit that failed, however many contacts the run
\* has and wherever the process dies.
THEOREM OneMessageUnrecorded == Spec => []AtMostOneUnrecorded
<1>1. RecordInv => AtMostOneUnrecorded
  BY CountAtMostOne DEF RecordInv, Books, Booked, Unrecorded, AtMostOneUnrecorded
<1> QED BY <1>1, RecordInvariant, PTL

\* The columns of a run that ended are complete although its items need not be:
\* whom Douyin acknowledged is counted as sent, whom a message reached is counted.
THEOREM SummariesAreComplete == Spec => []SummaryIsComplete
<1>1. RecordInv => SummaryIsComplete
  BY DEF RecordInv, Books, Booked, SummaryIsComplete
<1> QED BY <1>1, RecordInvariant, PTL

\* last_ran_date never names a day on which no auto run ended well.
THEOREM MarkedDaysAreEarned == Spec => []MarkedDayHasDoneRun
<1>1. RecordInv => MarkedDayHasDoneRun
  BY DEF RecordInv
<1> QED BY <1>1, RecordInvariant, PTL

\* Closed runs are final: after its last commit neither the row of a run nor
\* what was delivered for it changes, through retries, runners and restarts.
THEOREM ClosedRunsAreFinal == Spec => [][ClosedRunIsFinal]_vars
<1>1. RecordInv /\ [Next]_vars => [ClosedRunIsFinal]_vars
  BY NextClosed DEF RecordInv
<1> QED BY <1>1, RecordInvariant, PTL DEF Spec
==============================================================================
