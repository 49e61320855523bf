-------------------------- MODULE AccountRuns_proofs --------------------------
(***************************************************************************)
(* What AccountRuns promises for any number of threads, runs and contacts, *)
(* any windows and limits, any requests and faults.                        *)
(***************************************************************************)
EXTENDS AccountRuns, TLAPS

\* The local day of a clock value is a day number.
LEMMA DayIsNat == \A x \in Nat : Day(x) \in Nat
BY TimeAssumption DEF Day

------------------------------------------------------------------------------
(* The inductive invariant. *)

\* Which jobs can be at which point of the code, and which of them have a row.
HasRow(th) ==
  \/ th.pc \in {"setup", "prepare", "send", "record", "release"} /\ th.job # "ai"
  \/ th.pc \in {"trylock", "after"} /\ th.job \in UserJobs
  \/ th.pc \in {"call", "commit"}
HasNoRow(th) ==
  \/ th.pc \in {"idle", "insert", "create"}
  \/ th.pc = "trylock" /\ th.job = "sched_auto"
  \/ th.job = "ai"

Fits(th) ==
  /\ th.pc = "idle" => th = Idle
  /\ th.pc # "idle" => th.job # "none"
  /\ th.pc = "insert" => th.job \in UserJobs \cup {"single"}
  /\ th.pc = "create" => th.job = "sched_auto"
  /\ th.pc = "prepare" => th.job \in AutoJobs
  /\ th.pc \in {"send", "record"} => th.job \in LockJobs
  /\ th.pc \in {"call", "commit"} => th.job = "single"
  /\ th.job = "single" => th.pc \in {"insert", "call", "commit"}
  /\ HasRow(th) => th.run \in Runs
  /\ HasNoRow(th) => th.run = NoRun

Local == {th \in Thread : Fits(th)}

\* A thread is between the acquire and the release iff it holds the lock.
LockInv == \A t \in Threads : threads[t].pc \in Critical <=> lock = t

\* A thread's row is its own, still open until the thread closes it, and closed
\* once the thread has left its work without an exception.
OpenAt == {"trylock", "setup", "prepare", "send", "record", "call", "commit"}
OwnRow(t) ==
  /\ runs[threads[t].run].job = threads[t].job
  /\ runs[threads[t].run].status # "absent"
  /\ threads[t].pc \in OpenAt => runs[threads[t].run].status = "running"
  /\ threads[t].pc \in {"release", "after"} /\ threads[t].exc = "none"
       => runs[threads[t].run].status # "running"
RowInv ==
  /\ \A t \in Threads : threads[t].run \in Runs => OwnRow(t)
  /\ \A t, u \in Threads :
       threads[t].run \in Runs /\ threads[t].run = threads[u].run => t = u

\* A dead process has no threads.
UpInv == ~up => \A t \in Threads : threads[t] = Idle

IInv == /\ TypeOK
        /\ threads \in [Threads -> Local]
        /\ LockInv
        /\ RowInv
        /\ UpInv
        /\ UserRunHasRunner

------------------------------------------------------------------------------
(* What the building blocks of the actions do. *)

\* The values that fill an idle thread and an absent row are of their types.
LEMMA IdleType == Idle \in Local /\ Absent \in Row
BY DEF Idle, Absent, Local, Thread, Row, RowJobs, LockJobs, AutoJobs, UserJobs,
       Critical, Fits, HasRow, HasNoRow

\* Writing one thread's local state changes that thread and no other.
LEMMA ThreadBecomes ==
  ASSUME threads \in [Threads -> Local],
         NEW t \in Threads, NEW next \in Local, Becomes(t, next)
  PROVE  /\ threads' \in [Threads -> Local]
         /\ threads'[t] = next
         /\ \A u \in Threads \ {t} : threads'[u] = threads[u]
BY DEF Becomes

\* Writing one row changes that row and no other.
LEMMA RowBecomes ==
  ASSUME runs \in [Runs -> Row], NEW r \in Runs, NEW row \in Row
  PROVE  /\ WithRow(r, row) \in [Runs -> Row]
         /\ WithRow(r, row)[r] = row
         /\ \A s \in Runs \ {r} : WithRow(r, row)[s] = runs[s]
BY DEF WithRow

\* The causes a row can be closed with.
Causes == {"none", "setup", "locked", "raised", "all_failed", "circuit",
           "restart"}

\* Closing a row changes its status, its cause and its end, and no other row.
LEMMA CloseAsRow ==
  ASSUME TypeOK, NEW r \in Runs, NEW status \in {"done", "error"},
         NEW cause \in Causes
  PROVE  /\ CloseAs(r, status, cause) \in [Runs -> Row]
         /\ CloseAs(r, status, cause)[r].status = status
         /\ CloseAs(r, status, cause)[r].job = runs[r].job
         /\ \A s \in Runs \ {r} : CloseAs(r, status, cause)[s] = runs[s]
<1> DEFINE row == [runs[r] EXCEPT !.status = status, !.cause = cause,
                                  !.end = now]
<1>1. runs[r] \in Row
  BY DEF TypeOK
<1>2. row \in Row /\ row.status = status /\ row.job = runs[r].job
  BY <1>1 DEF TypeOK, Row, Causes
<1>3. CloseAs(r, status, cause) = WithRow(r, row)
  BY DEF CloseAs
<1> HIDE DEF row
<1> QED BY <1>2, <1>3, RowBecomes DEF TypeOK

------------------------------------------------------------------------------
(* The shapes a step of one thread can have, and why they keep the invariant. *)

OnlyThread(t) == \A u \in Threads \ {t} : threads'[u] = threads[u]
OnlyRow(r) == \A s \in Runs \ {r} : runs'[s] = runs[s]

\* The lock: kept, taken when it was free, or given back by its holder.
LockShape(t) ==
  \/ /\ lock' = lock
     /\ threads'[t].pc \in Critical <=> threads[t].pc \in Critical
  \/ lock = NoThread /\ lock' = t /\ threads'[t].pc \in Critical
  \/ lock = t /\ lock' = NoThread /\ threads'[t].pc \notin Critical

\* The row: opened, worked on, or left behind.
OpensRow(t) ==
  \E r \in Runs :
    /\ runs[r].status = "absent"
    /\ threads[t].run = NoRun
    /\ threads'[t].run = r /\ threads'[t].pc \in OpenAt
    /\ runs'[r].status = "running" /\ runs'[r].job = threads'[t].job
    /\ OnlyRow(r)
KeepsRow(t) ==
  /\ threads[t].run \in Runs
  /\ threads'[t].run = threads[t].run
  /\ OnlyRow(threads[t].run)
  /\ runs'[threads[t].run].job = threads'[t].job
  /\ runs'[threads[t].run].status # "absent"
  /\ threads'[t].pc \in OpenAt => runs'[threads[t].run].status = "running"
  /\ threads'[t].pc \in {"release", "after"} /\ threads'[t].exc = "none"
       => runs'[threads[t].run].status # "running"
LeavesRow(t) ==
  /\ threads'[t].run = NoRun
  /\ OnlyRow(threads[t].run)
  /\ threads[t].run \in Runs =>
       \/ runs'[threads[t].run].status # "running"
       \/ runs'[threads[t].run] = runs[threads[t].run]
            /\ runs[threads[t].run].job \notin UserJobs

Shape(t) ==
  /\ threads' \in [Threads -> Local]
  /\ runs' \in [Runs -> Row]
  /\ OnlyThread(t)
  /\ LockShape(t)
  /\ OpensRow(t) \/ KeepsRow(t) \/ LeavesRow(t)

\* A step of such a shape, of a live process, keeps the three invariants.
LEMMA ShapeKeeps ==
  ASSUME IInv, NEW t \in Threads, Shape(t), up, up' = up
  PROVE  LockInv' /\ RowInv' /\ UpInv' /\ UserRunHasRunner'
<1> USE NullAssumption
<1>1. LockInv'
  <2>1. SUFFICES ASSUME NEW u \in Threads
                 PROVE  threads'[u].pc \in Critical <=> lock' = u
    BY DEF LockInv
  <2>2. CASE u = t
    BY <2>2 DEF Shape, LockShape, IInv, LockInv
  <2>3. CASE u # t
    BY <2>3 DEF Shape, LockShape, OnlyThread, IInv, LockInv
  <2> QED BY <2>2, <2>3
<1>2. RowInv'
  <2>1. ASSUME NEW u \in Threads \ {t}, threads[u].run \in Runs
        PROVE  /\ threads'[u] = threads[u]
               /\ runs'[threads[u].run] = runs[threads[u].run]
               /\ threads'[t].run # threads[u].run
               /\ runs[threads[u].run].status # "absent"
    <3>1. threads'[u] = threads[u]
      BY DEF Shape, OnlyThread
    <3>2. threads[t].run # threads[u].run /\ OwnRow(u)
      BY <2>1 DEF IInv, RowInv
    <3> QED BY <2>1, <3>1, <3>2 DEF Shape, OpensRow, KeepsRow, LeavesRow,
               OnlyRow, OwnRow
  <2>2. ASSUME NEW u \in Threads, threads'[u].run \in Runs
        PROVE  OwnRow(u)'
    <3>1. CASE u = t
      BY <2>2, <3>1 DEF Shape, OpensRow, KeepsRow, LeavesRow, OwnRow, OpenAt
    <3>2. CASE u # t
      <4>1. threads'[u] = threads[u] /\ threads[u].run \in Runs
        BY <2>2, <3>2 DEF Shape, OnlyThread
      <4>2. OwnRow(u)
        BY <4>1 DEF IInv, RowInv
      <4> QED BY <2>1, <3>2, <4>1, <4>2 DEF OwnRow
    <3> QED BY <3>1, <3>2
  <2>3. ASSUME NEW u \in Threads, NEW v \in Threads, threads'[u].run \in Runs,
               threads'[u].run = threads'[v].run
        PROVE  u = v
    <3>1. CASE u # t /\ v # t
      BY <2>3, <3>1 DEF Shape, OnlyThread, IInv, RowInv
    <3>2. CASE u = t /\ v # t
      BY <2>1, <2>3, <3>2 DEF Shape, OnlyThread
    <3>3. CASE u # t /\ v = t
      BY <2>1, <2>3, <3>3 DEF Shape, OnlyThread
    <3> QED BY <3>1, <3>2, <3>3
  <2> QED BY <2>2, <2>3 DEF RowInv
<1>3. UserRunHasRunner'
  <2>1. SUFFICES ASSUME NEW r \in Runs, runs'[r].status = "running",
                        runs'[r].job \in UserJobs
                 PROVE  \E u \in Threads : threads'[u].run = r
    BY DEF UserRunHasRunner
  <2>2. CASE threads'[t].run = r
    BY <2>2
  <2>3. CASE threads'[t].run # r /\ threads[t].run # r
    <3>1. runs'[r] = runs[r]
      BY <2>3 DEF Shape, OpensRow, KeepsRow, LeavesRow, OnlyRow
    <3>2. PICK u \in Threads : threads[u].run = r
      BY <2>1, <3>1 DEF IInv, UserRunHasRunner
    <3> QED BY <2>3, <3>2 DEF Shape, OnlyThread
  <2>4. CASE threads'[t].run # r /\ threads[t].run = r
    <3>1. ~ KeepsRow(t)
      BY <2>4 DEF KeepsRow
    <3>2. CASE OpensRow(t)
      BY <2>4, <3>2 DEF OpensRow
    <3>3. CASE LeavesRow(t)
      BY <2>1, <2>4, <3>3 DEF LeavesRow
    <3> QED BY <3>1, <3>2, <3>3 DEF Shape
  <2> QED BY <2>2, <2>3, <2>4
<1>4. UpInv'
  BY DEF UpInv
<1> QED BY <1>1, <1>2, <1>3, <1>4

------------------------------------------------------------------------------
(* Every step of a thread has such a shape. *)

\* What the invariant says of one thread: its local variables and its row.
LEMMA ThreadFacts ==
  ASSUME IInv, NEW t \in Threads
  PROVE  /\ threads[t] \in Local /\ threads[t] \in Thread
         /\ threads[t].run \in Runs => OwnRow(t) /\ runs[threads[t].run] \in Row
         /\ threads[t].pc \in Critical <=> lock = t
BY DEF IInv, TypeOK, Local, RowInv, LockInv

\* A thread that leaves the rows alone and stays on its side of the work keeps
\* its row, if it has one.
LEMMA RowUntouched ==
  ASSUME IInv, NEW t \in Threads, runs' = runs,
         threads'[t].run = threads[t].run, threads'[t].job = threads[t].job,
         threads[t].run \in Runs =>
           /\ threads'[t].pc \in OpenAt => threads[t].pc \in OpenAt
           /\ threads'[t].pc \in {"release", "after"} /\ threads'[t].exc = "none"
                => threads[t].pc \in {"release", "after"}
                   /\ threads[t].exc = "none"
  PROVE  KeepsRow(t) \/ LeavesRow(t)
<1>1. threads[t].run \in Runs \cup {NoRun}
  BY ThreadFacts DEF Thread
<1>2. CASE threads[t].run \in Runs
  BY <1>2, ThreadFacts DEF KeepsRow, OnlyRow, OwnRow
<1>3. CASE threads[t].run = NoRun
  BY <1>3, NullAssumption DEF LeavesRow, OnlyRow
<1> QED BY <1>1, <1>2, <1>3

\* A thread that goes idle leaves its row: closed, or nobody's run.
LEMMA BecomesIdle ==
  ASSUME IInv, NEW t \in Threads, Becomes(t, Idle), lock' = lock,
         threads[t].pc \notin Critical,
         runs' \in [Runs -> Row], OnlyRow(threads[t].run),
         threads[t].run \in Runs =>
           \/ runs'[threads[t].run].status # "running"
           \/ runs' = runs /\ threads[t].job \notin UserJobs
  PROVE  Shape(t)
<1>1. /\ threads' \in [Threads -> Local]
      /\ threads'[t] = Idle
      /\ OnlyThread(t)
  BY IdleType, ThreadBecomes DEF IInv, OnlyThread
<1>2. LockShape(t)
  BY <1>1 DEF LockShape, Idle, Critical
<1>3. LeavesRow(t)
  BY <1>1, ThreadFacts DEF LeavesRow, OwnRow, Idle
<1> QED BY <1>1, <1>2, <1>3 DEF Shape

\* A thread that starts with its job.
LEMMA SpawnedShape ==
  ASSUME IInv, NEW t \in Threads, NEW job, NEW pc,
         \/ job \in UserJobs \cup {"single"} /\ pc = "insert"
         \/ job \in {"sched_auto", "ai"} /\ pc = "trylock",
         Spawned(t, job, pc), runs' = runs, lock' = lock
  PROVE  Shape(t)
<1> DEFINE next == [Idle EXCEPT !.job = job, !.pc = pc]
<1>1. next \in Local /\ next.run = NoRun /\ next.pc = pc
  BY DEF Idle, Local, Thread, Fits, HasRow, HasNoRow, RowJobs, LockJobs,
         AutoJobs, UserJobs
<1> HIDE DEF next
<1>2. threads[t] = Idle
  BY ThreadFacts DEF Spawned, Local, Fits
<1>3. /\ threads' \in [Threads -> Local]
      /\ threads'[t] = next
      /\ OnlyThread(t)
  BY <1>1, ThreadBecomes DEF IInv, OnlyThread, Spawned, next
<1>4. LockShape(t)
  BY <1>1, <1>2, <1>3 DEF LockShape, Idle, Critical
<1>5. LeavesRow(t)
  BY <1>1, <1>2, <1>3, NullAssumption DEF LeavesRow, Idle, OnlyRow
<1> QED BY <1>3, <1>4, <1>5 DEF Shape, IInv, TypeOK

\* A thread whose row is inserted.
LEMMA OpenRowShape ==
  ASSUME IInv, NEW t \in Threads, NEW r \in Runs, NEW pc,
         \/ threads[t].pc = "insert" /\ threads[t].job = "single" /\ pc = "call"
         \/ threads[t].pc = "insert" /\ threads[t].job # "single" /\ pc = "trylock"
         \/ threads[t].pc = "create" /\ pc = "setup",
         OpenRow(t, r, pc), lock' = lock
  PROVE  Shape(t)
<1> DEFINE next == [threads[t] EXCEPT !.pc = pc, !.run = r]
           row  == NewRow(threads[t].job)
<1>1. threads[t] \in Thread /\ Fits(threads[t])
  BY ThreadFacts DEF Local
<1>2. next \in Local /\ next.run = r /\ next.pc = pc /\ next.job = threads[t].job
  BY <1>1 DEF Local, Thread, Fits, HasRow, HasNoRow, RowJobs, LockJobs,
              AutoJobs, UserJobs, Critical, Idle
<1>3. row \in Row /\ row.status = "running" /\ row.job = threads[t].job
  BY <1>1 DEF NewRow, Absent, Row, Fits, RowJobs, LockJobs, AutoJobs, UserJobs,
              IInv, TypeOK
<1> HIDE DEF next, row
<1>4. /\ threads' \in [Threads -> Local]
      /\ threads'[t] = next
      /\ OnlyThread(t)
  BY <1>2, ThreadBecomes DEF IInv, OnlyThread, OpenRow, next
<1>5. /\ runs' \in [Runs -> Row] /\ runs'[r] = row /\ OnlyRow(r)
  BY <1>3, RowBecomes DEF IInv, TypeOK, OpenRow, OnlyRow, row
<1>6. threads[t].run = NoRun
  BY <1>1 DEF Fits, HasNoRow
<1>7. LockShape(t)
  BY <1>2, <1>4 DEF LockShape, Critical
<1>8. OpensRow(t)
  BY <1>2, <1>3, <1>4, <1>5, <1>6 DEF OpensRow, OpenRow, OpenAt
<1> QED BY <1>4, <1>5, <1>7, <1>8 DEF Shape

\* A thread that changes its local variables, perhaps the lock, but no row.
LEMMA MoveShape ==
  ASSUME IInv, NEW t \in Threads, NEW next \in Local, Becomes(t, next),
         runs' = runs, next.run = threads[t].run, next.job = threads[t].job,
         \/ lock' = lock /\ (next.pc \in Critical <=> threads[t].pc \in Critical)
         \/ lock = NoThread /\ lock' = t /\ next.pc \in Critical
         \/ lock' = NoThread /\ next.pc \notin Critical
              /\ threads[t].pc \in Critical,
         threads[t].run \in Runs =>
           /\ next.pc \in OpenAt => threads[t].pc \in OpenAt
           /\ next.pc \in {"release", "after"} /\ next.exc = "none"
                => threads[t].pc \in {"release", "after"}
                   /\ threads[t].exc = "none"
  PROVE  Shape(t)
<1>1. /\ threads' \in [Threads -> Local]
      /\ threads'[t] = next
      /\ OnlyThread(t)
  BY ThreadBecomes DEF IInv, OnlyThread
<1>2. LockShape(t)
  BY <1>1, ThreadFacts DEF LockShape
<1>3. KeepsRow(t) \/ LeavesRow(t)
  BY <1>1, RowUntouched
<1> QED BY <1>1, <1>2, <1>3 DEF Shape, IInv, TypeOK

\* In and out of the lock.
LEMMA LockSteps ==
  ASSUME IInv, NEW t \in Threads,
         AcquireLock(t) \/ LockBusy(t) \/ ReleaseLock(t)
  PROVE  Shape(t)
<1> USE ThreadFacts DEF Local, Fits, HasRow, HasNoRow, Critical, OpenAt
<1> DEFINE goto(pc)   == [threads[t] EXCEPT !.pc = pc]
           raise(exc) == [threads[t] EXCEPT !.pc = "after", !.exc = exc]
<1>1. CASE AcquireLock(t)
  <2> DEFINE pc == IF threads[t].job = "sched_auto" THEN "create" ELSE "setup"
  <2>1. goto(pc) \in Local /\ goto(pc).pc = pc /\ goto(pc).run = threads[t].run
        /\ goto(pc).job = threads[t].job /\ goto(pc).exc = threads[t].exc
    BY <1>1 DEF AcquireLock, Thread, Idle, LockJobs, AutoJobs, UserJobs, RowJobs
  <2>2. Becomes(t, goto(pc))
    BY <1>1 DEF AcquireLock, Goto
  <2> HIDE DEF goto
  <2>3. threads[t].job = "sched_auto" => threads[t].run = NoRun
    BY <1>1 DEF AcquireLock
  <2> QED BY <1>1, <2>1, <2>2, <2>3, MoveShape, NullAssumption DEF AcquireLock
<1>2. CASE LockBusy(t)
  <2>1. raise("locked") \in Local /\ raise("locked").pc = "after"
        /\ raise("locked").run = threads[t].run
        /\ raise("locked").job = threads[t].job /\ raise("locked").exc = "locked"
    BY ZenonT(30), <1>2 DEF LockBusy, Thread, Idle, LockJobs, AutoJobs, UserJobs, RowJobs
  <2>2. Becomes(t, raise("locked"))
    BY <1>2 DEF LockBusy, Raise
  <2> HIDE DEF raise
  <2> QED BY <1>2, <2>1, <2>2, MoveShape DEF LockBusy
<1>3. CASE ReleaseLock(t)
  <2>1. goto("after") \in Local /\ goto("after").pc = "after"
        /\ goto("after").run = threads[t].run
        /\ goto("after").job = threads[t].job
        /\ goto("after").exc = threads[t].exc
    BY <1>3 DEF ReleaseLock, Thread, Idle, LockJobs, AutoJobs, UserJobs, RowJobs
  <2>2. Becomes(t, goto("after"))
    BY <1>3 DEF ReleaseLock, Goto
  <2> HIDE DEF goto
  <2> QED BY <1>3, <2>1, <2>2, MoveShape DEF ReleaseLock
<1> QED BY <1>1, <1>2, <1>3

\* What a run does under the lock without touching its row.
LEMMA WorkSteps ==
  ASSUME IInv, NEW t \in Threads,
         \/ RunRaises(t) \/ AiSendToUid(t)
         \/ \E chosen \in SUBSET Contacts : EnsureActive(t, chosen) \/ Prepare(t, chosen)
         \/ \E c \in Contacts : SkipContact(t, c) \/ SendOk(t, c)
         \/ \E c \in Contacts : \E reached \in SUBSET {c} : SendFails(t, c, reached)
         \/ \E c \in Contacts, ok \in BOOLEAN : \E reached \in SUBSET {c} :
              ApiSendCalls(t, c, ok, reached)
  PROVE  Shape(t)
<1>1. /\ threads[t] \in Thread /\ Fits(threads[t])
      /\ threads[t].run \in Runs \cup {NoRun}
  BY ThreadFacts DEF Local, Thread
\* It is enough to name the thread's next local state.
<1>2. ASSUME NEW next \in Thread, Becomes(t, next), Fits(next),
             runs' = runs, lock' = lock,
             next.run = threads[t].run, next.job = threads[t].job,
             next.pc \in Critical <=> threads[t].pc \in Critical,
             \/ next.pc \in OpenAt
             \/ threads[t].run = NoRun
             \/ next.pc = "release" /\ next.exc # "none",
             threads[t].pc \in OpenAt
      PROVE  Shape(t)
  <2>1. next \in Local
    BY <1>2 DEF Local
  <2>2. threads[t].run \in Runs =>
           /\ next.pc \in OpenAt => threads[t].pc \in OpenAt
           /\ next.pc \in {"release", "after"} /\ next.exc = "none"
                => threads[t].pc \in {"release", "after"}
                   /\ threads[t].exc = "none"
    BY <1>2, NullAssumption DEF OpenAt
  <2> QED BY <1>2, <2>1, <2>2, MoveShape
<1> USE DEF Fits, HasRow, HasNoRow, Critical, OpenAt
<1>3. CASE RunRaises(t)
  <2> DEFINE next == [threads[t] EXCEPT !.pc = "release", !.exc = "other"]
  <2>1. /\ next \in Thread /\ next.pc = "release" /\ next.exc = "other"
         /\ next.run = threads[t].run /\ next.job = threads[t].job
    BY <1>1, <1>3 DEF Thread
  <2>2. Becomes(t, next) /\ runs' = runs /\ lock' = lock
    BY <1>3 DEF RunRaises, Raise
  <2> HIDE DEF next
  <2>3. Fits(next)
    BY <1>1, <1>3, <2>1 DEF RunRaises, Raise, Idle, LockJobs, AutoJobs, UserJobs
  <2> QED BY <1>1, <1>2, <1>3, <2>1, <2>2, <2>3 DEF RunRaises, Raise, LockJobs, AutoJobs, UserJobs
<1>4. CASE AiSendToUid(t)
  <2> DEFINE next == [threads[t] EXCEPT !.pc = "release"]
  <2>1. /\ next \in Thread /\ next.pc = "release"
         /\ next.run = threads[t].run /\ next.job = threads[t].job
    BY <1>1, <1>4 DEF Thread
  <2>2. Becomes(t, next) /\ runs' = runs /\ lock' = lock
    BY <1>4 DEF AiSendToUid, Goto
  <2> HIDE DEF next
  <2>3. Fits(next)
    BY <1>1, <1>4, <2>1 DEF AiSendToUid, Goto, Idle, LockJobs, AutoJobs, UserJobs
  <2> QED BY <1>1, <1>2, <1>4, <2>1, <2>2, <2>3 DEF AiSendToUid, Goto, LockJobs, AutoJobs, UserJobs
<1>5. ASSUME NEW chosen \in SUBSET Contacts, EnsureActive(t, chosen)
      PROVE  Shape(t)
  <2>1. CASE threads[t].job = "user_batch"
    <3> DEFINE next == [threads[t] EXCEPT !.pc = "send", !.todo = chosen]
    <3>1. /\ next \in Thread /\ next.pc = "send"
           /\ next.run = threads[t].run /\ next.job = threads[t].job
      BY <1>1, <1>5 DEF Thread
    <3>2. Becomes(t, next) /\ runs' = runs /\ lock' = lock
      BY <1>5, <2>1 DEF EnsureActive
    <3> HIDE DEF next
    <3>3. Fits(next)
      BY <1>1, <1>5, <2>1, <3>1 DEF EnsureActive, Idle, LockJobs, AutoJobs, UserJobs
    <3> QED BY <1>1, <1>2, <1>5, <3>1, <3>2, <3>3 DEF EnsureActive, LockJobs, AutoJobs, UserJobs
  <2>2. CASE threads[t].job # "user_batch"
    <3> DEFINE next == [threads[t] EXCEPT !.pc = "prepare"]
    <3>1. /\ next \in Thread /\ next.pc = "prepare"
           /\ next.run = threads[t].run /\ next.job = threads[t].job
      BY <1>1, <1>5 DEF Thread
    <3>2. Becomes(t, next) /\ runs' = runs /\ lock' = lock
      BY <1>5, <2>2 DEF EnsureActive
    <3> HIDE DEF next
    <3>3. Fits(next)
      BY <1>1, <1>5, <2>2, <3>1 DEF EnsureActive, Idle, LockJobs, AutoJobs, UserJobs
    <3> QED BY <1>1, <1>2, <1>5, <3>1, <3>2, <3>3 DEF EnsureActive, LockJobs, AutoJobs, UserJobs
  <2> QED BY <2>1, <2>2
<1>6. ASSUME NEW chosen \in SUBSET Contacts, Prepare(t, chosen)
      PROVE  Shape(t)
  <2> DEFINE next == [threads[t] EXCEPT !.pc = "send", !.todo = chosen]
  <2>1. /\ next \in Thread /\ next.pc = "send"
         /\ next.run = threads[t].run /\ next.job = threads[t].job
    BY <1>1, <1>6 DEF Thread
  <2>2. Becomes(t, next) /\ runs' = runs /\ lock' = lock
    BY <1>6 DEF Prepare
  <2> HIDE DEF next
  <2>3. Fits(next)
    BY <1>1, <1>6, <2>1 DEF Prepare, Idle, LockJobs, AutoJobs, UserJobs
  <2> QED BY <1>1, <1>2, <1>6, <2>1, <2>2, <2>3 DEF Prepare, LockJobs, AutoJobs, UserJobs
<1>7. ASSUME NEW c \in Contacts, SkipContact(t, c)
      PROVE  Shape(t)
  <2> DEFINE next == [threads[t] EXCEPT !.todo = @ \ {c}]
  <2>1. /\ next \in Thread /\ next.pc = threads[t].pc
         /\ next.run = threads[t].run /\ next.job = threads[t].job
    BY <1>1, <1>7 DEF Thread
  <2>2. Becomes(t, next) /\ runs' = runs /\ lock' = lock
    BY <1>7 DEF SkipContact
  <2> HIDE DEF next
  <2>3. Fits(next)
    BY <1>1, <1>7, <2>1 DEF SkipContact, Idle, LockJobs, AutoJobs, UserJobs
  <2> QED BY <1>1, <1>2, <1>7, <2>1, <2>2, <2>3 DEF SkipContact, LockJobs, AutoJobs, UserJobs
<1>8. ASSUME NEW c \in Contacts, SendOk(t, c)
      PROVE  Shape(t)
  <2> DEFINE next == [threads[t] EXCEPT !.pc = "record", !.todo = @ \ {c},
                                     !.ok = {c}, !.sent = @ \cup {c},
                                     !.streak = 0]
  <2>1. /\ next \in Thread /\ next.pc = "record"
         /\ next.run = threads[t].run /\ next.job = threads[t].job
    BY <1>1, <1>8 DEF Thread
  <2>2. Becomes(t, next) /\ runs' = runs /\ lock' = lock
    BY <1>8 DEF SendOk
  <2> HIDE DEF next
  <2>3. Fits(next)
    BY <1>1, <1>8, <2>1 DEF SendOk, Idle, LockJobs, AutoJobs, UserJobs
  <2> QED BY <1>1, <1>2, <1>8, <2>1, <2>2, <2>3 DEF SendOk, LockJobs, AutoJobs, UserJobs
<1>9. ASSUME NEW c \in Contacts, NEW reached \in SUBSET {c}, SendFails(t, c, reached)
      PROVE  Shape(t)
  <2> DEFINE fails(n) == [threads[t] EXCEPT !.pc = "record", !.todo = @ \ {c},
                                         !.bad = {c}, !.failed = @ \cup {c},
                                         !.streak = n]
             next == fails(threads[t].streak + 1)
  <2>1. /\ next \in Thread /\ next.pc = "record"
        /\ next.run = threads[t].run /\ next.job = threads[t].job
    <3>1. ASSUME NEW n \in Nat
          PROVE  /\ fails(n) \in Thread /\ fails(n).pc = "record"
                 /\ fails(n).run = threads[t].run
                 /\ fails(n).job = threads[t].job
      BY <1>1 DEF Thread
    <3>2. threads[t].streak + 1 \in Nat
      BY <1>1 DEF Thread
    <3> HIDE DEF fails
    <3> QED BY <3>1, <3>2
  <2>2. Becomes(t, next) /\ runs' = runs /\ lock' = lock
    BY <1>9 DEF SendFails
  <2> HIDE DEF next
  <2>3. Fits(next)
    BY <1>1, <1>9, <2>1 DEF SendFails, Idle, LockJobs, AutoJobs, UserJobs
  <2> QED BY <1>1, <1>2, <1>9, <2>1, <2>2, <2>3 DEF SendFails, LockJobs, AutoJobs, UserJobs
<1>10. ASSUME NEW c \in Contacts, NEW ok \in BOOLEAN, NEW reached \in SUBSET {c},
              ApiSendCalls(t, c, ok, reached)
       PROVE  Shape(t)
  <2> DEFINE next == [threads[t] EXCEPT !.pc = "commit",
                                     !.ok  = IF ok THEN {c} ELSE {},
                                     !.bad = IF ok THEN {} ELSE {c}]
  <2>1. /\ next \in Thread /\ next.pc = "commit"
         /\ next.run = threads[t].run /\ next.job = threads[t].job
    BY <1>1, <1>10 DEF Thread
  <2>2. Becomes(t, next) /\ runs' = runs /\ lock' = lock
    BY <1>10 DEF ApiSendCalls
  <2> HIDE DEF next
  <2>3. Fits(next)
    BY <1>1, <1>10, <2>1 DEF ApiSendCalls, Idle, LockJobs, AutoJobs, UserJobs
  <2> QED BY <1>1, <1>2, <1>10, <2>1, <2>2, <2>3 DEF ApiSendCalls, LockJobs, AutoJobs, UserJobs
<1> QED BY <1>3, <1>4, <1>5, <1>6, <1>7, <1>8, <1>9, <1>10

\* A thread that writes its own row on the way.
LEMMA WriteShape ==
  ASSUME IInv, NEW t \in Threads, NEW next \in Local, Becomes(t, next),
         lock' = lock, next.pc \in Critical <=> threads[t].pc \in Critical,
         threads[t].run \in Runs, next.run = threads[t].run,
         runs' \in [Runs -> Row], OnlyRow(threads[t].run),
         next.job = runs'[threads[t].run].job,
         runs'[threads[t].run].status # "absent",
         next.pc \in OpenAt => runs'[threads[t].run].status = "running",
         next.pc \in {"release", "after"} /\ next.exc = "none"
           => runs'[threads[t].run].status # "running"
  PROVE  Shape(t)
<1>1. /\ threads' \in [Threads -> Local]
      /\ threads'[t] = next
      /\ OnlyThread(t)
  BY ThreadBecomes DEF IInv, OnlyThread
<1> QED BY <1>1 DEF Shape, LockShape, KeepsRow

\* What an item leaves in its row, whether its commits go through or not.
LEMMA RecordedRow ==
  ASSUME NEW t \in Threads, threads[t] \in Thread, runs[threads[t].run] \in Row,
         NEW item, NEW cause
  PROVE  /\ Recorded(t, item, cause) \in Row
         /\ Recorded(t, item, cause).job = runs[threads[t].run].job
         /\ Recorded(t, item, cause).status = runs[threads[t].run].status
         /\ item => /\ Recorded(t, item, cause).told
                         = runs[threads[t].run].told \cup threads[t].ok
                    /\ Recorded(t, item, cause).missed
                         = runs[threads[t].run].missed \cup threads[t].bad
         /\ ~item => /\ Recorded(t, item, cause).told = runs[threads[t].run].told
                     /\ Recorded(t, item, cause).missed = runs[threads[t].run].missed
<1>1. threads[t].ok \in SUBSET Contacts /\ threads[t].bad \in SUBSET Contacts
  BY DEF Thread
<1> QED BY <1>1 DEF Recorded, Row

\* What the last commit of a run leaves in its row.
LEMMA SummaryRow ==
  ASSUME TypeOK, NEW t \in Threads, threads[t] \in Thread,
         runs[threads[t].run] \in Row
  PROVE  /\ Summary(t) \in Row
         /\ Summary(t).job = runs[threads[t].run].job
         /\ Summary(t).status = FinalStatus(t) /\ Summary(t).status \in {"done", "error"}
         /\ Summary(t).cause = FinalCause(t) /\ Summary(t).cause \in Causes
         /\ Summary(t).end = now
         /\ Summary(t).told = runs[threads[t].run].told
         /\ Summary(t).missed = runs[threads[t].run].missed
         /\ Summary(t).sent = threads[t].sent /\ Summary(t).failed = threads[t].failed
<1>1. FinalStatus(t) \in {"done", "error"} /\ FinalCause(t) \in Causes
  BY DEF FinalStatus, FinalCause, Causes, Row
<1>2. threads[t].sent \in SUBSET Contacts /\ threads[t].failed \in SUBSET Contacts
      /\ now \in Nat
  BY DEF Thread, TypeOK
<1> QED BY <1>1, <1>2 DEF Summary, Row, Causes

\* What a run does to its row under the lock.
LEMMA RowSteps ==
  ASSUME IInv, NEW t \in Threads,
         \/ \E exc \in {"notready", "other"} : EnsureActiveFails(t, exc)
         \/ \E item, cause \in Commits : RecordItem(t, item, cause)
         \/ FinishRun(t)
  PROVE  Shape(t)
<1>1. threads[t] \in Thread /\ Fits(threads[t])
  BY ThreadFacts DEF Local
<1>2. threads[t].run \in Runs
  BY <1>1 DEF EnsureActiveFails, RecordItem, FinishRun, Fits, HasRow, LockJobs,
              AutoJobs
<1>3. /\ runs[threads[t].run] \in Row
      /\ runs[threads[t].run].job = threads[t].job
      /\ runs[threads[t].run].status = "running"
  BY <1>2, ThreadFacts DEF EnsureActiveFails, RecordItem, FinishRun, OwnRow, OpenAt
<1>4. ASSUME NEW exc \in {"notready", "other"}, EnsureActiveFails(t, exc)
      PROVE  Shape(t)
  <2> DEFINE next == [threads[t] EXCEPT !.pc = "release", !.exc = exc]
  <2>1. /\ next \in Thread /\ next.pc = "release" /\ next.exc = exc
        /\ next.run = threads[t].run /\ next.job = threads[t].job
    BY <1>1 DEF Thread, Critical
  <2>2. Becomes(t, next) /\ lock' = lock
    BY <1>4 DEF EnsureActiveFails, Raise
  <2> HIDE DEF next
  <2>3. next \in Local
    BY <1>1, <1>4, <2>1 DEF EnsureActiveFails, Local, Fits, HasRow, HasNoRow,
                            LockJobs, AutoJobs, UserJobs
  <2>4. /\ runs' \in [Runs -> Row] /\ OnlyRow(threads[t].run)
        /\ runs'[threads[t].run].job = threads[t].job
        /\ runs'[threads[t].run].status # "absent"
    BY <1>2, <1>3, <1>4, CloseAsRow
    DEF EnsureActiveFails, Causes, OnlyRow, IInv, TypeOK
  <2>5. next.pc \in Critical <=> threads[t].pc \in Critical
    BY <1>4, <2>1 DEF EnsureActiveFails, Critical
  <2> QED BY <1>2, <2>1, <2>2, <2>3, <2>4, <2>5, WriteShape DEF OpenAt
<1>5. ASSUME NEW item \in Commits, NEW cause \in Commits, RecordItem(t, item, cause)
      PROVE  Shape(t)
  <2> DEFINE next == [threads[t] EXCEPT
                        !.pc = "send", !.ok = {}, !.bad = {},
                        !.todo = IF BreakerTrips(t) THEN {} ELSE @]
  <2>1. /\ next \in Thread /\ next.pc = "send"
        /\ next.run = threads[t].run /\ next.job = threads[t].job
    BY <1>1 DEF Thread, Critical
  <2>2. PICK row \in Row : row = Recorded(t, item, cause)
                           /\ row.job = threads[t].job /\ row.status = "running"
    BY <1>1, <1>2, <1>3, RecordedRow
  <2>3. /\ Becomes(t, next) /\ lock' = lock
        /\ runs' = WithRow(threads[t].run, row)
    BY <1>5, <2>2 DEF RecordItem
  <2> HIDE DEF next
  <2>4. next \in Local
    BY <1>1, <1>5, <2>1 DEF RecordItem, Local, Fits, HasRow, HasNoRow, LockJobs,
                            AutoJobs, UserJobs
  <2>5. /\ runs' \in [Runs -> Row] /\ OnlyRow(threads[t].run)
        /\ runs'[threads[t].run] = row
    BY <1>2, <2>2, <2>3, RowBecomes DEF OnlyRow, IInv, TypeOK
  <2>6. next.pc \in Critical <=> threads[t].pc \in Critical
    BY <1>5, <2>1 DEF RecordItem, Critical
  <2> QED BY <1>2, <2>1, <2>2, <2>3, <2>4, <2>5, <2>6, WriteShape DEF OpenAt
<1>6. CASE FinishRun(t)
  <2> DEFINE next == [threads[t] EXCEPT !.pc = "release"]
  <2>1. /\ next \in Thread /\ next.pc = "release" /\ next.exc = threads[t].exc
        /\ next.run = threads[t].run /\ next.job = threads[t].job
    BY <1>1 DEF Thread, Critical
  <2>2. Becomes(t, next) /\ lock' = lock
    BY <1>6 DEF FinishRun, Goto
  <2> HIDE DEF next
  <2>3. next \in Local
    BY <1>1, <1>6, <2>1 DEF FinishRun, Local, Fits, HasRow, HasNoRow,
                            LockJobs, AutoJobs, UserJobs
  <2>4. PICK row \in Row : row = Summary(t) /\ row.job = threads[t].job
                           /\ row.status \in {"done", "error"}
    BY <1>1, <1>2, <1>3, SummaryRow DEF IInv
  <2>5. /\ runs' \in [Runs -> Row] /\ OnlyRow(threads[t].run)
        /\ runs'[threads[t].run].job = threads[t].job
        /\ runs'[threads[t].run].status \in {"done", "error"}
    BY <1>2, <1>6, <2>4, RowBecomes DEF FinishRun, OnlyRow, IInv, TypeOK
  <2>6. next.pc \in Critical <=> threads[t].pc \in Critical
    BY <1>6, <2>1 DEF FinishRun, Critical
  <2> QED BY <1>2, <2>1, <2>2, <2>3, <2>5, <2>6, WriteShape DEF OpenAt
<1> QED BY <1>4, <1>5, <1>6

\* How a thread ends: whoever called auto_run, send_batch or send_single.
LEMMA EndSteps ==
  ASSUME IInv, NEW t \in Threads,
         \/ RunnerCloses(t) \/ RunOneReturns(t) \/ AiReturns(t)
         \/ ApiSendCloses(t)
         \/ \E c \in Contacts : \E reached \in SUBSET {c} : ApiSendRaises(t, reached)
  PROVE  Shape(t)
<1>1. threads[t] \in Thread /\ Fits(threads[t])
  BY ThreadFacts DEF Local
<1>2. /\ Becomes(t, Idle) /\ lock' = lock /\ threads[t].pc \notin Critical
  BY DEF RunnerCloses, RunOneReturns, AiReturns, ApiSendRaises, ApiSendCloses,
         Critical
<1>3. CASE RunnerCloses(t)
  <2>1. threads[t].run \in Runs
    BY <1>1, <1>3 DEF RunnerCloses, Fits, HasRow
  <2>2. RunnerCause(threads[t].exc) \in Causes
    BY DEF RunnerCause, Causes
  <2>3. CASE runs[threads[t].run].status # "running"
    <3>1. runs' = runs
      BY <1>3, <2>3 DEF RunnerCloses, ClosedByRunner, CloseRun
    <3> QED BY <1>2, <2>3, <3>1, BecomesIdle DEF OnlyRow, IInv, TypeOK
  <2>4. CASE runs[threads[t].run].status = "running"
    <3>1. /\ runs' \in [Runs -> Row] /\ OnlyRow(threads[t].run)
          /\ runs'[threads[t].run].status # "running"
      <4>1. PICK status \in {"done", "error"}, cause \in Causes :
              runs' = CloseAs(threads[t].run, status, cause)
        BY <1>3, <2>2, <2>4 DEF RunnerCloses, ClosedByRunner, CloseRun, Causes
      <4> QED BY <2>1, <4>1, CloseAsRow DEF OnlyRow, IInv
    <3> QED BY <1>2, <3>1, BecomesIdle
  <2> QED BY <2>3, <2>4
<1>4. CASE \/ RunOneReturns(t) \/ AiReturns(t)
           \/ \E c \in Contacts : \E reached \in SUBSET {c} : ApiSendRaises(t, reached)
  <2>1. runs' = runs
    BY <1>4 DEF RunOneReturns, AiReturns, ApiSendRaises
  <2>2. threads[t].job \notin UserJobs
    BY <1>1, <1>4 DEF RunOneReturns, AiReturns, ApiSendRaises, Fits, UserJobs
  <2> QED BY <1>2, <2>1, <2>2, BecomesIdle DEF OnlyRow, IInv, TypeOK
<1>5. CASE ApiSendCloses(t)
  <2> DEFINE row == [runs[threads[t].run] EXCEPT
                       !.status = "done", !.end = now,
                       !.told = threads[t].ok, !.missed = threads[t].bad,
                       !.sent = threads[t].ok, !.failed = threads[t].bad]
  <2>1. threads[t].run \in Runs
    BY <1>1, <1>5 DEF ApiSendCloses, Fits, HasRow
  <2>2. row \in Row /\ row.status = "done"
    <3>1. threads[t].ok \in SUBSET Contacts /\ threads[t].bad \in SUBSET Contacts
      BY <1>1 DEF Thread
    <3>2. runs[threads[t].run] \in Row /\ now \in Nat
      BY <2>1 DEF IInv, TypeOK
    <3> QED BY <3>1, <3>2 DEF Row
  <2>3. runs' = WithRow(threads[t].run, row)
    BY <1>5 DEF ApiSendCloses
  <2> HIDE DEF row
  <2>4. /\ runs' \in [Runs -> Row] /\ OnlyRow(threads[t].run)
        /\ runs'[threads[t].run] = row
    BY <2>1, <2>2, <2>3, RowBecomes DEF OnlyRow, IInv, TypeOK
  <2> QED BY <1>2, <2>2, <2>4, BecomesIdle
<1> QED BY <1>3, <1>4, <1>5

\* A thread is started by a user, a chat or the scheduler, or gets its row.
LEMMA StartSteps ==
  ASSUME IInv, NEW t \in Threads,
         \/ Request(t) \/ SchedulerTriggers(t)
         \/ \E r \in Runs : InsertRun(t, r) \/ CreateRun(t, r)
  PROVE  Shape(t)
<1>1. CASE Request(t) \/ SchedulerTriggers(t)
  <2>1. /\ \/ Spawned(t, "user_auto", "insert")
           \/ Spawned(t, "user_batch", "insert")
           \/ Spawned(t, "single", "insert")
           \/ Spawned(t, "ai", "trylock")
           \/ Spawned(t, "sched_auto", "trylock")
        /\ runs' = runs /\ lock' = lock
    BY <1>1 DEF Request, StartAutoRun, StartBatchSend, ApiSend, AiWantsToSend,
                SchedulerTriggers
  <2> QED BY <2>1, SpawnedShape DEF UserJobs
<1>2. ASSUME NEW r \in Runs, InsertRun(t, r) PROVE Shape(t)
  BY <1>2, OpenRowShape DEF InsertRun
<1>3. ASSUME NEW r \in Runs, CreateRun(t, r) PROVE Shape(t)
  BY <1>3, OpenRowShape DEF CreateRun
<1> QED BY <1>1, <1>2, <1>3

\* A thread's step has a shape, whatever it is.
LEMMA StepShape ==
  ASSUME IInv, NEW t \in Threads,
         ThreadStep(t) \/ Request(t) \/ SchedulerTriggers(t)
  PROVE  Shape(t)
BY LockSteps, WorkSteps, RowSteps, EndSteps, StartSteps
DEF ThreadStep, RunStep, AiStep, SingleStep

\* Only a live process has threads that go on.
LEMMA OnlyWhileUp ==
  ASSUME IInv, NEW t \in Threads,
         ThreadStep(t) \/ Request(t) \/ SchedulerTriggers(t)
  PROVE  up /\ up' = up
<1>1. CASE ThreadStep(t)
  <2>1. threads[t].pc # "idle" /\ up' = up
    BY <1>1 DEF ThreadStep, RunStep, AiStep, SingleStep, InsertRun, CreateRun,
       AcquireLock, LockBusy, EnsureActive, Prepare, EnsureActiveFails,
       RunRaises, SkipContact, SendOk, SendFails, RecordItem, FinishRun,
       ReleaseLock, RunnerCloses, RunOneReturns, AiSendToUid, AiReturns,
       ApiSendCalls, ApiSendRaises, ApiSendCloses
  <2>2. up
    BY <2>1 DEF IInv, UpInv, TypeOK, Idle
  <2> QED BY <2>1, <2>2
<1>2. CASE Request(t) \/ SchedulerTriggers(t)
  BY <1>2 DEF Request, StartAutoRun, StartBatchSend, ApiSend, AiWantsToSend,
     SchedulerTriggers, Spawned
<1> QED BY <1>1, <1>2

\* What a thread's step leaves in the tables and the clock is of its type.
LEMMA OtherTypes ==
  ASSUME IInv, NEW t \in Threads,
         ThreadStep(t) \/ Request(t) \/ SchedulerTriggers(t)
  PROVE  /\ lock' \in Threads \cup {NoThread}
         /\ schedule' \in [enabled : BOOLEAN, time : Times,
                           lastRan : Nat \cup {NoDay}]
         /\ account' \in {"active", "cookies_expired"}
         /\ mailed' \subseteq Nat
         /\ scan' \in [pc : {"wait", "running", "errors", "backoff"}, at : Nat,
                       failed : BOOLEAN]
         /\ now' \in Nat /\ startup' \in Nat /\ up' \in BOOLEAN
         /\ delivered' \in [Runs -> SUBSET Contacts]
         /\ acked' \in [Runs -> SUBSET Contacts]
         /\ unwritten' \in [Runs -> SUBSET Contacts]
<1> USE DEF IInv, TypeOK, ghosts
<1>1. CASE FinishRun(t)
  <2>1. Day(now) \in Nat
    BY DayIsNat
  <2> QED BY <1>1, <2>1 DEF FinishRun, MarkRan
<1>2. CASE \/ \E c \in Contacts : SendOk(t, c)
           \/ \E c \in Contacts : \E reached \in SUBSET {c} : SendFails(t, c, reached)
           \/ \E c \in Contacts, ok \in BOOLEAN : \E reached \in SUBSET {c} :
                ApiSendCalls(t, c, ok, reached)
           \/ \E c \in Contacts : \E reached \in SUBSET {c} :
                ApiSendRaises(t, reached)
  <2>1. UNCHANGED <<lock, schedule, account, mailed, scan, now, up, startup,
                    unwritten>>
    BY <1>2 DEF SendOk, SendFails, ApiSendCalls, ApiSendRaises
  <2>2. ASSUME NEW more \in SUBSET Contacts,
               delivered' = [delivered EXCEPT ![threads[t].run] = @ \cup more]
        PROVE  delivered' \in [Runs -> SUBSET Contacts]
    BY <2>2
  <2>3. delivered' \in [Runs -> SUBSET Contacts]
    <3>1. ASSUME NEW c \in Contacts, SendOk(t, c)
          PROVE  delivered' \in [Runs -> SUBSET Contacts]
      BY <2>2, <3>1 DEF SendOk
    <3>2. ASSUME NEW c \in Contacts, NEW ok \in BOOLEAN, NEW reached \in SUBSET {c},
                 \/ SendFails(t, c, reached) \/ ApiSendRaises(t, reached)
                 \/ ApiSendCalls(t, c, ok, reached)
          PROVE  delivered' \in [Runs -> SUBSET Contacts]
      BY <2>2, <3>2 DEF SendFails, ApiSendRaises, ApiSendCalls
    <3> QED BY <1>2, <3>1, <3>2
  <2>4. ASSUME NEW more \in SUBSET Contacts,
               acked' = [acked EXCEPT ![threads[t].run] = @ \cup more]
        PROVE  acked' \in [Runs -> SUBSET Contacts]
    BY <2>4
  <2>5. acked' \in [Runs -> SUBSET Contacts]
    <3>1. ASSUME NEW c \in Contacts, SendOk(t, c)
          PROVE  acked' \in [Runs -> SUBSET Contacts]
      BY <2>4, <3>1 DEF SendOk
    <3>2. ASSUME NEW c \in Contacts, NEW ok \in BOOLEAN, NEW reached,
                 ApiSendCalls(t, c, ok, reached)
          PROVE  acked' \in [Runs -> SUBSET Contacts]
      BY <2>4, <3>2 DEF ApiSendCalls
    <3>3. ASSUME NEW c, NEW reached, SendFails(t, c, reached) \/ ApiSendRaises(t, reached)
          PROVE  acked' \in [Runs -> SUBSET Contacts]
      BY <3>3 DEF SendFails, ApiSendRaises
    <3> QED BY <1>2, <3>1, <3>2, <3>3
  <2> QED BY <2>1, <2>3, <2>5
<1>8. ASSUME NEW item \in Commits, NEW cause \in Commits, RecordItem(t, item, cause)
      PROVE  /\ UNCHANGED <<lock, schedule, account, mailed, scan, now, up, startup,
                            delivered, acked>>
             /\ unwritten' \in [Runs -> SUBSET Contacts]
  <2>1. threads[t].ok \in SUBSET Contacts /\ threads[t].bad \in SUBSET Contacts
    BY DEF Thread
  <2> QED BY <1>8, <2>1 DEF RecordItem
<1>3. CASE RunOneReturns(t)
  BY <1>3 DEF RunOneReturns
<1>4. CASE SchedulerTriggers(t)
  BY <1>4 DEF SchedulerTriggers, ScanGoesTo
<1>5. CASE AcquireLock(t) \/ ReleaseLock(t)
  BY <1>5 DEF AcquireLock, ReleaseLock
<1>6. CASE Request(t)
  BY <1>6 DEF Request, StartAutoRun, StartBatchSend, ApiSend, AiWantsToSend
<1>7. CASE \/ \E r \in Runs : InsertRun(t, r) \/ CreateRun(t, r)
           \/ LockBusy(t) \/ RunRaises(t) \/ RunnerCloses(t)
           \/ AiStep(t) \/ ApiSendCloses(t)
           \/ \E chosen \in SUBSET Contacts :
                EnsureActive(t, chosen) \/ Prepare(t, chosen)
           \/ \E exc \in {"notready", "other"} : EnsureActiveFails(t, exc)
           \/ \E c \in Contacts : SkipContact(t, c)
  BY <1>7 DEF InsertRun, CreateRun, LockBusy, RunRaises, RunnerCloses,
     AiStep, AiSendToUid, AiReturns, ApiSendCloses,
     EnsureActive, Prepare, EnsureActiveFails, SkipContact
<1> QED BY <1>1, <1>2, <1>3, <1>4, <1>5, <1>6, <1>7, <1>8
        DEF ThreadStep, RunStep, SingleStep

------------------------------------------------------------------------------
(* The invariant holds. *)

\* At the start nothing is open and nobody is at work.
LEMMA InitIInv == Init => IInv
<1> SUFFICES ASSUME Init PROVE IInv
  OBVIOUS
<1>1. TypeOK /\ threads \in [Threads -> Local]
  BY IdleType, TimeAssumption DEF Init, TypeOK, NoDay, Local
<1>2. LockInv /\ RowInv /\ UpInv /\ UserRunHasRunner
  BY NullAssumption DEF Init, LockInv, RowInv, UpInv, UserRunHasRunner, Idle,
     Absent, Critical
<1> QED BY <1>1, <1>2 DEF IInv

\* A scan of the scheduler changes only its own local variables.
LEMMA ScanKeeps ==
  ASSUME IInv, SchedulerScan \/ SchedulerSeesRunning \/ SchedulerCountsErrors
               \/ SchedulerBacksOff
  PROVE  IInv'
<1>1. UNCHANGED <<runs, threads, lock, schedule, account, mailed, now, up,
                  startup, delivered, acked, unwritten>>
  BY DEF SchedulerScan, SchedulerSeesRunning, SchedulerCountsErrors,
         SchedulerBacksOff, ghosts
<1>2. scan' \in [pc : {"wait", "running", "errors", "backoff"}, at : Nat,
                 failed : BOOLEAN]
  <2> DEFINE ScanType == [pc : {"wait", "running", "errors", "backoff"},
                          at : Nat, failed : BOOLEAN]
  <2>1. ASSUME NEW s \in ScanType,
               NEW pc \in {"wait", "running", "errors", "backoff"},
               NEW failed \in BOOLEAN
        PROVE  /\ [s EXCEPT !.pc = pc] \in ScanType
               /\ [s EXCEPT !.pc = pc, !.failed = failed] \in ScanType
    OBVIOUS
  <2>2. scan \in ScanType /\ now \in Nat
    BY DEF IInv, TypeOK
  <2>3. CASE SchedulerScan
    BY <2>2, <2>3 DEF SchedulerScan
  <2>4. CASE SchedulerSeesRunning \/ SchedulerBacksOff
    <3>1. PICK pc \in {"wait", "errors"} : scan' = [scan EXCEPT !.pc = pc]
      BY <2>4 DEF SchedulerSeesRunning, SchedulerBacksOff, ScanGoesTo
    <3> QED BY <2>1, <2>2, <3>1
  <2>5. CASE SchedulerCountsErrors
    <3>1. PICK pc \in {"wait", "backoff"}, failed \in BOOLEAN :
            scan' = [scan EXCEPT !.pc = pc, !.failed = failed]
      BY <2>5 DEF SchedulerCountsErrors
    <3>2. pc \in {"wait", "running", "errors", "backoff"}
      OBVIOUS
    <3>3. [scan EXCEPT !.pc = pc, !.failed = failed] \in ScanType
      BY ZenonT(30), <2>1, <2>2, <3>2
    <3> QED BY <3>1, <3>3
  <2> QED BY <2>3, <2>4, <2>5
<1> QED BY <1>1, <1>2 DEF IInv, TypeOK, LockInv, RowInv, OwnRow, UpInv,
                          UserRunHasRunner

\* The form, a login and the clock touch no run, no thread and no lock.
LEMMA EnvironmentKeeps ==
  ASSUME IInv, Environment
  PROVE  IInv'
<1>1. CASE Crash
  <2>1. threads' = [t \in Threads |-> Idle] /\ lock' = NoThread /\ ~up'
    BY <1>1 DEF Crash
  <2>2. TypeOK' /\ threads' \in [Threads -> Local]
    BY <1>1, <2>1, IdleType DEF Crash, IInv, TypeOK, Local, ghosts
  <2>3. LockInv' /\ RowInv' /\ UpInv' /\ UserRunHasRunner'
    BY <2>1, NullAssumption DEF LockInv, RowInv, UpInv, UserRunHasRunner, Idle,
       Critical
  <2> QED BY <2>2, <2>3 DEF IInv
<1>2. CASE Relogin \/ CookiesHealthCheck \/ Tick
           \/ \E enabled \in BOOLEAN, time \in Times : SetSchedule(enabled, time)
  <2>1. UNCHANGED <<runs, threads, lock, up>>
    BY <1>2 DEF Relogin, CookiesHealthCheck, Tick, SetSchedule
  <2>2. TypeOK'
    <3>1. CASE Relogin \/ CookiesHealthCheck
      BY <3>1 DEF Relogin, CookiesHealthCheck, IInv, TypeOK, ghosts
    <3>2. CASE Tick
      BY <3>2 DEF Tick, IInv, TypeOK, ghosts
    <3>3. ASSUME NEW enabled \in BOOLEAN, NEW time \in Times,
                 SetSchedule(enabled, time)
          PROVE  TypeOK'
      <4>1. PICK last \in Nat \cup {NoDay} :
              schedule' = [enabled |-> enabled, time |-> time, lastRan |-> last]
        BY <3>3 DEF SetSchedule, IInv, TypeOK
      <4>2. schedule' \in [enabled : BOOLEAN, time : Times,
                           lastRan : Nat \cup {NoDay}]
        BY <4>1
      <4> QED BY <3>3, <4>2 DEF SetSchedule, IInv, TypeOK, ghosts
    <3> QED BY <1>2, <3>1, <3>2, <3>3
  <2> QED BY <2>1, <2>2 DEF IInv, LockInv, RowInv, OwnRow, UpInv, UserRunHasRunner
<1> QED BY <1>1, <1>2 DEF Environment

\* A restart closes every row that was left open.
LEMMA RestartKeeps ==
  ASSUME IInv, Restart
  PROVE  IInv'
<1>1. \A t \in Threads : threads'[t] = Idle
  BY DEF IInv, UpInv, Restart
<1>2. runs' \in [Runs -> Row] /\ \A r \in Runs : runs'[r].status # "running"
  <2>1. ASSUME NEW r \in Runs, NEW row \in Row
        PROVE  /\ [row EXCEPT !.status = "error", !.cause = "restart", !.end = now] \in Row
               /\ [row EXCEPT !.status = "error", !.cause = "restart",
                              !.end = now].status = "error"
    BY DEF Row, IInv, TypeOK
  <2> QED BY <2>1 DEF Restart, CleanupStaleRuns, IInv, TypeOK
<1>3. TypeOK' /\ threads' \in [Threads -> Local]
  BY <1>2 DEF IInv, TypeOK, Restart, ghosts
<1>4. LockInv' /\ RowInv' /\ UpInv' /\ UserRunHasRunner'
  BY <1>1, <1>2, NullAssumption
  DEF Restart, IInv, LockInv, RowInv, UpInv, UserRunHasRunner, Idle
<1> QED BY <1>3, <1>4 DEF IInv

\* Every step keeps the invariant.
LEMMA NextIInv == IInv /\ [Next]_vars => IInv'
<1> SUFFICES ASSUME IInv, [Next]_vars PROVE IInv'
  OBVIOUS
<1>1. ASSUME NEW t \in Threads,
             ThreadStep(t) \/ Request(t) \/ SchedulerTriggers(t)
      PROVE  IInv'
  <2>1. Shape(t) /\ up /\ up' = up
    BY <1>1, StepShape, OnlyWhileUp
  <2>2. LockInv' /\ RowInv' /\ UpInv' /\ UserRunHasRunner'
    BY <2>1, ShapeKeeps
  <2>3. threads' \in [Threads -> Local] /\ runs' \in [Runs -> Row]
    BY <2>1 DEF Shape
  <2>4. TypeOK'
    BY <1>1, <2>3, OtherTypes DEF TypeOK, Local
  <2> QED BY <2>2, <2>3, <2>4 DEF IInv
<1>2. CASE SchedulerStep
  BY <1>1, <1>2, ScanKeeps DEF SchedulerStep
<1>3. CASE Environment
  BY <1>3, EnvironmentKeeps
<1>4. CASE Restart
  BY <1>4, RestartKeeps
<1>5. CASE UNCHANGED vars
  BY <1>5 DEF vars, ghosts, IInv, TypeOK, LockInv, RowInv, OwnRow, UpInv, UserRunHasRunner
<1> QED BY <1>1, <1>2, <1>3, <1>4, <1>5 DEF Next

\* The inductive invariant holds in every reachable state.
LEMMA Invariant == Spec => []IInv
BY InitIInv, NextIInv, PTL DEF Spec

\* The columns and local variables keep their domains, for every instance.
THEOREM TypeCorrect == Spec => []TypeOK
<1>1. IInv => TypeOK
  BY DEF IInv
<1> QED BY <1>1, Invariant, PTL

\* However many runs, batches and AI replies start, end, fail or die with the
\* process, at most one of them is ever inside the account lock.
THEOREM AccountHasOneSender == Spec => []OneSenderAtATime
<1>1. IInv => OneSenderAtATime
  BY DEF IInv, LockInv, OneSenderAtATime
<1> QED BY <1>1, Invariant, PTL

\* A user's run that is still open in a live process always has the thread that
\* will close it: no order of inserts, lock conflicts, exceptions, crashes and
\* restarts leaves it behind.
THEOREM UserRunsAreNotOrphaned == Spec => []UserRunHasRunner
<1>1. IInv => UserRunHasRunner
  BY DEF IInv
<1> QED BY <1>1, Invariant, PTL

------------------------------------------------------------------------------
(* AccountRuns implements RunLedger. *)

\* A step that changes one row changes one entry of the ledger.
LEMMA LedgerEntry ==
  ASSUME NEW r \in Runs, OnlyRow(r)
  PROVE  LedgerState' = [LedgerState EXCEPT ![r] = RunState(runs'[r])]
BY DEF OnlyRow, LedgerState, RunState

\* The ledger does not change while no row changes its status or its job.
LEMMA LedgerSame ==
  ASSUME \A r \in Runs : runs'[r].status = runs[r].status
                         /\ runs'[r].job = runs[r].job
  PROVE  LedgerState' = LedgerState
BY DEF LedgerState, RunState

\* Under the lock the holder is the thread's run, and nobody else's.
LEMMA HolderFacts ==
  ASSUME IInv, NEW t \in Threads
  PROVE  /\ threads[t].pc \in Critical => Holder = threads[t].run
         /\ lock' = lock /\ (\A u \in Threads : lock = u => threads'[u].run = threads[u].run)
              => Holder' = Holder
         /\ lock' = lock /\ OnlyThread(t) /\ threads[t].pc \notin Critical
              => Holder' = Holder
         /\ lock' = NoThread => Holder' = NoRun
BY NullAssumption DEF IInv, TypeOK, LockInv, Holder, OnlyThread

\* The status of the row a working thread holds.
LEMMA WorkingRow ==
  ASSUME IInv, NEW t \in Threads, HasRow(threads[t])
  PROVE  /\ threads[t].run \in Runs /\ OwnRow(t)
         /\ runs[threads[t].run] \in Row
BY ThreadFacts DEF Local, Fits

\* A row is opened: OpenRun outside the lock, OpenHeld under it.
LEMMA OpenRowRefines ==
  ASSUME IInv, NEW t \in Threads, NEW r \in Runs, InsertRun(t, r) \/ CreateRun(t, r)
  PROVE  Ledger!Next
<1>1. threads[t] \in Thread /\ Fits(threads[t])
  BY ThreadFacts DEF Local
<1>2. /\ LedgerState[r] = "absent"
      /\ NewRow(threads[t].job) \in Row
      /\ runs' = WithRow(r, NewRow(threads[t].job))
  BY <1>1 DEF InsertRun, CreateRun, OpenRow, LedgerState, RunState, NewRow,
     Absent, Row, RowJobs, LockJobs, AutoJobs, UserJobs, Fits, IInv, TypeOK
<1>3. OnlyRow(r) /\ runs'[r] = NewRow(threads[t].job)
  BY <1>2, RowBecomes DEF OnlyRow, IInv, TypeOK
<1>4. runs'[r].status = "running" /\ runs'[r].job = threads[t].job
  BY <1>3 DEF NewRow, Absent
<1>5. LedgerState' = [LedgerState EXCEPT ![r] = RunState(runs'[r])]
  BY <1>3, LedgerEntry
<1>6. Shape(t) /\ lock' = lock
  BY StartSteps DEF InsertRun, CreateRun
<1>7. CASE InsertRun(t, r)
  <2>1. Holder' = Holder
    BY <1>6, <1>7, HolderFacts DEF InsertRun, Critical, Shape
  <2>2. RunState(runs'[r]) \in Ledger!Open
    BY <1>4 DEF RunState, Ledger!Open
  <2>3. Ledger!OpenRun(r, RunState(runs'[r]))
    BY <1>2, <1>5, <2>1 DEF Ledger!OpenRun
  <2> QED BY <2>2, <2>3 DEF Ledger!Next
<1>8. CASE CreateRun(t, r)
  <2>1. threads[t].run = NoRun /\ threads[t].job = "sched_auto" /\ lock = t
    BY <1>1, <1>8, ThreadFacts DEF CreateRun, Critical, Fits, HasNoRow
  <2>2. Holder = NoRun
    BY <1>8, <2>1, HolderFacts DEF CreateRun, Critical
  <2>3. Holder' = r
    <3>1. threads'[t].run = r
      BY <1>1, <1>8, ThreadFacts DEF CreateRun, OpenRow, Becomes, Thread, IInv, TypeOK
    <3> QED BY <1>6, <2>1, <3>1, NullAssumption DEF Holder
  <2>4. RunState(runs'[r]) = "bulk"
    BY <1>4, <2>1 DEF RunState
  <2>5. Ledger!OpenHeld(r)
    BY <1>2, <1>5, <2>2, <2>3, <2>4 DEF Ledger!OpenHeld
  <2> QED BY <2>5 DEF Ledger!Next
<1> QED BY <1>7, <1>8

\* A thread that only changes its local variables keeps its run.
LEMMA BecomesKeepsRun ==
  ASSUME IInv, NEW t \in Threads,
         \/ AcquireLock(t) \/ LockBusy(t) \/ RunRaises(t) \/ AiSendToUid(t)
         \/ \E chosen \in SUBSET Contacts : EnsureActive(t, chosen) \/ Prepare(t, chosen)
         \/ \E exc \in {"notready", "other"} : EnsureActiveFails(t, exc)
         \/ \E c \in Contacts : SkipContact(t, c) \/ SendOk(t, c)
         \/ \E c \in Contacts : \E reached \in SUBSET {c} : SendFails(t, c, reached)
         \/ \E c \in Contacts, ok \in BOOLEAN : \E reached \in SUBSET {c} :
              ApiSendCalls(t, c, ok, reached)
         \/ \E item, cause \in Commits : RecordItem(t, item, cause)
         \/ FinishRun(t)
  PROVE  threads'[t].run = threads[t].run
<1>1. threads[t] \in Thread /\ threads \in [Threads -> Thread]
  BY DEF IInv, TypeOK
<1>2. ASSUME NEW next, Becomes(t, next), next.run = threads[t].run
      PROVE  threads'[t].run = threads[t].run
  BY <1>1, <1>2 DEF Becomes
<1>3. ASSUME NEW pc, Goto(t, pc) PROVE threads'[t].run = threads[t].run
  BY <1>1, <1>2, <1>3 DEF Goto, Thread
<1>4. ASSUME NEW pc, NEW exc, Raise(t, pc, exc)
      PROVE  threads'[t].run = threads[t].run
  BY <1>1, <1>2, <1>4 DEF Raise, Thread
<1>5. CASE AcquireLock(t) \/ AiSendToUid(t) \/ FinishRun(t)
  BY <1>3, <1>5 DEF AcquireLock, AiSendToUid, FinishRun
<1>6. CASE LockBusy(t) \/ RunRaises(t)
           \/ \E exc \in {"notready", "other"} : EnsureActiveFails(t, exc)
  BY <1>4, <1>6 DEF LockBusy, RunRaises, EnsureActiveFails
<1>7. ASSUME NEW chosen, EnsureActive(t, chosen) \/ Prepare(t, chosen)
      PROVE  threads'[t].run = threads[t].run
  <2>1. /\ [threads[t] EXCEPT !.pc = "send", !.todo = chosen].run = threads[t].run
        /\ [threads[t] EXCEPT !.pc = "prepare"].run = threads[t].run
    BY <1>1 DEF Thread
  <2> QED BY <1>2, <1>7, <2>1 DEF EnsureActive, Prepare
<1>8. ASSUME NEW c, NEW reached,
             SkipContact(t, c) \/ SendOk(t, c) \/ SendFails(t, c, reached)
      PROVE  threads'[t].run = threads[t].run
  <2>1. ASSUME NEW todo, NEW counted
        PROVE  /\ [threads[t] EXCEPT !.todo = todo].run = threads[t].run
               /\ [threads[t] EXCEPT !.pc = "record", !.todo = todo, !.ok = {c},
                                     !.sent = counted, !.streak = 0].run = threads[t].run
    BY <1>1 DEF Thread
  <2>2. CASE SkipContact(t, c)
    BY <1>2, <2>1, <2>2 DEF SkipContact
  <2>3. CASE SendOk(t, c)
    BY <1>2, <2>1, <2>3 DEF SendOk
  <2>4. CASE SendFails(t, c, reached)
    <3>1. [threads[t] EXCEPT !.pc = "record", !.todo = @ \ {c}, !.bad = {c},
             !.failed = @ \cup {c}, !.streak = @ + 1].run = threads[t].run
      BY <1>1 DEF Thread
    <3> QED BY <1>2, <2>4, <3>1 DEF SendFails
  <2> QED BY <1>8, <2>2, <2>3, <2>4
<1>9. ASSUME NEW c, NEW ok, NEW reached, ApiSendCalls(t, c, ok, reached)
      PROVE  threads'[t].run = threads[t].run
  <2>1. [threads[t] EXCEPT !.pc = "commit", !.ok  = IF ok THEN {c} ELSE {},
                           !.bad = IF ok THEN {} ELSE {c}].run = threads[t].run
    BY <1>1 DEF Thread
  <2> QED BY <1>2, <1>9, <2>1 DEF ApiSendCalls
<1>10. CASE \E item, cause \in Commits : RecordItem(t, item, cause)
  <2>1. [threads[t] EXCEPT !.pc = "send", !.ok = {}, !.bad = {},
           !.todo = IF BreakerTrips(t) THEN {} ELSE @].run = threads[t].run
    BY <1>1 DEF Thread
  <2> QED BY <1>2, <1>10, <2>1 DEF RecordItem
<1> QED BY <1>5, <1>6, <1>7, <1>8, <1>9, <1>10

\* Taking the lock: Hold for a run that has its row, nothing for the others.
LEMMA AcquireRefines ==
  ASSUME IInv, NEW t \in Threads, AcquireLock(t)
  PROVE  [Ledger!Next]_(Ledger!vars)
<1>1. threads[t] \in Thread /\ Fits(threads[t])
  BY ThreadFacts DEF Local
<1>2. LedgerState' = LedgerState
  BY LedgerSame DEF AcquireLock
<1>3. Holder = NoRun /\ Holder' = threads[t].run
  BY BecomesKeepsRun, NullAssumption DEF AcquireLock, Holder
<1>4. CASE threads[t].job \in UserJobs
  <2>1. threads[t].run \in Runs /\ OwnRow(t)
    BY <1>1, <1>4, WorkingRow DEF AcquireLock, HasRow
  <2>2. LedgerState[threads[t].run] = "bulk"
    BY <1>4, <2>1 DEF LedgerState, RunState, OwnRow, OpenAt, AcquireLock, UserJobs
  <2>3. Ledger!Hold(threads[t].run)
    BY <1>2, <1>3, <2>2 DEF Ledger!Hold
  <2> QED BY <2>1, <2>3 DEF Ledger!Next
<1>5. CASE threads[t].job \notin UserJobs
  <2>1. threads[t].run = NoRun
    BY <1>1, <1>5 DEF AcquireLock, Fits, HasNoRow, Thread, RowJobs, LockJobs,
                      AutoJobs, UserJobs
  <2> QED BY <1>2, <1>3, <2>1 DEF Ledger!vars
<1> QED BY <1>4, <1>5

\* Giving it back.
LEMMA ReleaseRefines ==
  ASSUME IInv, NEW t \in Threads, ReleaseLock(t)
  PROVE  Ledger!Next
<1>1. LedgerState' = LedgerState
  BY LedgerSame DEF ReleaseLock
<1>2. Holder' = NoRun
  BY HolderFacts DEF ReleaseLock
<1> QED BY <1>1, <1>2 DEF Ledger!Next, Ledger!Yield

\* The work itself is invisible in the ledger.
LEMMA WorkRefines ==
  ASSUME IInv, NEW t \in Threads,
         \/ LockBusy(t) \/ RunRaises(t) \/ AiSendToUid(t)
         \/ \E chosen \in SUBSET Contacts : EnsureActive(t, chosen) \/ Prepare(t, chosen)
         \/ \E c \in Contacts : SkipContact(t, c) \/ SendOk(t, c)
         \/ \E c \in Contacts : \E reached \in SUBSET {c} : SendFails(t, c, reached)
         \/ \E c \in Contacts, ok \in BOOLEAN : \E reached \in SUBSET {c} :
              ApiSendCalls(t, c, ok, reached)
         \/ \E item, cause \in Commits : RecordItem(t, item, cause)
  PROVE  UNCHANGED Ledger!vars
<1>1. threads'[t].run = threads[t].run
  BY BecomesKeepsRun
<1>2. Shape(t)
  BY LockSteps, WorkSteps, RowSteps
<1>3. lock' = lock
  BY DEF LockBusy, RunRaises, AiSendToUid, EnsureActive, Prepare, SkipContact,
         SendOk, SendFails, ApiSendCalls, RecordItem
<1>4. Holder' = Holder
  BY <1>1, <1>2, <1>3, HolderFacts DEF Shape, OnlyThread
<1>5. LedgerState' = LedgerState
  <2>1. ASSUME NEW item \in Commits, NEW cause \in Commits,
               RecordItem(t, item, cause)
        PROVE  LedgerState' = LedgerState
    <3>1. threads[t] \in Thread /\ HasRow(threads[t])
      BY <2>1, ThreadFacts DEF RecordItem, HasRow, Local, Fits, LockJobs, AutoJobs
    <3>2. threads[t].run \in Runs /\ runs[threads[t].run] \in Row
      BY <3>1, WorkingRow
    <3>3. runs'[threads[t].run].status = runs[threads[t].run].status
          /\ runs'[threads[t].run].job = runs[threads[t].run].job
          /\ OnlyRow(threads[t].run)
      <4> DEFINE row == Recorded(t, item, cause)
      <4>1. /\ row \in Row
            /\ row.status = runs[threads[t].run].status
            /\ row.job = runs[threads[t].run].job
        BY <3>1, <3>2, RecordedRow
      <4>2. runs' = WithRow(threads[t].run, row)
        BY <2>1 DEF RecordItem
      <4>3. runs \in [Runs -> Row]
        BY DEF IInv, TypeOK
      <4> HIDE DEF row
      <4> QED BY <3>2, <4>1, <4>2, <4>3, RowBecomes DEF OnlyRow
    <3> QED BY <3>3, LedgerSame DEF OnlyRow
  <2>2. CASE ~ \E item, cause \in Commits : RecordItem(t, item, cause)
    <3>1. runs' = runs
      BY <2>2 DEF LockBusy, RunRaises, AiSendToUid, EnsureActive, Prepare,
         SkipContact, SendOk, SendFails, ApiSendCalls
    <3> QED BY <3>1, LedgerSame
  <2> QED BY <2>1, <2>2
<1> QED BY <1>4, <1>5 DEF Ledger!vars

\* Closing a row under the lock: Fail, or Complete by the holder.
LEMMA CloseRefines ==
  ASSUME IInv, NEW t \in Threads,
         \/ \E exc \in {"notready", "other"} : EnsureActiveFails(t, exc)
         \/ FinishRun(t)
  PROVE  [Ledger!Next]_(Ledger!vars)
<1>1. threads[t] \in Thread /\ Fits(threads[t])
  BY ThreadFacts DEF Local
<1>2. HasRow(threads[t]) /\ threads[t].job \in LockJobs
      /\ threads[t].pc \in OpenAt \cap Critical
  BY <1>1 DEF EnsureActiveFails, FinishRun, HasRow, Fits, LockJobs, AutoJobs,
              OpenAt, Critical
<1>3. /\ threads[t].run \in Runs
      /\ runs[threads[t].run] \in Row
      /\ LedgerState[threads[t].run] = "bulk"
  BY <1>2, WorkingRow DEF OwnRow, LedgerState, RunState, LockJobs, AutoJobs
<1>4. Holder = threads[t].run
  BY <1>2, HolderFacts
<1>5. Holder' = Holder
  <2>1. Shape(t) /\ lock' = lock
    BY RowSteps DEF EnsureActiveFails, FinishRun
  <2> QED BY <2>1, BecomesKeepsRun, HolderFacts DEF Shape, OnlyThread
<1>6. ASSUME NEW status \in {"done", "error"}, OnlyRow(threads[t].run),
             runs'[threads[t].run].status = status
      PROVE  Ledger!Next
  <2>1. OnlyRow(threads[t].run) /\ runs'[threads[t].run].status = status
    BY <1>6
  <2>2. LedgerState' = [LedgerState EXCEPT ![threads[t].run] = status]
    BY <1>3, <2>1, LedgerEntry DEF RunState
  <2>3. CASE status = "done"
    BY <1>3, <1>4, <1>5, <2>2, <2>3 DEF Ledger!Next, Ledger!Complete
  <2>4. CASE status = "error"
    BY <1>3, <1>5, <2>2, <2>4 DEF Ledger!Next, Ledger!Fail
  <2> QED BY <2>3, <2>4
<1>7. CASE FinishRun(t)
  <2>1. PICK row \in Row : row = Summary(t) /\ row.status \in {"done", "error"}
    BY <1>1, <1>3, SummaryRow DEF IInv
  <2>2. OnlyRow(threads[t].run) /\ runs'[threads[t].run] = row
    BY <1>3, <1>7, <2>1, RowBecomes DEF FinishRun, OnlyRow, IInv, TypeOK
  <2> QED BY <1>6, <2>1, <2>2
<1>8. ASSUME NEW exc \in {"notready", "other"}, EnsureActiveFails(t, exc)
      PROVE  [Ledger!Next]_(Ledger!vars)
  <2>1. CASE runs' = runs
    <3>1. LedgerState' = LedgerState
      BY <2>1, LedgerSame
    <3> QED BY <1>5, <3>1 DEF Ledger!vars
  <2>2. CASE runs' = CloseAs(threads[t].run, "error", "setup")
    BY <1>3, <1>6, <2>2, CloseAsRow DEF Causes, OnlyRow, IInv
  <2> QED BY <1>8, <2>1, <2>2 DEF EnsureActiveFails
<1> QED BY <1>7, <1>8

\* After the lock: the runner fails a run that is still open, the single send
\* completes its own, and every other thread leaves the ledger alone.
LEMMA EndRefines ==
  ASSUME IInv, NEW t \in Threads,
         \/ RunnerCloses(t) \/ RunOneReturns(t) \/ AiReturns(t)
         \/ ApiSendCloses(t)
         \/ \E c \in Contacts : \E reached \in SUBSET {c} : ApiSendRaises(t, reached)
  PROVE  [Ledger!Next]_(Ledger!vars)
<1>1. threads[t] \in Thread /\ Fits(threads[t])
  BY ThreadFacts DEF Local
<1>2. Holder' = Holder
  <2>1. Shape(t) /\ lock' = lock /\ threads[t].pc \notin Critical
    BY EndSteps DEF RunnerCloses, RunOneReturns, AiReturns, ApiSendRaises,
       ApiSendCloses, Critical
  <2> QED BY <2>1, HolderFacts DEF Shape
<1>3. CASE runs' = runs
  BY <1>2, <1>3, LedgerSame DEF Ledger!vars
<1>4. CASE RunnerCloses(t) /\ runs' # runs
  <2>1. HasRow(threads[t])
    BY <1>4 DEF RunnerCloses, HasRow
  <2>2. threads[t].run \in Runs /\ OwnRow(t) /\ runs[threads[t].run] \in Row
    BY <2>1, WorkingRow
  <2>3. runs[threads[t].run].status = "running"
    BY <1>4 DEF RunnerCloses, ClosedByRunner, CloseRun
  <2>4. threads[t].exc # "none"
    BY <1>4, <2>2, <2>3 DEF OwnRow, RunnerCloses
  <2>5. LedgerState[threads[t].run] = "bulk"
    BY <1>4, <2>2, <2>3 DEF LedgerState, RunState, OwnRow, RunnerCloses, UserJobs
  <2>6. RunnerCause(threads[t].exc) \in Causes
    BY DEF RunnerCause, Causes
  <2>7. OnlyRow(threads[t].run) /\ runs'[threads[t].run].status = "error"
    BY <1>4, <2>2, <2>3, <2>4, <2>6, CloseAsRow
    DEF RunnerCloses, ClosedByRunner, CloseRun, OnlyRow, IInv
  <2>8. LedgerState' = [LedgerState EXCEPT ![threads[t].run] = "error"]
    BY <2>2, <2>7, LedgerEntry DEF RunState
  <2> QED BY <1>2, <2>2, <2>5, <2>8 DEF Ledger!Next, Ledger!Fail
<1>5. CASE ApiSendCloses(t)
  <2>1. HasRow(threads[t])
    BY <1>5 DEF ApiSendCloses, HasRow
  <2>2. threads[t].run \in Runs /\ OwnRow(t) /\ runs[threads[t].run] \in Row
    BY <2>1, WorkingRow
  <2>3. LedgerState[threads[t].run] = "single"
    BY <1>1, <1>5, <2>2 DEF LedgerState, RunState, OwnRow, OpenAt, ApiSendCloses, Fits
  <2>4. OnlyRow(threads[t].run)
    BY <1>5, <2>2 DEF ApiSendCloses, WithRow, OnlyRow, IInv, TypeOK
  <2>5. runs'[threads[t].run].status = "done"
    BY <1>5, <2>2 DEF ApiSendCloses, WithRow, Row, IInv, TypeOK
  <2>6. LedgerState' = [LedgerState EXCEPT ![threads[t].run] = "done"]
    BY <2>2, <2>4, <2>5, LedgerEntry DEF RunState
  <2> QED BY <1>2, <2>2, <2>3, <2>6 DEF Ledger!Next, Ledger!Complete
<1> QED BY <1>3, <1>4, <1>5 DEF RunOneReturns, AiReturns, ApiSendRaises

\* A thread that is only started has no row yet and no lock.
LEMMA SpawnRefines ==
  ASSUME IInv, NEW t \in Threads, Request(t) \/ SchedulerTriggers(t)
  PROVE  UNCHANGED Ledger!vars
<1>1. Shape(t) /\ threads[t].pc = "idle" /\ lock' = lock /\ runs' = runs
  BY StartSteps DEF Request, StartAutoRun, StartBatchSend, ApiSend,
     AiWantsToSend, SchedulerTriggers, Spawned
<1>2. Holder' = Holder
  BY <1>1, HolderFacts DEF Shape, Critical
<1> QED BY <1>1, <1>2, LedgerSame DEF Ledger!vars

\* A crash yields the account, a restart recovers the ledger.
LEMMA ProcessRefines ==
  ASSUME IInv, Crash \/ Restart
  PROVE  Ledger!Next
<1>1. CASE Crash
  <2>1. LedgerState' = LedgerState /\ Holder' = NoRun
    BY <1>1, LedgerSame DEF Crash, Holder
  <2> QED BY <2>1 DEF Ledger!Next, Ledger!Yield
<1>2. CASE Restart
  <2>1. Holder' = Holder
    BY <1>2 DEF Restart, Holder
  <2>2. ASSUME NEW r \in Runs
        PROVE  /\ runs[r].status = "running" => runs'[r].status = "error"
               /\ runs[r].status # "running" => runs'[r] = runs[r]
    BY <1>2 DEF Restart, CleanupStaleRuns, IInv, TypeOK, Row
  <2>3. LedgerState' = [r \in Runs |-> IF LedgerState[r] \in Ledger!Open
                                         THEN "error" ELSE LedgerState[r]]
    <3>1. ASSUME NEW r \in Runs
          PROVE  RunState(runs[r]) \in Ledger!Open <=> runs[r].status = "running"
      BY DEF RunState, Ledger!Open, IInv, TypeOK, Row
    <3>2. ASSUME NEW r \in Runs
          PROVE  RunState(runs'[r]) = IF RunState(runs[r]) \in Ledger!Open
                                        THEN "error" ELSE RunState(runs[r])
      BY <2>2, <3>1 DEF RunState
    <3> QED BY <3>2 DEF LedgerState
  <2> QED BY <2>1, <2>3 DEF Ledger!Next, Ledger!Recover
<1> QED BY <1>1, <1>2

\* Every step of AccountRuns is a step of RunLedger or none.
LEMMA NextRefines ==
  ASSUME IInv, [Next]_vars
  PROVE  [Ledger!Next]_(Ledger!vars)
<1>1. ASSUME NEW t \in Threads, ThreadStep(t)
      PROVE  [Ledger!Next]_(Ledger!vars)
  BY <1>1, OpenRowRefines, AcquireRefines, ReleaseRefines, WorkRefines,
     CloseRefines, EndRefines
  DEF ThreadStep, RunStep, AiStep, SingleStep
<1>2. ASSUME NEW t \in Threads, Request(t) \/ SchedulerTriggers(t)
      PROVE  [Ledger!Next]_(Ledger!vars)
  BY <1>2, SpawnRefines
<1>3. CASE Crash \/ Restart
  BY <1>3, ProcessRefines
<1>4. CASE UNCHANGED <<runs, threads, lock>>
  BY <1>4 DEF Ledger!vars, LedgerState, Holder
<1>5. CASE SchedulerStep
  BY <1>2, <1>4, <1>5 DEF SchedulerStep, SchedulerScan, SchedulerSeesRunning,
     SchedulerCountsErrors, SchedulerBacksOff
<1>6. CASE Environment
  BY <1>3, <1>4, <1>6 DEF Environment, SetSchedule, Relogin,
     CookiesHealthCheck, Tick
<1> QED BY <1>1, <1>2, <1>3, <1>4, <1>5, <1>6 DEF Next, vars

\* Whatever happens, the rows of an account only do what RunLedger says: they
\* are opened once and closed once, only the holder of the account completes a
\* bulk run, and a restart closes what was open.
THEOREM RunsImplementLedger == Spec => ImplementsLedger
<1>1. Init => Ledger!Init
  BY DEF Init, Ledger!Init, LedgerState, RunState, Absent, Holder
<1>2. IInv /\ [Next]_vars => [Ledger!Next]_(Ledger!vars)
  BY NextRefines
<1> QED BY <1>1, <1>2, Invariant, PTL DEF Spec, ImplementsLedger, Ledger!Spec
==============================================================================
