---------------------------- MODULE RealtimeWatch ----------------------------
(***************************************************************************)
(* app/realtime.py for one account: browsers and the AI's resident         *)
(* subscription keep a polling thread alive, the last one to leave stops   *)
(* it, and a thread that fails too often gives up.                         *)
(*                                                                         *)
(* A watcher is a _Watcher object with the thread that polls for it.  An   *)
(* object nobody refers to any more is as good as new, so a few ids are    *)
(* enough for histories of any length.                                     *)
(***************************************************************************)
EXTENDS Naturals

CONSTANTS
  Watchers,      \* _Watcher objects (bounds how many can be alive)
  Browsers,      \* subscriptions of open chat pages
  Residents,     \* subscriptions with system=True
  Callers,       \* threads that call ensure_system_watch or drop_system_watch
  Intervals,     \* the polling intervals the AI settings offer
  NoWatcher, NoSub,
  MaxErrors      \* MAX_CONSECUTIVE_ERRORS (10)

Subs == Browsers \cup Residents

ASSUME NobodyAssumption == NoWatcher \notin Watchers /\ NoSub \notin Subs
ASSUME KindAssumption == Browsers \cap Residents = {}
ASSUME ErrorAssumption == MaxErrors \in Nat \ {0}

VARIABLES
  registered,    \* _WATCHERS[account]
  watchers,      \* the objects, with the locals of their threads
  resident,      \* _SYSTEM_SUBS[account]
  interval,      \* its Subscription.interval
  callers        \* the locals of ensure_system_watch and drop_system_watch

vars == <<registered, watchers, resident, interval, callers>>

\* The points of _poll_loop: before the test of the while, inside the request,
\* inside wake_ev.wait, after a wake-up, before and after the last block.
Working == {"check", "poll", "sleep", "woken"}
Leaving == {"leave", "ending"}

\* is_alive(): true until the very end of the thread.
Alive(w) == watchers[w].pc \in Working \cup Leaving

NewWatcher == [subs |-> {}, stop |-> FALSE, wake |-> FALSE, pc |-> "dead",
               errors |-> 0, asked |-> FALSE]

Inactive == [pc |-> "idle", want |-> "none", old |-> NoSub, sub |-> NoSub]

------------------------------------------------------------------------------
(* subscribe and unsubscribe, each under _LOCK. *)

Subscribed(s) == registered # NoWatcher /\ s \in watchers[registered].subs

\* Nothing refers to the object, so its id can stand for a new one.
UnusedWatcher(w) == w # registered /\ ~Alive(w)
UnusedSub(s) == /\ \A w \in Watchers : s \notin watchers[w].subs
                /\ s # resident
                /\ \A c \in Callers : s \notin {callers[c].old, callers[c].sub}

\* A thread that is alive is woken, otherwise one is started.  The field asked
\* is not in the code: it says that no request has begun since the last wake.
Joined(watcher, alive, s) ==
  IF alive
    THEN [watcher EXCEPT !.subs = @ \cup {s}, !.wake = TRUE, !.asked = TRUE]
    ELSE [watcher EXCEPT !.subs = @ \cup {s}, !.stop = FALSE, !.pc = "check",
                         !.errors = 0]

Subscribe(s) ==
  \/ /\ registered # NoWatcher
     /\ watchers' = [watchers EXCEPT
                       ![registered] = Joined(@, Alive(registered), s)]
     /\ UNCHANGED registered
  \/ /\ registered = NoWatcher
     /\ \E w \in Watchers :
          /\ UnusedWatcher(w)
          /\ registered' = w
          /\ watchers' = [watchers EXCEPT ![w] = Joined(NewWatcher, FALSE, s)]

\* (mutant) The thread is not told to stop.
UnsubscribeQuietly(s) ==
  IF ~Subscribed(s) THEN UNCHANGED <<registered, watchers>>
  ELSE IF watchers[registered].subs = {s}
    THEN /\ registered' = NoWatcher
         /\ watchers' = [watchers EXCEPT ![registered].subs = {},
                                         ![registered].wake = TRUE]
    ELSE /\ UNCHANGED registered
         /\ watchers' = [watchers EXCEPT ![registered].subs = @ \ {s}]

\* (mutant) The stopped watcher stays in _WATCHERS.
UnsubscribeKeeps(s) ==
  IF ~Subscribed(s) THEN UNCHANGED <<registered, watchers>>
  ELSE /\ UNCHANGED registered
       /\ watchers' = [watchers EXCEPT
                         ![registered].subs = @ \ {s},
                         ![registered].stop = watchers[registered].subs = {s},
                         ![registered].wake = TRUE]

\* The last one to leave stops the thread and wakes it so that it sees that.
Unsubscribe(s) ==
  IF ~Subscribed(s) THEN UNCHANGED <<registered, watchers>>
  ELSE IF watchers[registered].subs = {s}
    THEN /\ registered' = NoWatcher
         /\ watchers' = [watchers EXCEPT ![registered].subs = {},
                                         ![registered].stop = TRUE,
                                         ![registered].wake = TRUE]
    ELSE /\ UNCHANGED registered
         /\ watchers' = [watchers EXCEPT ![registered].subs = @ \ {s}]

\* A chat page opens its event stream, and closes it.
Connect(s) ==
  /\ UnusedSub(s)
  /\ Subscribe(s)
  /\ UNCHANGED <<resident, interval, callers>>

Disconnect(s) ==
  /\ Subscribed(s)
  /\ Unsubscribe(s)
  /\ UNCHANGED <<resident, interval, callers>>

\* A message was sent: the next poll should not wait.
Wake ==
  /\ registered # NoWatcher
  /\ watchers' = [watchers EXCEPT ![registered].wake = TRUE,
                                  ![registered].asked = TRUE]
  /\ UNCHANGED <<registered, resident, interval, callers>>

------------------------------------------------------------------------------
(* ensure_system_watch and drop_system_watch: several blocks under _LOCK. *)

Moves(c, next) == callers' = [callers EXCEPT ![c] = next]

EnsureCalled(c, i) ==
  /\ callers[c].pc = "idle"
  /\ Moves(c, [Inactive EXCEPT !.pc = "ensure", !.want = i])
  /\ UNCHANGED <<registered, watchers, resident, interval>>

\* The same interval: the old subscription is returned as it is.
EnsureReturnsOld(c) ==
  /\ callers[c].pc = "ensure"
  /\ resident # NoSub
  /\ interval = callers[c].want
  /\ Moves(c, Inactive)
  /\ UNCHANGED <<registered, watchers, resident, interval>>

EnsureGoesOn(c) ==
  /\ callers[c].pc = "ensure"
  /\ resident # NoSub => interval # callers[c].want
  /\ Moves(c, [callers[c] EXCEPT !.pc = IF resident = NoSub THEN "add" ELSE "swap",
                                 !.old = resident])
  /\ UNCHANGED <<registered, watchers, resident, interval>>

EnsureUnsubscribes(c) ==
  /\ callers[c].pc = "swap"
  /\ Unsubscribe(callers[c].old)
  /\ Moves(c, [callers[c] EXCEPT !.pc = "add"])
  /\ UNCHANGED <<resident, interval>>

\* (mutant) What is kept is the watcher, not the subscription.
EnsureTakesWatcher(c, s) ==
  /\ callers[c].pc = "add"
  /\ UnusedSub(s)
  /\ Subscribe(s)
  /\ Moves(c, [callers[c] EXCEPT !.pc = "write", !.sub = registered'])
  /\ UNCHANGED <<resident, interval>>

EnsureSubscribes(c, s) ==
  /\ callers[c].pc = "add"
  /\ UnusedSub(s)
  /\ Subscribe(s)
  /\ Moves(c, [callers[c] EXCEPT !.pc = "write", !.sub = s])
  /\ UNCHANGED <<resident, interval>>

\* (mutant) setdefault: what is there already stays.
EnsureKeepsFirst(c) ==
  /\ callers[c].pc = "write"
  /\ resident' = IF resident = NoSub THEN callers[c].sub ELSE resident
  /\ interval' = callers[c].want
  /\ Moves(c, Inactive)
  /\ UNCHANGED <<registered, watchers>>

EnsureWrites(c) ==
  /\ callers[c].pc = "write"
  /\ resident' = callers[c].sub
  /\ interval' = callers[c].want
  /\ Moves(c, Inactive)
  /\ UNCHANGED <<registered, watchers>>

DropPops(c) ==
  /\ callers[c].pc = "idle"
  /\ resident # NoSub
  /\ Moves(c, [Inactive EXCEPT !.pc = "drop", !.old = resident])
  /\ resident' = NoSub
  /\ interval' = "none"
  /\ UNCHANGED <<registered, watchers>>

DropUnsubscribes(c) ==
  /\ callers[c].pc = "drop"
  /\ Unsubscribe(callers[c].old)
  /\ Moves(c, Inactive)
  /\ UNCHANGED <<resident, interval>>

------------------------------------------------------------------------------
(* _poll_loop. *)

Steps(w, next) ==
  /\ watchers' = [watchers EXCEPT ![w] = next]
  /\ UNCHANGED <<resident, interval, callers>>

\* The while condition; the request that follows answers every earlier wake.
TestsStop(w) ==
  /\ watchers[w].pc = "check"
  /\ Steps(w, IF watchers[w].stop
                THEN [watchers[w] EXCEPT !.pc = "leave"]
                ELSE [watchers[w] EXCEPT !.pc = "poll", !.asked = FALSE])
  /\ UNCHANGED registered

\* (mutant) Wake-ups that came during the request are thrown away.
PollForgetsWake(w) ==
  /\ watchers[w].pc = "poll"
  /\ Steps(w, [watchers[w] EXCEPT !.pc = "sleep", !.errors = 0, !.wake = FALSE])
  /\ UNCHANGED registered

\* The answer is broadcast and handed to the AI worker; then the pause begins.
PollAnswers(w) ==
  /\ watchers[w].pc = "poll"
  /\ Steps(w, [watchers[w] EXCEPT !.pc = "sleep", !.errors = 0])
  /\ UNCHANGED registered

PollFails(w) ==
  /\ watchers[w].pc = "poll"
  /\ Steps(w, [watchers[w] EXCEPT
                 !.errors = @ + 1,
                 !.pc = IF watchers[w].errors + 1 >= MaxErrors
                          THEN "leave" ELSE "sleep"])
  /\ UNCHANGED registered

\* wake_ev.wait returns, because the event is set or because the time is over.
WakesUp(w) ==
  /\ watchers[w].pc = "sleep"
  /\ watchers[w].wake
  /\ Steps(w, [watchers[w] EXCEPT !.pc = "woken"])
  /\ UNCHANGED registered

TimesOut(w) ==
  /\ watchers[w].pc = "sleep"
  /\ Steps(w, [watchers[w] EXCEPT !.pc = IF watchers[w].stop
                                           THEN "leave" ELSE "check"])
  /\ UNCHANGED registered

ClearsWake(w) ==
  /\ watchers[w].pc = "woken"
  /\ Steps(w, IF watchers[w].stop
                THEN [watchers[w] EXCEPT !.pc = "leave"]
                ELSE [watchers[w] EXCEPT !.pc = "check", !.wake = FALSE])
  /\ UNCHANGED registered

\* (mutant) The thread removes whatever watcher is registered.
LeavesCarelessly(w) ==
  /\ watchers[w].pc = "leave"
  /\ Steps(w, [watchers[w] EXCEPT !.pc = "ending"])
  /\ registered' = IF watchers[w].subs = {} THEN NoWatcher ELSE registered

\* The last block: the watcher is removed if it is still this one and unused.
Leaves(w) ==
  /\ watchers[w].pc = "leave"
  /\ Steps(w, [watchers[w] EXCEPT !.pc = "ending"])
  /\ registered' = IF registered = w /\ watchers[w].subs = {}
                     THEN NoWatcher ELSE registered

\* An object that is not registered is gone with its thread.
Dies(w) ==
  /\ watchers[w].pc = "ending"
  /\ Steps(w, IF registered = w THEN [watchers[w] EXCEPT !.pc = "dead"]
                                ELSE NewWatcher)
  /\ UNCHANGED registered

------------------------------------------------------------------------------
Init ==
  /\ registered = NoWatcher
  /\ watchers = [w \in Watchers |-> NewWatcher]
  /\ resident = NoSub
  /\ interval = "none"
  /\ callers = [c \in Callers |-> Inactive]

ThreadStep(w) ==
  \/ TestsStop(w) \/ PollAnswers(w) \/ PollFails(w)
  \/ WakesUp(w) \/ TimesOut(w) \/ ClearsWake(w)
  \/ Leaves(w) \/ Dies(w)

CallerStep(c) ==
  \/ EnsureReturnsOld(c) \/ EnsureGoesOn(c) \/ EnsureUnsubscribes(c)
  \/ \E s \in Residents : EnsureSubscribes(c, s)
  \/ EnsureWrites(c)
  \/ DropUnsubscribes(c)

Request ==
  \/ \E s \in Browsers : Connect(s) \/ Disconnect(s)
  \/ \E c \in Callers, i \in Intervals : EnsureCalled(c, i)
  \/ \E c \in Callers : DropPops(c)
  \/ Wake

Next ==
  \/ \E w \in Watchers : ThreadStep(w)
  \/ \E c \in Callers : CallerStep(c)
  \/ Request

Spec == Init /\ [][Next]_vars

\* A polling thread goes on; its request and its pause have a timeout.
FairSpec == Spec /\ \A w \in Watchers : WF_vars(ThreadStep(w))

------------------------------------------------------------------------------
(* Properties. *)

Watcher ==
  [subs : SUBSET Subs, stop : BOOLEAN, wake : BOOLEAN,
   pc : Working \cup Leaving \cup {"dead"}, errors : Nat, asked : BOOLEAN]

Caller ==
  [pc : {"idle", "ensure", "swap", "add", "write", "drop"},
   want : Intervals \cup {"none"},
   old : Residents \cup {NoSub}, sub : Residents \cup {NoSub}]

\* Type invariant: registry, watchers and callers keep their domains.
TypeOK ==
  /\ registered \in Watchers \cup {NoWatcher}
  /\ watchers \in [Watchers -> Watcher]
  /\ resident \in Residents \cup {NoSub}
  /\ interval \in Intervals \cup {"none"}
  /\ callers \in [Callers -> Caller]

\* One thread polls the account for good: one that is alive without being
\* registered was told to stop.  (Until it sees that, it may still poll next to
\* its successor.)
StrayThreadsAreStopped ==
  \A w \in Watchers : Alive(w) /\ w # registered => watchers[w].stop

\* An account somebody watches is polled: its watcher has subscribers, was not
\* told to stop and works, unless its thread gave up after too many errors.
WatchedIsPolled ==
  registered # NoWatcher =>
    LET w == registered
    IN /\ watchers[w].subs # {}
       /\ ~watchers[w].stop
       /\ watchers[w].pc \in Working \/ watchers[w].errors >= MaxErrors

\* Nobody who asks for a fresh poll has to wait for the end of the pause: a
\* thread that sleeps without a request since the last wake finds the event set.
NoWakeIsLost ==
  \A w \in Watchers :
    watchers[w].pc = "sleep" /\ watchers[w].asked => watchers[w].wake

\* The AI's resident subscription really is one: when no call is under way, what
\* _SYSTEM_SUBS holds keeps the account watched, however ensure and drop met.
AllIdle == \A c \in Callers : callers[c].pc = "idle"
ResidentIsSubscribed == AllIdle /\ resident # NoSub => Subscribed(resident)

\* "The last one closes the page and polling stops": a thread that is not
\* registered any more comes to its end.
UnwatchedThreadEnds ==
  \A w \in Watchers : (Alive(w) /\ w # registered) ~> ~Alive(w)

------------------------------------------------------------------------------
(* What the comments of realtime.py say and the code does not keep. *)

\* "Keeps this account polled, even if nobody has the page open"
\* (ensure_system_watch): when the call answers with the subscription it finds,
\* a thread is alive for it.
EnsureKeepsPolling ==
  [][\A c \in Callers :
       callers[c].pc = "ensure" /\ callers'[c].pc = "idle"
         => registered # NoWatcher /\ Alive(registered)]_vars
==============================================================================
