------------------------- MODULE RealtimeWatch_proofs -------------------------
(***************************************************************************)
(* What RealtimeWatch promises for any number of watchers, subscriptions   *)
(* and callers, and any number of errors a thread may see before it stops. *)
(***************************************************************************)
EXTENDS RealtimeWatch, TLAPS

(* The inductive invariant: first the watchers, then the resident. *)

WatcherTypes == /\ registered \in Watchers \cup {NoWatcher}
                /\ watchers \in [Watchers -> Watcher]

\* A wake-up that came since the last request began is still to be seen.
WakeInv == \A w \in Watchers :
  watchers[w].pc \in {"poll", "sleep"} /\ watchers[w].asked => watchers[w].wake

WatcherInv == /\ WatcherTypes
              /\ StrayThreadsAreStopped
              /\ WatchedIsPolled
              /\ WakeInv

CallerTypes == /\ resident \in Residents \cup {NoSub}
               /\ interval \in Intervals \cup {"none"}
               /\ callers \in [Callers -> Caller]

\* The resident subscriptions that keep the account watched.
Kept == {s \in Residents : Subscribed(s)}

\* The subscription a caller is about to write is kept and its own.
WriteInv == \A c \in Callers : callers[c].pc = "write" =>
  /\ callers[c].sub \in Kept
  /\ callers[c].sub # resident
  /\ \A d \in Callers : callers[d].old # callers[c].sub
  /\ \A d \in Callers \ {c} :
       callers[d].pc = "write" => callers[d].sub # callers[c].sub

\* A resident without a subscription is about to be replaced.
ReplaceInv == resident \notin Kept \cup {NoSub} =>
  \E c \in Callers : /\ callers[c].pc \in {"add", "write"}
                     /\ callers[c].old = resident

\* What is being swapped or dropped; what is dropped is registered no more.
OldInv == \A c \in Callers :
  /\ callers[c].pc \in {"swap", "drop"} => callers[c].old \in Residents
  /\ callers[c].pc = "drop" => callers[c].old # resident

ResidentInv == CallerTypes /\ WriteInv /\ ReplaceInv /\ OldInv

IInv == WatcherInv /\ ResidentInv

------------------------------------------------------------------------------
(* The watchers. *)

\* A new object is well typed.
LEMMA NewWatcherType == NewWatcher \in Watcher /\ NewWatcher.pc = "dead"
BY DEF NewWatcher, Watcher, Working, Leaving

\* Writing one watcher changes that watcher and no other.
LEMMA OneWatcher ==
  ASSUME watchers \in [Watchers -> Watcher],
         NEW w \in Watchers, NEW next \in Watcher,
         watchers' = [watchers EXCEPT ![w] = next]
  PROVE  /\ watchers' \in [Watchers -> Watcher]
         /\ watchers'[w] = next
         /\ \A v \in Watchers \ {w} : watchers'[v] = watchers[v]
OBVIOUS

\* What a subscription does to a watcher whose thread is alive, or is not.
LEMMA JoinedAlive ==
  ASSUME NEW watcher \in Watcher, NEW s \in Subs
  PROVE  /\ Joined(watcher, TRUE, s) \in Watcher
         /\ Joined(watcher, TRUE, s).subs = watcher.subs \cup {s}
         /\ Joined(watcher, TRUE, s).pc = watcher.pc
         /\ Joined(watcher, TRUE, s).errors = watcher.errors
         /\ Joined(watcher, TRUE, s).stop = watcher.stop
         /\ Joined(watcher, TRUE, s).wake = TRUE
BY DEF Joined, Watcher

LEMMA JoinedDead ==
  ASSUME NEW watcher \in Watcher, NEW s \in Subs
  PROVE  /\ Joined(watcher, FALSE, s) \in Watcher
         /\ Joined(watcher, FALSE, s).subs = watcher.subs \cup {s}
         /\ Joined(watcher, FALSE, s).pc = "check"
         /\ Joined(watcher, FALSE, s).stop = FALSE
BY DEF Joined, Watcher, Working

\* A watcher that changes as an unregistered or registered one may, beside
\* others that stay as they are, keeps the invariant.
LEMMA WatcherShape ==
  ASSUME WatcherInv, NEW w \in Watchers,
         watchers' \in [Watchers -> Watcher],
         \A v \in Watchers \ {w} : watchers'[v] = watchers[v],
         registered' = registered \/ (registered = NoWatcher /\ registered' = w)
           \/ (registered = w /\ registered' = NoWatcher),
         registered' = w =>
           /\ watchers'[w].subs # {}
           /\ ~watchers'[w].stop
           /\ watchers'[w].pc \in Working \/ watchers'[w].errors >= MaxErrors,
         registered' # w =>
           watchers'[w].stop \/ watchers'[w].pc = "dead",
         watchers'[w].pc \in {"poll", "sleep"} /\ watchers'[w].asked
           => watchers'[w].wake
  PROVE  WatcherInv'
<1>1. WatcherTypes'
  BY DEF WatcherInv, WatcherTypes
<1>2. StrayThreadsAreStopped'
  <2> SUFFICES ASSUME NEW v \in Watchers, Alive(v)', v # registered'
               PROVE  watchers'[v].stop
    BY DEF StrayThreadsAreStopped
  <2>1. CASE v = w
    BY <2>1 DEF Alive, Working, Leaving
  <2>2. CASE v # w
    <3>1. watchers'[v] = watchers[v] /\ v # registered
      BY <2>2, NobodyAssumption
    <3> QED BY <3>1 DEF WatcherInv, StrayThreadsAreStopped, Alive
  <2> QED BY <2>1, <2>2
<1>3. WatchedIsPolled'
  <2>1. CASE registered' = w
    BY <2>1 DEF WatchedIsPolled
  <2>2. CASE registered' # w
    <3>1. registered' = NoWatcher \/ (registered' = registered /\ registered # w)
      BY <2>2
    <3>2. registered' # NoWatcher => watchers'[registered] = watchers[registered]
      BY <3>1 DEF WatcherInv, WatcherTypes
    <3> QED BY <3>1, <3>2 DEF WatcherInv, WatchedIsPolled
  <2> QED BY <2>1, <2>2
<1>4. WakeInv'
  BY DEF WatcherInv, WakeInv
<1> QED BY <1>1, <1>2, <1>3, <1>4 DEF WatcherInv

\* subscribe keeps the invariant, and nobody loses a subscription.
LEMMA SubscribeKeeps ==
  ASSUME WatcherInv, NEW s \in Subs, Subscribe(s)
  PROVE  /\ WatcherInv'
         /\ Subscribed(s)'
         /\ \A x \in Subs : Subscribed(x) => Subscribed(x)'
<1> USE NobodyAssumption
<1>1. CASE registered # NoWatcher
  <2> DEFINE w == registered
             next == Joined(watchers[w], Alive(w), s)
  <2>1. w \in Watchers /\ watchers[w] \in Watcher /\ Alive(w) \in BOOLEAN
    BY <1>1 DEF WatcherInv, WatcherTypes, Alive
  <2>2. watchers' = [watchers EXCEPT ![w] = next] /\ registered' = w
    BY <1>1 DEF Subscribe
  <2>3. /\ next \in Watcher
        /\ next.subs = watchers[w].subs \cup {s}
        /\ Alive(w) => /\ next.pc = watchers[w].pc
                       /\ next.errors = watchers[w].errors
                       /\ next.stop = watchers[w].stop
                       /\ next.wake
        /\ ~Alive(w) => next.pc = "check" /\ next.stop = FALSE
    <3>1. CASE Alive(w)
      <4>1. next = Joined(watchers[w], TRUE, s)
        BY <3>1 DEF Joined
      <4> QED BY <2>1, <3>1, <4>1, JoinedAlive
    <3>2. CASE ~Alive(w)
      <4>1. next = Joined(watchers[w], FALSE, s)
        BY <3>2 DEF Joined
      <4> QED BY <2>1, <3>2, <4>1, JoinedDead
    <3> QED BY <3>1, <3>2
  <2>4. ~watchers[w].stop
        /\ (watchers[w].pc \in Working \/ watchers[w].errors >= MaxErrors)
    BY <1>1 DEF WatcherInv, WatchedIsPolled
  <2> HIDE DEF next
  <2>5. /\ watchers' \in [Watchers -> Watcher]
        /\ watchers'[w] = next
        /\ \A v \in Watchers \ {w} : watchers'[v] = watchers[v]
    BY <2>1, <2>2, <2>3, OneWatcher DEF WatcherInv, WatcherTypes
  <2>6. next.subs # {} /\ ~next.stop
        /\ (next.pc \in Working \/ next.errors >= MaxErrors)
    BY <2>3, <2>4 DEF Working
  <2>7. next.pc \in {"poll", "sleep"} /\ next.asked => next.wake
    BY <2>3
  <2>8. WatcherInv'
    BY <2>1, <2>2, <2>5, <2>6, <2>7, WatcherShape
  <2> QED BY <1>1, <2>1, <2>2, <2>3, <2>5, <2>8 DEF Subscribed
<1>2. CASE registered = NoWatcher
  <2>1. PICK w \in Watchers :
          /\ UnusedWatcher(w)
          /\ registered' = w
          /\ watchers' = [watchers EXCEPT ![w] = Joined(NewWatcher, FALSE, s)]
    BY <1>2 DEF Subscribe
  <2> DEFINE next == Joined(NewWatcher, FALSE, s)
  <2>2. /\ next \in Watcher
        /\ next.subs # {} /\ s \in next.subs
        /\ next.pc = "check" /\ next.stop = FALSE
    BY NewWatcherType, JoinedDead
  <2> HIDE DEF next
  <2>3. /\ watchers' \in [Watchers -> Watcher]
        /\ watchers'[w] = next
        /\ \A v \in Watchers \ {w} : watchers'[v] = watchers[v]
    BY <2>1, <2>2, OneWatcher DEF WatcherInv, WatcherTypes, next
  <2>4. WatcherInv'
    BY <1>2, <2>1, <2>2, <2>3, WatcherShape DEF Working
  <2> QED BY <1>2, <2>1, <2>2, <2>3, <2>4 DEF Subscribed
<1> QED BY <1>1, <1>2

\* unsubscribe keeps the invariant, and the others keep their subscription.
LEMMA UnsubscribeKeepsOthers ==
  ASSUME WatcherInv, NEW s \in Subs, Unsubscribe(s)
  PROVE  /\ WatcherInv'
         /\ \A x \in Subs \ {s} : Subscribed(x) => Subscribed(x)'
<1> USE NobodyAssumption
<1>1. CASE ~Subscribed(s)
  BY <1>1 DEF Unsubscribe, WatcherInv, WatcherTypes, StrayThreadsAreStopped,
              WatchedIsPolled, WakeInv, Alive, Subscribed
<1>2. CASE Subscribed(s)
  <2> DEFINE w == registered
             last == [watchers[w] EXCEPT !.subs = {}, !.stop = TRUE, !.wake = TRUE]
             next == [watchers[w] EXCEPT !.subs = @ \ {s}]
  <2>1. w \in Watchers /\ watchers[w] \in Watcher
    BY <1>2 DEF Subscribed, WatcherInv, WatcherTypes
  <2>2. /\ ~watchers[w].stop
        /\ watchers[w].pc \in Working \/ watchers[w].errors >= MaxErrors
    BY <1>2 DEF Subscribed, WatcherInv, WatchedIsPolled
  <2>3. watchers[w].pc \in {"poll", "sleep"} /\ watchers[w].asked
          => watchers[w].wake
    BY <2>1 DEF WatcherInv, WakeInv
  <2>4. CASE watchers[w].subs = {s}
    <3>1. registered' = NoWatcher /\ watchers' = [watchers EXCEPT ![w] = last]
      BY <1>2, <2>1, <2>4 DEF Unsubscribe, WatcherInv, WatcherTypes
    <3>2. last \in Watcher /\ last.stop /\ last.wake
      BY <2>1 DEF Watcher
    <3> HIDE DEF last
    <3>3. /\ watchers' \in [Watchers -> Watcher]
          /\ watchers'[w] = last
          /\ \A v \in Watchers \ {w} : watchers'[v] = watchers[v]
      BY <2>1, <3>1, <3>2, OneWatcher DEF WatcherInv, WatcherTypes
    <3>4. WatcherInv'
      BY <2>1, <3>1, <3>2, <3>3, WatcherShape
    <3>5. \A x \in Subs \ {s} : ~Subscribed(x)
      BY <2>4 DEF Subscribed
    <3> QED BY <3>4, <3>5
  <2>5. CASE watchers[w].subs # {s}
    <3>1. registered' = w /\ watchers' = [watchers EXCEPT ![w] = next]
      BY <1>2, <2>1, <2>5 DEF Unsubscribe, WatcherInv, WatcherTypes
    <3>2. /\ next \in Watcher
          /\ next.subs = watchers[w].subs \ {s}
          /\ next.stop = watchers[w].stop /\ next.pc = watchers[w].pc
          /\ next.errors = watchers[w].errors
          /\ next.asked = watchers[w].asked /\ next.wake = watchers[w].wake
      BY <2>1 DEF Watcher
    <3> HIDE DEF next
    <3>3. /\ watchers' \in [Watchers -> Watcher]
          /\ watchers'[w] = next
          /\ \A v \in Watchers \ {w} : watchers'[v] = watchers[v]
      BY <2>1, <3>1, <3>2, OneWatcher DEF WatcherInv, WatcherTypes
    <3>4. next.subs # {}
      BY <1>2, <2>5, <3>2 DEF Subscribed
    <3>5. WatcherInv'
      BY <2>1, <2>2, <2>3, <3>1, <3>2, <3>3, <3>4, WatcherShape
    <3> QED BY <2>1, <3>1, <3>2, <3>3, <3>5 DEF Subscribed
  <2> QED BY <2>4, <2>5
<1> QED BY <1>1, <1>2

\* A step of a thread that leaves the registry alone.
LEMMA StepShape ==
  ASSUME WatcherInv, NEW w \in Watchers, NEW next \in Watcher,
         Steps(w, next), registered' = registered,
         w = registered =>
           /\ next.subs = watchers[w].subs
           /\ ~next.stop
           /\ next.pc \in Working \/ next.errors >= MaxErrors,
         w # registered => next.stop \/ next.pc = "dead",
         next.pc \in {"poll", "sleep"} /\ next.asked => next.wake
  PROVE  /\ WatcherInv'
         /\ \A x \in Subs : Subscribed(x) <=> Subscribed(x)'
<1>1. /\ watchers' \in [Watchers -> Watcher]
      /\ watchers'[w] = next
      /\ \A v \in Watchers \ {w} : watchers'[v] = watchers[v]
  BY OneWatcher DEF WatcherInv, WatcherTypes, Steps
<1>2. w = registered => watchers[w].subs # {}
  BY NobodyAssumption DEF WatcherInv, WatchedIsPolled
<1>3. WatcherInv'
  BY <1>1, <1>2, WatcherShape
<1>4. registered # NoWatcher => watchers'[registered].subs = watchers[registered].subs
  BY <1>1 DEF WatcherInv, WatcherTypes
<1> QED BY <1>3, <1>4 DEF Subscribed

\* Every step of a polling thread has that shape.
LEMMA ThreadKeeps ==
  ASSUME WatcherInv, NEW w \in Watchers, ThreadStep(w)
  PROVE  /\ WatcherInv'
         /\ \A x \in Subs : Subscribed(x) <=> Subscribed(x)'
         /\ UNCHANGED <<resident, interval, callers>>
<1> DEFINE old == watchers[w]
<1>1. old \in Watcher
  BY DEF WatcherInv, WatcherTypes
<1>2. w = registered => /\ old.subs # {}
                        /\ ~old.stop
                        /\ old.pc \in Working \/ old.errors >= MaxErrors
  BY NobodyAssumption DEF WatcherInv, WatchedIsPolled
<1>3. w # registered /\ old.pc \in Working \cup Leaving => old.stop
  BY DEF WatcherInv, StrayThreadsAreStopped, Alive
<1>4. old.pc \in {"poll", "sleep"} /\ old.asked => old.wake
  BY DEF WatcherInv, WakeInv
<1>5. CASE TestsStop(w)
  <2> DEFINE next == IF old.stop THEN [old EXCEPT !.pc = "leave"]
                     ELSE [old EXCEPT !.pc = "poll", !.asked = FALSE]
  <2>1. /\ next \in Watcher /\ next.subs = old.subs /\ next.stop = old.stop
        /\ ~old.stop => next.pc \in Working
        /\ next.pc \in {"poll", "sleep"} => ~next.asked
    BY <1>1 DEF Watcher, Working, Leaving
  <2>2. Steps(w, next) /\ registered' = registered /\ old.pc = "check"
    BY <1>5 DEF TestsStop
  <2> HIDE DEF next
  <2> QED BY <1>2, <1>3, <2>1, <2>2, StepShape DEF Steps, Working
<1>6. CASE PollAnswers(w)
  <2> DEFINE next == [old EXCEPT !.pc = "sleep", !.errors = 0]
  <2>1. /\ next \in Watcher /\ next.subs = old.subs /\ next.stop = old.stop
        /\ next.pc \in Working /\ next.asked = old.asked /\ next.wake = old.wake
    BY <1>1 DEF Watcher, Working
  <2>2. Steps(w, next) /\ registered' = registered /\ old.pc = "poll"
    BY <1>6 DEF PollAnswers
  <2> HIDE DEF next
  <2> QED BY <1>2, <1>3, <1>4, <2>1, <2>2, StepShape DEF Steps, Working
<1>7. CASE PollFails(w)
  <2>1. old.errors + 1 \in Nat /\ MaxErrors \in Nat
    BY <1>1, ErrorAssumption DEF Watcher
  <2>2. old.pc = "poll"
    BY <1>7 DEF PollFails
  <2>3. CASE old.errors + 1 >= MaxErrors
    <3> DEFINE next == [old EXCEPT !.errors = @ + 1, !.pc = "leave"]
    <3>1. /\ next \in Watcher /\ next.subs = old.subs /\ next.stop = old.stop
          /\ next.pc = "leave" /\ next.errors >= MaxErrors
      BY <1>1, <2>1, <2>3 DEF Watcher, Leaving
    <3>2. Steps(w, next) /\ registered' = registered
      BY <1>7, <2>3 DEF PollFails
    <3> HIDE DEF next
    <3> QED BY <1>2, <1>3, <2>2, <3>1, <3>2, StepShape DEF Steps, Working
  <2>4. CASE ~(old.errors + 1 >= MaxErrors)
    <3> DEFINE next == [old EXCEPT !.errors = @ + 1, !.pc = "sleep"]
    <3>1. /\ next \in Watcher /\ next.subs = old.subs /\ next.stop = old.stop
          /\ next.pc = "sleep" /\ next.asked = old.asked /\ next.wake = old.wake
      BY <1>1, <2>1 DEF Watcher, Working
    <3>2. Steps(w, next) /\ registered' = registered
      BY <1>7, <2>4 DEF PollFails
    <3> HIDE DEF next
    <3> QED BY <1>2, <1>3, <1>4, <2>2, <3>1, <3>2, StepShape DEF Steps, Working
  <2> QED BY <2>3, <2>4
<1>8. CASE WakesUp(w)
  <2> DEFINE next == [old EXCEPT !.pc = "woken"]
  <2>1. /\ next \in Watcher /\ next.subs = old.subs /\ next.stop = old.stop
        /\ next.pc = "woken"
    BY <1>1 DEF Watcher, Working
  <2>2. Steps(w, next) /\ registered' = registered /\ old.pc = "sleep"
    BY <1>8 DEF WakesUp
  <2> HIDE DEF next
  <2> QED BY <1>2, <1>3, <2>1, <2>2, StepShape DEF Steps, Working
<1>9. CASE TimesOut(w)
  <2> DEFINE next == [old EXCEPT !.pc = IF old.stop THEN "leave" ELSE "check"]
  <2>1. /\ next \in Watcher /\ next.subs = old.subs /\ next.stop = old.stop
        /\ next.pc = IF old.stop THEN "leave" ELSE "check"
    BY <1>1 DEF Watcher, Working, Leaving
  <2>2. Steps(w, next) /\ registered' = registered /\ old.pc = "sleep"
    BY <1>9 DEF TimesOut
  <2> HIDE DEF next
  <2> QED BY <1>2, <1>3, <2>1, <2>2, StepShape DEF Steps, Working
<1>10. CASE ClearsWake(w)
  <2> DEFINE next == IF old.stop THEN [old EXCEPT !.pc = "leave"]
                     ELSE [old EXCEPT !.pc = "check", !.wake = FALSE]
  <2>1. /\ next \in Watcher /\ next.subs = old.subs /\ next.stop = old.stop
        /\ next.pc = IF old.stop THEN "leave" ELSE "check"
    BY <1>1 DEF Watcher, Working, Leaving
  <2>2. Steps(w, next) /\ registered' = registered /\ old.pc = "woken"
    BY <1>10 DEF ClearsWake
  <2> HIDE DEF next
  <2> QED BY <1>2, <1>3, <2>1, <2>2, StepShape DEF Steps, Working
<1>11. CASE Leaves(w)
  <2> DEFINE next == [old EXCEPT !.pc = "ending"]
  <2>1. /\ next \in Watcher /\ next.subs = old.subs /\ next.stop = old.stop
        /\ next.pc = "ending" /\ next.errors = old.errors
    BY <1>1 DEF Watcher, Leaving
  <2>2. Steps(w, next) /\ registered' = registered /\ old.pc = "leave"
    BY <1>2, <1>11 DEF Leaves
  <2> HIDE DEF next
  <2> QED BY <1>2, <1>3, <2>1, <2>2, StepShape DEF Steps, Working, Leaving
<1>12. CASE Dies(w)
  <2> DEFINE next == IF registered = w THEN [old EXCEPT !.pc = "dead"]
                                       ELSE NewWatcher
  <2>1. /\ next \in Watcher /\ next.pc = "dead"
        /\ registered = w => /\ next.subs = old.subs /\ next.stop = old.stop
                             /\ next.errors = old.errors
    BY <1>1, NewWatcherType DEF Watcher
  <2>2. Steps(w, next) /\ registered' = registered /\ old.pc = "ending"
    BY <1>12 DEF Dies
  <2> HIDE DEF next
  <2> QED BY <1>2, <1>3, <2>1, <2>2, StepShape DEF Steps, Working
<1> HIDE DEF old
<1> QED BY <1>5, <1>6, <1>7, <1>8, <1>9, <1>10, <1>11, <1>12 DEF ThreadStep

\* wake sets the event of the watcher that is registered.
LEMMA WakeKeeps ==
  ASSUME WatcherInv, Wake
  PROVE  /\ WatcherInv'
         /\ \A x \in Subs : Subscribed(x) <=> Subscribed(x)'
<1> DEFINE w == registered
           next == [watchers[w] EXCEPT !.wake = TRUE, !.asked = TRUE]
<1>1. w \in Watchers /\ watchers[w] \in Watcher
  BY DEF Wake, WatcherInv, WatcherTypes
<1>2. /\ watchers[w].subs # {}
      /\ ~watchers[w].stop
      /\ watchers[w].pc \in Working \/ watchers[w].errors >= MaxErrors
  BY DEF Wake, WatcherInv, WatchedIsPolled
<1>3. /\ next \in Watcher /\ next.wake
      /\ next.subs = watchers[w].subs /\ next.stop = watchers[w].stop
      /\ next.pc = watchers[w].pc /\ next.errors = watchers[w].errors
  BY <1>1 DEF Watcher
<1>4. Steps(w, next) /\ registered' = registered
  BY <1>1 DEF Wake, Steps, WatcherInv, WatcherTypes
<1> HIDE DEF next
<1> QED BY <1>1, <1>2, <1>3, <1>4, StepShape

------------------------------------------------------------------------------
(* The resident subscription. *)

\* An idle caller is well typed.
LEMMA InactiveType == Inactive \in Caller
BY DEF Inactive, Caller

\* Writing one caller changes that caller and no other.
LEMMA OneCaller ==
  ASSUME callers \in [Callers -> Caller],
         NEW c \in Callers, NEW next \in Caller, Moves(c, next)
  PROVE  /\ callers' \in [Callers -> Caller]
         /\ callers'[c] = next
         /\ \A d \in Callers \ {c} : callers'[d] = callers[d]
BY DEF Moves

\* What is subscribed before and after a step, as sets.
LEMMA KeptGrows ==
  ASSUME \A x \in Residents : Subscribed(x) => Subscribed(x)'
  PROVE  Kept \subseteq Kept'
BY DEF Kept, Subscribed

\* Steps of threads, browsers and wakes take no resident's subscription away.
LEMMA OthersKeepResident ==
  ASSUME ResidentInv, UNCHANGED <<resident, interval, callers>>,
         Kept \subseteq Kept'
  PROVE  ResidentInv'
<1>1. CallerTypes'
  BY DEF ResidentInv, CallerTypes
<1>2. WriteInv'
  BY DEF ResidentInv, WriteInv
<1>3. ReplaceInv'
  BY DEF ResidentInv, ReplaceInv
<1>4. OldInv'
  BY DEF ResidentInv, OldInv
<1> QED BY <1>1, <1>2, <1>3, <1>4 DEF ResidentInv

\* A caller that is not about to write moves on; what the others are about to
\* write is kept, and they alone know it.
LEMMA NoWriterMoves ==
  ASSUME ResidentInv, NEW c \in Callers, NEW next \in Caller, Moves(c, next),
         next.pc # "write",
         next.old \in {NoSub, resident, callers[c].old},
         \A d \in Callers \ {c} : callers[d].pc = "write"
           => callers[d].sub \in Kept' /\ callers[d].sub # resident'
  PROVE  callers' \in [Callers -> Caller] /\ WriteInv'
<1>1. /\ callers' \in [Callers -> Caller]
      /\ callers'[c] = next
      /\ \A d \in Callers \ {c} : callers'[d] = callers[d]
  BY OneCaller DEF ResidentInv, CallerTypes
<1>2. SUFFICES ASSUME NEW d \in Callers, callers'[d].pc = "write"
               PROVE  /\ callers'[d].sub \in Kept'
                      /\ callers'[d].sub # resident'
                      /\ \A e \in Callers : callers'[e].old # callers'[d].sub
                      /\ \A e \in Callers \ {d} :
                           callers'[e].pc = "write"
                             => callers'[e].sub # callers'[d].sub
  BY <1>1 DEF WriteInv
<1>3. d # c /\ callers'[d] = callers[d]
  BY <1>1, <1>2
<1>4. /\ callers[d].sub \in Kept
      /\ callers[d].sub # resident
      /\ \A e \in Callers : callers[e].old # callers[d].sub
      /\ \A e \in Callers \ {d} :
           callers[e].pc = "write" => callers[e].sub # callers[d].sub
  BY <1>2, <1>3 DEF ResidentInv, WriteInv
<1>5. callers[d].sub # NoSub
  BY <1>4, NobodyAssumption DEF Kept, Subs
<1> QED BY <1>1, <1>2, <1>3, <1>4, <1>5

\* ensure_system_watch is called, returns what it finds, or goes on.
LEMMA EnsureLooks ==
  ASSUME WatcherInv, ResidentInv, NEW c \in Callers,
         \/ \E i \in Intervals : EnsureCalled(c, i)
         \/ EnsureReturnsOld(c)
         \/ EnsureGoesOn(c)
  PROVE  WatcherInv' /\ ResidentInv'
<1> USE NobodyAssumption
<1>1. UNCHANGED <<registered, watchers, resident, interval>>
  BY DEF EnsureCalled, EnsureReturnsOld, EnsureGoesOn
<1>2. WatcherInv' /\ Kept' = Kept
  BY <1>1 DEF WatcherInv, WatcherTypes, StrayThreadsAreStopped, WatchedIsPolled,
              WakeInv, Alive, Kept, Subscribed
<1> DEFINE Looks(next) == /\ Moves(c, next)
                          /\ next.pc \notin {"write", "drop"}
                          /\ callers[c].pc \in {"idle", "ensure"}
                          /\ next.old \in {NoSub, resident}
                          /\ next.pc = "swap" => next.old \in Residents
<1>3. \E next \in Caller : Looks(next)
  <2>1. ASSUME NEW i \in Intervals, EnsureCalled(c, i)
        PROVE  \E next \in Caller : Looks(next)
    <3> DEFINE next == [Inactive EXCEPT !.pc = "ensure", !.want = i]
    <3>1. next \in Caller /\ next.pc = "ensure" /\ next.old = NoSub
      BY DEF Inactive, Caller
    <3>2. Moves(c, next) /\ callers[c].pc = "idle"
      BY <2>1 DEF EnsureCalled
    <3> HIDE DEF next
    <3> QED BY <3>1, <3>2
  <2>2. CASE EnsureReturnsOld(c)
    <3>1. Moves(c, Inactive) /\ callers[c].pc = "ensure"
      BY <2>2 DEF EnsureReturnsOld
    <3>2. Inactive.pc = "idle" /\ Inactive.old = NoSub
      BY DEF Inactive
    <3> QED BY <3>1, <3>2, InactiveType
  <2>3. CASE EnsureGoesOn(c)
    <3> DEFINE next == [callers[c] EXCEPT
                          !.pc = IF resident = NoSub THEN "add" ELSE "swap",
                          !.old = resident]
    <3>1. callers[c] \in Caller /\ resident \in Residents \cup {NoSub}
      BY DEF ResidentInv, CallerTypes
    <3>2. next \in Caller /\ next.old = resident
          /\ next.pc = IF resident = NoSub THEN "add" ELSE "swap"
      BY <3>1 DEF Caller
    <3>3. Moves(c, next) /\ callers[c].pc = "ensure"
      BY <2>3 DEF EnsureGoesOn
    <3> HIDE DEF next
    <3> QED BY <3>1, <3>2, <3>3
  <2> QED BY <2>1, <2>2, <2>3
<1>4. PICK next \in Caller : Looks(next)
  BY <1>3
<1>5. callers' \in [Callers -> Caller] /\ WriteInv'
  <2>1. \A d \in Callers : callers[d].pc = "write"
          => callers[d].sub \in Kept' /\ callers[d].sub # resident'
    BY <1>1, <1>2 DEF ResidentInv, WriteInv
  <2> QED BY <1>4, <2>1, NoWriterMoves
<1>6. callers'[c] = next /\ \A d \in Callers \ {c} : callers'[d] = callers[d]
  BY <1>4, OneCaller DEF ResidentInv, CallerTypes
<1>7. CallerTypes'
  BY <1>1, <1>5 DEF ResidentInv, CallerTypes
<1>8. ReplaceInv'
  BY <1>1, <1>2, <1>4, <1>6 DEF ResidentInv, ReplaceInv
<1>9. OldInv'
  BY <1>1, <1>4, <1>6 DEF ResidentInv, OldInv
<1> QED BY <1>2, <1>5, <1>7, <1>8, <1>9 DEF ResidentInv

\* The old subscription is given up, to be swapped or for good.
LEMMA OldIsGivenUp ==
  ASSUME WatcherInv, ResidentInv, NEW c \in Callers,
         EnsureUnsubscribes(c) \/ DropUnsubscribes(c)
  PROVE  WatcherInv' /\ ResidentInv'
<1> DEFINE gone == callers[c].old
<1>1. /\ gone \in Residents
      /\ callers[c] \in Caller
      /\ callers[c].pc \in {"swap", "drop"}
      /\ Unsubscribe(gone)
      /\ UNCHANGED <<resident, interval>>
  BY DEF ResidentInv, OldInv, CallerTypes, EnsureUnsubscribes, DropUnsubscribes
<1>2. /\ WatcherInv'
      /\ \A x \in Residents \ {gone} : Subscribed(x) => Subscribed(x)'
  BY <1>1, UnsubscribeKeepsOthers DEF Subs
<1>3. Kept \ {gone} \subseteq Kept'
  BY <1>2 DEF Kept, Subscribed
<1> DEFINE Gives(next) == /\ Moves(c, next)
                          /\ \/ next.pc = "add" /\ next.old = gone
                             \/ /\ next.pc = "idle" /\ next.old = NoSub
                                /\ gone # resident
<1>4. \E next \in Caller : Gives(next)
  <2>1. CASE EnsureUnsubscribes(c)
    <3> DEFINE next == [callers[c] EXCEPT !.pc = "add"]
    <3>1. next \in Caller /\ next.pc = "add" /\ next.old = gone
      BY <1>1 DEF Caller
    <3>2. Moves(c, next)
      BY <2>1 DEF EnsureUnsubscribes
    <3> HIDE DEF next
    <3> QED BY <3>1, <3>2
  <2>2. CASE DropUnsubscribes(c)
    <3>1. Moves(c, Inactive) /\ gone # resident
      BY <2>2 DEF DropUnsubscribes, ResidentInv, OldInv
    <3>2. Inactive.pc = "idle" /\ Inactive.old = NoSub
      BY DEF Inactive
    <3> QED BY <3>1, <3>2, InactiveType
  <2> QED BY <2>1, <2>2
<1>5. PICK next \in Caller : Gives(next)
  BY <1>4
<1>6. /\ callers'[c] = next
      /\ \A d \in Callers \ {c} : callers'[d] = callers[d]
  BY <1>5, OneCaller DEF ResidentInv, CallerTypes
<1>7. callers' \in [Callers -> Caller] /\ WriteInv'
  <2>1. \A d \in Callers : callers[d].pc = "write"
          => callers[d].sub \in Kept' /\ callers[d].sub # resident'
    BY <1>1, <1>3 DEF ResidentInv, WriteInv
  <2>2. next.pc # "write" /\ next.old \in {NoSub, resident, gone}
    BY <1>5
  <2> HIDE DEF gone
  <2> QED BY <1>5, <2>1, <2>2, NoWriterMoves DEF gone
<1>8. CallerTypes'
  BY <1>1, <1>7 DEF ResidentInv, CallerTypes
<1> HIDE DEF gone
<1>9. ReplaceInv'
  <2>1. CASE resident = gone
    BY <1>1, <1>5, <1>6, <2>1 DEF ReplaceInv
  <2>2. CASE resident # gone
    <3>1. SUFFICES ASSUME resident \notin Kept \cup {NoSub}
                   PROVE  \E d \in Callers : /\ callers'[d].pc \in {"add", "write"}
                                             /\ callers'[d].old = resident
      BY <1>1, <1>3, <2>2 DEF ReplaceInv
    <3>2. PICK d \in Callers : /\ callers[d].pc \in {"add", "write"}
                               /\ callers[d].old = resident
      BY <3>1 DEF ResidentInv, ReplaceInv
    <3>3. d # c
      BY <1>1, <3>2
    <3> QED BY <1>6, <3>2, <3>3
  <2> QED BY <2>1, <2>2
<1>10. OldInv'
  BY <1>1, <1>5, <1>6 DEF ResidentInv, OldInv
<1> QED BY <1>2, <1>7, <1>8, <1>9, <1>10 DEF ResidentInv

\* A new subscription is made; nobody else knows it yet.
LEMMA NewIsSubscribed ==
  ASSUME WatcherInv, ResidentInv, NEW c \in Callers, NEW s \in Residents,
         EnsureSubscribes(c, s)
  PROVE  WatcherInv' /\ ResidentInv'
<1> DEFINE next == [callers[c] EXCEPT !.pc = "write", !.sub = s]
<1>1. UNCHANGED <<resident, interval>> /\ callers[c].pc = "add"
  BY DEF EnsureSubscribes
<1>2. /\ s # resident
      /\ \A d \in Callers : callers[d].old # s /\ callers[d].sub # s
  BY DEF EnsureSubscribes, UnusedSub
<1>3. /\ WatcherInv' /\ Subscribed(s)'
      /\ \A x \in Residents : Subscribed(x) => Subscribed(x)'
  BY SubscribeKeeps DEF EnsureSubscribes, Subs
<1>4. Kept \cup {s} \subseteq Kept'
  BY <1>3 DEF Kept, Subscribed
<1>5. callers[c] \in Caller
  BY DEF ResidentInv, CallerTypes
<1>6. /\ next \in Caller /\ next.pc = "write" /\ next.sub = s
      /\ next.old = callers[c].old
  BY <1>5 DEF Caller
<1>7. Moves(c, next)
  BY DEF EnsureSubscribes
<1> HIDE DEF next
<1>8. /\ callers' \in [Callers -> Caller]
      /\ callers'[c] = next
      /\ \A d \in Callers \ {c} : callers'[d] = callers[d]
  BY <1>6, <1>7, OneCaller DEF ResidentInv, CallerTypes
<1>9. CallerTypes'
  BY <1>1, <1>8 DEF ResidentInv, CallerTypes
<1>10. \A d \in Callers : callers'[d].old = callers[d].old
  BY <1>6, <1>8
<1>11. WriteInv'
  <2>1. SUFFICES ASSUME NEW d \in Callers, callers'[d].pc = "write"
                 PROVE  /\ callers'[d].sub \in Kept'
                        /\ callers'[d].sub # resident'
                        /\ \A e \in Callers : callers'[e].old # callers'[d].sub
                        /\ \A e \in Callers \ {d} :
                             callers'[e].pc = "write"
                               => callers'[e].sub # callers'[d].sub
    BY DEF WriteInv
  <2>2. CASE d = c
    BY <1>1, <1>2, <1>4, <1>6, <1>8, <1>10, <2>2
  <2>3. CASE d # c
    <3>1. callers'[d] = callers[d]
      BY <1>8, <2>3
    <3>2. /\ callers[d].sub \in Kept
          /\ callers[d].sub # resident
          /\ \A e \in Callers : callers[e].old # callers[d].sub
          /\ \A e \in Callers \ {d} :
               callers[e].pc = "write" => callers[e].sub # callers[d].sub
      BY <2>1, <3>1 DEF ResidentInv, WriteInv
    <3> QED BY <1>1, <1>2, <1>4, <1>6, <1>8, <1>10, <3>1, <3>2
  <2> QED BY <2>2, <2>3
<1>12. ReplaceInv'
  BY <1>1, <1>4, <1>6, <1>8 DEF ResidentInv, ReplaceInv
<1>13. OldInv'
  BY <1>1, <1>6, <1>8 DEF ResidentInv, OldInv
<1> QED BY <1>3, <1>9, <1>11, <1>12, <1>13 DEF ResidentInv

\* The new subscription becomes the resident one.
LEMMA NewIsWritten ==
  ASSUME WatcherInv, ResidentInv, NEW c \in Callers, EnsureWrites(c)
  PROVE  WatcherInv' /\ ResidentInv'
<1> USE NobodyAssumption
<1>1. /\ callers[c].pc = "write"
      /\ resident' = callers[c].sub
      /\ interval' = callers[c].want
      /\ Moves(c, Inactive)
      /\ UNCHANGED <<registered, watchers>>
  BY DEF EnsureWrites
<1>2. WatcherInv' /\ Kept' = Kept
  BY <1>1 DEF WatcherInv, WatcherTypes, StrayThreadsAreStopped, WatchedIsPolled,
              WakeInv, Alive, Kept, Subscribed
<1>3. callers[c] \in Caller
  BY DEF ResidentInv, CallerTypes
<1>4. /\ callers[c].sub \in Kept
      /\ \A d \in Callers : callers[d].old # callers[c].sub
      /\ \A d \in Callers \ {c} :
           callers[d].pc = "write" => callers[d].sub # callers[c].sub
  BY <1>1 DEF ResidentInv, WriteInv
<1>5. Inactive.pc = "idle" /\ Inactive.old = NoSub
  BY DEF Inactive
<1>6. /\ callers'[c] = Inactive
      /\ \A d \in Callers \ {c} : callers'[d] = callers[d]
  BY <1>1, InactiveType, OneCaller DEF ResidentInv, CallerTypes
<1>7. callers' \in [Callers -> Caller] /\ WriteInv'
  <2>1. \A d \in Callers \ {c} : callers[d].pc = "write"
          => callers[d].sub \in Kept' /\ callers[d].sub # resident'
    BY <1>1, <1>2, <1>4 DEF ResidentInv, WriteInv
  <2> QED BY <1>1, <1>5, <2>1, InactiveType, NoWriterMoves
<1>8. CallerTypes'
  BY <1>1, <1>3, <1>7 DEF CallerTypes, Caller
<1>9. ReplaceInv'
  BY <1>1, <1>2, <1>4 DEF ReplaceInv
<1>10. OldInv'
  BY <1>1, <1>4, <1>5, <1>6 DEF ResidentInv, OldInv
<1> QED BY <1>2, <1>7, <1>8, <1>9, <1>10 DEF ResidentInv

\* drop_system_watch takes the resident subscription out of the registry.
LEMMA ResidentIsPopped ==
  ASSUME WatcherInv, ResidentInv, NEW c \in Callers, DropPops(c)
  PROVE  WatcherInv' /\ ResidentInv'
<1> USE NobodyAssumption
<1> DEFINE next == [Inactive EXCEPT !.pc = "drop", !.old = resident]
<1>1. /\ callers[c].pc = "idle"
      /\ resident \in Residents
      /\ resident' = NoSub /\ interval' = "none"
      /\ Moves(c, next)
      /\ UNCHANGED <<registered, watchers>>
  BY DEF DropPops, ResidentInv, CallerTypes
<1>2. WatcherInv' /\ Kept' = Kept
  BY <1>1 DEF WatcherInv, WatcherTypes, StrayThreadsAreStopped, WatchedIsPolled,
              WakeInv, Alive, Kept, Subscribed
<1>3. next \in Caller /\ next.pc = "drop" /\ next.old = resident
  BY <1>1, InactiveType DEF Inactive, Caller
<1> HIDE DEF next
<1>4. /\ callers'[c] = next
      /\ \A d \in Callers \ {c} : callers'[d] = callers[d]
  BY <1>1, <1>3, OneCaller DEF ResidentInv, CallerTypes
<1>5. callers' \in [Callers -> Caller] /\ WriteInv'
  <2>1. NoSub \notin Kept
    BY DEF Kept, Subs
  <2>2. \A d \in Callers : callers[d].pc = "write"
          => callers[d].sub \in Kept' /\ callers[d].sub # resident'
    BY <1>1, <1>2, <2>1 DEF ResidentInv, WriteInv
  <2> QED BY <1>1, <1>3, <2>2, NoWriterMoves
<1>6. CallerTypes'
  BY <1>1, <1>5 DEF CallerTypes
<1>7. ReplaceInv'
  BY <1>1 DEF ReplaceInv
<1>8. OldInv'
  <2>1. NoSub \notin Residents
    BY DEF Subs
  <2> QED BY <1>1, <1>3, <1>4, <2>1 DEF ResidentInv, OldInv
<1> QED BY <1>2, <1>5, <1>6, <1>7, <1>8 DEF ResidentInv

------------------------------------------------------------------------------
(* The invariant and the theorems. *)

LEMMA InitIInv == Init => IInv
<1> SUFFICES ASSUME Init PROVE IInv
  OBVIOUS
<1>1. /\ registered = NoWatcher
      /\ watchers \in [Watchers -> Watcher]
      /\ \A w \in Watchers : watchers[w].pc = "dead"
  BY NewWatcherType DEF Init
<1>2. WatcherInv
  BY <1>1 DEF WatcherInv, WatcherTypes, StrayThreadsAreStopped, WatchedIsPolled,
              WakeInv, Alive, Working, Leaving
<1>3. CallerTypes
  BY InactiveType DEF Init, CallerTypes
<1>4. \A c \in Callers : callers[c].pc = "idle"
  BY DEF Init, Inactive
<1>5. WriteInv /\ ReplaceInv /\ OldInv
  BY <1>4 DEF Init, WriteInv, ReplaceInv, OldInv
<1> QED BY <1>2, <1>3, <1>5 DEF IInv, ResidentInv

LEMMA NextIInv == IInv /\ [Next]_vars => IInv'
<1> SUFFICES ASSUME WatcherInv, ResidentInv, [Next]_vars
             PROVE  WatcherInv' /\ ResidentInv'
  BY DEF IInv
<1>1. ASSUME NEW w \in Watchers, ThreadStep(w)
      PROVE  WatcherInv' /\ ResidentInv'
  <2>1. /\ WatcherInv'
        /\ \A x \in Residents : Subscribed(x) => Subscribed(x)'
        /\ UNCHANGED <<resident, interval, callers>>
    BY <1>1, ThreadKeeps DEF Subs
  <2> QED BY <2>1, KeptGrows, OthersKeepResident
<1>2. ASSUME NEW c \in Callers, CallerStep(c)
      PROVE  WatcherInv' /\ ResidentInv'
  BY <1>2, EnsureLooks, OldIsGivenUp, NewIsSubscribed, NewIsWritten DEF CallerStep
<1>3. ASSUME NEW s \in Browsers, Connect(s) \/ Disconnect(s)
      PROVE  WatcherInv' /\ ResidentInv'
  <2>1. /\ WatcherInv'
        /\ \A x \in Residents : Subscribed(x) => Subscribed(x)'
    BY <1>3, SubscribeKeeps, UnsubscribeKeepsOthers, KindAssumption
       DEF Connect, Disconnect, Subs
  <2>2. UNCHANGED <<resident, interval, callers>>
    BY <1>3 DEF Connect, Disconnect
  <2> QED BY <2>1, <2>2, KeptGrows, OthersKeepResident
<1>4. ASSUME NEW c \in Callers, NEW i \in Intervals, EnsureCalled(c, i)
      PROVE  WatcherInv' /\ ResidentInv'
  BY <1>4, EnsureLooks
<1>5. ASSUME NEW c \in Callers, DropPops(c)
      PROVE  WatcherInv' /\ ResidentInv'
  BY <1>5, ResidentIsPopped
<1>6. CASE Wake
  <2>1. /\ WatcherInv'
        /\ \A x \in Residents : Subscribed(x) => Subscribed(x)'
    BY <1>6, WakeKeeps DEF Subs
  <2>2. UNCHANGED <<resident, interval, callers>>
    BY <1>6 DEF Wake
  <2> QED BY <2>1, <2>2, KeptGrows, OthersKeepResident
<1>7. CASE UNCHANGED vars
  <2>1. WatcherInv'
    BY <1>7 DEF vars, WatcherInv, WatcherTypes, StrayThreadsAreStopped,
                WatchedIsPolled, WakeInv, Alive
  <2>2. Kept \subseteq Kept'
    BY <1>7 DEF vars, Kept, Subscribed
  <2> QED BY <1>7, <2>1, <2>2, OthersKeepResident DEF vars
<1> QED BY <1>1, <1>2, <1>3, <1>4, <1>5, <1>6, <1>7 DEF Next, Request

THEOREM Invariant == Spec => []IInv
BY InitIInv, NextIInv, PTL DEF Spec

\* The registry, the watchers and the callers keep their types.
THEOREM TypeCorrect == Spec => []TypeOK
<1>1. IInv => TypeOK
  BY DEF IInv, WatcherInv, WatcherTypes, ResidentInv, CallerTypes, TypeOK
<1> QED BY <1>1, Invariant, PTL

\* One thread polls the account for good: any other one was told to stop.
THEOREM OneThreadStays == Spec => []StrayThreadsAreStopped
<1>1. IInv => StrayThreadsAreStopped
  BY DEF IInv, WatcherInv
<1> QED BY <1>1, Invariant, PTL

\* An account somebody watches has a working thread that was not told to stop,
\* or one that gave up after MAX_CONSECUTIVE_ERRORS.
THEOREM WatchedAccountsArePolled == Spec => []WatchedIsPolled
<1>1. IInv => WatchedIsPolled
  BY DEF IInv, WatcherInv
<1> QED BY <1>1, Invariant, PTL

\* A wake-up that came while a thread was polling ends its next pause at once.
THEOREM WakesAreKept == Spec => []NoWakeIsLost
<1>1. IInv => NoWakeIsLost
  BY DEF IInv, WatcherInv, WakeInv, NoWakeIsLost
<1> QED BY <1>1, Invariant, PTL

\* However calls of ensure and drop interleave, the registered resident is
\* subscribed when they are over.
THEOREM ResidentStays == Spec => []ResidentIsSubscribed
<1>1. ASSUME IInv, AllIdle, resident # NoSub
      PROVE  Subscribed(resident)
  BY <1>1 DEF IInv, ResidentInv, ReplaceInv, AllIdle, Kept
<1>2. IInv => ResidentIsSubscribed
  BY <1>1 DEF ResidentIsSubscribed
<1> QED BY <1>2, Invariant, PTL
==============================================================================
