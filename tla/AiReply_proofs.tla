--------------------------- MODULE AiReply_proofs ---------------------------
(***************************************************************************)
(* The log of the AI's answers and the counter of its failures, for any    *)
(* number of messages, poll threads and texts and any limits.              *)
(***************************************************************************)
EXTENDS AiReply, ChatStore_proofs

allVars == <<chatVars, aiVars>>

-----------------------------------------------------------------------------
(* The invariant of the log. *)

Tabled ==
  /\ log \in [Messages -> Statuses]
  /\ answered \in [Messages -> {0, 1}]

\* The row of the message in hand is open; InHand is what is known of it.
HasRow == ai.pc \in {"model", "bump", "reply", "send", "finish"}
NotTried == {"skipped", "blocked", "llm_error"}
InHand ==
  ai.m \in Messages =>
    /\ HasRow => log[ai.m] = "pending"
    /\ ai.pc \in {"model", "bump", "reply"} => answered[ai.m] = 0
    /\ ai.pc = "finish" /\ ai.result \in NotTried => answered[ai.m] = 0
    /\ ai.pc = "send" /\ ai.result = "none" => answered[ai.m] = 0
    /\ ai.pc = "send" /\ ai.result = "sent" => answered[ai.m] = 1

Results ==
  /\ ai.pc = "reply" => ai.result = "none"
  /\ ai.pc = "bump" => ai.result = "llm_error"
  /\ ai.pc = "model" => ai.result = "none"
  /\ ai.pc \in {"idle", "check", "claim"} => ai.result = "none"
  /\ ai.pc = "send" => ai.result \in {"none", "sent", "send_failed"}
  /\ ai.pc = "finish" => ai.result \in NotTried \cup {"send_failed"}

\* Where the worker is in ChatStore is where it is here.
Visit ==
  /\ At(Worker, "known") \/ At(Worker, "pending") \/ At(Worker, "write") \/ At(Worker, "send")
       => ai.pc = "send" /\ ai.result = "none"
  /\ At(Worker, "floor") \/ At(Worker, "append") => ai.pc = "send" /\ ai.result = "sent"
  /\ ~At(Worker, "hand")

Shape ==
  /\ DOMAIN threads = Threads
  /\ DOMAIN threads[Worker] = {"pc", "answer", "known", "pending", "text", "floor"}
  /\ DOMAIN ai = {"pc", "m", "streak", "enabled", "result"}

LogInv == Tabled /\ Shape /\ InHand /\ Results /\ Visit /\ LogIsTrue

LEMMA WorkerIsNoPoller == Worker \in Threads /\ Worker \notin Pollers
BY ThreadsAssumption, WorkerAssumption DEF Threads

LEMMA LogInit == AiInit => LogInv
<1> SUFFICES ASSUME AiInit PROVE LogInv
  OBVIOUS
<1>1. ai.pc = "idle" /\ ai.result = "none"
      /\ DOMAIN ai = {"pc", "m", "streak", "enabled", "result"}
  BY DEF AiInit, Free
<1>2. /\ threads[Worker].pc = "idle" /\ DOMAIN threads = Threads
      /\ DOMAIN threads[Worker] = {"pc", "answer", "known", "pending", "text", "floor"}
  BY WorkerIsNoPoller DEF AiInit, Init, Idle
<1>3. Tabled /\ LogIsTrue
  BY DEF AiInit, Tabled, LogIsTrue, Statuses
<1>4. InHand /\ Results /\ Visit
  BY <1>1, <1>2 DEF InHand, HasRow, Results, Visit, At
<1> QED
  BY <1>1, <1>2, <1>3, <1>4 DEF LogInv, Shape

\* A step that leaves the worker, the log and the answers alone.
LEMMA Elsewhere ==
  ASSUME LogInv, UNCHANGED <<ai, log, answered>>, DOMAIN threads' = Threads,
         threads'[Worker] = threads[Worker]
  PROVE  LogInv'
BY DEF LogInv, Tabled, Shape, InHand, HasRow, Results, Visit, At, LogIsTrue

\* Pollers move themselves only.
LEMMA PollerSteps ==
  ASSUME LogInv, NEW p \in Pollers,
         Feeds(p) \/ ((Polls(p) \/ Sync(p)) /\ UNCHANGED aiVars)
  PROVE  LogInv'
<1>1. /\ DOMAIN threads' = Threads
      /\ threads'[Worker] = threads[Worker]
  <2>1. DOMAIN threads = Threads /\ p # Worker /\ Worker \in Threads
    BY WorkerIsNoPoller DEF LogInv, Shape
  <2>2. CASE Feeds(p)
    BY <2>1, <2>2 DEF Feeds, Hands, SetThread
  <2>3. CASE Polls(p)
    BY <2>1, <2>3 DEF Polls, Begins, SetThread
  <2>4. CASE ReadsKnown(p)
    BY <2>1, <2>4 DEF ReadsKnown, SetThread
  <2>5. CASE ReadsPending(p)
    BY <2>1, <2>5 DEF ReadsPending, SetThread
  <2>6. CASE Writes(p)
    BY <2>1, <2>6 DEF Writes, WriteDone, SetThread
  <2> QED
    BY <2>2, <2>3, <2>4, <2>5, <2>6 DEF Sync
<1>2. UNCHANGED <<ai, log, answered>>
  BY DEF Feeds, ghosts, aiVars
<1> QED
  BY <1>1, <1>2, Elsewhere

\* The worker's way through ChatStore up to the send, and after it.
LEMMA WorkerVisits ==
  ASSUME LogInv, UNCHANGED aiVars,
         Sync(Worker) \/ ReadsFloor(Worker) \/ Appends(Worker)
  PROVE  LogInv'
<1> DEFINE pc == threads[Worker].pc
           next == threads'[Worker].pc
<1>1. /\ DOMAIN threads = Threads /\ Worker \in Threads /\ Worker \notin Pollers
      /\ DOMAIN threads[Worker] = {"pc", "answer", "known", "pending", "text", "floor"}
  BY WorkerIsNoPoller DEF LogInv, Shape
<1>2. /\ After(Worker).pc \in {"idle", "send"}
      /\ DOMAIN After(Worker) = {"pc", "answer", "known", "pending", "text", "floor"}
  BY DEF After, Idle
<1>3. /\ DOMAIN threads' = Threads
      /\ DOMAIN threads'[Worker] = {"pc", "answer", "known", "pending", "text", "floor"}
      /\ \/ pc \in {"known", "pending", "write"} /\ next \in {"pending", "write", "idle", "send"}
         \/ pc \in {"floor", "append"} /\ next \in {"append", "idle"}
  <2>1. CASE ReadsKnown(Worker)
    BY <1>1, <1>2, <2>1 DEF ReadsKnown, SetThread, At
  <2>2. CASE ReadsPending(Worker)
    BY <1>1, <2>2 DEF ReadsPending, SetThread, At
  <2>3. CASE Writes(Worker)
    BY <1>1, <1>2, <2>3 DEF Writes, WriteDone, SetThread, At
  <2>4. CASE ReadsFloor(Worker)
    BY <1>1, <2>4 DEF ReadsFloor, SetThread, At
  <2>5. CASE Appends(Worker)
    BY <1>1, <2>5 DEF Appends, SetThread, At, Idle
  <2> QED
    BY <2>1, <2>2, <2>3, <2>4, <2>5 DEF Sync
<1>4. UNCHANGED <<ai, log, answered>>
  BY DEF aiVars
<1>5. Visit'
  BY <1>3, <1>4 DEF LogInv, Visit, At
<1> QED
  BY <1>3, <1>4, <1>5 DEF LogInv, Tabled, Shape, InHand, HasRow, Results, LogIsTrue

\* The worker on its own: ChatStore does not move.
LEMMA WorkerSteps ==
  ASSUME LogInv, UNCHANGED threads,
         \/ TakesMessage \/ Checks \/ ClaimsMessage \/ Skips \/ HandleRaises
         \/ ModelFails \/ BumpsFailure \/ ModelAnswers \/ NotSent \/ Finishes
  PROVE  LogInv'
<1> USE DEF LogInv, Tabled, Shape, InHand, HasRow, Results, Visit, At, LogIsTrue,
            ghosts, NotTried, Statuses
<1>1. CASE TakesMessage
  BY <1>1 DEF TakesMessage, Free
<1>2. CASE Checks
  BY <1>2 DEF Checks, Free
<1>3. CASE ClaimsMessage
  BY <1>3 DEF ClaimsMessage, Free
<1>4. CASE Skips
  BY <1>4 DEF Skips
<1>5. CASE HandleRaises
  BY <1>5 DEF HandleRaises, Free
<1>6. CASE ModelFails
  BY <1>6 DEF ModelFails
<1>7. CASE BumpsFailure
  BY <1>7 DEF BumpsFailure
<1>8. CASE ModelAnswers
  BY <1>8 DEF ModelAnswers
<1>9. CASE NotSent
  BY <1>9 DEF NotSent
<1>10. CASE Finishes
  <2>1. /\ ai.pc \in {"finish", "send"} /\ log' = [log EXCEPT ![ai.m] = ai.result]
        /\ ai' = Free /\ UNCHANGED <<answered, threads>>
    BY <1>10 DEF Finishes
  <2>2. /\ ai.result \in NotTried \cup {"sent", "send_failed"}
        /\ ai.pc = "send" => threads[Worker].pc = "idle" /\ ai.result # "none"
    BY <1>10 DEF Finishes
  <2>3. ai'.pc = "idle" /\ ai'.result = "none"
        /\ DOMAIN ai' = {"pc", "m", "streak", "enabled", "result"}
    BY <2>1 DEF Free
  <2>4. Tabled'
    BY <2>1, <2>2
  <2>5. ASSUME NEW m \in Messages
        PROVE  /\ answered'[m] <= 1
               /\ log'[m] = "sent" => answered'[m] = 1
               /\ answered'[m] = 1 => log'[m] \in {"pending", "sent", "send_failed"}
    <3>1. CASE m = ai.m
      BY <2>1, <2>2, <3>1
    <3>2. CASE m # ai.m
      BY <2>1, <3>2
    <3> QED
      BY <3>1, <3>2
  <2>6. Visit' /\ Results' /\ InHand'
    <3>1. threads[Worker].pc \notin {"known", "pending", "write", "send", "floor", "append", "hand"}
      BY <2>1, <2>2
    <3> QED
      BY <2>1, <2>3, <3>1
  <2> QED
    BY <2>1, <2>3, <2>4, <2>5, <2>6
<1> QED
  BY <1>1, <1>2, <1>3, <1>4, <1>5, <1>6, <1>7, <1>8, <1>9, <1>10

\* The first answer to the message in hand.
LEMMA OneMore ==
  ASSUME LogInv, ai.pc = "send", ai.result = "none",
         answered' = [answered EXCEPT ![ai.m] = @ + 1], log' = log
  PROVE  Tabled' /\ LogIsTrue' /\ (ai.m \in Messages => answered'[ai.m] = 1)
<1>1. answered \in [Messages -> {0, 1}] /\ log \in [Messages -> Statuses] /\ LogIsTrue
  BY DEF LogInv, Tabled
<1>2. CASE ai.m \notin Messages
  <2>1. answered' = answered
    BY <1>1, <1>2
  <2> QED
    BY <1>1, <1>2, <2>1 DEF Tabled, LogIsTrue
<1>3. CASE ai.m \in Messages
  <2>1. answered[ai.m] = 0 /\ log[ai.m] = "pending"
    BY <1>3 DEF LogInv, InHand, HasRow
  <2>2. \A m \in Messages : answered'[m] = IF m = ai.m THEN 1 ELSE answered[m]
    BY <1>1, <2>1
  <2>3. answered' \in [Messages -> {0, 1}]
    BY <1>1, <1>3, <2>1
  <2> QED
    BY <1>1, <1>3, <2>1, <2>2, <2>3 DEF Tabled, LogIsTrue
<1> QED
  BY <1>2, <1>3

\* The worker where ChatStore moves with it.
LEMMA WorkerSends ==
  ASSUME LogInv,
         (\E text \in Texts : SendsToUid(text)) \/ AiSendFails \/ AiSendOk
  PROVE  LogInv'
<1> USE DEF LogInv, Tabled, Shape, InHand, HasRow, Results, Visit, At, LogIsTrue,
            ghosts, NotTried, Statuses
<1>0. Worker \in Threads
  BY WorkerIsNoPoller
<1>1. ASSUME NEW text \in Texts, SendsToUid(text) PROVE LogInv'
  <2>1. /\ threads' = [threads EXCEPT ![Worker] = threads'[Worker]]
        /\ threads'[Worker].pc = "known"
        /\ DOMAIN threads'[Worker] = {"pc", "answer", "known", "pending", "text", "floor"}
    <3>1. PICK answer : Begins(Worker, text, answer)
      BY <1>1 DEF SendsToUid
    <3>2. PICK f : f = [Idle EXCEPT !.pc = "known", !.answer = answer, !.text = text]
      OBVIOUS
    <3>3. f = [pc |-> "known", answer |-> answer, known |-> {}, pending |-> {},
                text |-> text, floor |-> 0]
      BY <3>2, Zenon DEF Idle
    <3>4. threads' = [threads EXCEPT ![Worker] = f]
      BY <3>1, <3>2 DEF Begins, SetThread
    <3> QED
      BY <1>0, <3>3, <3>4
  <2> QED
    BY <1>0, <1>1, <2>1 DEF SendsToUid
<1>2. ASSUME AiSendFails PROVE LogInv'
  <2>1. /\ DOMAIN threads' = Threads /\ threads'[Worker].pc = "idle"
        /\ DOMAIN threads'[Worker] = {"pc", "answer", "known", "pending", "text", "floor"}
        /\ threads[Worker].pc = "send"
    BY <1>0, <1>2 DEF AiSendFails, SendFails, SetThread, Idle
  <2>2. ai.pc = "send" /\ ai.result = "none"
    BY <2>1
  <2>3. answered' = answered \/ answered' = [answered EXCEPT ![ai.m] = @ + 1]
    BY <1>2 DEF AiSendFails, MaybeDelivered, Delivered
  <2>4. log' = log /\ ai' = [ai EXCEPT !.result = "send_failed"]
    BY <1>2 DEF AiSendFails
  <2>5. Tabled' /\ LogIsTrue'
    BY <2>2, <2>3, <2>4, OneMore DEF Tabled, LogIsTrue
  <2> QED
    BY <2>1, <2>2, <2>4, <2>5
<1>3. ASSUME AiSendOk PROVE LogInv'
  <2>1. /\ DOMAIN threads' = Threads /\ threads'[Worker].pc = "floor"
        /\ DOMAIN threads'[Worker] = {"pc", "answer", "known", "pending", "text", "floor"}
        /\ threads[Worker].pc = "send"
    BY <1>0, <1>3 DEF AiSendOk, SendOk, SetThread
  <2>2. ai.pc = "send" /\ ai.result = "none"
    BY <2>1
  <2>3. answered' = [answered EXCEPT ![ai.m] = @ + 1]
    BY <1>3 DEF AiSendOk, Delivered
  <2>4. log' = log /\ ai' = [ai EXCEPT !.result = "sent"]
    BY <1>3 DEF AiSendOk
  <2>5. Tabled' /\ LogIsTrue' /\ (ai.m \in Messages => answered'[ai.m] = 1)
    BY <2>2, <2>3, <2>4, OneMore
  <2>6. /\ ai'.pc = "send" /\ ai'.result = "sent" /\ ai'.m = ai.m
        /\ DOMAIN ai' = DOMAIN ai
    BY <2>2, <2>4
  <2>7. InHand' /\ Results'
    BY <2>2, <2>4, <2>5, <2>6
  <2> QED
    BY <2>1, <2>5, <2>6, <2>7
<1> QED
  BY <1>1, <1>2, <1>3

LEMMA RestartIsClean == ASSUME LogInv, RestartsAll PROVE LogInv'
<1>1. /\ DOMAIN threads' = Threads /\ threads'[Worker].pc = "idle"
      /\ DOMAIN threads'[Worker] = {"pc", "answer", "known", "pending", "text", "floor"}
  BY WorkerIsNoPoller DEF RestartsAll, Restarts, Idle
<1>2. /\ ai'.pc = "idle" /\ ai'.result = "none"
      /\ DOMAIN ai' = {"pc", "m", "streak", "enabled", "result"}
  BY DEF RestartsAll, Free
<1>3. log' = log /\ answered' = answered
  BY DEF RestartsAll, ghosts
<1> QED
  BY <1>1, <1>2, <1>3
  DEF LogInv, Tabled, Shape, InHand, HasRow, Results, Visit, At, LogIsTrue

\* The actions of the worker that leave ChatStore alone.
OwnStep ==
  \/ TakesMessage \/ Checks \/ ClaimsMessage \/ Skips \/ HandleRaises
  \/ ModelFails \/ BumpsFailure \/ ModelAnswers \/ NotSent \/ Finishes

LEMMA OwnStepStays == ASSUME OwnStep PROVE UNCHANGED chatVars
BY DEF OwnStep, TakesMessage, Checks, ClaimsMessage, Skips, HandleRaises,
       ModelFails, BumpsFailure, ModelAnswers, NotSent, Finishes

LEMMA LogStep == ASSUME LogInv, [AiNext]_allVars PROVE LogInv'
<1>1. CASE ArrivesHere
  BY <1>1, Elsewhere DEF ArrivesHere, Arrives, LogInv, Shape
<1>2. CASE RestartsAll
  BY <1>2, RestartIsClean
<1>3. ASSUME NEW p \in Pollers,
             Feeds(p) \/ ((Polls(p) \/ Sync(p)) /\ UNCHANGED aiVars)
      PROVE  LogInv'
  BY <1>3, PollerSteps
<1>4. CASE (\E want \in BOOLEAN : SaveReads(want)) \/ SaveCommits
  BY <1>4, Elsewhere DEF SaveReads, SaveCommits, chatVars, ghosts, LogInv, Shape
<1>5. CASE OwnStep
  BY <1>5, OwnStepStays, WorkerSteps DEF OwnStep, chatVars
<1>6. CASE (\E text \in Texts : SendsToUid(text)) \/ AiSendFails \/ AiSendOk
  BY <1>6, WorkerSends
<1>7. CASE (Sync(Worker) \/ ReadsFloor(Worker) \/ Appends(Worker)) /\ UNCHANGED aiVars
  BY <1>7, WorkerVisits
<1>8. CASE UNCHANGED allVars
  BY <1>8, Elsewhere DEF allVars, chatVars, aiVars, LogInv, Shape
<1> QED
  BY <1>1, <1>2, <1>3, <1>4, <1>5, <1>6, <1>7, <1>8 DEF AiNext, OwnStep, allVars

THEOREM LogInvariant == AiSpec => []LogInv
<1>1. LogInv /\ [AiNext]_<<chatVars, aiVars>> => LogInv'
  BY LogStep DEF allVars
<1> QED
  BY LogInit, <1>1, PTL DEF AiSpec

(***************************************************************************)
(* The log of the AI's answers tells the truth about Douyin: at most one   *)
(* answer to a message, "sent" only with one, and none where the log says  *)
(* that no send was tried.  It follows the message in hand: its row is     *)
(* open and, until the send, it has no answer (InHand).                    *)
(***************************************************************************)
THEOREM TheLogIsTrue == AiSpec => []LogIsTrue
<1>1. LogInv => LogIsTrue
  BY DEF LogInv
<1> QED
  BY LogInvariant, <1>1, PTL

-----------------------------------------------------------------------------
(* The refinement of ReplyLedger. *)

LedgerStep == [Ledger!Next]_<<log, answered>>

\* A message in hand that is none of Messages leaves no trace.
LEMMA LogIsTable ==
  ASSUME LogInv PROVE /\ log \in [Messages -> Statuses]
                      /\ answered \in [Messages -> {0, 1}]
BY DEF LogInv, Tabled

LEMMA ClaimOpens == ASSUME LogInv, ClaimsMessage PROVE LedgerStep
<1>1. answered' = answered
  BY DEF ClaimsMessage, ghosts
<1>2. CASE ai.m \notin Messages \/ log[ai.m] # "none"
  <2>1. log' = log
    BY <1>2, LogIsTable DEF ClaimsMessage
  <2> QED
    BY <1>1, <2>1 DEF LedgerStep
<1>3. CASE ai.m \in Messages /\ log[ai.m] = "none"
  <2>1. Ledger!Open(ai.m)
    BY <1>1, <1>3 DEF Ledger!Open, ClaimsMessage
  <2> QED
    BY <1>3, <2>1 DEF LedgerStep, Ledger!Next
<1> QED
  BY <1>2, <1>3

LEMMA DeliveryAnswers ==
  ASSUME LogInv, ai.pc = "send", ai.result = "none", Delivered, UNCHANGED log
  PROVE  LedgerStep
<1>1. CASE ai.m \notin Messages
  <2>1. answered' = answered
    BY <1>1, LogIsTable DEF Delivered
  <2> QED
    BY <2>1 DEF LedgerStep
<1>2. CASE ai.m \in Messages
  <2>1. answered[ai.m] = 0 /\ log[ai.m] = "pending"
    BY <1>2 DEF LogInv, InHand, HasRow
  <2>2. Ledger!Answer(ai.m)
    BY <2>1 DEF Ledger!Answer, Delivered
  <2> QED
    BY <1>2, <2>2 DEF LedgerStep, Ledger!Next
<1> QED
  BY <1>1, <1>2

LEMMA FinishCloses == ASSUME LogInv, Finishes PROVE LedgerStep
<1>1. answered' = answered /\ log' = [log EXCEPT ![ai.m] = ai.result]
  BY DEF Finishes, ghosts
<1>2. CASE ai.m \notin Messages
  <2>1. log' = log
    BY <1>1, <1>2, LogIsTable
  <2> QED
    BY <1>1, <2>1 DEF LedgerStep
<1>3. CASE ai.m \in Messages
  <2>1. log[ai.m] = "pending"
    BY <1>3 DEF LogInv, InHand, HasRow, Finishes
  <2>2. \/ ai.result = "sent" /\ answered[ai.m] = 1
        \/ ai.result \in NotTried /\ answered[ai.m] = 0
        \/ ai.result = "send_failed"
    BY <1>3 DEF LogInv, InHand, Results, Finishes
  <2>3. ai.result \in Ledger!NotTried \cup {"sent", "send_failed"}
    BY <2>2 DEF NotTried, Ledger!NotTried
  <2>4. Ledger!Close(ai.m, ai.result)
    BY <1>1, <2>1, <2>2 DEF Ledger!Close, NotTried, Ledger!NotTried
  <2> QED
    BY <1>3, <2>3, <2>4 DEF LedgerStep, Ledger!Next
<1> QED
  BY <1>2, <1>3

LEMMA StepIsLedgerStep == ASSUME LogInv, [AiNext]_allVars PROVE LedgerStep
<1>1. CASE ClaimsMessage
  BY <1>1, ClaimOpens
<1>2. CASE Finishes
  BY <1>2, FinishCloses
<1>3. CASE AiSendFails \/ AiSendOk
  <2>1. At(Worker, "send") /\ UNCHANGED log
    BY <1>3 DEF AiSendFails, AiSendOk, SendFails, SendOk
  <2>2. ai.pc = "send" /\ ai.result = "none"
    BY <2>1 DEF LogInv, Visit
  <2>3. CASE Delivered
    BY <2>1, <2>2, <2>3, DeliveryAnswers
  <2>4. CASE UNCHANGED answered
    BY <2>1, <2>4 DEF LedgerStep
  <2> QED
    BY <1>3, <2>3, <2>4 DEF AiSendFails, AiSendOk, MaybeDelivered
<1>4. CASE UNCHANGED <<log, answered>>
  BY <1>4 DEF LedgerStep
<1>5. CASE AiNext /\ ~ClaimsMessage /\ ~Finishes /\ ~AiSendFails /\ ~AiSendOk
  <2>1. UNCHANGED <<log, answered>>
    BY <1>5
    DEF AiNext, ArrivesHere, RestartsAll, Feeds, SaveReads, SaveCommits,
        TakesMessage, Checks, Skips, HandleRaises, ModelFails, BumpsFailure,
        ModelAnswers, NotSent, SendsToUid, ghosts, aiVars
  <2> QED
    BY <1>4, <2>1
<1>6. CASE UNCHANGED allVars
  BY <1>4, <1>6 DEF allVars, aiVars
<1> QED
  BY <1>1, <1>2, <1>3, <1>5, <1>6

(***************************************************************************)
(* AiReply implements ReplyLedger: claims open rows, deliveries answer, a  *)
(* finished message closes its row, and nothing else changes the log; a    *)
(* restart is a stutter.                                                   *)
(***************************************************************************)
THEOREM RepliesImplementLedger == AiSpec => ImplementsReplies
<1>1. AiInit => Ledger!Init
  BY DEF AiInit, Ledger!Init
<1>2. LogInv /\ [AiNext]_<<chatVars, aiVars>> => [Ledger!Next]_<<log, answered>>
  BY StepIsLedgerStep DEF allVars, LedgerStep
<1> QED
  BY LogInvariant, <1>1, <1>2, PTL DEF AiSpec, ImplementsReplies, Ledger!Spec

-----------------------------------------------------------------------------
(* The counter of failures. *)

Counting ==
  /\ DOMAIN ai = {"pc", "m", "streak", "enabled", "result"}
  /\ DOMAIN cfg = {"enabled", "since", "streak"}
  /\ DOMAIN form = {"pc", "want", "enabled", "streak", "since"}
  /\ failures \in Nat /\ restarts \in Nat
  /\ cfg.streak \in Nat /\ ai.streak \in Nat
  /\ cfg.enabled \in BOOLEAN /\ ai.enabled \in BOOLEAN
  /\ form.want \in BOOLEAN /\ form.enabled \in BOOLEAN

\* Every failure is counted, or about to be; a restart forgets one.
Counted ==
  /\ ai.pc # "bump" => failures <= cfg.streak + restarts
  /\ ai.pc = "bump" => /\ failures <= ai.streak + restarts
                       /\ failures <= cfg.streak + 1 + restarts

\* Who may ask the model has a failure left; a switch that the worker did
\* not find on was turned since.
MayAsk == ai.pc \in {"claim", "model"} \/ (cfg.enabled /\ ai.pc # "bump")
Left ==
  /\ MayAsk => failures + 1 <= MaxStreak + restarts
  /\ ai.pc = "bump" /\ cfg.enabled /\ ~ai.enabled => failures = 0

StreakInv == Counting /\ Counted /\ Left /\ FailuresStop

LEMMA MaxStreakIsPositive == MaxStreak \in Nat /\ MaxStreak >= 1
BY LimitsAssumption

LEMMA StreakInit == AiInit => StreakInv
BY MaxStreakIsPositive
DEF AiInit, Init, Free, NoForm, StreakInv, Counting, Counted, Left, MayAsk, FailuresStop

\* A step that leaves the counters alone and the worker where it is, or ends
\* its work.
LEMMA NothingCounted ==
  ASSUME StreakInv, UNCHANGED <<cfg, failures, restarts, form>>,
         DOMAIN ai' = DOMAIN ai, ai'.streak \in Nat, ai'.enabled \in BOOLEAN,
         ai.pc # "bump", ai'.pc # "bump",
         ai'.pc \in {"claim", "model"} => MayAsk
  PROVE  StreakInv'
BY DEF StreakInv, Counting, Counted, Left, MayAsk, FailuresStop

LEMMA FreeFields ==
  /\ DOMAIN Free = {"pc", "m", "streak", "enabled", "result"}
  /\ Free.pc = "idle" /\ Free.streak \in Nat /\ Free.enabled \in BOOLEAN
BY DEF Free

LEMMA StreakStep == ASSUME LogInv, StreakInv, [AiNext]_allVars PROVE StreakInv'
<1>1. CASE UNCHANGED <<cfg, failures, restarts, form, ai>>
  BY <1>1 DEF StreakInv, Counting, Counted, Left, MayAsk, FailuresStop
<1>2. CASE RestartsAll
  BY <1>2, MaxStreakIsPositive
  DEF RestartsAll, Restarts, ghosts, Free, NoForm, StreakInv, Counting, Counted,
      Left, MayAsk, FailuresStop
<1>3. CASE \E want \in BOOLEAN : SaveReads(want)
  BY <1>3
  DEF SaveReads, chatVars, ghosts, StreakInv, Counting, Counted, Left, MayAsk, FailuresStop
<1>4. CASE SaveCommits
  BY <1>4, MaxStreakIsPositive
  DEF SaveCommits, SwitchesOn, NoForm, chatVars, StreakInv, Counting, Counted,
      Left, MayAsk, FailuresStop
<1>5. CASE TakesMessage \/ Checks \/ ClaimsMessage \/ Skips \/ HandleRaises
           \/ NotSent \/ Finishes \/ (\E text \in Texts : SendsToUid(text))
           \/ AiSendFails \/ AiSendOk
  <2>1. /\ UNCHANGED <<cfg, failures, restarts, form>>
        /\ DOMAIN ai = {"pc", "m", "streak", "enabled", "result"}
        /\ ai.streak \in Nat /\ ai.enabled \in BOOLEAN
    BY <1>5
    DEF TakesMessage, Checks, ClaimsMessage, Skips, HandleRaises, NotSent,
        Finishes, SendsToUid, AiSendFails, AiSendOk, Begins, SendFails, SendOk,
        chatVars, ghosts, StreakInv, Counting
  <2>2. CASE TakesMessage \/ HandleRaises \/ Finishes
    <3>1. ai' = ai \/ ai' = Free \/ ai' = [Free EXCEPT !.pc = "check", !.m = Head(queue)]
      BY <2>2 DEF TakesMessage, HandleRaises, Finishes
    <3>2. ai.pc # "bump"
      BY <2>2 DEF TakesMessage, HandleRaises, Finishes
    <3>3. CASE ai' = ai
      BY <2>1, <3>2, <3>3, NothingCounted DEF MayAsk
    <3>4. CASE ai' = Free
      BY <2>1, <3>2, <3>4, FreeFields, NothingCounted
    <3>5. CASE ai' = [Free EXCEPT !.pc = "check", !.m = Head(queue)]
      <4>1. /\ ai'.pc = "check" /\ DOMAIN ai' = DOMAIN Free
            /\ ai'.streak = Free.streak /\ ai'.enabled = Free.enabled
        BY <3>5, FreeFields
      <4> QED
        BY <2>1, <3>2, <4>1, FreeFields, NothingCounted
    <3> QED
      BY <3>1, <3>3, <3>4, <3>5
  <2>3. CASE Checks
    <3>1. CASE ai' = Free
      BY <2>1, <2>3, <3>1, FreeFields, NothingCounted DEF Checks
    <3>2. CASE cfg.enabled /\ ai' = [ai EXCEPT !.pc = "claim"]
      BY <2>1, <2>3, <3>2, NothingCounted DEF Checks, MayAsk
    <3> QED
      BY <2>3, <3>1, <3>2 DEF Checks
  <2>4. CASE ClaimsMessage
    <3>1. CASE ai' = Free
      BY <2>1, <2>4, <3>1, FreeFields, NothingCounted DEF ClaimsMessage
    <3>2. CASE ai' = [ai EXCEPT !.pc = "model"]
      BY <2>1, <2>4, <3>2, NothingCounted DEF ClaimsMessage, MayAsk
    <3> QED
      BY <2>4, <3>1, <3>2 DEF ClaimsMessage
  <2>5. CASE Skips \/ NotSent
    BY <2>1, <2>5, NothingCounted DEF Skips, NotSent
  <2>6. CASE \E text \in Texts : SendsToUid(text)
    BY <2>1, <2>6, NothingCounted DEF SendsToUid
  <2>7. CASE AiSendFails \/ AiSendOk
    <3>1. ai.pc = "send"
      BY <2>7 DEF AiSendFails, AiSendOk, SendFails, SendOk, LogInv, Visit
    <3> QED
      BY <2>1, <2>7, <3>1, NothingCounted DEF AiSendFails, AiSendOk
  <2> QED
    BY <1>5, <2>2, <2>3, <2>4, <2>5, <2>6, <2>7
<1>6. CASE ModelFails
  <2>1. /\ UNCHANGED <<cfg, restarts, form>> /\ failures' = failures + 1
        /\ ai.pc = "model" /\ ai'.pc = "bump"
        /\ ai'.streak = cfg.streak + 1 /\ ai'.enabled = cfg.enabled
        /\ DOMAIN ai' = {"pc", "m", "streak", "enabled", "result"}
    BY <1>6 DEF ModelFails, chatVars, StreakInv, Counting
  <2> QED
    BY <2>1, MaxStreakIsPositive
    DEF StreakInv, Counting, Counted, Left, MayAsk, FailuresStop
<1>7. CASE BumpsFailure
  <2>1. /\ UNCHANGED <<failures, restarts, form>>
        /\ ai.pc = "bump" /\ ai'.pc = "finish"
        /\ ai'.streak = ai.streak /\ ai'.enabled = ai.enabled
        /\ DOMAIN ai' = {"pc", "m", "streak", "enabled", "result"}
    BY <1>7 DEF BumpsFailure, chatVars, ghosts, StreakInv, Counting
  <2>2. /\ DOMAIN cfg = {"enabled", "since", "streak"}
        /\ cfg' = [cfg EXCEPT !.streak = ai.streak,
                   !.enabled = cfg.enabled /\ ~(ai.streak >= MaxStreak /\ ai.enabled)]
    BY <1>7 DEF BumpsFailure, Enough, StreakInv, Counting
  <2>4. cfg'.streak = ai.streak /\ DOMAIN cfg' = {"enabled", "since", "streak"}
    BY <2>2
  <2>5. cfg'.enabled = (cfg.enabled /\ ~(ai.streak >= MaxStreak /\ ai.enabled))
    BY <2>2, Zenon
  <2>6. cfg'.enabled \in BOOLEAN
    BY <2>5, Zenon
  <2>7. cfg'.enabled => cfg.enabled /\ ~(ai.streak >= MaxStreak /\ ai.enabled)
    BY <2>5, Zenon
  <2>3. cfg'.enabled => failures + 1 <= MaxStreak + restarts
    BY <2>1, <2>7, MaxStreakIsPositive DEF StreakInv, Counting, Counted, Left
  <2> QED
    BY <2>1, <2>3, <2>4, <2>6
    DEF StreakInv, Counting, Counted, Left, MayAsk, FailuresStop
<1>8. CASE ModelAnswers
  BY <1>8, MaxStreakIsPositive
  DEF ModelAnswers, chatVars, StreakInv, Counting, Counted, Left, MayAsk, FailuresStop
<1>9. CASE /\ UNCHANGED aiVars
           /\ \/ Sync(Worker) \/ ReadsFloor(Worker) \/ Appends(Worker)
              \/ \E p \in Pollers : Polls(p) \/ Sync(p)
  <2>1. UNCHANGED restarts
    BY <1>9
    DEF Sync, ReadsKnown, ReadsPending, Writes, ReadsFloor, Appends, Polls, Begins
  <2> QED
    BY <1>1, <1>9, <2>1 DEF aiVars
<1>10. CASE ArrivesHere \/ \E p \in Pollers : Feeds(p)
  <2>1. UNCHANGED <<cfg, failures, restarts, form, ai>>
    BY <1>10 DEF ArrivesHere, Arrives, Feeds, Hands, ghosts
  <2> QED
    BY <1>1, <2>1
<1>11. CASE UNCHANGED allVars
  BY <1>1, <1>11 DEF allVars, chatVars, aiVars
<1> QED
  BY <1>2, <1>3, <1>4, <1>5, <1>6, <1>7, <1>8, <1>9, <1>10, <1>11 DEF AiNext, allVars

(***************************************************************************)
(* However the form and the worker overwrite each other's row, at most     *)
(* MaxStreak calls of the model fail in a row (one more for each restart)  *)
(* before it is left alone.  The argument is Left: whoever may ask has a   *)
(* failure to spare, and a switch that is on although the worker found it  *)
(* off has just been turned on, with the failures forgotten.               *)
(***************************************************************************)
THEOREM FailuresEnd == AiSpec => []FailuresStop
<1>1. StreakInv /\ LogInv /\ [AiNext]_<<chatVars, aiVars>> => StreakInv'
  BY StreakStep DEF allVars
<1>2. StreakInv => FailuresStop
  BY DEF StreakInv
<1> QED
  BY StreakInit, LogInvariant, <1>1, <1>2, PTL DEF AiSpec

-----------------------------------------------------------------------------
(* ChatStore under the worker. *)

LEMMA AiStepIsChatStep ==
  ASSUME [AiNext]_allVars
  PROVE  [ChatNext]_chatVars
<1>1. Worker \in Others /\ Worker \in Threads /\ Pollers \subseteq Threads
  BY WorkerAssumption DEF Threads
<1>2. CASE ArrivesHere \/ RestartsAll
  BY <1>2 DEF ArrivesHere, RestartsAll, ChatNext
<1>3. CASE \E p \in Pollers : Feeds(p) \/ ((Polls(p) \/ Sync(p)) /\ UNCHANGED aiVars)
  BY <1>1, <1>3 DEF Feeds, ChatNext
<1>4. CASE \E text \in Texts : SendsToUid(text)
  <2>1. Visits(Worker)
    BY <1>4, Zenon DEF SendsToUid, Visits
  <2> QED
    BY <1>1, <2>1 DEF ChatNext
<1>5. CASE AiSendFails \/ AiSendOk \/ Sync(Worker) \/ ReadsFloor(Worker) \/ Appends(Worker)
  BY <1>1, <1>5 DEF AiSendFails, AiSendOk, Sends, ChatNext
<1>6. CASE UNCHANGED chatVars
  BY <1>6
<1>7. CASE \/ \E want \in BOOLEAN : SaveReads(want)
           \/ SaveCommits
           \/ TakesMessage \/ Checks \/ ClaimsMessage
           \/ Skips \/ HandleRaises \/ ModelFails \/ BumpsFailure \/ ModelAnswers
           \/ NotSent \/ Finishes
  <2>1. UNCHANGED chatVars
    BY <1>7
    DEF SaveReads, SaveCommits, TakesMessage, Checks, ClaimsMessage, Skips,
        HandleRaises, ModelFails, BumpsFailure, ModelAnswers, NotSent, Finishes
  <2> QED
    BY <2>1
<1>8. CASE UNCHANGED allVars
  BY <1>6, <1>8 DEF allVars
<1> QED
  BY <1>2, <1>3, <1>4, <1>5, <1>7, <1>8 DEF AiNext, allVars

(***************************************************************************)
(* The AI worker is one more thread that visits Douyin: with it, the chat  *)
(* store behaves as without it, so that what ChatStore promises holds      *)
(* here: in this module the other threads that visit Douyin stand still,   *)
(* and the worker is the one that polls meet.                              *)
(***************************************************************************)
THEOREM WorkerIsAThread == AiSpec => ChatSpec
<1>1. AiInit => Init
  BY DEF AiInit
<1>2. [AiNext]_<<chatVars, aiVars>> => [ChatNext]_chatVars
  BY AiStepIsChatStep DEF allVars
<1> QED
  BY <1>1, <1>2, PTL DEF AiSpec, ChatSpec

-----------------------------------------------------------------------------
(* Types. *)

ConfigRow == [enabled : BOOLEAN, since : 0 .. MaxMessages, streak : Nat]
Request == [pc : {"idle", "commit"}, want : BOOLEAN, enabled : BOOLEAN,
            streak : Nat, since : 0 .. MaxMessages]
Work == [pc : {"idle", "check", "claim", "model", "bump", "reply", "send", "finish"},
         m : 0 .. MaxMessages, streak : Nat, enabled : BOOLEAN, result : Statuses]

\* The types of what AiReply adds.
Kinds ==
  /\ cfg \in ConfigRow /\ form \in Request /\ ai \in Work
  /\ queue \in Seq(Messages) /\ Len(queue) <= QueueMax
  /\ log \in [Messages -> Statuses]
  /\ answered \in [Messages -> Nat]
  /\ silent \in SUBSET Messages /\ failures \in Nat

LEMMA AiTypeParts == AiTypeOK <=> TypeOK /\ Kinds
BY DEF AiTypeOK, Kinds, ConfigRow, Request, Work

LEMMA FixedKinds ==
  /\ NoForm \in Request /\ NoForm.want = FALSE /\ NoForm.pc = "idle"
  /\ Free \in Work /\ Free.m = 0 /\ Free.pc = "idle"
<1>1. 0 \in 0 .. MaxMessages /\ 0 \in Nat
  BY Bounds
<1>2. "none" \in Statuses
  BY DEF Statuses
<1> QED
  BY <1>1, <1>2 DEF NoForm, Free, Request, Work

\* The messages that are queued have arrived.
LEMMA CandidatesArrived ==
  ASSUME ChatInv, NEW p \in Pollers
  PROVE  /\ Candidates(p) \subseteq 1 .. Len(server)
         /\ 1 .. Len(server) \subseteq Messages /\ Len(server) \in Nat
         /\ Cardinality(Candidates(p)) \in Nat
<1>1. p \in Threads
  BY DEF Threads
<1>2. Len(server) \in Nat /\ Len(server) <= MaxMessages
  BY InvFacts, ServerFacts
<1>3. 1 .. Len(server) \subseteq Messages
  BY <1>2, Bounds DEF Messages
<1>4. Candidates(p) \in SUBSET (1 .. Len(server))
  BY <1>1, FreshFacts DEF Candidates
<1>5. IsFiniteSet(1 .. Len(server))
  <2>1. Len(server) \in Int
    BY <1>2
  <2> QED
    BY <2>1, FS_Interval
<1> QED
  BY <1>2, <1>3, <1>4, <1>5, FS_Subset, FS_CardinalityType

\* What a poll appends: the first of its messages, as many as fit.
LEMMA QueueGets ==
  ASSUME ChatInv, Kinds, NEW p \in Pollers, Feeds(p)
  PROVE  \E new \in Seq(Messages), c \in Nat :
           /\ c <= Len(new) /\ c + Len(queue) <= QueueMax
           /\ \A l \in 1 .. Len(new) : new[l] \in Candidates(p)
           /\ \A k, l \in 1 .. Len(new) : k < l => new[k] < new[l]
           /\ queue' \in Seq(Messages) /\ Len(queue') = Len(queue) + c
           /\ \A i \in 1 .. Len(queue) + c :
                queue'[i] = IF i <= Len(queue) THEN queue[i] ELSE new[i - Len(queue)]
<1> DEFINE fit == QueueMax - Len(queue)
<1>1. PICK new \in InOrder(Candidates(p)) :
        queue' = queue \o SubSeq(new, 1, IF fit < Len(new) THEN fit ELSE Len(new))
  BY DEF Feeds
<1>2. /\ queue \in Seq(Messages) /\ Len(queue) \in Nat /\ Len(queue) <= QueueMax
      /\ QueueMax \in Nat
  BY LimitsAssumption DEF Kinds
<1>3. /\ new \in [1 .. Cardinality(Candidates(p)) -> Candidates(p)]
      /\ Cardinality(Candidates(p)) \in Nat
      /\ Candidates(p) \subseteq 1 .. Len(server) /\ Candidates(p) \subseteq Messages
  BY CandidatesArrived DEF InOrder
<1>4. /\ new \in Seq(Messages) /\ Len(new) \in Nat /\ DOMAIN new = 1 .. Len(new)
      /\ \A l \in 1 .. Len(new) : new[l] \in Candidates(p)
      /\ \A k, l \in 1 .. Len(new) : k < l => new[k] < new[l]
  BY <1>3 DEF InOrder
<1>5. PICK c : c = IF fit < Len(new) THEN fit ELSE Len(new)
  OBVIOUS
<1>6. c \in Nat /\ c <= Len(new) /\ c + Len(queue) <= QueueMax
  <2>1. PICK l \in Nat : l = Len(new)
    BY <1>4
  <2>2. fit \in Nat /\ fit + Len(queue) = QueueMax
    BY <1>2
  <2>3. PICK f \in Nat : f = fit
    BY <2>2
  <2>4. CASE f < l
    <3>1. c = f
      BY <1>5, <2>1, <2>4, <2>3, Zenon
    <3> QED
      BY <1>2, <2>1, <2>4, <2>2, <2>3, <3>1
  <2>5. CASE ~(f < l)
    <3>1. c = l
      BY <1>5, <2>1, <2>5, <2>3, Zenon
    <3> QED
      BY <1>2, <2>1, <2>5, <2>2, <2>3, <3>1
  <2> QED
    BY <2>4, <2>5
<1>7. PICK more : more = SubSeq(new, 1, c)
  OBVIOUS
<1>8. more \in Seq(Messages) /\ Len(more) = c /\ \A l \in 1 .. c : more[l] = new[l]
  BY <1>4, <1>6, <1>7
<1>9. queue' = queue \o more
  BY <1>1, <1>5, <1>7
<1>10. /\ queue' \in Seq(Messages) /\ Len(queue') = Len(queue) + c
       /\ \A i \in 1 .. Len(queue) + c :
            queue'[i] = IF i <= Len(queue) THEN queue[i] ELSE more[i - Len(queue)]
  BY <1>2, <1>8, <1>9, ConcatProperties
<1>11. \A i \in 1 .. Len(queue) + c : ~(i <= Len(queue)) => i - Len(queue) \in 1 .. c
  BY <1>2, <1>6
<1>12. \A i \in 1 .. Len(queue) + c :
         queue'[i] = IF i <= Len(queue) THEN queue[i] ELSE new[i - Len(queue)]
  BY <1>8, <1>10, <1>11
<1> QED
  BY <1>4, <1>6, <1>10, <1>12

LEMMA QueueAfter ==
  ASSUME ChatInv, Kinds, NEW p \in Pollers, Feeds(p)
  PROVE  /\ queue' \in Seq(Messages) /\ Len(queue') <= QueueMax
         /\ \A i \in 1 .. Len(queue') : \/ \E j \in 1 .. Len(queue) : queue'[i] = queue[j]
                                        \/ queue'[i] \in 1 .. Len(server)
<1>1. PICK new \in Seq(Messages), c \in Nat :
        /\ c <= Len(new) /\ c + Len(queue) <= QueueMax
        /\ \A l \in 1 .. Len(new) : new[l] \in Candidates(p)
        /\ queue' \in Seq(Messages) /\ Len(queue') = Len(queue) + c
        /\ \A i \in 1 .. Len(queue) + c :
             queue'[i] = IF i <= Len(queue) THEN queue[i] ELSE new[i - Len(queue)]
  BY QueueGets
<1>2. /\ Len(queue) \in Nat /\ Len(new) \in Nat /\ QueueMax \in Nat
      /\ Candidates(p) \subseteq 1 .. Len(server)
  BY CandidatesArrived, LimitsAssumption DEF Kinds
<1>3. ASSUME NEW i \in 1 .. Len(queue')
      PROVE  \/ \E j \in 1 .. Len(queue) : queue'[i] = queue[j]
             \/ queue'[i] \in 1 .. Len(server)
  <2>1. CASE i <= Len(queue)
    BY <1>1, <1>2, <2>1
  <2>2. CASE ~(i <= Len(queue))
    <3>1. i - Len(queue) \in 1 .. Len(new)
      BY <1>1, <1>2, <2>2
    <3>2. queue'[i] = new[i - Len(queue)]
      BY <1>1, <2>2
    <3> QED
      BY <1>1, <1>2, <3>1, <3>2
  <2> QED
    BY <2>1, <2>2
<1> QED
  BY <1>1, <1>2, <1>3

LEMMA KindsInit == AiInit => Kinds
<1> SUFFICES ASSUME AiInit PROVE Kinds
  OBVIOUS
<1>1. 0 \in 0 .. MaxMessages /\ 0 \in Nat /\ QueueMax \in Nat /\ "none" \in Statuses
  BY Bounds, LimitsAssumption DEF Statuses
<1>2. cfg \in ConfigRow
  BY <1>1 DEF AiInit, ConfigRow
<1>3. queue \in Seq(Messages) /\ Len(queue) <= QueueMax
  BY <1>1 DEF AiInit
<1> QED
  BY <1>1, <1>2, <1>3, FixedKinds DEF AiInit, Kinds

LEMMA KindsStep ==
  ASSUME ChatInv, ChatInv', Kinds, [AiNext]_allVars
  PROVE  Kinds'
<1>1. /\ cfg.enabled \in BOOLEAN /\ cfg.since \in 0 .. MaxMessages /\ cfg.streak \in Nat
      /\ form.want \in BOOLEAN /\ form.enabled \in BOOLEAN /\ form.streak \in Nat
      /\ form.since \in 0 .. MaxMessages
      /\ ai.streak \in Nat /\ ai.enabled \in BOOLEAN /\ ai.result \in Statuses
      /\ Len(server) \in 0 .. MaxMessages
  <2>1. Len(server) \in Nat /\ Len(server) <= MaxMessages
    BY InvFacts, ServerFacts
  <2>2. Len(server) \in 0 .. MaxMessages
    BY <2>1, Bounds
  <2> QED
    BY <2>2 DEF Kinds, ConfigRow, Request, Work
<1>2. CASE ArrivesHere
  <2>1. Len(server') \in Messages
    <3>1. Len(server') = Len(server) + 1
      BY <1>2, InvFacts, AppendProperties DEF ArrivesHere, Arrives, Deliver
    <3>2. Len(server') <= MaxMessages
      BY DEF ChatInv, TypeOK
    <3> QED
      BY <1>1, <3>1, <3>2, Bounds DEF Messages
  <2> QED
    BY <1>2, <2>1 DEF ArrivesHere, Kinds
<1>3. CASE RestartsAll
  BY <1>3, FixedKinds, LimitsAssumption DEF RestartsAll, ghosts, Kinds
<1>4. CASE \E p \in Pollers : Feeds(p)
  BY <1>4, QueueAfter DEF Feeds, ghosts, Kinds
<1>5. CASE \E want \in BOOLEAN : SaveReads(want)
  BY <1>1, <1>5 DEF SaveReads, ghosts, Kinds, Request
<1>6. CASE SaveCommits
  <2>1. cfg' \in ConfigRow
    BY <1>1, <1>6 DEF SaveCommits, ConfigRow
  <2> QED
    BY <1>6, <2>1, FixedKinds DEF SaveCommits, Kinds
<1>7. CASE TakesMessage
  <2>1. queue # <<>> /\ queue \in Seq(Messages) /\ Len(queue) <= QueueMax /\ queue' = Tail(queue)
    BY <1>7 DEF TakesMessage, Kinds
  <2>2. /\ Head(queue) \in Messages /\ queue' \in Seq(Messages)
        /\ Len(queue') <= QueueMax
    BY <2>1, LimitsAssumption
  <2>3. Head(queue) \in 0 .. MaxMessages
    BY <2>2, Bounds DEF Messages
  <2>4. ai' \in Work
    <3>1. [Free EXCEPT !.pc = "check", !.m = Head(queue)] \in Work
      BY <2>3, FixedKinds DEF Work
    <3> QED
      BY <1>7, <3>1 DEF TakesMessage, Kinds
  <2> QED
    BY <1>7, <2>2, <2>4 DEF TakesMessage, ghosts, Kinds
<1>8. CASE Checks
  BY <1>8, FixedKinds DEF Checks, ghosts, Kinds, Work
<1>9. CASE ClaimsMessage
  BY <1>9, FixedKinds DEF ClaimsMessage, ghosts, Kinds, Work, Statuses
<1>10. CASE Skips
  BY <1>10 DEF Skips, ghosts, Kinds, Work, Statuses
<1>11. CASE HandleRaises
  BY <1>11, FixedKinds DEF HandleRaises, ghosts, Kinds
<1>12. CASE ModelFails
  <2>1. PICK w : w = [ai EXCEPT !.pc = "bump", !.streak = cfg.streak + 1,
                                !.enabled = cfg.enabled, !.result = "llm_error"]
    OBVIOUS
  <2>2. ai \in Work
    BY DEF Kinds
  <2>3. /\ w.pc = "bump" /\ w.streak = cfg.streak + 1 /\ w.enabled = cfg.enabled
        /\ w.result = "llm_error" /\ w.m = ai.m
        /\ w = [pc |-> w.pc, m |-> w.m, streak |-> w.streak, enabled |-> w.enabled,
                result |-> w.result]
    BY <2>1, <2>2 DEF Work
  <2>4. w \in Work
    BY <1>1, <2>2, <2>3 DEF Work, Statuses
  <2>5. ai' = w
    BY <1>12, <2>1 DEF ModelFails
  <2> QED
    BY <1>12, <2>4, <2>5 DEF ModelFails, Kinds
<1>13. CASE BumpsFailure
  <2>1. cfg' \in ConfigRow
    <3>1. PICK on \in BOOLEAN : on = (cfg.enabled /\ ~(Enough(ai.streak) /\ ai.enabled))
      BY <1>1, Zenon
    <3>2. cfg' = [cfg EXCEPT !.streak = ai.streak, !.enabled = on]
      BY <1>13, <3>1, Zenon DEF BumpsFailure
    <3> QED
      BY <1>1, <3>2 DEF Kinds, ConfigRow
  <2>2. ai' \in Work
    BY <1>13 DEF BumpsFailure, Kinds, Work
  <2> QED
    BY <1>13, <2>1, <2>2 DEF BumpsFailure, ghosts, Kinds
<1>14. CASE ModelAnswers
  BY <1>14 DEF ModelAnswers, Kinds, Work, ConfigRow
<1>15. CASE NotSent
  BY <1>15 DEF NotSent, ghosts, Kinds, Work, Statuses
<1>16. CASE \E text \in Texts : SendsToUid(text)
  BY <1>16 DEF SendsToUid, ghosts, Kinds, Work
<1>17. CASE AiSendFails \/ AiSendOk
  <2>1. answered' \in [Messages -> Nat]
    <3>1. Delivered => answered' \in [Messages -> Nat]
      <4>1. PICK a \in [Messages -> Nat] : a = answered
        BY DEF Kinds
      <4>2. \A m \in Messages : a[m] \in Nat /\ a[m] + 1 \in Nat
        OBVIOUS
      <4>3. [a EXCEPT ![ai.m] = @ + 1] \in [Messages -> Nat]
        BY <4>2
      <4> QED
        BY <4>1, <4>3 DEF Delivered
    <3> QED
      BY <1>17, <3>1 DEF AiSendFails, AiSendOk, MaybeDelivered, Kinds
  <2>2. ai' \in Work
    BY <1>17 DEF AiSendFails, AiSendOk, Kinds, Work, Statuses
  <2> QED
    BY <1>17, <2>1, <2>2 DEF AiSendFails, AiSendOk, Kinds
<1>18. CASE Finishes
  BY <1>1, <1>18, FixedKinds DEF Finishes, ghosts, Kinds
<1>19. CASE UNCHANGED aiVars
  BY <1>19 DEF aiVars, Kinds
<1> QED
  BY <1>2, <1>3, <1>4, <1>5, <1>6, <1>7, <1>8, <1>9, <1>10, <1>11, <1>12, <1>13,
     <1>14, <1>15, <1>16, <1>17, <1>18, <1>19 DEF AiNext, allVars

THEOREM ChatUnderWorker == AiSpec => []ChatInv
BY WorkerIsAThread, ChatInvariant, PTL

LEMMA AiChatStep == ASSUME ChatInv, [AiNext]_allVars PROVE ChatInv'
BY AiStepIsChatStep, ChatStep

(***************************************************************************)
(* The queue keeps its bound whatever a poll hands on, and only messages   *)
(* that Douyin has are queued, taken up and logged.                        *)
(***************************************************************************)
THEOREM AiTypes == AiSpec => []AiTypeOK
<1>1. ChatInv /\ ChatInv' /\ Kinds /\ [AiNext]_<<chatVars, aiVars>> => Kinds'
  BY KindsStep DEF allVars
<1>2. ChatInv /\ Kinds => AiTypeOK
  BY AiTypeParts DEF ChatInv
<1> QED
  BY ChatUnderWorker, KindsInit, <1>1, <1>2, PTL DEF AiSpec

-----------------------------------------------------------------------------
(* Silence. *)

Past == ai.pc \notin {"idle", "check"}

\* The worker has only seen what Douyin has.
InSight ==
  /\ \A i \in 1 .. Len(queue) : queue[i] <= Len(server)
  /\ ai.m <= Len(server)
  /\ \A m \in Messages : log[m] # "none" => m <= Len(server)

\* Nobody is about to answer m, and "since" will stop whoever finds it with
\* the switch on: as it is, and as the form is about to write it.
Ignored(m) ==
  /\ m <= Len(server) /\ log[m] = "none"
  /\ ~(Past /\ ai.m = m)
  /\ cfg.enabled => m <= cfg.since
  /\ SwitchesOn => m <= form.since

SilenceInv == InSight /\ \A m \in silent : Ignored(m)

Grows == Len(server) \in Nat /\ Len(server') \in Nat /\ Len(server) <= Len(server')

LEMMA ServerGrows ==
  ASSUME ChatInv, ChatInv', [ChatNext]_chatVars
  PROVE  Grows
<1>1. Len(server) \in Nat /\ Len(server') \in Nat
  <2>1. server \in Seq(Sent) /\ server' \in Seq(Sent)
    BY DEF ChatInv, TypeOK, Sent
  <2> QED
    BY <2>1, LenProperties
<1>2. CASE server' = server
  BY <1>1, <1>2 DEF Grows
<1>3. CASE SentStays
  BY <1>1, <1>3 DEF Grows, SentStays
<1>4. CASE Arrives
  BY <1>3, <1>4, DeliverIsSent DEF Arrives
<1>5. ASSUME NEW t \in Others, SendFails(t) \/ SendOk(t)
      PROVE  Grows
  <2>1. threads[t].text \in Texts
    BY <1>5 DEF SendFails, SendOk, At, ChatInv, Locals, Threads
  <2> QED
    BY <1>2, <1>3, <1>5, <2>1, DeliverIsSent DEF SendFails, SendOk
<1>6. ASSUME NEW t, \/ Polls(t) \/ Visits(t) \/ Backfills(t) \/ Sync(t) \/ Hands(t)
                    \/ ReadsFloor(t) \/ Appends(t)
      PROVE  Grows
  <2>1. server' = server
    BY <1>6
    DEF Polls, Visits, Backfills, Begins, Sync, ReadsKnown, ReadsPending, Writes, Hands,
        ReadsFloor, Appends
  <2> QED
    BY <1>2, <2>1
<1>7. CASE Tick \/ Restarts \/ UNCHANGED chatVars
  BY <1>2, <1>7 DEF Tick, Restarts, chatVars
<1> QED
  BY <1>4, <1>5, <1>6, <1>7 DEF ChatNext, Sends

\* What nobody needs to look at again: the worker goes on or lets go.
LEMMA OnWithIt ==
  ASSUME Grows, SilenceInv, Kinds,
         UNCHANGED <<log, silent>>,
         ai'.m = 0 \/ ai'.m = ai.m,
         Past' => Past /\ ai'.m = ai.m,
         \A i \in 1 .. Len(queue') : \/ \E j \in 1 .. Len(queue) : queue'[i] = queue[j]
                                     \/ queue'[i] \in 1 .. Len(server),
         \A m \in silent : /\ cfg'.enabled => m <= cfg'.since
                           /\ SwitchesOn' => m <= form'.since
  PROVE  SilenceInv'
<1>1. /\ Len(server) \in Nat /\ Len(server') \in Nat /\ Len(server) <= Len(server')
      /\ ai.m \in Nat /\ \A m \in Messages : m \in Nat
      /\ \A i \in 1 .. Len(queue) : queue[i] \in Messages
  BY SMTT(20), Bounds DEF Grows, Kinds, Work, Messages
<1>2. \A i \in 1 .. Len(queue') : queue'[i] <= Len(server')
  <2>1. TAKE i \in 1 .. Len(queue')
  <2>2. CASE \E j \in 1 .. Len(queue) : queue'[i] = queue[j]
    BY <1>1, <2>2 DEF SilenceInv, InSight
  <2>3. CASE queue'[i] \in 1 .. Len(server)
    BY <1>1, <2>3
  <2> QED
    BY <2>2, <2>3
<1>3. ai'.m <= Len(server')
  BY <1>1 DEF SilenceInv, InSight
<1>4. \A m \in Messages : log'[m] # "none" => m <= Len(server')
  BY <1>1 DEF SilenceInv, InSight
<1>5. ASSUME NEW m \in silent
      PROVE  Ignored(m)'
  <2>1. Ignored(m) /\ m \in Messages
    BY DEF SilenceInv, Kinds
  <2>2. m <= Len(server') /\ log'[m] = "none"
    BY <1>1, <2>1 DEF Ignored
  <2>3. ~(Past /\ ai.m = m)
    BY <2>1 DEF Ignored
  <2>4. ~(Past' /\ ai'.m = m)
    BY <2>3
  <2> QED
    BY <2>2, <2>4 DEF Ignored
<1> QED
  BY <1>2, <1>3, <1>4, <1>5 DEF SilenceInv, InSight

\* The same when the row and the form stay as they are.
LEMMA OnlyTheWorker ==
  ASSUME Grows, SilenceInv, Kinds, UNCHANGED <<log, silent, queue, cfg, form>>,
         ai'.m = 0 \/ ai'.m = ai.m,
         Past' => Past /\ ai'.m = ai.m
  PROVE  SilenceInv'
<1>1. \A m \in silent : /\ cfg'.enabled => m <= cfg'.since
                        /\ SwitchesOn' => m <= form'.since
  BY DEF SilenceInv, Ignored, SwitchesOn
<1> QED
  BY <1>1, OnWithIt

LEMMA SilenceInit == AiInit => SilenceInv
<1> SUFFICES ASSUME AiInit PROVE SilenceInv
  OBVIOUS
<1>1. server = <<>> /\ queue = <<>> /\ ai.m = 0 /\ silent = {}
      /\ log = [m \in Messages |-> "none"]
  BY FixedKinds DEF AiInit, Init
<1>2. Len(server) = 0 /\ Len(queue) = 0
  BY <1>1
<1> QED
  BY <1>1, <1>2 DEF SilenceInv, InSight

\* The silent message is the newest one: nobody has it in hand yet.
LEMMA SilenceArrives ==
  ASSUME ChatInv, ChatInv', Grows, SilenceInv, Kinds, ArrivesHere
  PROVE  SilenceInv'
<1>1. /\ UNCHANGED <<cfg, form, queue, ai, log>>
      /\ silent' = IF cfg.enabled \/ SwitchesOn THEN silent
                   ELSE silent \cup {Len(server')}
  BY DEF ArrivesHere
<1>2. /\ Len(server) \in Nat /\ Len(server') = Len(server) + 1
      /\ Len(server') <= MaxMessages /\ Len(server') \in Messages
  <2>1. Len(server) \in Nat /\ Len(server') = Len(server) + 1
    BY InvFacts, ServerFacts, AppendProperties DEF ArrivesHere, Arrives, Deliver
  <2>2. Len(server') <= MaxMessages
    BY DEF ChatInv, TypeOK
  <2> QED
    BY <2>1, <2>2, Bounds DEF Messages
<1>3. /\ ai.m \in Nat /\ \A m \in Messages : m \in Nat
      /\ \A i \in 1 .. Len(queue) : queue[i] \in Messages
  BY Bounds DEF Kinds, Work, Messages
<1>4. InSight'
  BY <1>1, <1>2, <1>3 DEF SilenceInv, InSight
<1>5. ASSUME NEW m \in silent
      PROVE  Ignored(m)'
  <2>1. m \in Messages /\ Ignored(m)
    BY DEF SilenceInv, Kinds
  <2>2. m <= Len(server')
    BY <1>2, <1>3, <2>1 DEF Ignored
  <2> QED
    BY <1>1, <2>1, <2>2 DEF Ignored, Past, SwitchesOn
<1>6. CASE ~(cfg.enabled \/ SwitchesOn)
  <2>1. log[Len(server')] = "none" /\ ai.m # Len(server')
    BY <1>2, <1>3 DEF SilenceInv, InSight
  <2>2. Ignored(Len(server))'
    BY <1>1, <1>2, <1>6, <2>1 DEF Ignored, SwitchesOn
  <2> QED
    BY <1>1, <1>4, <1>5, <1>6, <2>2 DEF SilenceInv
<1>7. CASE cfg.enabled \/ SwitchesOn
  BY <1>1, <1>4, <1>5, <1>7 DEF SilenceInv
<1> QED
  BY <1>6, <1>7

\* What the request has read of the clock covers what is silent by then.
LEMMA SilenceSaves ==
  ASSUME Grows, SilenceInv, Kinds, (\E want \in BOOLEAN : SaveReads(want)) \/ SaveCommits
  PROVE  SilenceInv'
<1>1. \A m \in silent : /\ cfg'.enabled => m <= cfg'.since
                        /\ SwitchesOn' => m <= form'.since
  <2>1. TAKE m \in silent
  <2>2. Ignored(m)
    BY DEF SilenceInv
  <2>3. CASE \E want \in BOOLEAN : SaveReads(want)
    <3>1. cfg' = cfg /\ form'.since = Len(server)
      BY <2>3 DEF SaveReads
    <3> QED
      BY <2>2, <3>1 DEF Ignored
  <2>4. CASE SaveCommits
    <3>1. form'.want = FALSE
      BY <2>4, FixedKinds DEF SaveCommits
    <3>2. /\ cfg'.enabled = IF form.want # form.enabled THEN form.want ELSE cfg.enabled
          /\ cfg'.since = IF SwitchesOn THEN form.since ELSE cfg.since
      BY <2>4 DEF SaveCommits
    <3>3. form.want \in BOOLEAN /\ form.enabled \in BOOLEAN
      BY DEF Kinds, Request
    <3>4. CASE SwitchesOn
      BY <2>2, <3>1, <3>2, <3>4, Zenon DEF Ignored, SwitchesOn
    <3>5. CASE ~SwitchesOn
      <4>1. cfg'.enabled => cfg.enabled
        BY <3>2, <3>3, <3>5, Zenon DEF SwitchesOn
      <4>2. cfg'.since = cfg.since
        BY <3>2, <3>5, Zenon
      <4> QED
        BY <2>2, <3>1, <4>1, <4>2, Zenon DEF Ignored, SwitchesOn
    <3> QED
      BY <3>4, <3>5
  <2> QED
    BY <2>3, <2>4
<1>2. UNCHANGED <<log, silent, queue, ai>>
  BY DEF SaveReads, SaveCommits, ghosts
<1> QED
  BY <1>1, <1>2, OnWithIt DEF Past

\* What comes out of the queue has been in it.
LEMMA SilenceTakes ==
  ASSUME Grows, SilenceInv, Kinds, TakesMessage
  PROVE  SilenceInv'
<1>1. /\ UNCHANGED <<server, cfg, form, log, silent>>
      /\ queue # <<>> /\ queue' = Tail(queue)
  BY DEF TakesMessage, chatVars, ghosts
<1>2. queue \in Seq(Messages)
  BY DEF Kinds
<1>3. /\ 1 \in 1 .. Len(queue) /\ Head(queue) = queue[1]
      /\ Len(queue') = Len(queue) - 1 /\ Len(queue) \in Nat
      /\ \A i \in 1 .. Len(queue') : queue'[i] = queue[i + 1]
  BY <1>1, <1>2, HeadTailProperties
<1>4. \A i \in 1 .. Len(queue') : queue'[i] <= Len(server)
  BY <1>3 DEF SilenceInv, InSight
<1>5. CASE UNCHANGED ai
  BY <1>1, <1>4, <1>5 DEF SilenceInv, InSight, Ignored, Past, SwitchesOn
<1>6. CASE ai' = [Free EXCEPT !.pc = "check", !.m = Head(queue)]
  <2>1. ai'.pc = "check" /\ ai'.m = queue[1]
    BY <1>3, <1>6, FixedKinds DEF Free
  <2> QED
    BY <1>1, <1>3, <1>4, <2>1 DEF SilenceInv, InSight, Ignored, Past, SwitchesOn
<1> QED
  BY <1>5, <1>6 DEF TakesMessage

\* Whoever gets past the check has arrived after "since".
LEMMA SilenceChecks ==
  ASSUME Grows, SilenceInv, Kinds, Checks
  PROVE  SilenceInv'
<1>1. UNCHANGED <<server, cfg, form, queue, log, silent>> /\ ai.pc = "check"
  BY DEF Checks, chatVars, ghosts
<1>2. CASE ai' = Free
  BY <1>1, <1>2, FixedKinds, OnlyTheWorker DEF Past
<1>3. CASE cfg.enabled /\ ai.m > cfg.since /\ ai' = [ai EXCEPT !.pc = "claim"]
  <2>1. ai'.m = ai.m /\ ai.m \in Nat /\ cfg.since \in Nat
    BY <1>3, Bounds DEF Kinds, Work, ConfigRow
  <2>2. ASSUME NEW m \in silent
        PROVE  ai.m # m
    BY <1>3, <2>1 DEF SilenceInv, Ignored
  <2> QED
    BY <1>1, <2>1, <2>2 DEF SilenceInv, InSight, Ignored, SwitchesOn
<1> QED
  BY <1>2, <1>3 DEF Checks

\* Only the message in hand gets a row, and it is past the check by then.
LEMMA SilenceLogs ==
  ASSUME Grows, SilenceInv, Kinds, UNCHANGED <<server, cfg, form, queue, silent>>,
         Past, ai'.m = 0 \/ ai'.m = ai.m, Past' => ai'.m = ai.m,
         NEW entry, log' = [log EXCEPT ![ai.m] = entry]
  PROVE  SilenceInv'
<1>1. \A m \in Messages : m # ai.m => log'[m] = log[m]
  BY DEF Kinds
<1>2. \A m \in silent : m \in Messages /\ m # ai.m
  BY DEF SilenceInv, Ignored, Kinds
<1>3. InSight'
  BY <1>1 DEF SilenceInv, InSight, Grows
<1> QED
  BY <1>1, <1>2, <1>3 DEF SilenceInv, Ignored, SwitchesOn

LEMMA SilenceStep ==
  ASSUME ChatInv, ChatInv', Kinds, SilenceInv, [AiNext]_allVars
  PROVE  SilenceInv'
<1> USE FixedKinds
<1>1. Grows
  BY AiStepIsChatStep, ServerGrows
<1>2. ai \in Work
  BY DEF Kinds
<1>3. CASE ArrivesHere
  BY <1>1, <1>3, SilenceArrives
<1>4. CASE RestartsAll
  <2>1. \A m \in silent : /\ cfg'.enabled => m <= cfg'.since
                          /\ SwitchesOn' => m <= form'.since
    BY <1>4 DEF RestartsAll, SilenceInv, Ignored, SwitchesOn
  <2>2. UNCHANGED <<log, silent>> /\ ai'.m = 0 /\ ~Past' /\ Len(queue') = 0
    BY <1>4 DEF RestartsAll, ghosts, Past
  <2> QED
    BY <1>1, <2>1, <2>2, OnWithIt
<1>5. CASE \E p \in Pollers : Feeds(p)
  <2>1. UNCHANGED <<cfg, form, ai, log, silent>>
    BY <1>5 DEF Feeds, ghosts
  <2>2. \A i \in 1 .. Len(queue') : \/ \E j \in 1 .. Len(queue) : queue'[i] = queue[j]
                                    \/ queue'[i] \in 1 .. Len(server)
    BY <1>5, QueueAfter
  <2>3. \A m \in silent : /\ cfg'.enabled => m <= cfg'.since
                          /\ SwitchesOn' => m <= form'.since
    BY <2>1 DEF SilenceInv, Ignored, SwitchesOn
  <2> QED
    BY <1>1, <2>1, <2>2, <2>3, OnWithIt DEF Past
<1>6. CASE (\E want \in BOOLEAN : SaveReads(want)) \/ SaveCommits
  BY <1>1, <1>6, SilenceSaves
<1>7. CASE TakesMessage
  BY <1>1, <1>7, SilenceTakes
<1>8. CASE Checks
  BY <1>1, <1>8, SilenceChecks
<1>9. CASE ClaimsMessage
  <2>1. UNCHANGED <<server, cfg, form, queue, silent>> /\ Past
    BY <1>9 DEF ClaimsMessage, chatVars, ghosts, Past
  <2>2. CASE log[ai.m] = "none"
    <3>1. log' = [log EXCEPT ![ai.m] = "pending"] /\ ai'.m = ai.m
      BY <1>2, <1>9, <2>2 DEF ClaimsMessage, Work
    <3> QED
      BY <1>1, <2>1, <3>1, SilenceLogs
  <2>3. CASE log[ai.m] # "none"
    <3>1. UNCHANGED log /\ ai' = Free
      BY <1>9, <2>3 DEF ClaimsMessage
    <3> QED
      BY <1>1, <2>1, <3>1, OnlyTheWorker DEF Past
  <2> QED
    BY <2>2, <2>3
<1>10. CASE \/ Skips \/ HandleRaises \/ NotSent
            \/ AiSendFails \/ AiSendOk \/ \E text \in Texts : SendsToUid(text)
  <2>1. UNCHANGED <<cfg, form, queue, log, silent>>
    BY <1>10
    DEF Skips, HandleRaises, NotSent, AiSendFails, AiSendOk, SendsToUid, ghosts
  <2>2. /\ ai'.m = 0 \/ ai'.m = ai.m
        /\ Past' => Past /\ ai'.m = ai.m
    BY <1>2, <1>10
    DEF Skips, HandleRaises, NotSent, AiSendFails, AiSendOk, SendsToUid, Past, Work
  <2> QED
    BY <1>1, <2>1, <2>2, OnlyTheWorker
<1>11. CASE ModelFails
  BY <1>1, <1>2, <1>11, OnlyTheWorker DEF ModelFails, Past, Work
<1>12. CASE BumpsFailure \/ ModelAnswers
  <2>1. UNCHANGED <<form, queue, log, silent>> /\ ai'.m = ai.m /\ Past
    BY <1>2, <1>12 DEF BumpsFailure, ModelAnswers, ghosts, Past, Work
  <2>2. cfg'.since = cfg.since /\ (cfg'.enabled => cfg.enabled)
    <3>1. cfg \in ConfigRow
      BY DEF Kinds
    <3> QED
      BY <1>12, <3>1, Zenon DEF BumpsFailure, ModelAnswers, ConfigRow
  <2>3. \A m \in silent : /\ cfg'.enabled => m <= cfg'.since
                          /\ SwitchesOn' => m <= form'.since
    BY <2>1, <2>2 DEF SilenceInv, Ignored, SwitchesOn
  <2> QED
    BY <1>1, <2>1, <2>3, OnWithIt
<1>13. CASE Finishes
  BY <1>1, <1>2, <1>13, SilenceLogs DEF Finishes, chatVars, ghosts, Past
<1>14. CASE UNCHANGED aiVars
  BY <1>1, <1>14, OnlyTheWorker DEF aiVars, Past
<1> QED
  BY <1>3, <1>4, <1>5, <1>6, <1>7, <1>8, <1>9, <1>10, <1>11, <1>12, <1>13, <1>14
  DEF AiNext, allVars

(***************************************************************************)
(* A message that arrived while the answers were off is left alone for     *)
(* good, whatever happens to the row of the configuration meanwhile.  The  *)
(* argument is Ignored: "since" is past it, or will be when the request    *)
(* that switches on commits, and whoever is past the check has arrived     *)
(* after "since" and is no silent message.                                 *)
(***************************************************************************)
THEOREM SilenceStays == AiSpec => []SilenceIsKept
<1>1. ChatInv /\ ChatInv' /\ Kinds /\ SilenceInv /\ [AiNext]_<<chatVars, aiVars>>
        => SilenceInv'
  BY SilenceStep DEF allVars
<1>2. ChatInv /\ ChatInv' /\ Kinds /\ [AiNext]_<<chatVars, aiVars>> => Kinds'
  BY KindsStep DEF allVars
<1>3. SilenceInv => SilenceIsKept
  BY DEF SilenceInv, Ignored, SilenceIsKept
<1> QED
  BY ChatUnderWorker, KindsInit, SilenceInit, <1>1, <1>2, <1>3, PTL DEF AiSpec

-----------------------------------------------------------------------------
(* Each message is taken up once. *)

\* A message of the peer that a poll has handed on.
HandedOn(m) == m \in 1 .. Len(server) /\ ~server[m].me /\ handed[m] = 1

\* What is logged, queued or in hand was handed on; no message is in two of
\* these places but the one that the worker has claimed.
OnceInv ==
  /\ \A m \in Messages : log[m] # "none" => HandedOn(m)
  /\ \A i \in 1 .. Len(queue) : HandedOn(queue[i]) /\ log[queue[i]] = "none"
  /\ \A i, j \in 1 .. Len(queue) : i # j => queue[i] # queue[j]
  /\ ai.pc # "idle" => /\ ai.m \in Messages /\ HandedOn(ai.m)
                       /\ \A i \in 1 .. Len(queue) : queue[i] # ai.m
  /\ ai.pc \in {"check", "claim"} => log[ai.m] = "none"

OnlyHandedOnIsLogged == \A m \in Messages : log[m] # "none" => HandedOn(m)
ClaimsFindNoRow == [][ClaimsMessage => log[ai.m] = "none"]_allVars

LEMMA OnceInit == AiInit => OnceInv
<1> SUFFICES ASSUME AiInit PROVE OnceInv
  OBVIOUS
<1>1. queue = <<>> /\ ai.pc = "idle" /\ log = [m \in Messages |-> "none"]
  BY FixedKinds DEF AiInit
<1>2. Len(queue) = 0
  BY <1>1
<1> QED
  BY <1>1, <1>2 DEF OnceInv

\* Whatever happens, what was handed on was handed on.
LEMMA HandedOnStays ==
  ASSUME ChatInv, ChatInv', [AiNext]_allVars, NEW m, HandedOn(m)
  PROVE  HandedOn(m)'
<1>1. [ChatNext]_chatVars
  BY AiStepIsChatStep
<1>2. m \in 1 .. Len(server') /\ server'[m] = server[m]
  <2>1. Len(server) \in Nat /\ Len(server') \in Nat /\ Len(server) <= Len(server')
    BY <1>1, ServerGrows DEF Grows
  <2>2. m \in 1 .. Len(server)
    BY DEF HandedOn
  <2> QED
    BY <1>1, <2>1, <2>2, SameMessage
<1>3. /\ m \in DOMAIN handed /\ DOMAIN handed' = DOMAIN handed
      /\ handed[m] = 1 /\ handed'[m] \in {0, 1}
  <2>1. /\ DOMAIN handed = 1 .. MaxMessages /\ DOMAIN handed' = 1 .. MaxMessages
        /\ Len(server) \in Nat /\ Len(server) <= MaxMessages
    BY InvFacts, ServerFacts DEF ChatInv, TypeOK
  <2>2. m \in 1 .. Len(server) /\ handed[m] = 1
    BY DEF HandedOn
  <2>3. m \in 1 .. MaxMessages
    BY <2>1, <2>2, Bounds
  <2> QED
    BY <2>1, <2>2, <2>3 DEF ChatInv, HandedIsStored
<1>4. CASE UNCHANGED handed
  BY <1>2, <1>4 DEF HandedOn
<1>5. CASE \E p \in Pollers : Hands(p)
  <2>1. handed'[m] \in {1, 2}
    BY <1>3, <1>5 DEF Hands
  <2>2. handed'[m] = 1
    BY <1>3, <2>1
  <2> QED
    BY <1>2, <2>2 DEF HandedOn
<1>6. CASE Besides
  BY <1>4, <1>6, BesidesHands
<1>7. CASE \E t \in Threads : Writes(t)
  <2>1. UNCHANGED handed
    BY <1>7 DEF Writes
  <2> QED
    BY <1>4, <2>1
<1> QED
  BY <1>1, <1>5, <1>6, <1>7 DEF ChatNext, Besides, Sync

\* A step that neither logs nor queues, and takes nothing up.
LEMMA NothingTaken ==
  ASSUME OnceInv, UNCHANGED <<queue, log>>,
         \A m : HandedOn(m) => HandedOn(m)',
         \/ ai'.pc = "idle"
         \/ /\ ai.pc # "idle" /\ ai'.m = ai.m
            /\ ai'.pc \in {"check", "claim"} => ai.pc \in {"check", "claim"}
  PROVE  OnceInv'
BY DEF OnceInv

\* What a poll hands on is new: not queued, not in hand and not logged.
LEMMA OnceFeeds ==
  ASSUME ChatInv, ChatInv', Kinds, OnceInv, NEW p \in Pollers, Feeds(p),
         \A m : HandedOn(m) => HandedOn(m)'
  PROVE  OnceInv'
<1>1. PICK new \in Seq(Messages), c \in Nat :
        /\ c <= Len(new)
        /\ \A l \in 1 .. Len(new) : new[l] \in Candidates(p)
        /\ \A k, l \in 1 .. Len(new) : k < l => new[k] < new[l]
        /\ Len(queue') = Len(queue) + c
        /\ \A i \in 1 .. Len(queue) + c :
             queue'[i] = IF i <= Len(queue) THEN queue[i] ELSE new[i - Len(queue)]
  BY QueueGets
<1>2. /\ Len(queue) \in Nat /\ Len(new) \in Nat
      /\ \A l \in 1 .. Len(new) : new[l] \in Messages /\ new[l] \in Nat
  <2>1. \A l \in 1 .. Len(new) : new[l] \in Messages
    BY <1>1, ElementOfSeq
  <2> QED
    BY <2>1, Bounds, LenProperties DEF Messages, Kinds
<1>3. UNCHANGED <<log, ai, server>> /\ At(p, "hand") /\ p \in Threads
  BY DEF Feeds, Hands, Threads
<1>4. ASSUME NEW m \in Candidates(p)
      PROVE  ~HandedOn(m) /\ HandedOn(m)'
  <2>1. m \in Fresh(p) /\ ~server[m].me
    BY DEF Candidates
  <2>2. m \in 1 .. Len(server) /\ m \in 1 .. MaxMessages
    <3>1. m \in 1 .. Len(server) /\ Len(server) \in Nat /\ Len(server) <= MaxMessages
      BY <1>3, <2>1, FreshFacts, InvFacts, ServerFacts
    <3> QED
      BY <3>1, Bounds
  <2>3. m \in Peers(threads[p])
    BY <2>1 DEF Peers, Fresh
  <2>4. handed[m] = 0
    BY <1>3, <2>3 DEF ChatInv, InHands
  <2>5. handed'[m] = 1
    <3>1. m \in DOMAIN handed
      BY <2>2 DEF ChatInv, TypeOK
    <3> QED
      BY <2>1, <2>4, <3>1 DEF Feeds, Hands
  <2> QED
    BY <1>3, <2>1, <2>2, <2>4, <2>5 DEF HandedOn
<1>5. ASSUME NEW i \in 1 .. Len(queue')
      PROVE  \/ i \in 1 .. Len(queue) /\ queue'[i] = queue[i]
             \/ /\ i - Len(queue) \in 1 .. Len(new) /\ ~(i <= Len(queue))
                /\ queue'[i] = new[i - Len(queue)]
  BY <1>1, <1>2
<1>6. ASSUME NEW i \in 1 .. Len(queue')
      PROVE  (\E m : m = queue'[i] /\ HandedOn(m)') /\ log[queue'[i]] = "none"
  <2>1. CASE i \in 1 .. Len(queue) /\ queue'[i] = queue[i]
    <3>1. HandedOn(queue[i]) /\ log[queue[i]] = "none"
      BY <2>1 DEF OnceInv
    <3> QED
      BY <2>1, <3>1
  <2>2. CASE i - Len(queue) \in 1 .. Len(new) /\ queue'[i] = new[i - Len(queue)]
    <3>1. PICK m : m = queue'[i]
      OBVIOUS
    <3>2. m \in Candidates(p) /\ m \in Messages
      BY <1>1, <1>2, <2>2, <3>1
    <3>3. ~HandedOn(m) /\ HandedOn(m)'
      BY <1>4, <3>2
    <3> QED
      BY <3>1, <3>2, <3>3 DEF OnceInv
  <2> QED
    BY <1>5, <2>1, <2>2
<1>7. ASSUME NEW i \in 1 .. Len(queue'), NEW j \in 1 .. Len(queue'), i < j
      PROVE  queue'[i] # queue'[j]
  <2>1. i \in Nat /\ j \in Nat
    OBVIOUS
  <2>2. CASE j \in 1 .. Len(queue) /\ queue'[j] = queue[j]
    <3>1. i \in 1 .. Len(queue)
      BY <1>2, <1>7, <2>1, <2>2
    <3>2. queue'[i] = queue[i]
      BY <1>2, <1>5, <3>1
    <3> QED
      BY <1>7, <2>1, <2>2, <3>1, <3>2 DEF OnceInv
  <2>3. CASE j - Len(queue) \in 1 .. Len(new) /\ queue'[j] = new[j - Len(queue)]
    <3>1. CASE i \in 1 .. Len(queue) /\ queue'[i] = queue[i]
      <4>1. HandedOn(queue'[i])
        BY <3>1 DEF OnceInv
      <4>2. queue'[j] \in Candidates(p)
        BY <1>1, <2>3
      <4> QED
        BY <1>4, <4>1, <4>2
    <3>2. CASE /\ i - Len(queue) \in 1 .. Len(new) /\ ~(i <= Len(queue))
               /\ queue'[i] = new[i - Len(queue)]
      <4>1. i - Len(queue) < j - Len(queue)
        BY <1>2, <1>7, <2>1
      <4>2. new[i - Len(queue)] < new[j - Len(queue)]
        BY <1>1, <2>3, <3>2, <4>1
      <4>3. new[i - Len(queue)] \in Nat /\ new[j - Len(queue)] \in Nat
        BY <1>2, <2>3, <3>2
      <4>4. \A x, y \in Nat : x < y => x # y
        OBVIOUS
      <4> QED
        BY <2>3, <3>2, <4>2, <4>3, <4>4
    <3> QED
      BY <1>5, <3>1, <3>2
  <2> QED
    BY <1>5, <2>2, <2>3
<1>8. \A i, j \in 1 .. Len(queue') : i # j => queue'[i] # queue'[j]
  <2>1. \A i, j \in 1 .. Len(queue') : i # j => i < j \/ j < i
    OBVIOUS
  <2> QED
    BY <1>7, <2>1
<1>9. ASSUME ai.pc # "idle", NEW i \in 1 .. Len(queue')
      PROVE  queue'[i] # ai.m
  <2>1. CASE i \in 1 .. Len(queue) /\ queue'[i] = queue[i]
    BY <1>9, <2>1 DEF OnceInv
  <2>2. CASE i - Len(queue) \in 1 .. Len(new) /\ queue'[i] = new[i - Len(queue)]
    <3>1. queue'[i] \in Candidates(p)
      BY <1>1, <2>2
    <3> QED
      BY <1>4, <1>9, <3>1 DEF OnceInv
  <2> QED
    BY <1>5, <2>1, <2>2
<1> QED
  <2>1. \A m \in Messages : log'[m] # "none" => HandedOn(m)'
    BY <1>3 DEF OnceInv
  <2>2. \A i \in 1 .. Len(queue') : HandedOn(queue[i])' /\ log'[queue'[i]] = "none"
    BY <1>3, <1>6 DEF HandedOn
  <2>3. ai'.pc # "idle" => ai'.m \in Messages /\ HandedOn(ai.m)'
    BY <1>3 DEF OnceInv, HandedOn
  <2> QED
    BY <1>3, <1>8, <1>9, <2>1, <2>2, <2>3 DEF OnceInv

LEMMA OnceTakes ==
  ASSUME Kinds, OnceInv, TakesMessage, \A m : HandedOn(m) => HandedOn(m)'
  PROVE  OnceInv'
<1>1. /\ UNCHANGED log /\ ai.pc = "idle"
      /\ queue # <<>> /\ queue' = Tail(queue) /\ queue \in Seq(Messages)
  BY DEF TakesMessage, Kinds
<1>2. /\ Len(queue) \in Nat /\ 1 \in 1 .. Len(queue) /\ Head(queue) = queue[1]
      /\ Len(queue') = Len(queue) - 1 /\ queue[1] \in Messages
      /\ \A i \in 1 .. Len(queue') : queue'[i] = queue[i + 1]
  BY <1>1, HeadTailProperties
<1>3. \A i \in 1 .. Len(queue') : i + 1 \in 1 .. Len(queue) /\ i + 1 # 1
  BY <1>2
<1>4. /\ \A i \in 1 .. Len(queue') : HandedOn(queue[i])' /\ log[queue'[i]] = "none"
      /\ \A i \in 1 .. Len(queue') : queue'[i] # queue[1]
  <2>1. ASSUME NEW i \in 1 .. Len(queue')
        PROVE  HandedOn(queue[i])' /\ log[queue'[i]] = "none" /\ queue'[i] # queue[1]
    <3>1. PICK m : m = queue'[i]
      OBVIOUS
    <3>2. HandedOn(m) /\ log[m] = "none" /\ m # queue[1]
      BY <1>2, <1>3, <3>1 DEF OnceInv
    <3>3. HandedOn(m)'
      BY <3>2
    <3> QED
      BY <3>1, <3>2, <3>3 DEF HandedOn
  <2> QED
    BY <2>1
<1>5. ASSUME NEW i \in 1 .. Len(queue'), NEW j \in 1 .. Len(queue'), i # j
      PROVE  queue'[i] # queue'[j]
  <2>1. i + 1 # j + 1
    BY <1>5
  <2> QED
    BY <1>2, <1>3, <2>1 DEF OnceInv
<1>6. CASE UNCHANGED ai
  BY <1>1, <1>4, <1>5, <1>6 DEF OnceInv
<1>7. CASE ai' = [Free EXCEPT !.pc = "check", !.m = Head(queue)]
  <2>1. ai'.pc = "check" /\ ai'.m = queue[1]
    BY <1>2, <1>7 DEF Free
  <2>2. HandedOn(ai.m)' /\ log[queue[1]] = "none"
    <3>1. PICK m : m = queue[1]
      OBVIOUS
    <3>2. HandedOn(m) /\ HandedOn(m)' /\ log[m] = "none"
      BY <1>2, <3>1 DEF OnceInv
    <3> QED
      BY <2>1, <3>1, <3>2 DEF HandedOn
  <2> QED
    BY <1>1, <1>2, <1>4, <1>5, <2>1, <2>2 DEF OnceInv
<1> QED
  BY <1>6, <1>7 DEF TakesMessage

\* The worker writes the row of the message in hand.
LEMMA OnceLogs ==
  ASSUME Kinds, OnceInv, \A m : HandedOn(m) => HandedOn(m)', UNCHANGED queue,
         NEW entry, log' = [log EXCEPT ![ai.m] = entry], ai.pc # "idle",
         \/ ai'.pc = "idle"
         \/ ai'.m = ai.m /\ ai'.pc \notin {"check", "claim"}
  PROVE  OnceInv'
<1>1. log \in [Messages -> Statuses] /\ \A i \in 1 .. Len(queue) : queue[i] # ai.m
  BY DEF Kinds, OnceInv
<1>2. \A m : m # ai.m => log'[m] = log[m]
  BY <1>1
<1> QED
  BY <1>1, <1>2 DEF OnceInv

LEMMA OnceStep ==
  ASSUME ChatInv, ChatInv', Kinds, OnceInv, [AiNext]_allVars
  PROVE  OnceInv'
<1>1. \A m : HandedOn(m) => HandedOn(m)'
  BY HandedOnStays
<1>2. ai \in Work
  BY DEF Kinds
<1>3. Free.pc = "idle"
  BY FixedKinds
<1>4. CASE \E p \in Pollers : Feeds(p)
  BY <1>1, <1>4, OnceFeeds
<1>5. CASE TakesMessage
  BY <1>1, <1>5, OnceTakes
<1>6. CASE RestartsAll
  <2>1. Len(queue') = 0 /\ ai'.pc = "idle" /\ UNCHANGED log
    BY <1>3, <1>6 DEF RestartsAll
  <2> QED
    BY <1>1, <2>1 DEF OnceInv
<1>7. CASE UNCHANGED <<ai, queue, log>>
  BY <1>1, <1>7, NothingTaken
<1>8. CASE ArrivesHere \/ (\E want \in BOOLEAN : SaveReads(want)) \/ SaveCommits \/ UNCHANGED aiVars
  <2>1. UNCHANGED <<ai, queue, log>>
    BY <1>8 DEF ArrivesHere, SaveReads, SaveCommits, aiVars
  <2> QED
    BY <1>7, <2>1
<1>9. CASE Checks
  <2>1. UNCHANGED <<queue, log>> /\ ai.pc = "check"
    BY <1>9 DEF Checks
  <2>2. ai' = Free \/ ai' = [ai EXCEPT !.pc = "claim"]
    BY <1>9 DEF Checks
  <2>3. ai'.pc = "idle" \/ ai'.m = ai.m
    BY <1>2, <1>3, <2>2 DEF Work
  <2> QED
    BY <1>1, <2>1, <2>3, NothingTaken
<1>10. CASE ClaimsMessage
  <2>1. UNCHANGED queue /\ ai.pc = "claim"
    BY <1>10 DEF ClaimsMessage
  <2>2. log[ai.m] = "none"
    BY <2>1 DEF OnceInv
  <2>3. log' = [log EXCEPT ![ai.m] = "pending"] /\ ai' = [ai EXCEPT !.pc = "model"]
    BY <1>10, <2>2 DEF ClaimsMessage
  <2>4. ai'.m = ai.m /\ ai'.pc = "model"
    BY <1>2, <2>3 DEF Work
  <2> QED
    BY <1>1, <2>1, <2>3, <2>4, OnceLogs
<1>11. CASE Finishes
  <2>1. /\ UNCHANGED queue /\ log' = [log EXCEPT ![ai.m] = ai.result]
        /\ ai.pc # "idle" /\ ai'.pc = "idle"
    BY <1>3, <1>11 DEF Finishes
  <2> QED
    BY <1>1, <2>1, OnceLogs
<1>12. CASE \/ Skips \/ HandleRaises \/ ModelFails \/ BumpsFailure \/ ModelAnswers
            \/ NotSent \/ \E text \in Texts : SendsToUid(text)
  <2>1. UNCHANGED <<queue, log>> /\ ai.pc # "idle"
    BY <1>12
    DEF Skips, HandleRaises, ModelFails, BumpsFailure, ModelAnswers, NotSent, SendsToUid
  <2>2. ai'.pc = "idle" \/ (ai'.m = ai.m /\ ai'.pc \notin {"check", "claim"})
    BY <1>2, <1>3, <1>12
    DEF Skips, HandleRaises, ModelFails, BumpsFailure, ModelAnswers, NotSent,
        SendsToUid, Work
  <2> QED
    BY <1>1, <2>1, <2>2, NothingTaken
<1>13. CASE AiSendFails \/ AiSendOk
  <2>1. UNCHANGED <<queue, log>>
    BY <1>13 DEF AiSendFails, AiSendOk
  <2>2. ai'.pc = ai.pc /\ ai'.m = ai.m
    BY <1>2, <1>13 DEF AiSendFails, AiSendOk, Work
  <2> QED
    BY <1>1, <2>1, <2>2, NothingTaken
<1> QED
  BY <1>4, <1>5, <1>6, <1>8, <1>9, <1>10, <1>11, <1>12, <1>13 DEF AiNext, allVars

THEOREM OnceInvariant == AiSpec => []OnceInv
<1>1. ChatInv /\ ChatInv' /\ Kinds /\ OnceInv /\ [AiNext]_<<chatVars, aiVars>>
        => OnceInv'
  BY OnceStep DEF allVars
<1>2. ChatInv /\ ChatInv' /\ Kinds /\ [AiNext]_<<chatVars, aiVars>> => Kinds'
  BY KindsStep DEF allVars
<1> QED
  BY ChatUnderWorker, KindsInit, OnceInit, <1>1, <1>2, PTL DEF AiSpec

(***************************************************************************)
(* The AI takes up what a poll has handed on and nothing else: no message  *)
(* of the user's own, and none that only a send or a visit has stored.     *)
(***************************************************************************)
THEOREM OnlyHandedOnIsAnswered == AiSpec => []OnlyHandedOnIsLogged
<1>1. OnceInv => OnlyHandedOnIsLogged
  BY DEF OnceInv, OnlyHandedOnIsLogged
<1> QED
  BY OnceInvariant, <1>1, PTL

(***************************************************************************)
(* The claim never finds a row: _claim, the unique row of ai_reply_logs,   *)
(* guards against what the store and the queue already exclude while they  *)
(* are as they are, for any number of poll threads and restarts, messages  *)
(* that the full queue dropped included.                                   *)
(***************************************************************************)
THEOREM ClaimsNeverCollide == AiSpec => ClaimsFindNoRow
<1>1. OnceInv /\ [AiNext]_<<chatVars, aiVars>> =>
        [ClaimsMessage => log[ai.m] = "none"]_allVars
  BY DEF OnceInv, ClaimsMessage
<1> QED
  BY OnceInvariant, <1>1, PTL DEF AiSpec, ClaimsFindNoRow
=============================================================================
