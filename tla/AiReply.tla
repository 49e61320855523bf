------------------------------ MODULE AiReply ------------------------------
(***************************************************************************)
(* app/ai_worker.py for one account, on top of ChatStore: what a poll      *)
(* thread hands on is queued, and the one worker thread takes it, claims   *)
(* it in ai_reply_logs, asks the model, and sends the answer like anybody  *)
(* who sends: it looks at Douyin first, and so stores what has arrived     *)
(* meanwhile.  The user switches the answers on and off in a form; the     *)
(* worker switches them off after failures in a row.                       *)
(*                                                                         *)
(* Both change the row of ai_reply_configs by reading it and writing, in   *)
(* a later step, the columns that then differ from what was read.          *)
(*                                                                         *)
(* Time is what has arrived: "since" is enabled_at as a number of          *)
(* messages.  Clocks are assumed to agree with Douyin's.                   *)
(***************************************************************************)
EXTENDS ChatStore

CONSTANTS
  Worker,     \* the thread of _loop
  QueueMax,   \* QUEUE_MAX
  MaxStreak   \* MAX_FAIL_STREAK

ASSUME WorkerAssumption == Worker \in Others
ASSUME LimitsAssumption == QueueMax \in Nat /\ MaxStreak \in Nat \ {0}

VARIABLES
  cfg,       \* the committed row of ai_reply_configs
  form,      \* the request that saves it: what was read, what is wanted
  queue,     \* _Q: messages
  ai,        \* the worker: the message in hand, what it read, how it ended
  log,       \* ai_reply_logs.status by message, "none" without a row
  answered,  \* ghost: answers Douyin has, by message
  silent,    \* ghost: messages that arrived while the switch was off
  failures   \* ghost: failed calls of the model in a row, since it was on
aiVars == <<cfg, form, queue, ai, log, answered, silent, failures>>
ghosts == <<answered, silent, failures>>

Messages == 1 .. MaxMessages
NoForm == [pc |-> "idle", want |-> FALSE, enabled |-> FALSE, streak |-> 0, since |-> 0]
Free == [pc |-> "idle", m |-> 0, streak |-> 0, enabled |-> FALSE, result |-> "none"]

AiInit ==
  /\ Init
  /\ cfg = [enabled |-> FALSE, since |-> 0, streak |-> 0]
  /\ form = NoForm
  /\ queue = <<>>
  /\ ai = Free
  /\ log = [m \in Messages |-> "none"]
  /\ answered = [m \in Messages |-> 0]
  /\ silent = {}
  /\ failures = 0

-----------------------------------------------------------------------------
(* What arrives, and the poll thread: _poll_loop, on_new_messages. *)

SwitchesOn == form.want /\ ~form.enabled

ArrivesHere ==
  /\ Arrives
  /\ silent' = IF cfg.enabled \/ SwitchesOn THEN silent
               ELSE silent \cup {Len(server')}
  /\ UNCHANGED <<cfg, form, queue, ai, log, answered, failures>>

Candidates(p) == {m \in Fresh(p) : ~server[m].me}

\* (mutant) The queue has no bound.
FeedsAll(p) ==
  /\ Hands(p)
  /\ \E new \in InOrder(Candidates(p)) : queue' = queue \o new
  /\ UNCHANGED <<cfg, form, ai, log, ghosts>>

\* _is_candidate leaves the peer's messages; those that find the queue full
\* are dropped.
Feeds(p) ==
  /\ Hands(p)
  /\ \E new \in InOrder(Candidates(p)) :
       LET fit == QueueMax - Len(queue)
       IN  queue' = queue \o SubSeq(new, 1, IF fit < Len(new) THEN fit ELSE Len(new))
  /\ UNCHANGED <<cfg, form, ai, log, ghosts>>

-----------------------------------------------------------------------------
(* ai_reply_config.save and routers/ai.save_config. *)

\* (mutant) enabled_at keeps its first value.
SaveReadsOnce(want) ==
  /\ form.pc = "idle"
  /\ form' = [pc |-> "commit", want |-> want, enabled |-> cfg.enabled,
              streak |-> cfg.streak, since |-> cfg.since]
  /\ UNCHANGED <<chatVars, cfg, queue, ai, log, ghosts>>

SaveReads(want) ==
  /\ form.pc = "idle"
  /\ form' = [pc |-> "commit", want |-> want, enabled |-> cfg.enabled,
              streak |-> cfg.streak, since |-> Len(server)]
  /\ UNCHANGED <<chatVars, cfg, queue, ai, log, ghosts>>

SaveCommits ==
  /\ form.pc = "commit"
  /\ form' = NoForm
  /\ cfg' = [enabled |-> IF form.want # form.enabled THEN form.want ELSE cfg.enabled,
             since   |-> IF SwitchesOn THEN form.since ELSE cfg.since,
             streak  |-> IF SwitchesOn /\ form.streak # 0 THEN 0 ELSE cfg.streak]
  /\ failures' = IF SwitchesOn THEN 0 ELSE failures
  /\ UNCHANGED <<chatVars, queue, ai, log, answered, silent>>

-----------------------------------------------------------------------------
(* The worker: _loop and handle. *)

\* What waited too long (STALE_SECONDS) is dropped.
TakesMessage ==
  /\ ai.pc = "idle" /\ queue # <<>>
  /\ queue' = Tail(queue)
  /\ \/ ai' = [Free EXCEPT !.pc = "check", !.m = Head(queue)]
     \/ UNCHANGED ai
  /\ UNCHANGED <<chatVars, cfg, form, log, ghosts>>

\* The switch, the peer's own switch, and enabled_at.
Checks ==
  /\ ai.pc = "check"
  /\ \/ cfg.enabled /\ ai.m > cfg.since /\ ai' = [ai EXCEPT !.pc = "claim"]
     \/ ai' = Free
  /\ UNCHANGED <<chatVars, cfg, form, queue, log, ghosts>>

\* _claim: the unique row, before anything is done.
ClaimsMessage ==
  /\ ai.pc = "claim"
  /\ IF log[ai.m] = "none"
     THEN log' = [log EXCEPT ![ai.m] = "pending"] /\ ai' = [ai EXCEPT !.pc = "model"]
     ELSE ai' = Free /\ UNCHANGED log
  /\ UNCHANGED <<chatVars, cfg, form, queue, ghosts>>

\* The model is not asked: _rate_gate, a kind that is switched off, a video
\* or a voice without text.
Skips ==
  /\ ai.pc = "model"
  /\ ai' = [ai EXCEPT !.pc = "finish", !.result = "skipped"]
  /\ UNCHANGED <<chatVars, cfg, form, queue, log, ghosts>>

\* Any other exception ends handle; _loop swallows it.
HandleRaises ==
  /\ ai.pc = "model"
  /\ ai' = Free
  /\ UNCHANGED <<chatVars, cfg, form, queue, log, ghosts>>

\* An LLMError, and what _bump_failure reads.
ModelFails ==
  /\ ai.pc = "model"
  /\ ai' = [ai EXCEPT !.pc = "bump", !.streak = cfg.streak + 1,
                      !.enabled = cfg.enabled, !.result = "llm_error"]
  /\ failures' = failures + 1
  /\ UNCHANGED <<chatVars, cfg, form, queue, log, answered, silent>>

\* (mutant) One failure more.
TooMany(streak) == streak > MaxStreak
Enough(streak) == streak >= MaxStreak

\* _bump_failure writes the counter, and the switch when it read it as on.
BumpsFailure ==
  /\ ai.pc = "bump"
  /\ cfg' = [cfg EXCEPT !.streak = ai.streak,
                        !.enabled = @ /\ ~(Enough(ai.streak) /\ ai.enabled)]
  /\ ai' = [ai EXCEPT !.pc = "finish"]
  /\ UNCHANGED <<chatVars, form, queue, log, ghosts>>

\* An answer, and _reset_failure.
ModelAnswers ==
  /\ ai.pc = "model"
  /\ ai' = [ai EXCEPT !.pc = "reply"]
  /\ cfg' = [cfg EXCEPT !.streak = 0]
  /\ failures' = 0
  /\ UNCHANGED <<chatVars, form, queue, log, answered, silent>>

\* sanitize_reply refuses it, the account is busy, or send_to_uid raises
\* before it has looked at Douyin.
NotSent ==
  /\ ai.pc = "reply"
  /\ \E result \in {"blocked", "skipped", "send_failed"} :
       ai' = [ai EXCEPT !.pc = "finish", !.result = result]
  /\ UNCHANGED <<chatVars, cfg, form, queue, log, ghosts>>

\* (mutant) The answer is logged first.
SendsLogged(text) ==
  /\ ai.pc = "reply"
  /\ \E answer \in InitAnswers : Begins(Worker, text, answer)
  /\ ai' = [ai EXCEPT !.pc = "send"]
  /\ log' = [log EXCEPT ![ai.m] = "sent"]
  /\ UNCHANGED <<cfg, form, queue, ghosts>>

\* send_to_uid: ChatStore's synchronisation and send follow.
SendsToUid(text) ==
  /\ ai.pc = "reply"
  /\ \E answer \in InitAnswers : Begins(Worker, text, answer)
  /\ ai' = [ai EXCEPT !.pc = "send"]
  /\ UNCHANGED <<cfg, form, queue, log, ghosts>>

Delivered == answered' = [answered EXCEPT ![ai.m] = @ + 1]
MaybeDelivered == IF server' = server THEN UNCHANGED answered ELSE Delivered

\* (mutant) The result of _send is only compared with "locked".
FailsUnseen ==
  /\ SendFails(Worker)
  /\ ai' = [ai EXCEPT !.result = "sent"]
  /\ MaybeDelivered
  /\ UNCHANGED <<cfg, form, queue, log, silent, failures>>

AiSendFails ==
  /\ SendFails(Worker)
  /\ ai' = [ai EXCEPT !.result = "send_failed"]
  /\ MaybeDelivered
  /\ UNCHANGED <<cfg, form, queue, log, silent, failures>>

AiSendOk ==
  /\ SendOk(Worker)
  /\ ai' = [ai EXCEPT !.result = "sent"]
  /\ Delivered
  /\ UNCHANGED <<cfg, form, queue, log, silent, failures>>

\* _send has returned, append_local included.
Finishes ==
  /\ \/ ai.pc = "finish"
     \/ ai.pc = "send" /\ ai.result # "none" /\ At(Worker, "idle")
  /\ log' = [log EXCEPT ![ai.m] = ai.result]
  /\ ai' = Free
  /\ UNCHANGED <<chatVars, cfg, form, queue, ghosts>>

-----------------------------------------------------------------------------
\* The queue, the worker and the request are gone.
RestartsAll ==
  /\ Restarts
  /\ queue' = <<>> /\ ai' = Free /\ form' = NoForm
  /\ UNCHANGED <<cfg, log, ghosts>>

AiNext ==
  \/ ArrivesHere \/ RestartsAll
  \/ \E p \in Pollers :
       Feeds(p) \/ ((Polls(p) \/ Sync(p)) /\ UNCHANGED aiVars)
  \/ \E want \in BOOLEAN : SaveReads(want)
  \/ SaveCommits
  \/ TakesMessage \/ Checks \/ ClaimsMessage
  \/ Skips \/ HandleRaises \/ ModelFails \/ BumpsFailure \/ ModelAnswers
  \/ NotSent \/ \E text \in Texts : SendsToUid(text)
  \/ (Sync(Worker) \/ ReadsFloor(Worker) \/ Appends(Worker)) /\ UNCHANGED aiVars
  \/ AiSendFails \/ AiSendOk \/ Finishes
AiSpec == AiInit /\ [][AiNext]_<<chatVars, aiVars>>

-----------------------------------------------------------------------------
Statuses == {"none", "pending", "sent", "skipped", "blocked", "llm_error", "send_failed"}
AiTypeOK ==
  /\ TypeOK
  /\ cfg \in [enabled : BOOLEAN, since : 0 .. MaxMessages, streak : Nat]
  /\ form \in [pc : {"idle", "commit"}, want : BOOLEAN, enabled : BOOLEAN,
               streak : Nat, since : 0 .. MaxMessages]
  /\ queue \in Seq(Messages) /\ Len(queue) <= QueueMax
  /\ ai \in [pc : {"idle", "check", "claim", "model", "bump", "reply", "send", "finish"},
             m : 0 .. MaxMessages, streak : Nat, enabled : BOOLEAN, result : Statuses]
  /\ log \in [Messages -> Statuses]
  /\ answered \in [Messages -> Nat]
  /\ silent \in SUBSET Messages /\ failures \in Nat

(***************************************************************************)
(* A message that arrived while the answers were switched off is never     *)
(* taken up, however long it waits for a poll or in the queue, and however *)
(* often the switch is turned before (messages of the moment in which the  *)
(* form is being saved excepted).                                          *)
(***************************************************************************)
SilenceIsKept == \A m \in silent : log[m] = "none"

(***************************************************************************)
(* After MaxStreak failed calls in a row nobody calls the model until the  *)
(* user switches it on again, although the form and the worker write the   *)
(* same row from values they read before.  A restart before the counter is *)
(* written forgets one failure.                                            *)
(***************************************************************************)
FailuresStop == failures <= MaxStreak + restarts

(***************************************************************************)
(* The log tells the truth about Douyin: a message is answered at most     *)
(* once; "sent" means that it was; and one that was is never logged as     *)
(* skipped, blocked or failed before the send.  "pending" (a restart) and  *)
(* "send_failed" (an answer that got lost) leave it open.                  *)
(***************************************************************************)
LogIsTrue ==
  \A m \in Messages :
    /\ answered[m] <= 1
    /\ log[m] = "sent" => answered[m] = 1
    /\ answered[m] = 1 => log[m] \in {"pending", "sent", "send_failed"}

(***************************************************************************)
(* The worker keeps what the log promises (ReplyLedger): the row comes     *)
(* first, an answer goes out while it is open, and it is closed once.      *)
(***************************************************************************)
Ledger == INSTANCE ReplyLedger WITH status <- log, answers <- answered
ImplementsReplies == Ledger!Spec
=============================================================================
