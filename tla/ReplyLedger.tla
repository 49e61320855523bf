---------------------------- MODULE ReplyLedger ----------------------------
(***************************************************************************)
(* What ai_reply_logs promises of each message, without queue, worker,     *)
(* configuration or chat store: its one row is opened before anything is   *)
(* done, an answer goes out at most once and only while the row is open,   *)
(* and the row is closed once, with a status that fits.  A row that is     *)
(* left open stays open.                                                   *)
(***************************************************************************)
EXTENDS Naturals

CONSTANT Messages

VARIABLES
  status,   \* "none" without a row, "pending" while it is open
  answers   \* how often Douyin has the answer

NotTried == {"skipped", "blocked", "llm_error"}

Init == /\ status = [m \in Messages |-> "none"]
        /\ answers = [m \in Messages |-> 0]

Open(m) ==
  /\ status[m] = "none"
  /\ status' = [status EXCEPT ![m] = "pending"]
  /\ UNCHANGED answers

Answer(m) ==
  /\ status[m] = "pending" /\ answers[m] = 0
  /\ answers' = [answers EXCEPT ![m] = 1]
  /\ UNCHANGED status

Close(m, as) ==
  /\ status[m] = "pending"
  /\ \/ as = "sent" /\ answers[m] = 1
     \/ as \in NotTried /\ answers[m] = 0
     \/ as = "send_failed"
  /\ status' = [status EXCEPT ![m] = as]
  /\ UNCHANGED answers

Next == \E m \in Messages :
          \/ Open(m) \/ Answer(m)
          \/ \E as \in NotTried \cup {"sent", "send_failed"} : Close(m, as)
Spec == Init /\ [][Next]_<<status, answers>>
=============================================================================
