----------------------------- MODULE PeerInbox -----------------------------
(***************************************************************************)
(* What chat_messages promises of the peer's messages, without rows, ids,  *)
(* queries, claims and transactions.  Some of what has arrived is stored,  *)
(* in no order and with gaps; what is stored stays.  Each message is       *)
(* brought in once, by one thread; that thread hands it on or nobody ever  *)
(* does, because what it brought in is lost with the process, or the       *)
(* thread was there for something else.                                    *)
(***************************************************************************)
CONSTANTS Messages, Threads

VARIABLES
  arrived,  \* the peer's messages on Douyin
  stored,   \* those that are in the table
  hands,    \* by thread: what it has brought in and is going to hand on
  handed    \* what the pages and the AI have got
inbox == <<arrived, stored, hands, handed>>

Init == /\ arrived = {} /\ stored = {} /\ handed = {}
        /\ hands = [t \in Threads |-> {}]

Arrives ==
  /\ \E m \in Messages \ arrived : arrived' = arrived \cup {m}
  /\ UNCHANGED <<stored, hands, handed>>

BringsIn(t) ==
  /\ \E new \in SUBSET (arrived \ stored) :
       /\ stored' = stored \cup new
       /\ \/ hands[t] = {} /\ hands' = [hands EXCEPT ![t] = new]
          \/ UNCHANGED hands
  /\ UNCHANGED <<arrived, handed>>

HandsOn(t) ==
  /\ hands[t] \cap handed = {}
  /\ handed' = handed \cup hands[t]
  /\ hands' = [hands EXCEPT ![t] = {}]
  /\ UNCHANGED <<arrived, stored>>

ForgetsAll ==
  /\ hands' = [t \in Threads |-> {}]
  /\ UNCHANGED <<arrived, stored, handed>>

Next == Arrives \/ ForgetsAll \/ \E t \in Threads : BringsIn(t) \/ HandsOn(t)
Spec == Init /\ [][Next]_inbox
=============================================================================
