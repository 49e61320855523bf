----------------------------- MODULE ChatStore -----------------------------
(***************************************************************************)
(* app/messages_service.py for one account: chat_messages holds what the   *)
(* synchronisations brought from Douyin, under Douyin's ids, and what the  *)
(* program has just sent, under negative ids, until a synchronisation      *)
(* brings the real message and it claims the placeholder.                  *)
(*                                                                         *)
(* Several threads do this at once: poll threads, whose new messages go on *)
(* to the pages and to the AI, and every other visit to Douyin             *)
(* (_ensure_active, backfill_history), whose new messages go nowhere.  A   *)
(* query sees what is committed (SQLite in WAL mode; Python begins the     *)
(* transaction with the first write); what a thread writes becomes visible *)
(* in one step, and fails as a whole when one of its statements gives a    *)
(* second row an id: UNIQUE(account, server_msg_id).                       *)
(*                                                                         *)
(* Douyin answers an init request with the last messages (about 21) of     *)
(* those conversations it chooses to answer with, and a history request    *)
(* with the newest pages of one conversation.  What it has composed may be *)
(* written long after, and what lies between two answers is a gap that a   *)
(* history may fill later.                                                 *)
(*                                                                         *)
(* A text stands for a peer and what is said, the key of a claim.          *)
(***************************************************************************)
EXTENDS Integers, Sequences, FiniteSets

CONSTANTS
  Pollers,      \* threads in _poll_loop
  Others,       \* threads that visit Douyin for something else
  Texts,
  ConversationOf,  \* by text
  Recent,       \* messages of a conversation in the answer to an init request
  Window,       \* _CLAIM_WINDOW_MS, in ticks
  MaxMessages,  \* bound: messages Douyin has
  MaxTime,      \* bound: ticks
  MaxRestarts   \* bound: restarts of the process

ASSUME ThreadsAssumption == Pollers \cap Others = {}
ASSUME WindowAssumption == Window \in Nat /\ Recent \in Nat \ {0}
ASSUME ChatBoundsAssumption ==
  MaxMessages \in Nat /\ MaxTime \in Nat /\ MaxRestarts \in Nat

Threads == Pollers \cup Others

VARIABLES
  server,    \* what Douyin has, in the order of its ids: 1, 2, ...
  rows,      \* chat_messages, by primary key
  threads,   \* the locals of each thread
  handed,    \* ghost: how often a message of the peer was handed on
  now, restarts
chatVars == <<server, rows, threads, handed, now, restarts>>

Idle == [pc |-> "idle", answer |-> {}, known |-> {}, pending |-> {},
         text |-> "", floor |-> 0]
Init ==
  /\ server = <<>> /\ rows = <<>>
  /\ threads = [t \in Threads |-> Idle]
  /\ handed = [m \in 1 .. MaxMessages |-> 0]
  /\ now = 0 /\ restarts = 0

At(t, pc) == threads[t].pc = pc
SetThread(t, f) == threads' = [threads EXCEPT ![t] = f]

Stored(m) == \E k \in DOMAIN rows : rows[k].id = m
Message(me, text) == [me |-> me, text |-> text, at |-> now]
Deliver(me, text) ==
  /\ Len(server) < MaxMessages
  /\ server' = Append(server, Message(me, text))

\* The peer writes, or the user does on another device.
Arrives ==
  /\ \E me \in BOOLEAN, text \in Texts : Deliver(me, text)
  /\ UNCHANGED <<rows, threads, handed, now, restarts>>

Tick ==
  /\ now < MaxTime
  /\ now' = now + 1
  /\ UNCHANGED <<server, rows, threads, handed, restarts>>

-----------------------------------------------------------------------------
(* What Douyin answers. *)

Conversations == {ConversationOf[text] : text \in Texts}
MessagesOf(c) == {m \in 1 .. Len(server) : ConversationOf[server[m].text] = c}
Newest(n, S) == {m \in S : Cardinality({x \in S : x > m}) < n}

\* get_message_by_init leaves out conversations: without a limit in the
\* request all but about 25.
InitAnswers ==
  {UNION {Newest(Recent, MessagesOf(c)) : c \in C} : C \in SUBSET Conversations}

\* fetch_history turns the pages of one conversation back from the newest,
\* and stops at its beginning, at a limit or at an error.
HistoryAnswers ==
  {Newest(n, MessagesOf(c)) : n \in 1 .. MaxMessages, c \in Conversations}

-----------------------------------------------------------------------------
(* sync_and_collect, with an answer. *)

\* text is what a thread that is not polling does next: "" only look, or send.
Begins(t, text, answer) ==
  /\ At(t, "idle")
  /\ SetThread(t, [Idle EXCEPT !.pc = "known", !.answer = answer, !.text = text])
  /\ UNCHANGED <<server, rows, handed, now, restarts>>

Fresh(t) == threads[t].answer \ threads[t].known

\* Where a synchronisation that is done leads to; a failed one too, except
\* that a poll has nothing to hand on then.
After(t) == IF threads[t].text = "" THEN Idle
            ELSE [Idle EXCEPT !.pc = "send", !.text = threads[t].text]

\* _claimable_placeholders: the second query.
Placeholders ==
  {[key |-> k, text |-> rows[k].text, at |-> rows[k].at] :
     k \in {l \in DOMAIN rows : rows[l].id < 0}}

\* The first query: which of the ids are stored.
ReadsKnown(t) ==
  /\ At(t, "known")
  /\ LET known == {m \in threads[t].answer : Stored(m)}
         fresh == threads[t].answer \ known
     IN  SetThread(t,
           IF fresh = {} THEN After(t)
           ELSE [threads[t] EXCEPT
                   !.known = known,
                   !.pc = IF \E m \in fresh : server[m].me THEN "pending" ELSE "write"])
  /\ UNCHANGED <<server, rows, handed, now, restarts>>

ReadsPending(t) ==
  /\ At(t, "pending")
  /\ SetThread(t, [threads[t] EXCEPT !.pending = Placeholders, !.pc = "write"])
  /\ UNCHANGED <<server, rows, handed, now, restarts>>

\* The query is ordered by time, which is the order in which placeholders are
\* made, so that of the keys.
Oldest(S) == CHOOSE p \in S : \A q \in S : p.key <= q.key
Near(m, p) == (server[m].at - p.at) \in -Window .. Window

\* (mutant) Whoever sent the message.
ClaimedByAll(m, left) ==
  LET same == {p \in left : p.text = server[m].text}
  IN  IF same # {} /\ Near(m, Oldest(same)) THEN Oldest(same).key ELSE 0

\* _claim: an own message takes the first placeholder of its text that is left,
\* unless that one is too old; an old one stays where it is.  0: none.
Claimed(m, left) ==
  LET same == {p \in left : p.text = server[m].text}
  IN  IF server[m].me /\ same # {} /\ Near(m, Oldest(same))
      THEN Oldest(same).key ELSE 0

\* What _claim answers to the messages in their order (there is one such
\* function): each finds what those before it have left.
Claims(t) ==
  LET pending == threads[t].pending
  IN  {c \in [Fresh(t) -> {p.key : p \in pending} \cup {0}] :
         \A m \in Fresh(t) :
           c[m] = Claimed(m, {p \in pending :
                                \A x \in Fresh(t) : x < m => c[x] # p.key})}

\* The elements of a set of numbers as a sequence, in their order (one again).
InOrder(S) ==
  {q \in [1 .. Cardinality(S) -> S] :
     /\ \A x \in S : \E l \in DOMAIN q : q[l] = x
     /\ \A k, l \in DOMAIN q : k < l => q[k] < q[l]}

Real(m) == [id |-> m, text |-> server[m].text, at |-> server[m].at]

\* What the transaction writes: claimed rows get their message, the messages
\* in `new` get rows of their own.
Written(t, claims, new) ==
  [k \in DOMAIN rows |->
     IF \E m \in Fresh(t) : claims[m] = k
     THEN Real(CHOOSE m \in Fresh(t) : claims[m] = k) ELSE rows[k]]
  \o [l \in DOMAIN new |-> Real(new[l])]

UniqueIds(r) == \A k, l \in DOMAIN r : r[k].id = r[l].id => k = l

\* The statements go out in the order of the messages.  A message that another
\* thread has stored meanwhile fails the transaction, unless it is in the row
\* it claims or in one that an earlier message has just written over.
NoneIsThere(t, claims) ==
  \A m \in Fresh(t), k \in DOMAIN rows : rows[k].id = m =>
    claims[m] = k \/ \E x \in Fresh(t) : x < m /\ claims[x] = k

WriteDone(t) ==
  SetThread(t, IF t \in Pollers
               THEN [threads[t] EXCEPT !.pc = "hand", !.pending = {}]
               ELSE After(t))

\* (mutant) INSERT OR IGNORE.
WritesRest(t) ==
  /\ At(t, "write")
  /\ \E claims \in Claims(t) :
       \E new \in InOrder({m \in Fresh(t) : claims[m] = 0 /\ ~Stored(m)}) :
         rows' = Written(t, [m \in Fresh(t) |-> 0], new)
  /\ WriteDone(t)
  /\ UNCHANGED <<server, handed, now, restarts>>

\* (mutant) What a synchronisation collected is handed on although its
\* transaction failed.
WritesOrNot(t) ==
  /\ At(t, "write")
  /\ \E claims \in Claims(t) :
       \E new \in InOrder({m \in Fresh(t) : claims[m] = 0}) :
         rows' = IF NoneIsThere(t, claims) THEN Written(t, claims, new) ELSE rows
  /\ WriteDone(t)
  /\ UNCHANGED <<server, handed, now, restarts>>

\* Flush and commit, or an IntegrityError.  The poll then fails, and so does a
\* backfill; _ensure_active goes on without.  fix_is_me, in the transaction of
\* a backfill, changes nothing here: no row has the wrong is_me.
Writes(t) ==
  /\ At(t, "write")
  /\ \E claims \in Claims(t) :
       \E new \in InOrder({m \in Fresh(t) : claims[m] = 0}) :
         IF NoneIsThere(t, claims)
         THEN rows' = Written(t, claims, new) /\ WriteDone(t)
         ELSE SetThread(t, After(t)) /\ UNCHANGED rows
  /\ UNCHANGED <<server, handed, now, restarts>>

\* broadcast and _feed_ai, with what the synchronisation returned.
Hands(p) ==
  /\ At(p, "hand")
  /\ handed' = [m \in DOMAIN handed |->
                  IF m \in Fresh(p) /\ ~server[m].me
                  THEN handed[m] + 1 ELSE handed[m]]
  /\ SetThread(p, Idle)
  /\ UNCHANGED <<server, rows, now, restarts>>

-----------------------------------------------------------------------------
(* Sending: dy.send_text, then append_local in a transaction of its own. *)

\* A refusal, or an answer that got lost: the message may be there, and is
\* not recorded.
SendFails(t) ==
  /\ At(t, "send")
  /\ \/ Deliver(TRUE, threads[t].text)
     \/ UNCHANGED server
  /\ SetThread(t, Idle)
  /\ UNCHANGED <<rows, handed, now, restarts>>

SendOk(t) ==
  /\ At(t, "send")
  /\ Deliver(TRUE, threads[t].text)
  /\ SetThread(t, [threads[t] EXCEPT !.pc = "floor"])
  /\ UNCHANGED <<rows, handed, now, restarts>>

Floor(ids) ==
  IF ids = {} THEN 0 ELSE CHOOSE l \in ids : \A k \in ids : l <= k

\* (mutant) The lowest id, whatever its sign.
LowestId == Floor({rows[k].id : k \in DOMAIN rows})

\* The query of append_local: the lowest negative id, 0 when there is none.
LowestPlaceholder ==
  LET own == {k \in DOMAIN rows : rows[k].id < 0}
  IN  Floor({rows[k].id : k \in own})

ReadsFloor(t) ==
  /\ At(t, "floor")
  /\ SetThread(t, [threads[t] EXCEPT !.pc = "append", !.floor = LowestPlaceholder])
  /\ UNCHANGED <<server, rows, handed, now, restarts>>

\* The id below it, unless another thread has taken that.
Appends(t) ==
  /\ At(t, "append")
  /\ LET id == threads[t].floor - 1
     IN  rows' = IF Stored(id) THEN rows
                 ELSE Append(rows, [id |-> id, text |-> threads[t].text, at |-> now])
  /\ SetThread(t, Idle)
  /\ UNCHANGED <<server, handed, now, restarts>>

-----------------------------------------------------------------------------
\* The process ends and starts again: its threads are gone.
Restarts ==
  /\ restarts < MaxRestarts
  /\ restarts' = restarts + 1
  /\ threads' = [t \in Threads |-> Idle]
  /\ UNCHANGED <<server, rows, handed, now>>

Polls(p) == \E answer \in InitAnswers : Begins(p, "", answer)
Visits(t) ==
  \E text \in Texts \cup {""}, answer \in InitAnswers : Begins(t, text, answer)
Backfills(t) == \E answer \in HistoryAnswers : Begins(t, "", answer)
Sync(t) == ReadsKnown(t) \/ ReadsPending(t) \/ Writes(t)
Sends(t) == SendFails(t) \/ SendOk(t) \/ ReadsFloor(t) \/ Appends(t)

ChatNext ==
  \/ \E p \in Pollers : Polls(p) \/ Hands(p)
  \/ \E t \in Others : Visits(t) \/ Backfills(t) \/ Sends(t)
  \/ \E t \in Threads : Sync(t)
  \/ Arrives \/ Tick \/ Restarts
ChatSpec == Init /\ [][ChatNext]_chatVars

-----------------------------------------------------------------------------
Row == [id : Int \ {0}, text : Texts, at : 0 .. MaxTime]
Thread ==
  [pc : {"idle", "known", "pending", "write", "hand", "send", "floor", "append"},
   answer : SUBSET Nat, known : SUBSET Nat,
   pending : SUBSET [key : Nat, text : Texts, at : 0 .. MaxTime],
   text : Texts \cup {""}, floor : Int]
TypeOK ==
  /\ server \in Seq([me : BOOLEAN, text : Texts, at : 0 .. MaxTime])
  /\ Len(server) <= MaxMessages
  /\ rows \in Seq(Row) /\ UniqueIds(rows)
  /\ threads \in [Threads -> Thread]
  /\ handed \in [1 .. MaxMessages -> Nat]
  /\ now \in 0 .. MaxTime /\ restarts \in 0 .. MaxRestarts

(***************************************************************************)
(* A row that has Douyin's message keeps it, whatever a synchronisation    *)
(* that looked before writes: a message of the peer in any case, one of    *)
(* the user's unless it came into the row by a claim, and then another     *)
(* message of the user's with the same text takes its place.               *)
(***************************************************************************)
OnlyATwinReplaces ==
  [][\A k \in DOMAIN rows : rows[k].id > 0 =>
       /\ k \in DOMAIN rows'
       /\ \/ rows'[k].id = rows[k].id
          \/ /\ rows'[k].id > 0
             /\ \A m \in {rows[k].id, rows'[k].id} :
                  server[m].me /\ server[m].text = rows[k].text]_chatVars

(***************************************************************************)
(* No message of the peer is handed to the pages and the AI twice,         *)
(* although several threads may poll the account for a while (a thread     *)
(* that was told to stop, and its successor) and each finds it new.  The   *)
(* user's own messages are: two threads may claim the same placeholder.    *)
(***************************************************************************)
HandedOnce == \A m \in DOMAIN handed : handed[m] <= 1
(***************************************************************************)
(* The store keeps what it promises of the peer's messages (PeerInbox):    *)
(* whatever threads look at Douyin at once, and whatever their answers     *)
(* have, a message is brought in once, stays, and only who brought it in   *)
(* hands it on.  What a send or another visit brings in (_ensure_active,   *)
(* trigger.py:218), and what fills a gap later (backfill_history), is      *)
(* therefore never handed on.                                              *)
(***************************************************************************)
Arrived == {m \in 1 .. Len(server) : ~server[m].me}
Inbox == INSTANCE PeerInbox WITH
           Messages <- 1 .. MaxMessages,
           arrived <- Arrived,
           stored <- {m \in Arrived : Stored(m)},
           hands <- [t \in Threads |-> IF At(t, "hand") THEN Fresh(t) \cap Arrived
                                       ELSE {}],
           handed <- {m \in DOMAIN handed : handed[m] > 0}
ImplementsInbox == Inbox!Spec
=============================================================================
