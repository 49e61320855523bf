----------------------------- MODULE MCAiReply -----------------------------
(* AiReply with the values TLC checks it for: one conversation. *)
EXTENDS AiReply

MCConversationOf == [text \in Texts |-> "peer"]
=============================================================================
