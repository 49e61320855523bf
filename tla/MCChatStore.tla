---------------------------- MODULE MCChatStore ----------------------------
(* ChatStore with the values TLC checks it for: one conversation. *)
EXTENDS ChatStore

MCConversationOf == [text \in Texts |-> "peer"]
=============================================================================
