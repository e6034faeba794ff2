---------------------------- MODULE MCConversations ----------------------------
(***************************************************************************)
(* A small instance of Conversations: two sources, and conversations, a    *)
(* list and a store in memory that are full with fewer runs than may       *)
(* begin.                                                                  *)
(***************************************************************************)
EXTENDS ConversationsProperties

CONSTANTS governed, saved
================================================================================
