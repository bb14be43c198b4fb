----------------------------- MODULE MCChatTurns -----------------------------
(***************************************************************************)
(* Two turns to come in a conversation with one behind it: the second of   *)
(* them has two questions in view, which a compaction needs, and may keep  *)
(* a tail that holds a tool call of the first.                             *)
(***************************************************************************)
EXTENDS ChatTurns

OneTurn == <<"system", "user", "reply">>
==============================================================================
