---------------------------- MODULE MCChatClient ----------------------------
(***************************************************************************)
(* Two questions, one history request at a time.                           *)
(***************************************************************************)
EXTENDS ChatClient

CONSTANT d1

TwoRuns == {1, 2}
OneReader == {d1}
FirstIsLong == {1}

=============================================================================
