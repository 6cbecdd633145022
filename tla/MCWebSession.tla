---------------------------- MODULE MCWebSession ----------------------------
(* Two tabs, one of which may log out and in again while the other waits   *)
(* for an answer or for the news of it.                                    *)
EXTENDS WebSession
=============================================================================
