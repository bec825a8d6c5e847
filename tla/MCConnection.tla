---------------------------- MODULE MCConnection ----------------------------
(* An instance of Connection for TLC. *)
EXTENDS Connection

\* Before login: nothing, enough, too little, forbidden.
SomeCaps == {{"IMAP4rev1"}, {"UIDPLUS"}, {"IMAP4rev1", "LOGINDISABLED"}}
\* After login a server has IMAP4rev1 and does not list LOGINDISABLED.
AfterLogin == {{"IMAP4rev1"}, {"IMAP4rev1", "UIDPLUS"}}
=============================================================================
