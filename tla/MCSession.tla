----------------------------- MODULE MCSession ------------------------------
(* Instances of Session for TLC. *)
EXTENDS Session

Opt(t, d, m) == [task |-> t, del |-> d, mailbox |-> m]

\* Tasks and options that CautiousUse allows, on one mailbox.
OptionsCautious ==
    {Opt("DOWNLOAD", TRUE, "A"), Opt("DOWNLOAD", FALSE, "A"),
     Opt("FETCH_HEADER", FALSE, "A"), Opt("LIST", TRUE, "A")}

\* Downloads of one mailbox with the delete option, and of another one without.
OptionsAnyUse == {Opt("DOWNLOAD", TRUE, "A"), Opt("DOWNLOAD", FALSE, "B")}

\* Every task with the delete option, on one mailbox.
OptionsDeleting ==
    {Opt("DOWNLOAD", TRUE, "A"), Opt("FETCH_HEADER", TRUE, "A"),
     Opt("LIST", TRUE, "A")}

\* Downloads of one mailbox with and without the delete option in turn, and
\* downloads of two mailboxes with it.
OptionsInTurn == {Opt("DOWNLOAD", TRUE, "A"), Opt("DOWNLOAD", FALSE, "A")}
OptionsTwoMailboxes == {Opt("DOWNLOAD", TRUE, "A"), Opt("DOWNLOAD", TRUE, "B")}

OptionsDownload == {Opt("DOWNLOAD", TRUE, "A")}
=============================================================================
