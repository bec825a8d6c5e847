------------------------------ MODULE MCReplay ------------------------------
(* An instance of Replay for TLC. *)
EXTENDS Replay

MCLines == {<<"a", "nl">>, <<"x", "nl">>}

\* A session as in unittest/simple.log: the server takes leave.
Leave == <<Record("SENT", <<"a", "cr", "nl">>), Record("SENT", <<"g", "nl">>),
           Record("RECEIVED", <<"a", "nl">>), Record("RECEIVED", Bye),
           Record("DISCONNECT", <<>>), Record("END_OF_FILE", <<>>)>>

\* The same one, cut off at the disconnect.
Cut == <<Record("RECEIVED", <<"a", "nl">>), Record("SENT", <<"g", "nl">>),
         Record("DISCONNECT", <<>>), Record("END_OF_FILE", <<>>)>>

Recording == [client |-> "keyboard", server |-> "echo", ssl |-> TRUE,
              limit |-> FALSE, log |-> TRUE, faulty |-> FALSE, lines |-> 2,
              signals |-> 0, trace |-> <<>>]
Plain == [Recording EXCEPT !.ssl = FALSE, !.lines = 1]

\* Undisturbed, with faults of the network, and with signals.
MCConfigs ==
    {Basic(Leave), [Basic(Leave) EXCEPT !.limit = FALSE], Recording, Plain,
     [Basic(Cut) EXCEPT !.faulty = TRUE],
     [Basic(Cut) EXCEPT !.ssl = FALSE],
     [Basic(Cut) EXCEPT !.signals = 1],
     [Basic(Cut) EXCEPT !.ssl = FALSE, !.limit = FALSE, !.signals = 2],
     [Basic(Leave) EXCEPT !.server = "echo", !.limit = FALSE, !.signals = 1],
     [Recording EXCEPT !.lines = 0, !.signals = 2],
     [Recording EXCEPT !.lines = 1, !.faulty = TRUE],
     [Plain EXCEPT !.lines = 0, !.signals = 2]}
=============================================================================
