------------------------------ MODULE Transfer ------------------------------
(***************************************************************************)
(* What the download client promises, without any of its mechanism:        *)
(* messages are moved from the mail server into local mail directories,    *)
(* and the client takes a message off the server only after it has stored  *)
(* it, unless somebody else has already given the message up.              *)
(*                                                                         *)
(* A message is identified by mailbox, UIDVALIDITY and UID, the identity   *)
(* that RFC 3501 makes permanent; here it is just a member of Messages.    *)
(***************************************************************************)
CONSTANT Messages

VARIABLES
    arrived,    \* every message the server has ever held
    present,    \* the messages it holds now
    saved,      \* the messages durably stored in the local maildir
    abandoned   \* the messages another user of the account has given up

tvars == <<arrived, present, saved, abandoned>>

Init ==
    /\ arrived \in SUBSET Messages
    /\ present = arrived
    /\ saved = {}
    /\ abandoned = {}

\* New mail is put into a mailbox.
Arrive ==
    /\ arrived' \in SUBSET Messages
    /\ arrived \subseteq arrived'
    /\ present' = present \cup (arrived' \ arrived)
    /\ UNCHANGED <<saved, abandoned>>

\* Another session gives messages up, or removes such as are given up or
\* stored.
Abandon ==
    /\ abandoned' \in SUBSET Messages
    /\ abandoned \subseteq abandoned'
    /\ present' \in SUBSET present
    /\ present \ present' \subseteq abandoned' \cup saved
    /\ UNCHANGED <<arrived, saved>>

\* The server assigns new identities to the messages of a mailbox: the old
\* ones are void, the new ones count as new messages.
Renumber ==
    /\ arrived' \in SUBSET Messages
    /\ arrived \subseteq arrived'
    /\ abandoned' = abandoned \cup (present \ present')
    /\ present' \ present = arrived' \ arrived
    /\ UNCHANGED saved

\* The client stores a message.  It may do so again after a restart.
Save ==
    /\ saved' \in SUBSET Messages
    /\ saved \subseteq saved'
    /\ UNCHANGED <<arrived, present, abandoned>>

\* The client makes the server remove messages.
Purge ==
    /\ present' \in SUBSET present
    /\ present \ present' \subseteq saved \cup abandoned
    /\ UNCHANGED <<arrived, saved, abandoned>>

Next == Arrive \/ Abandon \/ Renumber \/ Save \/ Purge

Spec == Init /\ [][Next]_tvars
=============================================================================
