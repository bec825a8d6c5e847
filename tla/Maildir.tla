------------------------------ MODULE Maildir -------------------------------
(***************************************************************************)
(* How a message gets from a FETCH response into the maildir: class        *)
(* Maildir and the callbacks of Copy::Client that use it, one step per     *)
(* system call, with failing calls, a killed process and power failures   *)
(* between any two of them.  What Session takes as one step                *)
(* (imap_body_section_end) is taken apart here.                            *)
(*                                                                         *)
(* A directory entry is a triple: directory, unique name, maildir flags.   *)
(* Entries and the contents of files are first changed in the memory of    *)
(* the operating system and reach stable storage by fsync, or at any time  *)
(* before.                                                                 *)
(***************************************************************************)
EXTENDS Naturals, FiniteSets

CONSTANTS
    Messages,       \* the messages of the mailbox
    FlagsOf,        \* the IMAP flags the server reports for each of them
    Names,          \* the names create_tmp_name() can come up with
    NoName, NoMessage,
    SyncOnClose,    \* does closing a Buffer::File sync it to the disk?
    FlagsFirst,     \* does the server send FLAGS before the body?
    QueuedReads,    \* may a signal be handled while the completion of a
                    \* successful read is queued?
    Unsolicited,    \* may the server send FETCH responses without a body?
    MaxEnds         \* bound: ends of runs, by errors, kills or power failures

Flags == {"Answered", "Seen", "Flagged", "Draft", "Deleted", "Recent"}

ASSUME MaildirAssumption ==
    /\ FlagsOf \in [Messages -> SUBSET Flags]
    /\ NoName \notin Names
    /\ NoMessage \notin Messages
    /\ SyncOnClose \in BOOLEAN
    /\ FlagsFirst \in BOOLEAN
    /\ QueuedReads \in BOOLEAN
    /\ Unsolicited \in BOOLEAN
    /\ MaxEnds \in Nat

VARIABLES
    onServer,   \* the messages not yet removed from the server
    todo,       \* the messages the FETCH command of this run has still to bring
    entries,    \* directory entries as the operating system shows them
    stable,     \* directory entries on stable storage
    complete,   \* the names whose file has all of the message in it ...
    synced,     \* ... and those for which this is so on stable storage
    owner,      \* history: the message a name was created for
    noted,      \* history: messages imap_data_fetch_end() noted as transferred
    strays,     \* history: messages of which a FETCH response has brought no body,
                \* or one that was passed over
    pc,         \* the next step of the program, see Steps below
    cur,        \* the message the FETCH response is about
    parts,      \* its parts still to come
    state,      \* Client::state_, as far as the callbacks ask for it
    uid,        \* the message Client::last_uid_ stands for
    flags,      \* Client::flags_
    name,       \* Maildir::name_
    target,     \* the directory and flags move() has been called with
    ends        \* how much of MaxEnds is used up

diskVars == <<entries, stable, complete, synced, owner>>
fetchVars == <<state, uid>>
noteVars == <<noted, strays>>
memVars == <<todo, pc, cur, parts, fetchVars, flags, name, target>>
mvars == <<onServer, todo, entries, stable, complete, synced, owner, noted, strays,
           pc, cur, parts, state, uid, flags, name, target, ends>>

Letters == {"D", "F", "P", "R", "S", "T"}
Entries == {"tmp", "new", "cur"} \X Names \X SUBSET Letters

\* idle: between two FETCH responses; item: inside one; body: the file in tmp/
\* is open; closed, linked, fsynced: how far the delivery has got.
Steps == {"down", "idle", "item", "body", "closed", "linked", "fsynced"}

NoTarget == <<"tmp", {}>>

\* The entry that move() makes in new/ or cur/.
Moved == <<target[1], name, target[2]>>

\* The entries a mail reader looks at.
Delivered(E) == {x \in E : x[1] # "tmp"}
-----------------------------------------------------------------------------
Init ==
    /\ onServer = Messages /\ todo = {}
    /\ entries = {} /\ stable = {} /\ complete = {} /\ synced = {}
    /\ owner = [n \in Names |-> NoMessage]
    /\ noted = {} /\ strays = {}
    /\ pc = "down" /\ cur = NoMessage /\ parts = {} /\ flags = {}
    /\ state = "LOGGED_OUT" /\ uid = NoMessage
    /\ name = NoName /\ target = NoTarget
    /\ ends = 0

\* A program run begins: Maildir::Maildir() finds or makes the directories, and
\* the mailbox is fetched as a whole (FETCH 1:*).  From then on state_ is
\* FETCHING, also after the end of the FETCH command, until do_quit().
Start ==
    /\ pc = "down"
    /\ pc' = "idle" /\ todo' = onServer
    /\ state' = "FETCHING" /\ uid' = NoMessage
    /\ UNCHANGED <<onServer, diskVars, noteVars, cur, parts, flags, name, target,
                   ends>>

\* After do_quit() no read is started, but one may be queued with octets in it.
Reading == state = "FETCHING" \/ QueuedReads

\* A FETCH response is about to be read: m is the answer to the FETCH command,
\* with all the parts asked for, or tells of flags that have changed, as an
\* answer to STORE does, with or without the UID.
Arrives(m) ==
    /\ pc = "idle" /\ Reading
    /\ \/ /\ m \in todo
          /\ todo' = todo \ {m} /\ parts' = {"flags", "uid", "body"}
          /\ UNCHANGED strays
       \/ /\ Unsolicited
          /\ parts' \in {{"flags"}, {"flags", "uid"}}
          /\ strays' = strays \cup {m}
          /\ UNCHANGED todo

\* Mutant: the flags of the message before are kept.
imap_data_fetch_begin_keeps_flags(m) ==
    /\ Arrives(m)
    /\ pc' = "item" /\ cur' = m
    /\ uid' = IF state = "FETCHING" THEN NoMessage ELSE uid
    /\ UNCHANGED <<onServer, diskVars, noted, state, flags, name, target,
                   ends>>

imap_data_fetch_begin(m) ==
    /\ Arrives(m)
    /\ pc' = "item" /\ cur' = m
    /\ uid' = IF state = "FETCHING" THEN NoMessage ELSE uid
    /\ flags' = {}
    /\ UNCHANGED <<onServer, diskVars, noted, state, name, target, ends>>

imap_uid ==
    /\ pc = "item" /\ Reading /\ "uid" \in parts
    /\ parts' = parts \ {"uid"}
    /\ uid' = IF state = "FETCHING" THEN cur ELSE uid
    /\ UNCHANGED <<onServer, todo, diskVars, noteVars, pc, cur, state, flags,
                   name, target, ends>>

\* The maildir letters for IMAP flags; \Deleted and \Recent have none.
Letter == [Answered |-> "R", Seen |-> "S", Flagged |-> "F", Draft |-> "D"]
LettersOf(S) == {Letter[f] : f \in S \cap DOMAIN Letter}

\* The FLAGS of the message: imap_flag() for each of them.
imap_flag ==
    /\ pc = "item" /\ Reading /\ "flags" \in parts
    /\ parts' = parts \ {"flags"}
    /\ flags' = flags \cup LettersOf(FlagsOf[cur])
    /\ UNCHANGED <<onServer, todo, diskVars, noteVars, pc, cur, fetchVars, name,
                   target, ends>>

\* imap_body_section_inner(): create_tmp_name() makes a name that has not been
\* used before, and the file is created in tmp/.  A name that is still in use
\* is an error.
imap_body_section_inner(n) ==
    /\ pc = "item" /\ state = "FETCHING" /\ "body" \in parts
    /\ FlagsFirst => "flags" \notin parts
    /\ name = NoName
    /\ owner[n] = NoMessage
    /\ name' = n
    /\ owner' = [owner EXCEPT ![n] = cur]
    /\ entries' = entries \cup {<<"tmp", n, {}>>}
    /\ pc' = "body"
    /\ UNCHANGED <<onServer, todo, stable, complete, synced, noteVars, cur, parts,
                   fetchVars, flags, target, ends>>

\* Mutant: what is buffered is not written before move() is called.
file_close_unflushed ==
    /\ pc = "body" /\ state = "FETCHING"
    /\ target' = IF flags = {} THEN <<"new", {}>> ELSE <<"cur", flags>>
    /\ parts' = parts \ {"body"}
    /\ pc' = "closed"
    /\ UNCHANGED <<onServer, todo, diskVars, noteVars, cur, fetchVars, flags, name,
                   ends>>

\* imap_body_section_end(): close() writes what is buffered ...
file_close ==
    /\ pc = "body" /\ state = "FETCHING"
    /\ complete' = complete \cup {name}
    /\ synced' = IF SyncOnClose THEN synced \cup {name} ELSE synced
    /\ target' = IF flags = {} THEN <<"new", {}>> ELSE <<"cur", flags>>
    /\ parts' = parts \ {"body"}
    /\ pc' = "closed"
    /\ UNCHANGED <<onServer, todo, entries, stable, owner, noteVars, cur,
                   fetchVars, flags, name, ends>>

\* After do_quit() a body is passed over: nothing is created, and a file that is
\* open stays in tmp/, with the name taken.
body_ignored ==
    /\ pc \in {"item", "body"} /\ state # "FETCHING" /\ QueuedReads
    /\ "body" \in parts
    /\ FlagsFirst => "flags" \notin parts
    /\ parts' = parts \ {"body"}
    /\ strays' = strays \cup {cur}
    /\ pc' = "item"
    /\ UNCHANGED <<onServer, todo, diskVars, noted, cur, fetchVars, flags, name,
                   target, ends>>

\* Mutant: the directory is not synced.
linkat_without_fsync ==
    /\ pc = "closed"
    /\ entries' = entries \cup {Moved}
    /\ pc' = "fsynced"
    /\ UNCHANGED <<onServer, todo, stable, complete, synced, owner, noteVars, cur,
                   parts, fetchVars, flags, name, target, ends>>

\* ... and move() takes three calls to put the file into new/ or cur/.
linkat ==
    /\ pc = "closed"
    /\ entries' = entries \cup {Moved}
    /\ pc' = "linked"
    /\ UNCHANGED <<onServer, todo, stable, complete, synced, owner, noteVars, cur,
                   parts, fetchVars, flags, name, target, ends>>

\* Mutant: the wrong directory is synced.
fsync_tmp ==
    /\ pc = "linked"
    /\ stable' = {x \in stable : x[1] # "tmp"}
                     \cup {x \in entries : x[1] = "tmp"}
    /\ pc' = "fsynced"
    /\ UNCHANGED <<onServer, todo, entries, complete, synced, owner, noteVars,
                   cur, parts, fetchVars, flags, name, target, ends>>

fsync ==
    /\ pc = "linked"
    /\ stable' = {x \in stable : x[1] # target[1]}
                     \cup {x \in entries : x[1] = target[1]}
    /\ pc' = "fsynced"
    /\ UNCHANGED <<onServer, todo, entries, complete, synced, owner, noteVars,
                   cur, parts, fetchVars, flags, name, target, ends>>

\* Mutant: the name is not cleared.
unlinkat_keeps_name ==
    /\ pc = "fsynced"
    /\ entries' = entries \ {<<"tmp", name, {}>>}
    /\ UNCHANGED name /\ target' = NoTarget
    /\ pc' = "item"
    /\ UNCHANGED <<onServer, todo, stable, complete, synced, owner, noteVars, cur,
                   parts, fetchVars, flags, ends>>

unlinkat ==
    /\ pc = "fsynced"
    /\ entries' = entries \ {<<"tmp", name, {}>>}
    /\ name' = NoName /\ target' = NoTarget
    /\ pc' = "item"
    /\ UNCHANGED <<onServer, todo, stable, complete, synced, owner, noteVars, cur,
                   parts, fetchVars, flags, ends>>

\* Whatever the response has brought, last_uid_ counts as transferred.  Without
\* one the client throws.
imap_data_fetch_end ==
    /\ pc = "item" /\ Reading /\ parts = {}
    /\ uid # NoMessage
    /\ noted' = noted \cup {uid}
    /\ pc' = "idle" /\ cur' = NoMessage
    /\ UNCHANGED <<onServer, todo, diskVars, strays, parts, fetchVars, flags, name,
                   target, ends>>

\* A signal, or the end of the session, between two reads.
do_quit ==
    /\ pc \in {"idle", "item", "body"} /\ state = "FETCHING"
    /\ state' = "LOGGED_OUT"
    /\ UNCHANGED <<onServer, todo, diskVars, noteVars, pc, cur, parts, uid, flags,
                   name, target, ends>>

\* The server removes messages the client has noted, in this run or, by way of
\* the journal, in a later one (external, see Session).
Remove(S) ==
    /\ S # {} /\ S \subseteq noted \cap onServer
    /\ onServer' = onServer \ S
    /\ UNCHANGED <<diskVars, noteVars, memVars, ends>>
-----------------------------------------------------------------------------
End ==
    /\ ends < MaxEnds
    /\ ends' = ends + 1
    /\ pc' = "down" /\ todo' = {} /\ cur' = NoMessage
    /\ parts' = {} /\ flags' = {} /\ name' = NoName /\ target' = NoTarget
    /\ state' = "LOGGED_OUT" /\ uid' = NoMessage

\* A call fails and throws, the process is killed, or the run is over.
Exit ==
    /\ pc # "down"
    /\ End
    /\ UNCHANGED <<onServer, diskVars, noteVars>>

\* Of the changes since the last fsync of a directory any may be lost, and so
\* may the contents of files that have not been synced.
PowerFailure ==
    /\ End
    /\ entries' \in SUBSET (entries \cup stable)
    /\ entries \cap stable \subseteq entries'
    /\ stable' = entries'
    /\ complete' \in SUBSET complete
    /\ synced \subseteq complete'
    /\ synced' = complete'
    /\ UNCHANGED <<onServer, owner, noteVars>>

Work ==
    \/ Start
    \/ \E m \in Messages : imap_data_fetch_begin(m)
    \/ imap_uid \/ imap_flag
    \/ \E n \in Names : imap_body_section_inner(n)
    \/ file_close \/ linkat \/ fsync \/ unlinkat
    \/ body_ignored
    \/ imap_data_fetch_end
    \/ do_quit

Next ==
    \/ Work
    \/ \E S \in SUBSET Messages : Remove(S)
    \/ Exit
    \/ PowerFailure

Spec == Init /\ [][Next]_mvars
-----------------------------------------------------------------------------
\* The type invariant.
TypeOK ==
    /\ onServer \in SUBSET Messages
    /\ todo \in SUBSET Messages
    /\ entries \in SUBSET Entries
    /\ stable \in SUBSET Entries
    /\ complete \in SUBSET Names
    /\ synced \in SUBSET Names
    /\ owner \in [Names -> Messages \cup {NoMessage}]
    /\ noted \in SUBSET Messages
    /\ strays \in SUBSET Messages
    /\ pc \in Steps
    /\ cur \in Messages \cup {NoMessage}
    /\ parts \in SUBSET {"flags", "uid", "body"}
    /\ state \in {"FETCHING", "LOGGED_OUT"}
    /\ uid \in Messages \cup {NoMessage}
    /\ flags \in SUBSET Letters
    /\ name \in Names \cup {NoName}
    /\ target \in {"tmp", "new", "cur"} \X SUBSET Letters
    /\ ends \in 0..MaxEnds

\* The messages with an entry in new/ or cur/ and all of their contents on
\* stable storage.
Durable == {owner[x[2]] : x \in {y \in Delivered(stable) : y[2] \in synced}}

\* A message counts as transferred (and may be removed from the server) only
\* when no failure whatsoever can take it out of the maildir again, provided
\* that closing a file syncs it: close() and the fsync of the directory come
\* before imap_data_fetch_end().  That function does not look whether there was a
\* body and whether it has been delivered, so it is not so for messages of which
\* a response has brought none to a client that is fetching, and only for them:
\* each of the two ways of Session to lose mail is one of these.
NotedIsDurable == SyncOnClose => noted \subseteq Durable \cup strays

\* What a mail reader finds in new/ or cur/ is a whole message, also while a
\* delivery is going on and after a power failure: the file is linked there
\* only after it has been closed.
NoTornMail == SyncOnClose => \A x \in Delivered(entries) : x[2] \in complete

\* A delivered message has its own flags and never those of the message before:
\* flags_ is cleared in time.  It has all of them when the server sends FLAGS
\* before the body; otherwise it may lack all of them.  Only messages without
\* flags are in new/.
OwnFlags ==
    \A x \in Delivered(entries) :
        LET own == LettersOf(FlagsOf[owner[x[2]]]) IN
        /\ x[3] \in {{}, own}
        /\ FlagsFirst => x[3] = own
        /\ x[1] = "new" <=> x[3] = {}

\* The delivery at hand: name_ is set from create_tmp_name() to the end of
\* move() and, unless do_quit() comes in between, no longer, so the next call of
\* create_tmp_name() does not throw; the steps of move() leave the file where the
\* next one expects it.
InFlight == pc \in {"body", "closed", "linked", "fsynced"}

DeliveryInOrder ==
    /\ cur \in Messages <=> pc \notin {"down", "idle"}
    /\ name \in Names => pc # "down" /\ (InFlight \/ state # "FETCHING")
    /\ InFlight => name \in Names
    /\ InFlight => owner[name] = cur
    /\ pc \in {"closed", "linked", "fsynced"} =>
           /\ name \in complete
           /\ "body" \notin parts
           /\ target = IF flags = {} THEN <<"new", {}>> ELSE <<"cur", flags>>
    /\ pc \in {"linked", "fsynced"} => Moved \in entries
    /\ pc = "fsynced" => Moved \in stable
    /\ pc = "body" => "body" \in parts
    /\ pc \in {"closed", "linked", "fsynced"} => state = "FETCHING"
    /\ SyncOnClose =>
           /\ uid \in {NoMessage, cur} \cup Durable \cup strays
           /\ pc = "item" /\ "body" \notin parts => cur \in Durable \cup strays

FlagsInOrder ==
    pc \notin {"down", "idle"} =>
        /\ flags = IF "flags" \in parts THEN {} ELSE LettersOf(FlagsOf[cur])
        /\ InFlight /\ FlagsFirst => "flags" \notin parts

\* What is on the disk belongs to some message, and nothing that is stable in
\* new/ or cur/ is ever missing from what the operating system shows.
DiskInOrder ==
    /\ \A x \in entries \cup stable : owner[x[2]] \in Messages
    /\ Delivered(stable) \subseteq entries
    /\ SyncOnClose => complete = synced

\* The inductive invariant: the state is in order at every step of a delivery,
\* and the three properties above hold.
MaildirInv ==
    /\ TypeOK
    /\ DeliveryInOrder
    /\ FlagsInOrder
    /\ DiskInOrder
    /\ NotedIsDurable
    /\ NoTornMail
    /\ OwnFlags

T == INSTANCE Transfer WITH
    arrived <- Messages,
    present <- onServer,
    saved <- Durable,
    abandoned <- strays

\* The delivery implements Transfer: messages are only ever added to what is
\* durable, over any failure, and only durable ones leave the server, besides
\* those that the client gives up by taking a response without a body for them.
Implements == T!Spec
=============================================================================
