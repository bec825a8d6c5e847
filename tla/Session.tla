------------------------------ MODULE Session -------------------------------
(***************************************************************************)
(* The download client of imapdl (Copy::Client) over any number of program *)
(* runs: the journal a run leaves to the next one, the maildir it delivers *)
(* to, and the IMAP dialogue with a server whose mailboxes other sessions  *)
(* change at the same time.                                                *)
(*                                                                         *)
(* The client is single threaded.  Its steps are the completion handlers   *)
(* that the Boost.ASIO loop runs one after the other: the read handler     *)
(* (which runs the parser over one chunk of input, calling one imap_...    *)
(* function after the other), the signal handler and, after an exception   *)
(* or when the loop has nothing left to do, the destructor.  A chunk may   *)
(* end after any callback, so each callback is an action; rd = "parsing"   *)
(* keeps other handlers from running in the middle of a chunk.             *)
(*                                                                         *)
(* What happens before LOGIN is answered (greeting, CAPABILITY, the        *)
(* greeting timer) is module Login; here cmd = "login" stands for all of   *)
(* it.                                                                     *)
(***************************************************************************)
EXTENDS Naturals, FiniteSets

CONSTANTS
    Mailboxes,      \* the mailboxes of the account
    UIDs,           \* the UIDs a message can have
    Validities,     \* the UIDVALIDITY values a mailbox can have
    Options,        \* the option sets a run can be started with
    MaxFaults,      \* bound: crashes, signals, lost connections, refusals,
                    \* renumberings and changes by other sessions, in total
    QueuedReads,    \* may a signal be handled while the completion of a
                    \* read is already waiting in the loop?
    Unsolicited,    \* may the server send FETCH responses nobody asked for?
    StrayCodes      \* may the server send response codes that begin with C
                    \* and are not CAPABILITY, [CLOSED] for instance?

Tasks == {"DOWNLOAD", "FETCH_HEADER", "LIST"}
NoUid == 0
NoMailbox == "no mailbox"
NoOption == [task |-> "none", del |-> FALSE, mailbox |-> NoMailbox]

\* What the journal's path leads to: nothing, a damaged file, or a Journal.
NoJournal == [mailbox |-> NoMailbox, uidvalidity |-> 0, uids |-> {}]
Torn == [mailbox |-> "torn", uidvalidity |-> 0, uids |-> {}]

ASSUME ConstantsAssumption ==
    /\ UIDs \subseteq Nat \ {NoUid}
    /\ Validities \subseteq Nat \ {0}
    /\ Options \subseteq [task : Tasks, del : BOOLEAN, mailbox : Mailboxes]
    /\ NoMailbox \notin Mailboxes /\ "torn" \notin Mailboxes
    /\ MaxFaults \in Nat
    /\ QueuedReads \in BOOLEAN
    /\ Unsolicited \in BOOLEAN
    /\ StrayCodes \in BOOLEAN

\* A message is named by mailbox, UIDVALIDITY and UID.
Messages == Mailboxes \X Validities \X UIDs

\* The contents of a journal file.
Journals == [mailbox : Mailboxes, uidvalidity : Validities \cup {0},
             uids : SUBSET UIDs]

CleanupCommands == {"c_select", "c_store", "c_expunge"}
TaskCommands == {"select", "fetch", "store", "expunge", "list", "logout"}
Commands == {"none", "login"} \cup CleanupCommands \cup TaskCommands

VARIABLES
  \* the server
    arrived,      \* every message it has ever held
    present,      \* the messages in its mailboxes
    deleted,      \* those that carry the \Deleted flag
    abandoned,    \* history: given up by other sessions
    validity,     \* the UIDVALIDITY of each mailbox
    uidplus,      \* does it have the UIDPLUS extension?
    selected,     \* the mailbox the client has selected
    ours,         \* history: messages flagged \Deleted by the client's STORE
    collateral,   \* history: removed by the client's EXPUNGE, but not ours
  \* the disk
    delivered,    \* messages moved to new/ or cur/ of the maildir
    journal,      \* the journal file
  \* the memory of the running program
    proc,         \* "down", "up" or "exiting" (in ~Client)
    opt,          \* opts_
    uids,         \* uids_
    uidvalidity,  \* uidvalidity_
    mailbox,      \* mailbox_
    needCleanup,  \* need_cleanup_
    hasUidplus,   \* UIDPLUS is in capabilities_
    state,        \* state_
    exists,       \* exists_ # 0
    lastUid,      \* last_uid_
    fullBody,     \* full_body_
    signaled,     \* signaled_
    fetched,      \* history: messages completely fetched by downloads that
                  \* are to delete them, unless a crash has come between
    learned,      \* history: messages whose UID a FETCH response has told
  \* the dialogue: the one command outstanding and its answer
    cmd,          \* the command (its continuation is what tag_to_fn_ holds)
    arg,          \* the UIDs it names
    srv,          \* "idle", "sent", "answering" or "lost"
    todo,         \* messages the answer has still to list
    cur,          \* the message the parser is in the middle of
    rest,         \* the parts of cur (or of SELECT's answer) still to come
  \* the event loop
    conn,         \* "open" or "closed"
    rd,           \* the read operation, see Reading below
    faults        \* how much of MaxFaults is used up

mailVars == <<arrived, present, deleted, abandoned, validity>>
histVars == <<ours, collateral>>
noteVars == <<fetched, learned>>
diskVars == <<delivered, journal>>
jobVars  == <<uids, uidvalidity, mailbox, needCleanup, hasUidplus, exists>>
itemVars == <<lastUid, fullBody>>
wireVars == <<cmd, arg, srv, todo, cur, rest>>
vars == <<arrived, present, deleted, abandoned, validity, uidplus, selected,
          ours, collateral, delivered, journal, proc, opt, uids, uidvalidity,
          mailbox, needCleanup, hasUidplus, state, exists, lastUid, fullBody,
          signaled, fetched, learned, cmd, arg, srv, todo, cur, rest, conn, rd,
          faults>>

ServerAnswers ==
    {"uid", "section", "section_end", "exists", "uidvalidity", "capability"}

\* off: no read; armed: waiting for input; ready: a completed read is in the
\* loop's queue; parsing: its handler is running; eof, aborted: a failed
\* read is in the queue.
Reading == {"off", "armed", "ready", "parsing", "eof", "aborted"}

FlagsOK ==
    /\ uidplus \in BOOLEAN
    /\ needCleanup \in BOOLEAN
    /\ hasUidplus \in BOOLEAN
    /\ exists \in BOOLEAN
    /\ fullBody \in BOOLEAN
    /\ signaled \in BOOLEAN

\* The type invariant.  Beyond the types: a running client has a mailbox and
\* options, and 0, which last_uid_ holds before a UID is seen, is never noted
\* as a UID.
TypeOK ==
    /\ FlagsOK
    /\ arrived \in SUBSET Messages
    /\ present \in SUBSET arrived
    /\ deleted \in SUBSET present
    /\ abandoned \in SUBSET Messages
    /\ validity \in [Mailboxes -> Validities]
    /\ selected \in Mailboxes \cup {NoMailbox}
    /\ ours \in SUBSET Messages
    /\ collateral \in SUBSET Messages
    /\ delivered \in SUBSET Messages
    /\ journal \in Journals \cup {NoJournal, Torn}
    /\ proc \in {"down", "up", "exiting"}
    /\ opt \in Options \cup {NoOption}
    /\ proc # "down" => opt \in Options
    /\ uids \in SUBSET UIDs
    /\ uidvalidity \in Validities \cup {0}
    /\ mailbox \in Mailboxes \cup {NoMailbox}
    /\ proc # "down" => mailbox \in Mailboxes
    /\ state \in {"DISCONNECTED", "FETCHING", "LOGGED_OUT"}
    /\ lastUid \in UIDs \cup {NoUid}
    /\ fetched \in SUBSET Messages
    /\ learned \in SUBSET Messages
    /\ cmd \in Commands
    /\ arg \in SUBSET UIDs
    /\ srv \in {"idle", "sent", "answering", "lost"}
    /\ todo \in SUBSET UIDs
    /\ cur \in UIDs \cup {NoUid}
    /\ rest \in SUBSET ServerAnswers
    /\ conn \in {"open", "closed"}
    /\ rd \in Reading
    /\ faults \in 0..MaxFaults
-----------------------------------------------------------------------------
\* The message with UID u of the selected mailbox, and all of them.
Name(u) == <<selected, validity[selected], u>>
Here == {u \in UIDs : Name(u) \in present}

\* The messages the client's memory, or the journal, has down for removal.
Remembered == {<<mailbox, uidvalidity, u>> : u \in uids}
Journaled ==
    IF journal \in {NoJournal, Torn} THEN {}
    ELSE {<<journal.mailbox, journal.uidvalidity, u>> : u \in journal.uids}

\* The program's memory and its connection when it does not run.
Gone ==
    /\ proc' = "down" /\ opt' = NoOption
    /\ uids' = {} /\ uidvalidity' = 0 /\ mailbox' = NoMailbox
    /\ needCleanup' = FALSE /\ hasUidplus' = FALSE
    /\ state' = "DISCONNECTED" /\ exists' = FALSE
    /\ lastUid' = NoUid /\ fullBody' = FALSE /\ signaled' = FALSE
    /\ cmd' = "none" /\ arg' = {} /\ srv' = "idle"
    /\ todo' = {} /\ cur' = NoUid /\ rest' = {}
    /\ selected' = NoMailbox /\ conn' = "closed" /\ rd' = "off"

Init ==
    /\ validity \in [Mailboxes -> Validities]
    /\ arrived \in SUBSET {<<m, validity[m], u>> : m \in Mailboxes, u \in UIDs}
    /\ present = arrived
    /\ deleted = {} /\ abandoned = {} /\ ours = {} /\ collateral = {}
    /\ uidplus \in BOOLEAN
    /\ selected = NoMailbox
    /\ delivered = {} /\ journal = NoJournal
    /\ fetched = {} /\ learned = {}
    /\ proc = "down" /\ opt = NoOption
    /\ uids = {} /\ uidvalidity = 0 /\ mailbox = NoMailbox
    /\ needCleanup = FALSE /\ hasUidplus = FALSE
    /\ state = "DISCONNECTED" /\ exists = FALSE
    /\ lastUid = NoUid /\ fullBody = FALSE /\ signaled = FALSE
    /\ cmd = "none" /\ arg = {} /\ srv = "idle"
    /\ todo = {} /\ cur = NoUid /\ rest = {}
    /\ conn = "closed" /\ rd = "off"
    /\ faults = 0

Fault ==
    /\ faults < MaxFaults
    /\ faults' = faults + 1
-----------------------------------------------------------------------------
(***************************************************************************)
(* The program starts and ends.                                            *)
(***************************************************************************)

\* Mutant: the journal file is not removed.
read_journal_keeps_file(o) ==
    /\ uids' = journal.uids /\ uidvalidity' = journal.uidvalidity
    /\ mailbox' = IF journal = NoJournal THEN o.mailbox ELSE journal.mailbox
    /\ needCleanup' = (journal # NoJournal)
    /\ UNCHANGED journal

\* read_journal(): the journal, if there is one, is taken over into memory
\* and its file removed.
read_journal(o) ==
    /\ uids' = journal.uids /\ uidvalidity' = journal.uidvalidity
    /\ mailbox' = IF journal = NoJournal THEN o.mailbox ELSE journal.mailbox
    /\ needCleanup' = (journal # NoJournal)
    /\ journal' = NoJournal

\* Client::Client().  A damaged journal makes the constructor throw, so such a
\* run does not start.
Start(o) ==
    /\ proc = "down"
    /\ journal # Torn
    /\ proc' = "up" /\ opt' = o
    /\ read_journal(o)
    /\ conn' = "open" /\ rd' = "armed"
    /\ cmd' = "login" /\ arg' = {} /\ srv' = "sent"
    /\ UNCHANGED <<mailVars, uidplus, selected, histVars, delivered, hasUidplus,
                   state, exists, itemVars, signaled, noteVars, todo, cur, rest,
                   faults>>

\* io_service::run() is left, by an exception or because it returns: nothing
\* but the destructor of the client runs from here on.
LeaveLoop ==
    /\ proc' = "exiting"
    /\ UNCHANGED <<mailVars, uidplus, selected, histVars, diskVars, opt,
                   jobVars, state, itemVars, signaled, noteVars, wireVars,
                   conn, rd>>

\* Mutant: a client that has logged out has nothing to write.
write_journal_unless_logged_out ==
    journal' = IF uids = {} \/ ~opt.del \/ state = "LOGGED_OUT" THEN journal
               ELSE [mailbox |-> opt.mailbox, uidvalidity |-> uidvalidity,
                     uids |-> uids]

\* write_journal(): the file names opts_.mailbox, not the mailbox the UIDs
\* belong to.
write_journal ==
    journal' = IF uids = {} \/ ~opt.del THEN journal
               ELSE [mailbox |-> opt.mailbox, uidvalidity |-> uidvalidity,
                     uids |-> uids]

\* Client::~Client().
Destroy ==
    /\ proc = "exiting"
    /\ write_journal
    /\ Gone
    /\ UNCHANGED <<mailVars, uidplus, histVars, noteVars, delivered, faults>>

\* The process is killed, or the machine fails, at any point.
Crash ==
    /\ proc # "down"
    /\ Fault
    /\ fetched' = {}
    /\ Gone
    /\ UNCHANGED <<mailVars, uidplus, histVars, learned, diskVars>>

\* ... or it fails while Journal::write() is at work: what is left of the
\* file is unreadable, or reads as an archive whose last interval is cut
\* short.
CrashInWrite(left) ==
    /\ proc = "exiting"
    /\ uids # {} /\ opt.del
    /\ Fault
    /\ \/ journal' = Torn
       \/ /\ left \subseteq uids
          /\ journal' = [mailbox |-> opt.mailbox, uidvalidity |-> uidvalidity,
                         uids |-> left]
    /\ fetched' = {}
    /\ Gone
    /\ UNCHANGED <<mailVars, uidplus, histVars, learned, delivered>>

\* Somebody removes the damaged file by hand.
RemoveTorn ==
    /\ journal = Torn
    /\ journal' = NoJournal
    /\ UNCHANGED <<mailVars, uidplus, selected, histVars, delivered, proc, opt,
                   jobVars, state, itemVars, signaled, noteVars, wireVars,
                   conn, rd, faults>>
-----------------------------------------------------------------------------
(***************************************************************************)
(* The event loop: reads and signals.                                      *)
(***************************************************************************)

\* do_read() at the end of the read handler: no new read once logged out, a
\* read that fails at once if the socket has been closed meanwhile.
Rearm(s) ==
    IF s = "LOGGED_OUT" THEN "off"
    ELSE IF conn = "open" THEN "armed" ELSE "aborted"

\* The read handler is running: some callback may be called next ...
InHandler == proc = "up" /\ rd \in {"ready", "parsing"}

\* ... after which the chunk goes on, or ends.
More(s) == rd' \in {"parsing", Rearm(s)}

loopRest == <<mailVars, uidplus, selected, histVars, diskVars, opt, jobVars,
              itemVars, noteVars, wireVars>>

\* Bytes of the answer reach the client; the read's completion is queued.
InputArrives ==
    /\ proc = "up" /\ conn = "open"
    /\ rd = "armed" /\ srv = "answering"
    /\ rd' = "ready"
    /\ UNCHANGED <<loopRest, proc, state, signaled, conn, faults>>

\* The connection breaks or the server hangs up.
ConnectionLost ==
    /\ proc = "up" /\ conn = "open" /\ rd = "armed"
    /\ Fault
    /\ conn' = "closed" /\ rd' = "eof"
    /\ UNCHANGED <<loopRest, proc, state, signaled>>

\* The read handler is called with an error: ignored if it is the end of the
\* stream after logging out, otherwise thrown.
do_read_eof ==
    /\ proc = "up" /\ rd = "eof"
    /\ state = "LOGGED_OUT"
    /\ rd' = "off"
    /\ UNCHANGED <<loopRest, proc, state, signaled, conn, faults>>

do_read_error ==
    /\ proc = "up" /\ rd \in {"eof", "aborted"}
    /\ state = "LOGGED_OUT" => rd = "aborted"
    /\ LeaveLoop
    /\ UNCHANGED faults

\* Mutant: the pending read is not cancelled.
do_quit_without_cancel(r) ==
    /\ state' = "LOGGED_OUT"
    /\ conn' = "closed"
    /\ rd' = IF r = "aborted" THEN "armed" ELSE r

\* Mutant: the connection is not shut down.
do_quit_without_finish(r) ==
    /\ state' = "LOGGED_OUT"
    /\ conn' = conn
    /\ rd' = r

\* Application::async_finish(): cancels the read that waits for input, but not
\* a completion that is already in the queue, and shuts the connection down.
async_finish(r) ==
    /\ conn' = "closed"
    /\ rd' = r

do_quit(r) ==
    /\ state' = "LOGGED_OUT"
    /\ async_finish(r)

\* The signal handler, first signal.
do_signal ==
    /\ proc = "up" /\ ~signaled
    /\ rd # "parsing"
    /\ rd \in {"ready", "eof"} => QueuedReads
    /\ Fault
    /\ signaled' = TRUE
    /\ do_quit(IF rd = "armed" THEN "aborted" ELSE rd)
    /\ UNCHANGED <<loopRest, proc>>

\* The signal handler, second signal: an exception.
do_signal_again ==
    /\ proc = "up" /\ signaled
    /\ rd # "parsing"
    /\ Fault
    /\ LeaveLoop

\* fetch_timer_ is started before FETCH is sent and stopped when FETCH is
\* answered, and by nothing else.
FetchTimerRuns == cmd = "fetch" /\ opt.task = "DOWNLOAD"

\* Its handler prints some numbers and waits again: a pending operation that
\* never ends by itself.
resume ==
    /\ proc = "up" /\ FetchTimerRuns
    /\ rd # "parsing"
    /\ UNCHANGED vars

\* io_service::run() returns when no operation is left.
RunReturns ==
    /\ proc = "up" /\ conn = "closed" /\ rd = "off"
    /\ ~FetchTimerRuns
    /\ LeaveLoop
    /\ UNCHANGED faults
-----------------------------------------------------------------------------
(***************************************************************************)
(* The parser's callbacks, called from the read handler.                   *)
(***************************************************************************)
callRest == <<mailVars, uidplus, selected, histVars, journal, proc, opt,
              mailbox, needCleanup, hasUidplus, state, signaled, cmd, arg, srv,
              conn, faults>>
listRest == <<mailVars, uidplus, selected, histVars, diskVars, proc, opt, uids,
              uidvalidity, mailbox, needCleanup, state, exists, itemVars,
              signaled, noteVars, cmd, arg, srv, todo, cur, conn, faults>>

\* The capability list that comes with LOGIN's answer, or with that of the
\* CAPABILITY command that follows: do_post_login() waits for one of them.
imap_capability ==
    /\ InHandler /\ srv = "answering" /\ "capability" \in rest
    /\ hasUidplus' = uidplus
    /\ rest' = rest \ {"capability"}
    /\ More(state)
    /\ UNCHANGED listRest

\* The first letter of a response code is C: the parser takes it for the begin
\* of a capability list, and capabilities_ is cleared.  No end will come.  A
\* timer that ends inside the greeting's list can have the same effect.
imap_status_code_capability_begin ==
    /\ StrayCodes
    /\ InHandler /\ srv = "answering" /\ cur = NoUid
    /\ hasUidplus' = FALSE
    /\ More(state)
    /\ UNCHANGED <<listRest, rest>>

\* "* n EXISTS", n being counted when the server executed SELECT.
imap_data_exists ==
    /\ InHandler /\ srv = "answering" /\ "exists" \in rest
    /\ exists' = (todo # {})
    /\ todo' = {}
    /\ rest' = rest \ {"exists"}
    /\ More(state)
    /\ UNCHANGED <<callRest, delivered, uids, uidvalidity, itemVars, noteVars,
                   cur>>

\* Mutant: UIDs of another validity are kept.
imap_status_code_uidvalidity_keeps ==
    /\ InHandler /\ srv = "answering" /\ "uidvalidity" \in rest
    /\ uids' = uids
    /\ uidvalidity' = validity[selected]
    /\ rest' = rest \ {"uidvalidity"}
    /\ More(state)
    /\ UNCHANGED <<callRest, delivered, exists, itemVars, noteVars, todo, cur>>

\* Mutant: only the first UIDVALIDITY counts.
imap_status_code_uidvalidity_once ==
    /\ InHandler /\ srv = "answering" /\ "uidvalidity" \in rest
    /\ uids' = uids
    /\ uidvalidity' = IF uidvalidity = 0 THEN validity[selected] ELSE uidvalidity
    /\ rest' = rest \ {"uidvalidity"}
    /\ More(state)
    /\ UNCHANGED <<callRest, delivered, exists, itemVars, noteVars, todo, cur>>

\* "* OK [UIDVALIDITY n]": UIDs of another validity are worthless.
imap_status_code_uidvalidity ==
    /\ InHandler /\ srv = "answering" /\ "uidvalidity" \in rest
    /\ uids' = IF uidvalidity # validity[selected] THEN {} ELSE uids
    /\ uidvalidity' = validity[selected]
    /\ rest' = rest \ {"uidvalidity"}
    /\ More(state)
    /\ UNCHANGED <<callRest, delivered, exists, itemVars, noteVars, todo, cur>>

\* "* n FETCH (": parts is what the server is going to send about message u.
fetch_begin(u, parts) ==
    /\ cur' = u
    /\ rest' = parts
    /\ lastUid' = IF state = "FETCHING" THEN NoUid ELSE lastUid
    /\ More(state)
    /\ UNCHANGED <<callRest, delivered, uids, uidvalidity, exists, fullBody,
                   noteVars>>

imap_data_fetch_begin(u) ==
    /\ InHandler /\ srv = "answering" /\ cur = NoUid
    /\ cmd = "fetch" /\ u \in todo
    /\ todo' = todo \ {u}
    /\ fetch_begin(u, {"uid", "section"})

\* A FETCH response that tells of a flag another session has changed.
imap_data_fetch_begin_unsolicited(u, parts) ==
    /\ Unsolicited
    /\ InHandler /\ srv = "answering" /\ cur = NoUid
    /\ cmd \in {"c_store", "c_expunge", "fetch", "store", "expunge"}
    /\ u \in Here /\ parts \in {{}, {"uid"}}
    /\ UNCHANGED todo
    /\ fetch_begin(u, parts)

\* opts_.simulate_error makes the callback throw instead.
simulate_error ==
    /\ InHandler /\ srv = "answering" /\ cur = NoUid
    /\ cmd = "fetch" /\ todo # {} /\ state = "FETCHING"
    /\ Fault
    /\ LeaveLoop

\* Mutant: the UID is noted as soon as it is seen.
imap_uid_pushes ==
    /\ InHandler /\ cur # NoUid /\ "uid" \in rest
    /\ lastUid' = IF state = "FETCHING" THEN cur ELSE lastUid
    /\ uids' = uids \cup {cur}
    /\ learned' = learned \cup {Name(cur)}
    /\ rest' = rest \ {"uid"}
    /\ More(state)
    /\ UNCHANGED <<callRest, delivered, uidvalidity, exists, fullBody,
                   fetched, todo, cur>>

imap_uid ==
    /\ InHandler /\ cur # NoUid /\ "uid" \in rest
    /\ lastUid' = IF state = "FETCHING" THEN cur ELSE lastUid
    /\ learned' = learned \cup {Name(cur)}
    /\ rest' = rest \ {"uid"}
    /\ More(state)
    /\ UNCHANGED <<callRest, delivered, uids, uidvalidity, exists, fullBody,
                   fetched, todo, cur>>

\* A body section begins.  A download asks for the whole message, BODY[],
\* which is what sets full_body_ and opens a file in tmp/ (imap_section_empty,
\* imap_body_section_inner); the header task asks for BODY[HEADER.FIELDS].
imap_body_section_inner ==
    /\ InHandler /\ "section" \in rest
    /\ fullBody' = (fullBody \/ (state = "FETCHING" /\ opt.task = "DOWNLOAD"))
    /\ rest' = (rest \ {"section"}) \cup {"section_end"}
    /\ More(state)
    /\ UNCHANGED <<callRest, delivered, uids, uidvalidity, exists, lastUid,
                   noteVars, todo, cur>>

\* Mutant: the file stays in tmp/.
imap_body_section_end_without_move ==
    /\ InHandler /\ "section_end" \in rest
    /\ IF state = "FETCHING" /\ fullBody
       THEN /\ delivered' = delivered
            /\ fullBody' = FALSE
       ELSE UNCHANGED <<delivered, fullBody>>
    /\ rest' = rest \ {"section_end"}
    /\ More(state)
    /\ UNCHANGED <<callRest, uids, uidvalidity, exists, lastUid, noteVars, todo,
                   cur>>

\* The end of the section: the file is moved to new/ or cur/, or a header is
\* printed.
imap_body_section_end ==
    /\ InHandler /\ "section_end" \in rest
    /\ IF state = "FETCHING" /\ fullBody
       THEN /\ delivered' = delivered \cup {Name(cur)}
            /\ fullBody' = FALSE
       ELSE UNCHANGED <<delivered, fullBody>>
    /\ rest' = rest \ {"section_end"}
    /\ More(state)
    /\ UNCHANGED <<callRest, uids, uidvalidity, exists, lastUid, noteVars, todo,
                   cur>>

\* Mutant: a missing UID is not noticed.
imap_data_fetch_end_unchecked ==
    /\ InHandler /\ cur # NoUid /\ rest = {}
    /\ uids' = uids \cup {lastUid}
    /\ fetched' = IF /\ opt.del /\ opt.task = "DOWNLOAD" /\ cmd = "fetch"
                     /\ lastUid = cur /\ Name(cur) \in delivered
                  THEN fetched \cup {Name(cur)} ELSE fetched
    /\ cur' = NoUid
    /\ More(state)
    /\ UNCHANGED <<callRest, delivered, uidvalidity, exists, itemVars, learned,
                   todo, rest>>

\* ")" of the FETCH response: the UID is noted, whatever came with it.
imap_data_fetch_end ==
    /\ InHandler /\ cur # NoUid /\ rest = {}
    /\ lastUid # NoUid
    /\ uids' = uids \cup {lastUid}
    /\ fetched' = IF /\ opt.del /\ opt.task = "DOWNLOAD" /\ cmd = "fetch"
                     /\ lastUid = cur /\ Name(cur) \in delivered
                  THEN fetched \cup {Name(cur)} ELSE fetched
    /\ cur' = NoUid
    /\ More(state)
    /\ UNCHANGED <<callRest, delivered, uidvalidity, exists, itemVars, learned,
                   todo, rest>>

imap_data_fetch_end_without_uid ==
    /\ InHandler /\ cur # NoUid /\ rest = {}
    /\ lastUid = NoUid
    /\ LeaveLoop
    /\ UNCHANGED faults
-----------------------------------------------------------------------------
(***************************************************************************)
(* imap_tagged_status_end(): the answer to a command is complete, and its  *)
(* continuation sends the next command.                                    *)
(***************************************************************************)

\* The tagged line for command c is next in the input.
Tagged(c) ==
    /\ InHandler /\ cmd = c /\ srv = "answering"
    /\ todo = {} /\ cur = NoUid /\ rest = {}

\* A command is written to the socket.  The end of the chunk is reached: the
\* answer to this command cannot be in it.
Send(c, set, s) ==
    /\ cmd' = c /\ arg' = set
    /\ srv' = IF conn = "open" THEN "sent" ELSE "lost"
    /\ state' = s
    /\ rd' = Rearm(s)
    /\ UNCHANGED <<mailVars, uidplus, selected, histVars, diskVars, proc, opt,
                   needCleanup, hasUidplus, uidvalidity, exists, itemVars,
                   signaled, noteVars, todo, cur, rest, conn, faults>>

\* Writer::write_sequence_set() throws a logic_error for an empty set.
async_store(c) ==
    /\ uids # {}
    /\ Send(c, uids, state)
    /\ UNCHANGED <<uids, mailbox>>

\* Mutant: UIDPLUS is not used.
simple_expunge(c) ==
    /\ Send(c, {}, state)
    /\ UNCHANGED <<uids, mailbox>>

async_uid_or_simple_expunge(c) ==
    /\ hasUidplus => uids # {}
    /\ Send(c, IF hasUidplus THEN uids ELSE {}, state)
    /\ UNCHANGED <<uids, mailbox>>

async_logout ==
    /\ uids' = {}
    /\ Send("logout", {}, state)
    /\ UNCHANGED mailbox

\* do_task(): each task starts by selecting mailbox_.
do_task == Send("select", {}, state)

do_post_login ==
    /\ Tagged("login")
    /\ UNCHANGED <<uids, mailbox>>
    /\ \/ needCleanup /\ Send("c_select", {}, state)
       \/ ~needCleanup /\ do_task

\* async_cleanup(): store_fn, expunge_fn, finish_fn.
cleanup_store == Tagged("c_select") /\ async_store("c_store")
cleanup_expunge == Tagged("c_store") /\ async_uid_or_simple_expunge("c_expunge")
cleanup_finish ==
    /\ Tagged("c_expunge")
    /\ uids' = {}
    /\ mailbox' = opt.mailbox
    /\ do_task

\* do_download(), do_fetch_header(), do_list(): after SELECT ...
async_fetch ==
    /\ Send("fetch", {}, "FETCHING")
    /\ UNCHANGED <<uids, mailbox>>

task_selected ==
    /\ Tagged("select")
    /\ \/ opt.task = "DOWNLOAD" /\ exists /\ async_fetch
       \/ opt.task = "DOWNLOAD" /\ ~exists /\ async_logout
       \/ opt.task = "FETCH_HEADER" /\ async_fetch
       \/ opt.task = "LIST" /\ Send("list", {}, state) /\ UNCHANGED <<uids, mailbox>>

\* ... after FETCH ...
task_fetched ==
    /\ Tagged("fetch")
    /\ \/ opt.task = "DOWNLOAD" /\ opt.del /\ async_store("store")
       \/ opt.task = "DOWNLOAD" /\ ~opt.del /\ async_logout
       \/ opt.task = "FETCH_HEADER" /\ async_logout

\* ... and after STORE, EXPUNGE and LIST.
task_stored == Tagged("store") /\ async_uid_or_simple_expunge("expunge")
task_expunged == Tagged("expunge") /\ async_logout
task_listed == Tagged("list") /\ async_logout

task_logged_out ==
    /\ Tagged("logout")
    /\ do_quit("off")
    /\ UNCHANGED <<loopRest, proc, signaled, faults>>

\* The continuation needs a sequence set and there is nothing to put in it.
NeedsSequence ==
    \/ Tagged("c_select")
    \/ Tagged("fetch") /\ opt.task = "DOWNLOAD" /\ opt.del
    \/ hasUidplus /\ (Tagged("c_store") \/ Tagged("store"))

empty_sequence ==
    /\ NeedsSequence
    /\ uids = {}
    /\ LeaveLoop
    /\ UNCHANGED faults

\* The server answers NO or BAD.
imap_tagged_status_failed ==
    /\ InHandler /\ srv = "answering" /\ cur = NoUid
    /\ Fault
    /\ LeaveLoop
-----------------------------------------------------------------------------
(***************************************************************************)
(* The server (external): it executes the command it has been sent, even   *)
(* if the client has closed the connection in the meantime.                *)
(***************************************************************************)
serverRest == <<arrived, abandoned, validity, uidplus, diskVars, proc, opt,
                jobVars, state, itemVars, signaled, noteVars, cmd, arg, cur,
                conn, rd, faults>>

Execute(cs) ==
    /\ proc # "down" /\ srv = "sent" /\ cmd \in cs
    /\ srv' = "answering"
    /\ UNCHANGED serverRest

ServerSelect ==
    /\ Execute({"c_select", "select"})
    /\ selected' = mailbox
    /\ todo' = {u \in UIDs : <<mailbox, validity[mailbox], u>> \in present}
    /\ rest' = {"exists", "uidvalidity"}
    /\ UNCHANGED <<present, deleted, histVars>>

ServerFetch ==
    /\ Execute({"fetch"})
    /\ todo' = Here
    /\ UNCHANGED <<present, deleted, selected, histVars, rest>>

\* UID STORE: the messages that still exist get the flag.
ServerStore ==
    /\ Execute({"c_store", "store"})
    /\ LET hit == {Name(u) : u \in arg \cap Here}
       IN  /\ deleted' = deleted \cup hit
           /\ ours' = ours \cup hit
    /\ UNCHANGED <<present, selected, collateral, todo, rest>>

\* UID EXPUNGE removes those of the named messages that are flagged, EXPUNGE
\* (which names none) all that are flagged in the mailbox.
ServerExpunge ==
    /\ Execute({"c_expunge", "expunge"})
    /\ LET hit == {Name(u) : u \in IF arg # {} THEN arg ELSE Here} \cap deleted
       IN  /\ present' = present \ hit
           /\ deleted' = deleted \ hit
           /\ collateral' = collateral \cup (hit \ ours)
    /\ UNCHANGED <<selected, ours, todo, rest>>

ServerLogin ==
    /\ Execute({"login"})
    /\ rest' = {"capability"}
    /\ UNCHANGED <<present, deleted, selected, histVars, todo>>

ServerOther ==
    /\ Execute({"list", "logout"})
    /\ UNCHANGED <<present, deleted, selected, histVars, todo, rest>>

(***************************************************************************)
(* Other sessions and mail delivery (external).                            *)
(***************************************************************************)
clientVars == <<uidplus, selected, histVars, diskVars, proc, opt, jobVars,
                state, itemVars, signaled, noteVars, wireVars, conn, rd>>

Arrive(m, u) ==
    /\ <<m, validity[m], u>> \notin arrived
    /\ arrived' = arrived \cup {<<m, validity[m], u>>}
    /\ present' = present \cup {<<m, validity[m], u>>}
    /\ UNCHANGED <<deleted, abandoned, validity, clientVars, faults>>

OtherDeletes(x) ==
    /\ x \in present \ deleted
    /\ Fault
    /\ deleted' = deleted \cup {x}
    /\ abandoned' = abandoned \cup {x}
    /\ UNCHANGED <<arrived, present, validity, clientVars>>

OtherExpunges(m) ==
    /\ Fault
    /\ LET gone == {x \in deleted : x[1] = m}
       IN  /\ gone # {}
           /\ present' = present \ gone
           /\ deleted' = deleted \ gone
           /\ abandoned' = abandoned \cup (gone \ ours)
    /\ UNCHANGED <<arrived, validity, clientVars>>

\* The UIDVALIDITY of a mailbox changes, and with it the name of each of its
\* messages.  Not while the mailbox is selected.
Renumber(m, v) ==
    /\ m # selected
    /\ v > validity[m]
    /\ Fault
    /\ LET old == {x \in present : x[1] = m}
           new == {<<m, v, x[3]>> : x \in old}
       IN  /\ new \cap arrived = {}
           /\ arrived' = arrived \cup new
           /\ present' = (present \ old) \cup new
           /\ deleted' = deleted \ old
           /\ abandoned' = abandoned \cup old
    /\ validity' = [validity EXCEPT ![m] = v]
    /\ UNCHANGED clientVars
-----------------------------------------------------------------------------
Serve ==
    \/ ServerLogin \/ ServerSelect \/ ServerFetch \/ ServerStore
    \/ ServerExpunge \/ ServerOther

Callback ==
    \/ imap_capability
    \/ imap_data_exists
    \/ imap_status_code_uidvalidity
    \/ \E u \in UIDs : imap_data_fetch_begin(u)
    \/ imap_uid
    \/ imap_body_section_inner
    \/ imap_body_section_end
    \/ imap_data_fetch_end
    \/ imap_data_fetch_end_without_uid

Continue ==
    \/ do_post_login
    \/ cleanup_store \/ cleanup_expunge \/ cleanup_finish
    \/ task_selected \/ task_fetched \/ task_stored
    \/ task_expunged \/ task_listed \/ task_logged_out
    \/ empty_sequence

\* What the program and a responsive server do by themselves.
Progress ==
    \/ Callback \/ Continue \/ Serve
    \/ InputArrives \/ do_read_eof \/ do_read_error \/ RunReturns \/ Destroy

Mishap ==
    \/ Crash
    \/ \E left \in SUBSET UIDs : CrashInWrite(left)
    \/ ConnectionLost
    \/ do_signal \/ do_signal_again
    \/ simulate_error
    \/ imap_tagged_status_failed
    \/ imap_status_code_capability_begin
    \/ \E u \in UIDs, parts \in SUBSET {"uid"} :
           imap_data_fetch_begin_unsolicited(u, parts)

Others ==
    \/ \E m \in Mailboxes, u \in UIDs : Arrive(m, u)
    \/ \E x \in present : OtherDeletes(x)
    \/ \E m \in Mailboxes : OtherExpunges(m)
    \/ \E m \in Mailboxes, v \in Validities : Renumber(m, v)

StartAny == \E o \in Options : Start(o)

Next == StartAny \/ Progress \/ resume \/ Mishap \/ Others \/ RemoveTorn

Spec == Init /\ [][Next]_vars

\* The loop runs handlers that are ready and the server answers; the program
\* is started again and again.
Fairness == WF_vars(Progress) /\ WF_vars(StartAny) /\ WF_vars(RemoveTorn)
FairSpec == Spec /\ Fairness
-----------------------------------------------------------------------------
(***************************************************************************)
(* Properties.                                                             *)
(***************************************************************************)

\* The runs that delete all use the same mailbox: the journal names the mailbox
\* of the run that writes it, not the one its UIDs belong to.
OneMailbox == \A o, p \in Options : o.del /\ p.del => o.mailbox = p.mailbox

\* All runs delete, in the same mailbox: a run that does not delete takes the
\* journal over but never writes one.
DeletingRuns == OneMailbox /\ \A o \in Options : o.del

\* The conditions under which the client keeps its promises.  No completed
\* read waits in the loop while a signal is handled; the server reports no
\* flag changes of other sessions; the header task is not run with the
\* delete option; and the runs that delete all use the same mailbox.
CautiousUse ==
    /\ ~QueuedReads
    /\ ~Unsolicited
    /\ \A o \in Options : o.del => o.task # "FETCH_HEADER"
    /\ OneMailbox

\* No mail is lost: a message that is no longer on the server has been
\* delivered to the maildir, or another session has given it up.  This is
\* what removing messages "if they are successfully transferred" has to mean
\* over crashes, signals, lost connections and restarts.
NoLoss == arrived \subseteq present \cup delivered \cup abandoned

\* The journal that write_journal() leaves names only messages that have been
\* completely fetched and delivered: the next run removes what it names.
JournalNamesDelivered == Journaled \subseteq delivered

\* The UIDs of messages completely fetched by a download that is to delete are
\* kept, in uids_ while the program runs and in the journal between runs, until
\* the messages are off the server (unless the process is killed).  This is so of
\* DeletingRuns: a run without the delete option forgets what it was to clean up.
FetchedAreTracked ==
    fetched \cap present \subseteq IF proc = "down" THEN Journaled
                                   ELSE Remembered

\* With UIDPLUS the client never removes a message that only another session
\* has flagged \Deleted, unless status codes that begin with C make it forget that
\* the server has UIDPLUS (StrayCodes).
UidplusSparesOthers == uidplus => collateral = {}

\* UIDs are sent only to the mailbox they were learned from, under the
\* UIDVALIDITY they were learned with: each UID that UID STORE or UID EXPUNGE
\* names is one that the server has told of the mailbox selected now, under
\* its present UIDVALIDITY, in this run or in one before.  A journal is never
\* applied to another mailbox or to one renumbered since.
UidsMatchSelected ==
    cmd \in {"c_store", "c_expunge", "store", "expunge"} /\ srv = "sent" =>
        \A u \in arg : Name(u) \in learned

\* Every run comes to an end: no handler waits for an event that cannot come.
RunEnds == proc # "down" ~> proc = "down"

\* A message in a mailbox is downloaded and removed in the end, however often
\* the first runs are interrupted, if all runs are to delete.
EventuallyRemoved == \A x \in Messages : x \in present ~> x \notin present

Abstract == INSTANCE Transfer WITH saved <- delivered

\* The client implements the transfer of messages: each of its steps, and each
\* crash, is one that Transfer allows, or changes nothing Transfer speaks of.
Implements == Abstract!Spec
-----------------------------------------------------------------------------
(***************************************************************************)
(* Why the properties hold: the inductive invariants.                      *)
(***************************************************************************)
OnMessages == {"c_store", "c_expunge", "fetch", "store", "expunge"}

\* Where the parser is in an answer, and what is known about the selected
\* mailbox then.  Holds for every use.
DialogueInv ==
    /\ rest \cap {"exists", "uidvalidity"} # {} =>
           cmd \in {"c_select", "select"} /\ srv = "answering"
    /\ "capability" \in rest => cmd = "login" /\ srv = "answering"
    /\ rest \cap {"uid", "section", "section_end"} # {} => cur # NoUid
    /\ cur # NoUid => cmd \in OnMessages
    /\ cmd \in OnMessages => /\ selected = mailbox
                             /\ uidvalidity = validity[mailbox]
    /\ cmd \in {"c_select", "select"} /\ srv = "answering" =>
           /\ selected = mailbox
           /\ "uidvalidity" \in rest \/ uidvalidity = validity[mailbox]
    /\ proc = "down" => cmd = "none" /\ selected = NoMailbox

\* Which messages the client may have removed, and why it has them.
CleaningUp == cmd \in {"login"} \cup CleanupCommands

JournalTrust ==
    /\ Journaled \subseteq delivered
    /\ journal \in Journals =>
           \E o \in Options : o.del /\ o.mailbox = journal.mailbox

MemoryTrust ==
    /\ proc # "down" /\ (opt.del \/ CleaningUp) => Remembered \subseteq delivered
    /\ proc # "down" /\ opt.del => mailbox = opt.mailbox
    /\ cmd \in {"store", "expunge"} => opt.del
    /\ cmd \in {"c_store", "store"} => arg \subseteq uids

FlagTrust ==
    /\ ours \subseteq delivered
    /\ deleted \subseteq delivered \cup abandoned

TrustInv == JournalTrust /\ MemoryTrust /\ FlagTrust

\* What is known about the message the parser is in the middle of.
FetchInv ==
    /\ proc = "down" => state = "DISCONNECTED"
    /\ state = "LOGGED_OUT" => rd \notin {"armed", "ready", "parsing"}
    /\ cmd = "fetch" => state # "DISCONNECTED" /\ opt.task # "LIST"
    /\ cur # NoUid => cmd = "fetch"
    /\ cur # NoUid /\ opt.task = "DOWNLOAD" /\ state = "FETCHING" =>
           /\ "uid" \in rest \/ lastUid = cur
           /\ "section_end" \in rest => fullBody
           /\ rest \cap {"section", "section_end"} # {} \/ Name(cur) \in delivered

\* The inductive invariant: whatever is noted, journaled or flagged for
\* removal by this client is in the maildir, at every point of every callback.
SafetyInv == TypeOK /\ DialogueInv /\ TrustInv /\ FetchInv /\ NoLoss

\* A name stands for one message: the server uses none a second time, and what
\* the client has fetched, or is going to fetch, is a message that arrived.
NamesInv ==
    /\ \A x \in present : x[2] = validity[x[1]]
    /\ delivered \subseteq arrived
    /\ cur # NoUid => Name(cur) \in arrived
    /\ cmd = "fetch" => \A u \in todo : Name(u) \in arrived

\* What has been fetched and is still to be removed, and how far the removal has
\* come at each command.
Kept == fetched \cap present

RemovalStages ==
    /\ cmd = "login" /\ ~needCleanup => uids = {}
    /\ cmd \in {"c_store", "store"} => \A x \in Kept : x[3] \in arg
    /\ cmd \in {"c_store", "store"} /\ srv = "answering" => Kept \subseteq deleted
    /\ cmd \in {"c_expunge", "expunge"} =>
           Kept \subseteq deleted /\ (arg # {} => \A x \in Kept : x[3] \in arg)
    /\ cmd \in {"c_expunge", "expunge"} /\ srv = "answering" => Kept = {}
    /\ cmd \in {"select", "list", "logout"} => Kept = {}
    /\ cmd = "fetch" /\ ~(opt.del /\ opt.task = "DOWNLOAD") => Kept = {}

\* The inductive invariant behind UidsMatchSelected, under OneMailbox: every UID
\* in memory or in the journal has been told, and last_uid_ belongs to the
\* mailbox selected for the task.
AfterFetch == {"fetch", "store", "expunge", "logout"}

LearnedInv ==
    /\ proc # "down" => Remembered \subseteq learned
    /\ Journaled \subseteq learned
    /\ journal \in Journals =>
           \E o \in Options : o.del /\ o.mailbox = journal.mailbox
    /\ proc # "down" /\ opt.del => mailbox = opt.mailbox
    /\ cmd \in {"c_store", "c_expunge", "store", "expunge"} => arg \subseteq uids
    /\ state = "FETCHING" => cmd \in AfterFetch
    /\ lastUid # NoUid => cmd \in AfterFetch /\ Name(lastUid) \in learned

\* The inductive invariant behind FetchedAreTracked, under DeletingRuns.
TrackInv ==
    /\ FetchedAreTracked
    /\ fetched \subseteq delivered
    /\ proc # "down" => journal = NoJournal
    /\ journal \in Journals =>
           \E o \in Options : o.del /\ o.mailbox = journal.mailbox
    /\ proc # "down" /\ opt.del => mailbox = opt.mailbox
    /\ RemovalStages

\* The inductive invariant behind UidplusSparesOthers, under CautiousUse and
\* without stray codes: UIDPLUS is in capabilities_ once the server's list has come, and
\* what UID EXPUNGE is going to name has been flagged by the STORE before it.
SparesInv ==
    /\ UidplusSparesOthers
    /\ uidplus /\ cmd \notin {"none", "login"} => hasUidplus
    /\ uidplus /\ cmd = "login" /\ srv = "answering" =>
           "capability" \in rest \/ hasUidplus
    /\ cmd \in {"c_store", "store"} => arg = uids
    /\ uidplus /\ cmd \in {"c_expunge", "expunge"} => arg = uids /\ arg # {}
    /\ \/ cmd \in {"c_store", "store"} /\ srv = "answering"
       \/ cmd \in {"c_expunge", "expunge"} /\ uidplus
       => \A u \in uids : Name(u) \in present => Name(u) \in ours
=============================================================================
