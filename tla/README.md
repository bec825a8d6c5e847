# imapdl: a TLA+ model of the download client

imapdl fetches the messages of an IMAP mailbox into a local maildir and, if
asked to, removes them from the server. What matters about it is easily said:
*no mail is lost*. What makes it hard is that a run can be interrupted
anywhere, by a signal, a broken connection, an error, a crash, and that the next
run removes what the interrupted one has noted in a journal, from a mailbox that
other sessions use at the same time. This directory holds the specifications of
that behaviour, the TLC configurations that check them on small instances and
TLAPS proofs for every instance. Paths below are relative to the repository.

## 1. The system's parts

| part | source | state | operations | correct if |
|---|---|---|---|---|
| download client, `Copy::Client` | `copy/client.cc` | `uids_`, `uidvalidity_`, `mailbox_`, `need_cleanup_`, `state_`, `exists_`, `last_uid_`, `full_body_`, `flags_`, `capabilities_`, `signaled_` | parser callbacks `imap_...`, continuations of commands, handlers of read, signal, greeting timer, constructor, destructor | removes only what it has delivered; notes all it has delivered; ends |
| journal | `copy/journal.cc` | the file | read and removed at the start, written by the destructor | names only delivered messages, of the right mailbox and UIDVALIDITY |
| program | `copy/main.cc` | - | starts the client, runs the loop, catches exceptions | the destructor always runs |
| IMAP client base, writer, tags | `imap/client_base.cc`, `imap/client_writer.cc` | `tag_to_fn_`, `Tag`'s maps and counter | `async_...`, `imap_tagged_status_end` | each answer resumes the continuation of its command; commands are well formed |
| response parser | `imap/client_parser.rl`, `imap/common.rl` | the automaton, buffers, `convert_crlf_`, `has_imap4rev1_` | `read` on each chunk | callbacks do not depend on how the input is cut into chunks |
| network client | `net/client.cc`, `net/tcp_client.cc` | `write_queue_`, `write_free_stack_`, socket | `push_write`, `do_write`, read, cancel, close | commands leave in order; nothing stays in the queue |
| connection life | `net/client_application.cc` | - | resolve, connect, handshake, quit, shutdown | the loop runs dry after `async_finish` |
| fetch timer | `copy/fetch_timer.cc` | `stopped_`, `messages_` | start, resume, stop | does not keep the loop alive |
| maildir | `maildir/maildir.cc` | `name_`, `flags_`, `delivery_`, directories | `create_tmp_name`, `move_to_new`, `move_to_cur` | a delivered message is complete and durable, under one name |
| sequence set | `sequence_set.cc` | interval set | `push`, `copy`, `clear`, `=` | denotes exactly the UIDs pushed |
| header printer, MIME decoders, control sanitizer | `copy/header_printer.cc`, `mime/`, `ascii/` | decoder automata and their buffers, kept from one message to the next | `read`, `clear`, `print` | output is the decoded header, without control characters |
| literal converter | `imap/literal_converter.rl` | automaton | `read` | CRLF becomes LF, nothing else changes |
| command parser (server side) | `imap/server_parser.rl` | automaton, state of the session | `read` on each line the writer writes | accepts what the server will accept when it gets there |
| options, TLS set-up | `copy/options.cc`, `net/ssl_*.cc` | the options | parse, load, notify, fix, verify, the verification callback | what the user wants wins, whichever place it comes from |
| trace, example client and server | `trace/`, `example/`, `unittest/replay.cc` | the trace file, write queues, timers, a session | handlers of either program | a recorded session can be replayed |
| log, other tests | `log/`, `unittest/` | - | - | - |

**How they interact.** Everything runs in one thread, as completion handlers of
one Boost.ASIO loop. The read handler runs the parser over a chunk; the parser
calls the client's callbacks; the callback for a tagged line looks up the
command's continuation, which writes the next command. So there is one command
outstanding at a time, and the state of the dialogue is: which command, and how
much of its answer has been parsed. A handler that throws leaves the loop; then
the client's destructor writes the journal. Two runs communicate by the journal
file and by what they have left on the server.

**What is hard.** A chunk may end anywhere, so the signal handler, the timers and
failures can come between any two callbacks. `cancel()` does not take back a
completion that is already queued. The journal is removed when it is read,
before its messages are. Other sessions expunge and flag messages, new mail
arrives, a mailbox is renumbered. The greeting may or may not carry capabilities
and races with a timer. The list of hazards, line by line, is in `PROJECT.json`.

## 2. The modules

**Transfer** is the abstract specification: messages arrive, are saved, are
abandoned by other users, and the client purges only what is saved or abandoned.

**Session** models the client over any number of runs.

- *State.* The server (`present`, `deleted`, `validity`, ...), the disk
  (`delivered`, `journal`), the members of `Copy::Client` that survive a handler
  (`uids`, `uidvalidity`, `mailbox`, `needCleanup`, `state`, `lastUid`, ...), the
  dialogue (`cmd`, `arg`, `srv`, `todo`, `cur`, `rest`) and the loop (`conn`,
  `rd`). Of `capabilities_` it keeps whether UIDPLUS is among them (`hasUidplus`),
  which is not always what the server has (`uidplus`). `arrived`, `abandoned`,
  `fetched`, `learned`, `ours` and `collateral` are history variables: no action's
  guard depends on them, except that a UID is not given out twice. `fetched` is
  what downloads that delete have completely fetched, and only a kill, which
  writes no journal, resets it; `learned` is every message whose UID a FETCH
  response has told.
- *Actions.* One per callback (`imap_uid`, `imap_body_section_end`, ...), per
  continuation (`do_post_login`, `cleanup_*`, `task_*`), per handler
  (`do_signal`, `do_read_eof`, `do_read_error`, `resume`), for constructor and
  destructor (`Start`, `Destroy`), plus the environment: the server executes a
  command, other sessions act, things break. After each callback the chunk ends
  or goes on (`More`); while it goes on (`rd = "parsing"`) no other handler runs.
- *A message* is the triple mailbox, UIDVALIDITY, UID, the identity that never
  changes its meaning. It has two parts, its UID and its body section, that come
  in either order. `delivered` is the set of messages moved out of `tmp/`.
- *Constants* say what the surroundings may do: `QueuedReads` (a signal is handled
  next to a read that is already completed), `Unsolicited` (FETCH responses that nobody
  asked for), `StrayCodes` (response codes that begin with C and are not CAPABILITY,
  which clear `capabilities_`; a greeting timer that ends inside the greeting's list has
  the same effect).
- *Leaving the loop* is one action for every exception: what follows is always
  the destructor. A journal that cannot be written is the same as a crash before
  or during the writing.

**Login** models the dialogue on an established connection: greeting, greeting
timer, CAPABILITY, LOGIN, and the commands that follow as tags only, those of the
clean-up of a journal with its SELECT before the one of the task included. A line may
carry a code that begins with C (`StrayCodes`); then `code_begin` clears `capabilities_`,
after login too. In Session all that comes before the task is the one command `login`.

**Connection** puts Login on a socket: resolving, connecting, TLS's handshake,
reads, the write queue, the two timers, signals and the shutdown.

- *State.* `conn` is the socket, `wait` the outstanding operations, `loop` the
  queue of handlers that are ready, in their order and with their error codes.
  Starting an operation adds to `wait`; the environment completes it; `close` and
  `cancel` move operations to `loop` as `aborted`.
- *A chunk* is what one read fetches (`fresh` items of `input` are still
  outside); its callbacks run one after the other at the head of `loop`.
- The peer may respond, break the connection, or go mute (`GoesMute`).

**SequenceSet** is the interval set, as operators. **Commands** has everything
between a call of `IMAP::Client::Base` and its continuation: `Tag`, the writer, the
writer's own parser, the server and the answers. Any call may be made at any
time, those with an empty set included, which FETCH, STORE and EXPUNGE refuse. Text
arguments are classes (what the grammar tells apart), UIDs are numbers up to `MaxUid`,
which is written as `*`.

**Responses** is the response parser and the literal converter. The grammar of
`client_parser.rl` is data (`Rules`), read by a stack machine; an action written
with `%` in Ragel is due only when the token after it is read, one with `@` or `>`
at once. The server may send any token at any time; the token `CLOSED` stands for the
codes that begin with C (`StrayCodes`). **Callbacks** is the abstract specification
of what the parser promises its callbacks, each begin with its end, which Responses
is shown to implement without these codes, and not to implement with them.

**Header** is the header decoder's state chart with the automata of base64 and Q
and the sanitizer. Outside of encoded words characters are classes; inside of
them they are numbers, and the bits of `unit_` are kept with their width (as
`high`, the octet above the 24 that are used, and `low`).

**Options** goes from `main()` to the verified certificate: `store`,
`check_configfile`, `load`, `notify`, `fix`, `verify`, `apply`, each an action.
A command line and the file are functions from option names to values.

**Replay** has the example client and server, which the unit tests use to record
and to replay sessions. Both are records of the same shape with a loop each, as in
Connection; the wire between them keeps the boundaries of messages with TLS and
loses them without. `ReplayRecorded` starts both again with the trace that the
client has just written.

**Maildir** takes apart what is one step of Session, the delivery of a message:
`create_tmp_name()`, the file in `tmp/`, `close()`, and the `linkat`, `fsync` and
`unlinkat` of `move()` are an action each, and the process or the machine can fail
between any two of them (`Exit`, `PowerFailure`).

- *State.* Directory entries as the operating system shows them (`entries`) and
  as they are on the disk (`stable`), names whose file is complete (`complete`)
  and stably so (`synced`); `name_` of class Maildir, `flags_`, `last_uid_` (`uid`) and
  `state_` of the client, and how far the FETCH response (`cur`, `parts`) and the
  delivery (`pc`) have got.
- *FETCH responses* need not have a body (`Unsolicited`), and after `do_quit()`, with a
  read that is queued (`QueuedReads`), a body is passed over (`body_ignored`): the guards
  on `state_` of `copy/client.cc:527` and `:540`. `imap_data_fetch_end()` notes the UID all
  the same. The history variable `strays` collects the messages of such responses.
- *A power failure* keeps what has been synced and any part of the rest.
- *Names* are never used twice: they are made of time, process id, a counter and a
  random number.
- *External.* `Buffer::File` belongs to libbuffer, which is not part of this
  repository; whether closing it syncs it is the constant `SyncOnClose`. The
  server may remove whatever has ever been noted as transferred (`Remove`), which
  includes all that Session allows.
- `FlagsFirst` tells whether the server sends FLAGS before the body. Servers may
  choose; if they do not, the message has already been put into `new/` when its
  flags arrive, and the flags are lost.

The modules whose names begin with **MC** give the constants values. **SessionProofs**,
**MaildirProofs**, **SequenceSetProofs**, **CommandsProofs**, **OptionsProofs**,
**ConnectionProofs**, **ReplayProofs** and **HeaderProofs** have the proofs. A
definition marked as a mutant is a plausible bug; it shows which property would
find it and is not used otherwise.

Left out of Session on purpose: the HEADER.FIELDS section that comes with a download, output and
logging. A chunk may end after any callback, but is taken to reach at least one of them, since one that
does not leaves the client as it was. The server is taken to send EXISTS and UIDVALIDITY
with every SELECT, not to renumber a mailbox while it is selected, and to
execute a command it has received before the next run's commands or not at all.
The write operation is part of the action that sends the command; if the
connection is closed, the command is lost and the loop is left as it is left by
the failing write.

## 3. What the runs check

| run | instance | shows |
|---|---|---|
| `session` | 1 mailbox, 2 UIDs, 2 UIDVALIDITY values, 2 faults, all uses `CautiousUse` allows, no stray codes | `SafetyInv`, `NoLoss`, `JournalNamesDelivered`, `UidplusSparesOthers`, and that Session implements Transfer |
| `session_any_use` | 2 mailboxes, 1 UID, 2 UIDVALIDITY values, 2 faults, downloads with the delete option, and of the other mailbox without it, queued reads, unsolicited responses, stray codes | `TypeOK`, and that every UID the client names is one it was told of the selected mailbox under its present UIDVALIDITY (`UidsMatchSelected`) |
| `session_live` | 1 mailbox, 2 UIDs, 2 UIDVALIDITY values, 2 faults, all runs downloads that delete | what was fetched is tracked until it is removed (`FetchedAreTracked`); every run ends; every message is removed in the end |
| `maildir` | 2 messages with and without flags, 3 names, 2 ends of runs or power failures, synced files, FLAGS first, responses without a body, reads after `do_quit()` | `MaildirInv`, `NotedIsDurable`, `NoTornMail`, `OwnFlags`, and that Maildir implements Transfer |
| `connection` | TLS and plain, 3 capability lists before and 2 after login, stray codes, 2 signals, one broken or mute peer | login decides on what the server really has (`LoginOnlyIfAllowed`), and later capabilities are the server's or, after a stray code, none (`CapabilitiesAreCurrent`); commands come one at a time, on which it rests that none stays in the queue (`NoStrandedWrite`); no operation is started while it is under way, except that a signal and the answer to LOGOUT start a shutdown each (`OneOfEach`); a run ends by an exception only if something is wrong (`UndisturbedReturns`); it ends (`RunConcludes`), and a second signal ends it even if the peer is mute (`SignalsEnd`) |
| `commands` | UIDs 1 to 3 with 3 as the highest number, 4 commands | `BookkeepingAgrees`, `SetIsExact`, `OnlyPermitted`, `CalledInOrder`, `NamesExactly` |
| `responses` | every token at every point but stray codes, numbers 0, 1, 4 and one above 32 bits | `Prompt`, `OwnArguments`, `LiteralConverted`, and that Responses implements Callbacks (`KeepsPromise`) |
| `header` | 2 messages, fields of 5 tokens, 5 symbols in encoded words | `BodyIsText`, `NoControls` |
| `options` | combinations of up to 3 options on the command line and in the file, chains of 1 or 2 certificates | `EffectiveOptions`, `AuthenticatedIfAlone` |
| `replay` | 12 ways of starting the two programs: recording, replaying, with and without TLS, limit, signals, network errors | `ReplayAgrees`, `ReplayIsSequential`, `TraceIsTranscript`, `LimitEnds`, `ReplayConcludes` |

The types of Connection, Responses, Header, Options and Replay are a conjunct of one of
their invariants (`OneOfEach`, `OwnArguments`, `NoControls`, `EffectiveOptions`,
`ReplayIsSequential`); those of Commands are proved.

Runs that are expected to fail, each with a finding in `PROJECT.json`:

| run | the code does | the repository says |
|---|---|---|
| `session_signal` | with a read's completion queued, a signal makes the client note a message it does not deliver | only completely fetched messages are journaled |
| `session_unsolicited` | a FETCH response about flags counts as a transferred message | messages are deleted if they are successfully transferred |

**Where the code does not keep a property.** The following have no run of their own. Each
is a property that fails when one condition of a passing run, and of a theorem, is given
up, with the constants named.

| property | fails with | because | the repository says |
|---|---|---|---|
| `UidplusSparesOthers` | `StrayCodes` | `/CAPABILITY/i >cb_status_code_capability_begin` (`imap/client_parser.rl:637`) runs on the first letter: `[CLOSED]` or `[COPYUID ...]` clears `capabilities_` (`copy/client.cc:453`), and `async_uid_or_simple_expunge()` sends the plain EXPUNGE | UIDPLUS is used if available (`README.md:31`) |
| `KeepsPromise` | `StrayCodes` | for the same reason such a code begins a capability list without an end; the other three properties of `responses` hold with these codes too | the action is that of the word CAPABILITY (`imap/client_parser.rl:629`) |
| `FetchedAreTracked` | `Options <- OptionsInTurn` | a run without the delete option reads the journal and removes the file (`copy/client.cc:95`); interrupted in the clean-up it writes none (`:102`) | the UIDs are expunged on the next start (`README.md:23`) |
| `NoLoss`, `UidsMatchSelected`, `FetchedAreTracked` | `Options <- OptionsTwoMailboxes`, 2 mailboxes | during the clean-up `uids_` belongs to the journal's mailbox, but `write_journal()` writes the name of the option (`copy/client.cc:105`); the next run removes the messages with these UIDs there | messages are deleted if they are successfully transferred (`README.md:8`) |
| `JournalNamesDelivered` | a header run with the delete option | `imap_data_fetch_end()` notes UIDs whatever was fetched (`copy/client.cc:515`) | the UIDs of completely fetched messages are journaled (`README.md:23`) |
| `LoginOnlyIfAllowed`, `CapabilitiesAreCurrent` | `SplitGreeting` | if the timer fires when a part of the greeting's list has been read, `async_login()` decides by that part (`copy/client.cc:291`); the rest of the list is later taken for the capabilities after login, so UIDPLUS can be overlooked | LOGIN is not sent when it is disabled (`README.md:50`) |
| `SecondSignalEnds` | - (`SignalsEnd` and `RunConcludes` except `TimerHolds`; `RunEnds` fails with `QueuedReads`) | only the continuation of FETCH stops the fetch timer (`copy/client.cc:173`), `do_quit()` does not, and `resume()` waits again and again; after the shutdown nobody waits for signals. The program stays, without a journal | "the second time - immediate exit" (`copy/client.cc:123`) |
| `JournalAsWanted` | - (`EffectiveOptions` leaves the journal out) | the file's `journal` is read (`copy/options.cc:528`) and overwritten by the command line's empty default (`:346`) | such defaults are set when the file is read (`copy/options.cc:231`) |
| `Authenticated` | - (`AuthenticatedIfAlone` is about chains of one, or no fingerprint) | the fingerprint is compared with that of the certificate verified first, the top of the chain, and the rest is accepted (`net/ssl_verification.cc:74`) | it is the fingerprint of the server certificate (`README.md:141`) |

Some properties have an exception of their own:

- A signal that is handled together with the read of LOGOUT's answer starts the TLS
  shutdown twice on one stream (`copy/client.cc:129`, `:184`, `:443`), which `OneOfEach`
  allows for. With it the run may end by an exception; the destructor runs all the same.
- `NotedIsDurable` and Maildir's refinement leave out `strays`. That mail is lost by them
  is what `session_signal` and `session_unsolicited` show; that it is not lost otherwise is
  what `maildir` adds.
- `BodyIsText` has two exceptions. `clear()` (`mime/header_decoder.rl:427`) does not
  empty `conv_buffer_`, so a header that ends inside of an encoded word leaves
  octets for the next message (`spoiled`); and white space between a fold and an
  encoded word's `=` is dropped (`Forgotten`).
- `NamesExactly` has the exception of the highest UID: `*` names another message when
  that one is gone (`imap/client_writer.cc:180`).

Others are visible in the definitions.

- Like `>cb_status_code_capability_begin`, `>status_bye` (in `imap/client_parser.rl`) runs on
  the first letter, for `BAD` too, without effect.
- In the grammars: a missing `|` after `RIGHTS=` (`client_parser.rl:565`),
  `UNSUBSCRIBE` is case-sensitive (`server_parser.rl:309`), SEARCH's CHARSET cannot be
  reached, `RFC822` is misspelt as `RGC822` in one place (`imap/imap.cc:161`).
- With TLS `ca_path` alone is not enough: loading the empty CA file throws first
  (`net/tcp_client.cc:135`).
- In the examples: a trace with `exit` cannot be replayed, since the server obeys it;
  over plain TCP messages may be cut or joined; at DISCONNECT the replaying client
  cancels a read that it has not started, so over TLS only the server's `bye` or the
  limit ends it (`example/client.cc:542`); the echoing server's session survives a
  read error until the second signal; the session's `socket()` is the one of TLS even
  without TLS (`example/server.cc:430`); the handler of `wait_for_disconnect()` does not
  hold the session, which signals may destroy before it runs; a line typed before
  the connection stands blocks the write queue.

When UIDs have become void (a new UIDVALIDITY, or messages expunged by others
between SELECT and FETCH) the client asks for a STORE of an empty set and the run
ends with the writer's logic error (`empty_sequence`); `session_live` shows that
the next runs recover.

`CautiousUse` is what the passing runs and the proofs assume in order to stay
clear of these: no completed read is queued when a signal is handled, the server
sends no unsolicited FETCH, header runs do not have the delete option, and the
deleting runs share one mailbox. Stray codes do no harm to anything but UIDPLUS, so
`CautiousUse` allows for them and `UidplusSparesOthers` alone excludes them. `OneMailbox`
(the deleting runs share a mailbox) and `DeletingRuns` (all runs delete, in one mailbox) are
the conditions of `UidsMatchSelected` and `FetchedAreTracked`, which for the rest allow for
any use; the second one was also checked with queued reads, unsolicited responses, stray
codes and every task (`OptionsDeleting`).

**Bounds.** `MaxFaults` bounds, in total, crashes, signals, lost connections,
refused commands, renumberings and acts of other sessions. Two are enough for
every scenario above (an interruption and something else between it and the
next run), three were tried for `session` as well. Runs are not bounded. With
two UIDs one message can be delivered while another is not; with two values of
UIDVALIDITY a journal can be out of date. UIDs that have been used are not used
again (`arrived`), so the state space is finite. In Maildir `MaxEnds` bounds the ends
of runs, three names allow for a delivery that is left half-way by `do_quit()`, one by
an end, and one that is complete; three ends were tried as well; names are symmetric.

In Connection `MaxSignals` is two, since a third signal meets the state the second
has left; without it the state space is finite. In Commands four commands reach
the selected state and change the mailbox there; the highest UID being 3 makes
both edges, 1 and `*`, meet in one interval. In Responses there is no bound beyond
the size of a literal: the stack is bounded by the grammar. In Header five tokens
suffice for a fold with white space between two words, and five symbols for a unit
of base64 and a leftover. In Replay `Bound` covers two lines, of which the second
is queued while the first is written, and two signals, of which the second one
closes; `BufferSize` is the longest message. Operations that are aborted together are
reported in some fixed order; the proof does not depend on which.

**Fairness.** In `session_live`, weak fairness of `Progress`: the loop runs
handlers that are ready, and the server answers what it has been sent. The second
half is an assumption about the server; the code has no timeout on reads. Weak
fairness of `StartAny`: imapdl is started again, as by cron. Weak fairness of
`RemoveTorn`: no run starts while there is a damaged journal, so somebody has to
remove it. In `connection`, weak fairness of the loop's handlers (`Handle`), of
the two timers, and of a network and server that have not gone mute. In `replay`,
of the two loops, of the network between them, and of the limits. Signals,
crashes, errors, and what users type are never fair.

**Deadlock** is checked for Session, whose next run can always start. The other
systems may stop: a program has ended, the bound of commands, messages or power
failures is reached, or everything has been fetched.

## 4. What is proved

In `SessionProofs`, from `ConstantsAssumption` alone (UIDs and UIDVALIDITY
values are positive numbers, options are well formed), for any number of
mailboxes, messages, runs and faults.

- `TypeCorrect`: `TypeOK /\ DialogueInv` is an invariant of every use. The two
  are inductive only together: that an action leaves `uidvalidity` and `cur` in
  their types depends on where in which answer the parser is.
- `UidsMatchSelectedAlways`: if the deleting runs share one mailbox (`OneMailbox`), for every
  other use. `LearnedInv` follows the UIDs from the FETCH response that tells them
  through `last_uid_`, `uids_` and the journal to the next run's commands: what is
  remembered has been learned of `mailbox_` under `uidvalidity_`, and by `DialogueInv` these
  are the selected mailbox and its present UIDVALIDITY once SELECT is answered.
- `Safety`: under `CautiousUse`, `SafetyInv` is an invariant. `NoLoss` is not
  inductive: that EXPUNGE loses nothing depends on `deleted` (`FlagTrust`), that
  STORE flags only delivered messages depends on `uids` (`MemoryTrust`), which
  comes from the journal (`JournalTrust`) or from FETCH responses (`FetchInv`: at
  the closing parenthesis the message has been delivered and `lastUid` is its
  UID). The journal is only as good as the memory of the run that wrote it, so
  these four imply each other from step to step. There is a lemma for each part,
  with a case for each action.
- `NoLossInCautiousUse`, `JournalIsTrustworthy`: consequences of `Safety`.
- `ImplementsTransfer`: under `CautiousUse` every step of Session is a step of
  Transfer or leaves its variables alone (`TransferStep`, which uses `SafetyInv`
  in the step of EXPUNGE).
- `FetchedAreTrackedAlways`: if all runs delete, in one mailbox (`DeletingRuns`), with queued
  reads, unsolicited responses, stray codes and header runs allowed; a run that does not
  delete forgets what it was to clean up (section 3). The invariant is `TrackInv`: it says how far the removal of what
  has been fetched has come at each command (`RemovalStages`), so that `uids_` may be
  forgotten after EXPUNGE; that the journal is gone while a program runs; and
  that it is of the mailbox the next deleting run uses. It rests on `NamesInv`: a
  name is never used twice, so what EXPUNGE has removed does not come back.
- `UidplusSparesOthersInCautiousUse`: without stray codes. `SparesInv` says that by then
  `has_uidplus()` agrees with the server, and follows the set that UID EXPUNGE
  is going to name back to the STORE that has flagged it. `CautiousUse` is needed
  because a `uids_` that changes between the two commands would name more.

In `MaildirProofs`, from `MaildirAssumption` alone, for any messages, flags, names
and number of failures:

- `MaildirCorrect`: `MaildirInv` is inductive. `NotedIsDurable` is not by itself: it
  needs to know that at the end of a FETCH response the message has been moved
  (`DeliveryInOrder`: after each system call the file is where the next one expects
  it), that what is stable is never taken away (`DiskInOrder`, from which
  `DurableGrows`) and that a name has one owner. `OwnFlags` needs `FlagsInOrder`.
- `DurableBeforeNoted`, `OnlyWholeMessages`, `FlagsAreOwn`: consequences. The first
  two are conditional on `SyncOnClose`; the third covers both values of `FlagsFirst`. All
  of them cover responses without a body and reads after `do_quit()`; the first one with
  the exception of `strays`.
- `ImplementsTransfer`: with `SyncOnClose`, every step is a step of Transfer or leaves
  its variables alone, where what is saved is what is durable.

In `SequenceSetProofs`, about the operators alone: `InsertAddsExactly` and
`InsertKeepsCanonical`, from the lemma `Ends` (the intervals that a new one touches lie
around it without a gap; at most one reaches below it and one above).

In `CommandsProofs`, from `CommandsAssumption` alone (there is a highest number), for
any number of commands:

- `BookkeepingCorrect`: the agreement of tags, commands and continuations is
  inductive together with the types of the three records (`Book`). It has to
  allow for the step in which a call throws after `Tag::next()`.
- `CommandsTyped`, `SetExact`, `NamesExactlyAlways`: from `Typed`, in which every
  line on the wire about UIDs is the text of some exact set. That is what makes
  `NamesExactly` inductive: `wire` remembers lines long after `uids_` has changed.
- `OnlyPermittedAlways`: the verifier runs ahead of the server by the lines on the
  wire. `PathInv` says that there is a sequence of states that leads from the server's
  state, line by line, to one like the verifier's, and that each line is carried out
  in its turn; a call extends the sequence, the server shortens it.
- `CalledInOrderAlways`: `OrderInv`. A repeated answer finds no continuation and ends
  the run, so only the answers before the first bad one count, and those are about
  the commands carried out and not yet answered, in their order.

In `OptionsProofs`, from `OptionsAssumption` (a chain is not empty, and neither is a
journal's path, which the strings of the model would otherwise leave open), for all
command lines, files and chains:

- `EffectiveOptionsAlways`: `OptsInv` gives the value of the options at each phase
  of the start: those of the file's section, then `Merged`, in which the command line
  and its defaults win, then what `fix()` derives from these. `EffectiveOptions`
  speaks of the last phases only and is not inductive.
  The journal, for which it is not so (`JournalAsWanted`), is only shown not
  to be empty.
- `AuthenticatedIfAloneAlways`: from `ShownInv`, about the certificates shown so far: with a
  fingerprint the first one has matched it, since `result_` is kept for the rest of
  the chain; without one all of them are valid. The first one shown is the server's own
  only if it comes alone, hence the condition (section 3).

In `ConnectionProofs`, for all lists of capabilities, transports and numbers of signals:

- `OneCommandAtATimeAlways`: `DialogueInv`. The request of the one outstanding command
  is on its way, or the last item of the input answers it, or it is being carried out;
  before the timer's handler there is none.
- `LoginOnlyIfAllowedAlways`, `CapabilitiesAreCurrentAlways`: `CapsInv` gives the value of
  `capabilities_` at each point of the dialogue, in the middle of a list and after a stray
  code too. Both have the hypothesis `~SplitGreeting`, and section 3 says how they fail
  without it.
- `ConnectionRefinesLogin`: every step of Connection is a step of Login or leaves its
  variables alone, so what is proved of the dialogue holds on the socket
  (`ConnectionKnowsCapabilities`).
- `NoStrandedWriteAlways`: the handler of a write does not look at the queue again, so a
  second command that is queued while the first is being written would stay there. That it does
  not happen is `LoopInv`: each operation is under way once (`Single`), a write is
  under way exactly if the queue is not empty, the queue holds the outstanding
  command, and once that has reached the server the handler of its write comes
  before the handler of the read with the answer (`WriteFirst`), which is
  what keeps the next command from meeting a queue that is not empty.
- `OneOfEachAlways`: from `LoopInv`, which also orders resolve, connect and handshake
  before everything else and the fetch timer after SELECT. The wait for signals is
  among the operations; the shutdown is started once for a signal and once for the end
  of the session, so twice at most, and only if both have come.
- `UndisturbedReturnsAlways`: `CalmInv`. Without a signal or a failure only timers and
  the wait for signals are ever aborted, and when `do_quit()` is called no operation
  on the socket is left.

In `ReplayProofs`, from `ReplayAssumption` (messages and lines consist of octets and fit
into the buffer of a read, and a trace that is replayed ends with END_OF_FILE, as every
recorded one does), for all traces, options and numbers of lines and signals:

- `ReplayIsSequentialAlways`: `ReplayInv`. `ReplayIsSequential` speaks of the timer, the
  read and the wait for the disconnect, each of which the handler of another one starts;
  the first is started by what opens the connection. So the chain has to
  begin with resolve, connect, accept and handshake (`Chain`), at record 0 of the trace.
  A timer or a read is under way only at a record that asks for it, from which it
  follows that there is a next record: the last one is END_OF_FILE. For a recorded trace
  this is a part of the invariant too, since `ReplayRecorded` starts with it. That
  `do_write()` never meets an empty queue needs that one write at most is under way.

- `TraceIsTranscriptAlways`: `TranscriptInv`, for every set of lines that may be typed.
  `TraceIsTranscript` compares the trace with what was written, but a message is recorded
  when its write begins. So `Stage` tells whether the trace names exactly the
  written messages (`Settled`) or one more, the front of the queue, whose write is under way or
  has failed (`Writing`); a failed write is never repeated, so it stays the last one
  that is named. That no echo comes too early is `Flow`: the copies of a line on the wire, read
  by the server, on their way back, read by the client or recorded are together not
  more than the times it was written, and by `Stage` those are not more than the times
  it is named. The invariant also needs that nothing else the two write
  looks like a line or its echo (`Copies`). Two exceptions were found that way, and the property
  names them: the client's last words are echoed like a line and not recorded, and
  a replaying server sends what its own trace says. `Flow` counts positions in sequences;
  the lemmas on `Count` say how an element that is added, removed or joined counts.

In `HeaderProofs`, from `HeaderAssumption`, for fields and encoded words of any length, any
mixture of digits and octets, and any number of messages:

- `BodyIsTextAlways`: `BodyIsText` speaks of the end of a field only and is not inductive.
  `BodyInv` says for each state of the automaton how much of the text the buffer has:
  white space may have been held back (`SpaceState`), be lost if an encoded
  word follows (`Doomed`), or be text if none does (`Plainly`). `WordInv` follows an encoded
  word: in base64 the digits of the current group are the low bits of `unit_`, whatever
  older bits are above them, until padding or the fourth digit makes octets of them
  (`WholeGroups` and the lemmas before it, on each digit and each padding); in Q the
  octets so far and the half of a hexadecimal pair (`QWord`). `RawInv` bounds the white
  space that was put aside by the items read, and `OctetInv` has the ranges of the octets.
- `NoControlsAlways`: from the same invariant; the buffer has the octets that the
  sanitizer lets through (`Safe`) and plain characters, and `unit_` stays within 32 bits.

The library's theorems on induction cannot be used with an operator as their parameter;
`NatSetInduction` does without: it is about a set of numbers, and follows from the least
number principle. On it rest the lemmas on `FlattenSeq`, which folds a sequence.

`LoopInv`, `CalmInv`, `ReplayInv`, `TranscriptInv` and the invariant of HeaderProofs were checked
by TLC on small instances before they were proved.

Only model-checked:

- liveness (`RunEnds`, `EventuallyRemoved`, `RunConcludes`, `SignalsEnd`, `LimitEnds`,
  `ReplayConcludes`): fairness and ENABLED are beyond the prover.
- `Prompt`, `OwnArguments`, `LiteralConverted` of Responses, and that it implements
  Callbacks (`KeepsPromise`). Its one parameter is a subset of six numbers, so its state
  space is finite, and TLC's search is exhaustive; with all six numbers, which the run leaves
  out for its time, it has 2,870,241 states and no violation either.
- `ReplayAgrees`: it does not hold of every trace. The server looks for `exit`, and the
  client for `bye`, at the front of a buffer that still has octets of earlier
  reads behind a shorter message, so a trace with a message that is the beginning of `exit`
  after a suitable one ends early. The run shows it for the traces of the instance.

## 5. Not modelled, and the plan

Next:

1. Proofs: `ReplayAgrees` for traces whose messages do not begin like `exit` or `bye`; the
   refinement of Callbacks by Responses, for numbers of any size.
2. Session with Connection's loop in place of its `conn` and `rd`.

Not modelled: the log (`log/`), names and error texts (`copy/id.cc`, `lex_util.cc`, most
of `imap/imap.cc`), the printed layout of headers, statistics and lists, the structure
of a message's body, which the parser skips, commands that the client does not
send, `example/replay.cc`, `example/hash.cc` and `example/length.rl` (tools that print),
and the unit tests other than that of the replay, which are data.
