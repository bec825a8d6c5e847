----------------------------- MODULE Connection -----------------------------
(***************************************************************************)
(* The life of one connection: resolve, connect, handshake, reads, the     *)
(* write queue, signals, the two timers and the shutdown, around the       *)
(* dialogue of Login and the commands that follow it.                      *)
(*                                                                         *)
(* Everything happens in handlers of one Boost.ASIO loop.  An operation is *)
(* outstanding (in wait) until the operating system completes it; then its *)
(* handler is queued (in loop), with an error code, and the handlers run   *)
(* in the order in which they were queued.  A handler that throws ends the *)
(* program, an empty loop with nothing outstanding lets it return.         *)
(*                                                                         *)
(* Login's state before the connection is established is its initial one.  *)
(***************************************************************************)
EXTENDS Login, SequencesExt

CONSTANTS
    Transports,      \* is TLS used? a set of choices
    MaxSignals       \* bound: SIGINT and SIGTERM sent to the program

ASSUME ConnectionAssumption ==
    /\ Transports \subseteq BOOLEAN
    /\ MaxSignals \in Nat

VARIABLES
    tls,          \* opts.use_ssl
    conn,         \* the socket: resolving, connecting, handshaking, open,
                  \* shutdown (TLS's close_notify has been sent), closed
    wait,         \* outstanding asynchronous operations
    loop,         \* queued handlers <<operation, error code>>
    queue,        \* write_queue_
    established,  \* has the continuation of async_start() been called?
    fresh,        \* how many items of input no read has fetched yet
    loggedOut,    \* state_ = LOGGED_OUT
    signaled,     \* signaled_
    stopped,      \* Fetch_Timer::stopped_
    caught,       \* signals that have come while nobody waited for one
    signals,      \* history: signals sent ...
    failed,       \* ... and has the network or the server failed?
    mute,         \* has the peer stopped responding?
    ended         \* "running", "returned" or "thrown"

cvars == <<tls, conn, wait, loop, queue, fresh, established,
           loggedOut, signaled, stopped, caught, signals, failed, mute, ended>>
vars == <<lvars, cvars>>
envVars == <<tls, signals, failed, mute>>
loopVars == <<wait, loop>>
dialogueVars == <<queue, fresh>>
handlerVars == <<established, loggedOut, signaled, stopped>>

SocketOps == {"connect", "handshake", "read", "write", "shutdown"}
Ops == SocketOps \cup {"resolve", "signal", "fetch_timer"}
Codes == {"ok", "eof", "aborted", "error", "parsed"}


\* The constructor of Copy::Client: do_signal_wait() and async_start().
ConnInit ==
    /\ Init
    /\ tls \in Transports
    /\ conn = "resolving" /\ wait = {"resolve", "signal"} /\ loop = <<>>
    /\ queue = <<>> /\ fresh = Len(input) /\ established = FALSE
    /\ loggedOut = FALSE /\ signaled = FALSE /\ stopped = TRUE
    /\ caught = 0 /\ signals = 0
    /\ failed = FALSE /\ mute = FALSE
    /\ ended = "running"
-----------------------------------------------------------------------------
\* The handler of x with code c is the next to run.
Alive == ended = "running"
Turn(x, c) == Alive /\ loop # <<>> /\ Head(loop) = <<x, c>>

\* An operation on a closed socket, and a write after TLS's close_notify, fail
\* at once: the handler is queued with an error.
FailsAtOnce(x, c) == c = "closed" \/ (x = "write" /\ c # "open")
Waits(x, c) == IF FailsAtOnce(x, c) THEN {} ELSE {x}
Fails(x, c) == IF FailsAtOnce(x, c) THEN << <<x, "error">> >> ELSE <<>>
Aborted(S) == SetToSeq({<<x, "aborted">> : x \in S})

\* The handler at the head of the loop is done; it has started the operations S
\* and queued the handlers Q.
Handled(S, Q) == wait' = wait \cup S /\ loop' = Tail(loop) \o Q

\* Base::push_write(): do_write() only if no write is in progress.
push_write(t) == queue' = Append(queue, t)
WriteWaits == IF queue = <<>> THEN Waits("write", conn) ELSE {}
WriteFails == IF queue = <<>> THEN Fails("write", conn) ELSE <<>>

\* close(): outstanding operations on the socket are aborted.  It is followed by
\* signals_.cancel().  W is outstanding, L is queued.
Close(W, L) ==
    /\ conn' = "closed"
    /\ wait' = W \ (SocketOps \cup {"signal"})
    /\ loop' = L \o Aborted(W \cap (SocketOps \cup {"signal"}))
    /\ UNCHANGED ended

\* Client::do_quit(), Application::async_finish(): cancel() throws if the socket
\* is not open.  Without TLS the shutdown is done at once, with it close_notify
\* is exchanged.
do_quit(W, L) ==
    /\ loggedOut' = TRUE
    /\ \/ /\ conn \in {"resolving", "closed"}
          /\ ended' = "thrown"
          /\ wait' = W /\ loop' = L /\ UNCHANGED conn
       \/ /\ conn \notin {"resolving", "closed"} /\ tls
          /\ conn' = "shutdown"
          /\ wait' = (W \ SocketOps) \cup {"shutdown"}
          /\ loop' = L \o Aborted(W \cap SocketOps)
          /\ UNCHANGED ended
       \/ /\ conn \notin {"resolving", "closed"} /\ ~tls
          /\ Close(W, L)
-----------------------------------------------------------------------------
\* Opening the connection.

\* The continuation of async_start(): do_read(), do_pre_login().
Start ==
    /\ established' = TRUE
    /\ conn' = IF conn \in {"connecting", "handshaking"} THEN "open" ELSE conn
    /\ Handled(Waits("read", conn), Fails("read", conn))

async_connect ==
    /\ Turn("resolve", "ok")
    /\ conn' = "connecting"
    /\ Handled({"connect"}, <<>>)
    /\ UNCHANGED <<lvars, envVars, dialogueVars, handlerVars, caught, ended>>

async_handshake ==
    /\ Turn("connect", "ok")
    /\ IF tls
       THEN /\ conn' = IF conn = "connecting" THEN "handshaking" ELSE conn
            /\ Handled(Waits("handshake", conn), Fails("handshake", conn))
            /\ UNCHANGED established
       ELSE Start
    /\ UNCHANGED <<lvars, envVars, dialogueVars, loggedOut, signaled, stopped,
                   caught, ended>>

handshaken ==
    /\ Turn("handshake", "ok")
    /\ Start
    /\ UNCHANGED <<lvars, envVars, dialogueVars, loggedOut, signaled, stopped,
                   caught, ended>>

\* Handlers that throw whatever the error is; an aborted operation is one.
operation_failed ==
    /\ \E x \in {"resolve", "connect", "handshake", "write"},
          c \in {"eof", "aborted", "error"} : Turn(x, c)
    /\ ended' = "thrown"
    /\ UNCHANGED <<lvars, envVars, dialogueVars, handlerVars, loopVars, conn,
                   caught>>
-----------------------------------------------------------------------------
\* Reading.  The handler parses the chunk, one callback after the other, and
\* reads again unless state_ is LOGGED_OUT.

InChunk ==
    /\ Turn("read", "ok") \/ Turn("read", "parsed")
    /\ Len(input) > fresh

\* Mutant: the next read is started before the chunk is parsed.
Parsed_early(S, Q) ==
    /\ wait' = wait \cup S \cup {"read"}
    /\ loop' = << <<"read", "parsed">> >> \o Tail(loop) \o Q

\* The handler has started S and queued Q, and is still parsing.
Parsed(S, Q) ==
    /\ wait' = wait \cup S
    /\ loop' = << <<"read", "parsed">> >> \o Tail(loop) \o Q

LoginCallback ==
    \/ capability_begin \/ (\E c \in Caps : imap_capability(c)) \/ capability_end
    \/ code_begin \/ untagged_end
    \/ capabilities_received \/ logged_in \/ capabilities_received_again
    \/ imap_tagged_status_failed

\* A callback of Login: it may send a command, cancel login_timer_ or throw.
login_callback ==
    /\ InChunk /\ LoginCallback
    /\ IF Len(requests') > Len(requests)
       THEN Parsed(WriteWaits, WriteFails) /\ push_write(Last(requests'))
       ELSE /\ UNCHANGED queue
            /\ Parsed({}, IF timer = "armed" /\ timer' = "queued"
                          THEN << <<"login_timer", "aborted">> >> ELSE <<>>)
    /\ ended' = IF outcome' = "thrown" THEN "thrown" ELSE ended
    /\ UNCHANGED <<envVars, handlerVars, conn, fresh, caught>>

\* A tagged response after login: the continuation writes the next command.
\* Fetch_Timer::start() comes before FETCH, stop() after its answer.
task_command ==
    /\ InChunk
    /\ \E t, s \in TaskTags :
          LET stops == t = "fetch" /\ "fetch_timer" \in wait
          IN /\ next_command(t, s)
             /\ wait' = (IF stops THEN wait \ {"fetch_timer"} ELSE wait)
                        \cup WriteWaits
                        \cup (IF s = "fetch" THEN {"fetch_timer"} ELSE {})
             /\ loop' = << <<"read", "parsed">> >> \o Tail(loop)
                        \o Aborted({x \in {"fetch_timer"} : stops}) \o WriteFails
             /\ stopped' = CASE s = "fetch" -> FALSE
                             [] t = "fetch" -> TRUE
                             [] OTHER -> stopped
             /\ push_write(s)
    /\ UNCHANGED <<envVars, conn, established, fresh, loggedOut, signaled,
                   caught, ended>>

\* LOGOUT is answered.
finished ==
    /\ InChunk /\ logged_out
    /\ do_quit(wait, << <<"read", "parsed">> >> \o Tail(loop))
    /\ UNCHANGED <<envVars, dialogueVars, established, signaled, stopped, caught>>

\* Mutant: reads on whatever the state.
do_read_always ==
    /\ Turn("read", "parsed") /\ (inList => SplitGreeting)
    /\ Handled(Waits("read", conn), Fails("read", conn))
    /\ UNCHANGED <<lvars, envVars, dialogueVars, handlerVars, conn, caught,
                   ended>>

\* The end of the chunk.
do_read ==
    /\ Turn("read", "parsed") /\ (inList => SplitGreeting)
    /\ IF loggedOut THEN Handled({}, <<>>)
       ELSE Handled(Waits("read", conn), Fails("read", conn))
    /\ UNCHANGED <<lvars, envVars, dialogueVars, handlerVars, conn, caught,
                   ended>>

\* The read handler with an error: the end of input is none after do_quit().
read_failed ==
    /\ \E c \in {"eof", "aborted", "error"} :
          /\ Turn("read", c)
          /\ IF loggedOut /\ c = "eof"
             THEN Handled({}, <<>>) /\ UNCHANGED ended
             ELSE ended' = "thrown" /\ UNCHANGED <<wait, loop>>
    /\ UNCHANGED <<lvars, envVars, dialogueVars, handlerVars, conn, caught>>
-----------------------------------------------------------------------------
\* The other handlers.

\* Mutant: the handler of a finished write leaves the queue alone.
written_keeps ==
    /\ Turn("write", "ok")
    /\ Handled({}, <<>>)
    /\ UNCHANGED <<lvars, envVars, dialogueVars, handlerVars, conn, caught,
                   ended>>

\* A finished write; the next one in the queue is not started.
written ==
    /\ Turn("write", "ok")
    /\ queue' = Tail(queue)
    /\ Handled({}, <<>>)
    /\ UNCHANGED <<lvars, envVars, handlerVars, conn, fresh, caught,
                   ended>>

\* login_timer_: expired, or cancelled by the greeting's capability list.  The
\* handler does the same in both cases, also after do_quit().
login_timer ==
    /\ (Turn("login_timer", "ok") \/ Turn("login_timer", "aborted"))
    /\ do_pre_login
    /\ IF requests' = requests THEN Handled({}, <<>>) /\ UNCHANGED queue
       ELSE Handled(WriteWaits, WriteFails) /\ push_write(Last(requests'))
    /\ ended' = IF outcome' = "thrown" THEN "thrown" ELSE ended
    /\ UNCHANGED <<envVars, handlerVars, conn, fresh, caught>>

\* Fetch_Timer::resume().
fetch_timer ==
    /\ \/ Turn("fetch_timer", "ok")
             /\ Handled(IF stopped THEN {} ELSE {"fetch_timer"}, <<>>)
       \/ Turn("fetch_timer", "aborted") /\ Handled({}, <<>>)
    /\ UNCHANGED <<lvars, envVars, dialogueVars, handlerVars, conn, caught,
                   ended>>

\* Mutant: signals are not waited for again.
do_signal_once ==
    /\ Turn("signal", "ok") /\ ~signaled
    /\ signaled' = TRUE
    /\ UNCHANGED caught
    /\ do_quit(wait, Tail(loop))
    /\ UNCHANGED <<lvars, envVars, dialogueVars, established, stopped>>

\* The first signal: wait for the next one, and quit.
do_signal ==
    /\ Turn("signal", "ok") /\ ~signaled
    /\ signaled' = TRUE
    /\ IF caught > 0
       THEN /\ caught' = caught - 1
            /\ do_quit(wait, Append(Tail(loop), <<"signal", "ok">>))
       ELSE /\ UNCHANGED caught
            /\ do_quit(wait \cup {"signal"}, Tail(loop))
    /\ UNCHANGED <<lvars, envVars, dialogueVars, established, stopped>>

do_signal_again ==
    /\ Turn("signal", "ok") /\ signaled
    /\ ended' = "thrown"
    /\ UNCHANGED <<lvars, envVars, dialogueVars, handlerVars, loopVars, conn,
                   caught>>

signal_cancelled ==
    /\ Turn("signal", "aborted")
    /\ Handled({}, <<>>)
    /\ UNCHANGED <<lvars, envVars, dialogueVars, handlerVars, conn, caught,
                   ended>>

\* The TLS shutdown is over: a peer that has just closed is tolerated.
async_shutdown ==
    /\ \/ /\ (Turn("shutdown", "ok") \/ Turn("shutdown", "eof"))
          /\ Close(wait, Tail(loop))
       \/ /\ (Turn("shutdown", "aborted") \/ Turn("shutdown", "error"))
          /\ ended' = "thrown"
          /\ UNCHANGED <<conn, wait, loop>>
    /\ UNCHANGED <<lvars, envVars, dialogueVars, handlerVars, caught>>

\* io_service::run() returns when nothing is queued or outstanding.
run_returns ==
    /\ Alive /\ loop = <<>> /\ wait = {} /\ (established => timer # "armed")
    /\ ended' = "returned"
    /\ UNCHANGED <<lvars, envVars, dialogueVars, handlerVars, loopVars, conn,
                   caught>>

Handle ==
    \/ async_connect \/ async_handshake \/ handshaken \/ operation_failed
    \/ login_callback \/ task_command \/ finished \/ do_read \/ read_failed
    \/ written \/ login_timer \/ fetch_timer
    \/ do_signal \/ do_signal_again \/ signal_cancelled \/ async_shutdown
    \/ run_returns
-----------------------------------------------------------------------------
\* The environment (external): operating system, timers, network, server.

Complete(x, c) ==
    /\ Alive /\ x \in wait
    /\ wait' = wait \ {x} /\ loop' = Append(loop, <<x, c>>)

login_timer_expires ==
    /\ Alive /\ established /\ TimerExpires
    /\ loop' = Append(loop, <<"login_timer", "ok">>)
    /\ UNCHANGED <<envVars, dialogueVars, handlerVars, conn, wait, caught,
                   ended>>

fetch_timer_expires ==
    /\ Complete("fetch_timer", "ok")
    /\ UNCHANGED <<lvars, envVars, dialogueVars, handlerVars, conn, caught,
                   ended>>

Succeeds ==
    /\ ~mute
    /\ \E x \in SocketOps \cup {"resolve"} :
          /\ x = "read" => input # <<>>
          /\ Complete(x, "ok")
          /\ fresh' = IF x = "read" THEN 0 ELSE fresh
    /\ UNCHANGED <<lvars, envVars, handlerVars, conn, queue, caught, ended>>

Breaks ==
    /\ \/ \E x \in SocketOps \cup {"resolve"} :
             Complete(x, "error") /\ failed' = TRUE
       \/ input = <<>> /\ Complete("read", "eof") /\ failed' = TRUE
       \/ Complete("shutdown", "eof") /\ UNCHANGED failed
    /\ UNCHANGED <<lvars, dialogueVars, handlerVars, tls, conn, caught, signals,
                   mute, ended>>

\* The command has left the socket.
Sent(t) ==
    \/ t \notin ToSet(queue)
    \/ queue # <<>> /\ t = Head(queue) /\ <<"write", "ok">> \in ToSet(loop)

Serves ==
    /\ Alive /\ ~mute /\ ~failed /\ conn = "open"
    /\ requests # <<>> /\ Sent(Head(requests))
    /\ ServerAnswers
    /\ fresh' = fresh + Len(input') - Len(input)
    /\ UNCHANGED <<envVars, handlerVars, loopVars, conn, queue, caught, ended>>

GoesMute ==
    /\ Alive /\ ~mute /\ mute' = TRUE
    /\ UNCHANGED <<lvars, dialogueVars, handlerVars, loopVars, tls, conn,
                   caught, signals, failed, ended>>

Signal ==
    /\ Alive /\ signals < MaxSignals
    /\ signals' = signals + 1
    /\ \/ Complete("signal", "ok") /\ UNCHANGED caught
       \/ "signal" \notin wait /\ caught' = caught + 1 /\ UNCHANGED <<wait, loop>>
    /\ UNCHANGED <<lvars, dialogueVars, handlerVars, tls, conn, failed, mute,
                   ended>>

ConnNext ==
    \/ Handle
    \/ login_timer_expires \/ fetch_timer_expires
    \/ Succeeds \/ Breaks \/ Serves \/ GoesMute \/ Signal

ConnSpec == ConnInit /\ [][ConnNext]_vars

\* The loop runs queued handlers, timers expire; the network and the server
\* respond until they go mute.
ConnFairSpec ==
    /\ ConnSpec
    /\ WF_vars(Handle)
    /\ WF_vars(login_timer_expires) /\ WF_vars(fetch_timer_expires)
    /\ WF_vars(Succeeds) /\ WF_vars(Serves)
-----------------------------------------------------------------------------
\* Types; a command is in the queue at most once.
ConnTypeOK ==
    /\ TypeOK
    /\ tls \in Transports
    /\ conn \in {"resolving", "connecting", "handshaking", "open", "shutdown",
                 "closed"}
    /\ wait \in SUBSET Ops
    /\ \A i \in DOMAIN loop : loop[i] \in (Ops \cup {"login_timer"}) \X Codes
    /\ ToSet(queue) \subseteq Tags /\ IsInjective(queue)
    /\ fresh \in 0..Len(input)
    /\ {established, loggedOut, signaled, stopped, failed, mute} \subseteq BOOLEAN
    /\ caught \in 0..MaxSignals /\ signals \in 0..MaxSignals
    /\ ended \in {"running", "returned", "thrown"}

\* No command is left in the queue: as long as there is one, a write is under way
\* or its handler is about to run.  The handler does not start the next write, so
\* this rests on the dialogue: one command at a time, and the next one is issued
\* only after the handler.
NoStrandedWrite ==
    /\ OneCommandAtATime
    /\ Alive /\ queue # <<>> =>
          "write" \in wait \/ \E c \in Codes : <<"write", c>> \in ToSet(loop)

\* An operation is outstanding or queued once at a time: the socket allows for one
\* read and one write, a timer and the signal set are waited for once.  The TLS
\* shutdown is started once by a signal and once by LOGOUT's answer, hence twice
\* if the signal's handler is queued with the read of that answer: do_quit() does
\* not look whether it has been called.  Types hold as well.
Started(x) ==
    Cardinality({i \in DOMAIN loop : loop[i][1] = x}) + (IF x \in wait THEN 1 ELSE 0)
OneOfEach ==
    /\ ConnTypeOK
    /\ \A x \in Ops \ {"shutdown"} : Started(x) <= 1
    /\ Started("shutdown") <= (IF signaled THEN 1 ELSE 0)
                              + (IF outcome = "post_login" /\ pending = {} THEN 1 ELSE 0)

\* A run that nobody disturbs does not end by an exception, after LOGOUT neither:
\* do_quit() finds nothing it would have to abort.
UndisturbedReturns ==
    ended = "thrown" => signals > 0 \/ failed \/ outcome = "thrown"

\* The fetch timer is all that keeps the loop going, and nobody stops it.
TimerHolds == loggedOut /\ ~stopped /\ conn = "closed"

\* The run ends if the peer responds, whatever breaks and whenever the first
\* signal comes, except for the timer.
RunConcludes == <>(~Alive \/ mute \/ TimerHolds)

\* A second signal ends the program although the peer is mute; again except for
\* the timer, with which the program has stopped to wait for signals.
SignalsEnd == (signals = 2) ~> (~Alive \/ TimerHolds)

\* The second signal ends the program, always: "the second time - immediate exit".
\* This is not so because of the timer.
SecondSignalEnds == (signals = 2) ~> ~Alive
=============================================================================
