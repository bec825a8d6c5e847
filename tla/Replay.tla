------------------------------- MODULE Replay -------------------------------
(***************************************************************************)
(* The recording client and the replaying server of example/, which the    *)
(* unit tests use to play a recorded session again, and the trace format   *)
(* they share.  One client meets one server.                               *)
(*                                                                         *)
(* Each side is a record, and each C++ function that works on it is an     *)
(* operator from records to records.  As in Connection an operation is     *)
(* outstanding (wait) until the outside world completes it; its handler is *)
(* then queued (loop) with a code and, for a read, the octets.             *)
(*                                                                         *)
(* A message is a sequence of octets.  With TLS a read yields exactly what *)
(* one write has sent, without it any piece of the stream.  The times of a *)
(* trace are left out: a timer may expire whenever it is armed.            *)
(***************************************************************************)
EXTENDS Naturals, SequencesExt, FiniteSets

CONSTANTS
    Configs,      \* how the two programs may be started
    Lines,        \* what the user may type
    Bound,        \* bound: lines typed, and signals sent to the two programs
    BufferSize    \* octets a read may yield

Sides == {"client", "server"}
Peer(s) == IF s = "client" THEN "server" ELSE "client"
Types == {"SENT", "RECEIVED", "DISCONNECT", "END_OF_FILE"}
Record(t, m) == [type |-> t, message |-> m]

\* The options decide what a side does: with a replay file it plays the trace.
ClientModes == {"keyboard", "replay"}
ServerModes == {"echo", "replay"}

\* What a command line or a test sets: whether a side replays the trace, whether
\* the client records one, TLS, a time limit, whether the network may fail, and how
\* many lines are typed and signals sent at most.
ConfigsOf(T) ==
    [client : ClientModes, server : ServerModes,
     ssl : BOOLEAN, limit : BOOLEAN, log : BOOLEAN, faulty : BOOLEAN,
     lines : 0..Bound, signals : 0..Bound, trace : T]

\* How the unit test starts the two: the same trace, over TLS, with a limit.
Basic(tr) ==
    [client |-> "replay", server |-> "replay", ssl |-> TRUE, limit |-> TRUE,
     log |-> FALSE, faulty |-> FALSE, lines |-> 0, signals |-> 0, trace |-> tr]

Exit == <<"x", "cr", "nl">>            \* "exit\r\n", to the server
Bye == <<"b", "cr", "nl">>             \* "bye\r\n", to the client
GoodBye == <<"S", "x", "g">>           \* "S: exit -> GOOD BYE!\r\n"
LastWords(s) == IF s = "client" THEN <<"g", "cr", "nl">> ELSE <<"d">>

Octet == {"0", "S", "a", "b", "cr", "d", "g", "nl", "x"}

\* A message fits into the buffer of a read, one that is echoed with the mark that
\* the server puts before it.
Fits == {m \in Seq(Octet) : Len(m) <= BufferSize}
Echoed == {m \in Seq(Octet) : Len(m) < BufferSize}
Records(M) == [type : Types, message : M]

\* A trace that is replayed ends where the recording did.
ASSUME ReplayAssumption ==
    /\ Bound \in Nat /\ BufferSize \in Nat /\ BufferSize > 3
    /\ \A c \in Configs :
          /\ c \in ConfigsOf(Seq(Records(IF c.server = "echo" THEN Echoed ELSE Fits)))
          /\ "replay" \in {c.client, c.server} =>
                c.trace # <<>> /\ Last(c.trace).type = "END_OF_FILE"
    /\ \A l \in Lines : /\ l \in Seq(Octet) /\ l # <<>>
                         /\ Last(l) = "nl" /\ Len(l) + 2 <= BufferSize

VARIABLES
    opts,      \* the configuration of this run
    side,      \* the two programs
    wire,      \* wire[s]: what s has written and its peer has not read
    lines,     \* lines typed
    signals,   \* signals sent
    given      \* history: messages of its queue that the client has written

vars == <<opts, side, wire, lines, signals, given>>
-----------------------------------------------------------------------------
\* Operations.
Reads == {"read", "watch"}
Writes == {"write", "echo", "last", "bye"}
SocketOps == {"connect", "handshake", "shutdown"} \cup Reads \cup Writes
Ops == SocketOps \cup {"stdin", "signal", "timer", "limit", "accept",
                       "main_signal", "resolve"}
Codes == {"ok", "eof", "short", "aborted", "error"}

Done(x, c, m) == [op |-> x, code |-> c, octets |-> m]

\* An operation is started; on a socket that is not open it fails at once.
Begin(x, r) ==
    IF x \in SocketOps \ {"connect"} /\ r.conn \in {"none", "closed"}
    THEN [r EXCEPT !.loop = Append(@, Done(x, "error", <<>>))]
    ELSE [r EXCEPT !.wait = @ \cup {x}]

\* The outstanding ones of X are aborted, in an order that is left open.
Abort(X, r) ==
    [r EXCEPT !.wait = @ \ X,
              !.loop = @ \o SetToSeq({Done(x, "aborted", <<>>) : x \in X \cap r.wait})]

close(r) == [Abort(SocketOps, r) EXCEPT !.conn = "closed"]
Throw(why, r) == [r EXCEPT !.status = why]

\* cancel() throws on a socket that is not open.
cancel(r) == IF r.conn \in {"none", "closed"} THEN Throw("cancel", r)
             ELSE Abort(SocketOps, r)

Running(s) == side[s].status = "running"
Turn(s, x) == Running(s) /\ side[s].loop # <<>> /\ Head(side[s].loop).op = x
This(s) == [side[s] EXCEPT !.loop = Tail(@)]
Code(s) == Head(side[s].loop).code
Octets(s) == Head(side[s].loop).octets
Fine(s) == Code(s) = "ok"

\* The members before anything has happened.
Idle == [wait |-> {}, loop |-> <<>>, conn |-> "none", queue |-> <<>>, pos |-> 0,
         expected |-> <<>>, echo |-> <<>>, data |-> [i \in 1..BufferSize |-> "0"],
         signaled |-> FALSE, log |-> <<>>, session |-> "none",
         status |-> "running"]

\* Client::Main's constructor: do_signal_wait(), do_keyboard_read(), resolve.
ClientMain(o) ==
    [Idle EXCEPT !.session = "live",
                 !.wait = {"signal", "resolve"} \cup
                          (IF o.client = "keyboard" THEN {"stdin"} ELSE {})]

\* Server::Main's constructor: signals, the limit, do_accept().
ServerMain(o) ==
    [Idle EXCEPT !.wait = {"main_signal", "accept"} \cup
                          (IF o.limit THEN {"limit"} ELSE {})]

Init ==
    /\ opts \in Configs
    /\ side = [client |-> ClientMain(opts), server |-> ServerMain(opts)]
    /\ wire = [s \in Sides |-> <<>>]
    /\ lines = 0 /\ signals = 0 /\ given = <<>>
-----------------------------------------------------------------------------
\* Functions that both sides have, or that differ in a word only.

\* Trace::Writer::push(), and the archive of the client.
push(t, m, r) == IF opts.log THEN [r EXCEPT !.log = Append(@, Record(t, m))]
                 ELSE r

\* do_write(): the front of the queue; the client records it.
do_write(s, r) ==
    LET logged == IF s = "client" THEN push("SENT", Head(r.queue), r) ELSE r
    IN Begin("write", logged)

\* Mutant: do_write() whether a write is in progress or not.
enqueue_again(s, m, r) ==
    LET q == [r EXCEPT !.queue = Append(@, m)]
    IN do_write(s, q)

\* A message is queued; do_write() unless a write is in progress.
enqueue(s, m, r) ==
    LET q == [r EXCEPT !.queue = Append(@, m)]
    IN IF r.queue = <<>> THEN do_write(s, q) ELSE q

do_read(r) == Begin("read", r)

\* do_close() of the client, at the end of a replayed session.
do_close(r) ==
    IF opts.ssl THEN cancel(r) ELSE Abort({"stdin", "signal"}, close(r))

\* do_replay(): the next record of the trace.  Nothing is left after the record
\* END_OF_FILE.
do_replay(s, r) ==
    LET rec == opts.trace[r.pos + 1]
        n == [r EXCEPT !.pos = @ + 1]
    IN CASE rec.type \in {"SENT", "RECEIVED"} -> Begin("timer", n)
         [] rec.type = "DISCONNECT" -> IF s = "client" THEN do_close(n)
                                       ELSE Begin("watch", n)
         [] rec.type = "END_OF_FILE" -> n

start_replay(s, r) ==
    do_replay(s, IF s = "client" /\ opts.limit THEN Begin("limit", r) ELSE r)

\* The connection stands.
Established(s, r) ==
    LET open == [r EXCEPT !.conn = IF @ = "closed" THEN @ ELSE "open"]
    IN IF opts[s] = "replay" THEN start_replay(s, open) ELSE do_read(open)

\* do_last_write_close()
do_last_write_close(r) == Begin("bye", r)

\* do_shutdown() of the client
do_shutdown(r) ==
    LET b == Begin("shutdown", r)
    IN IF opts.ssl
       THEN [b EXCEPT !.conn = IF @ = "open" THEN "shutdown" ELSE @] ELSE r

\* Mutant: the server reads the next record as soon as it has started a read.
replayed_early(s, r) ==
    LET rec == opts.trace[r.pos]
        own == rec.type = (IF s = "client" THEN "SENT" ELSE "RECEIVED")
    IN do_replay(s, IF own THEN enqueue(s, rec.message, r)
                    ELSE do_read([r EXCEPT !.expected = rec.message]))

\* Mutant: what was expected before is not dropped.
replayed_appends(s, r) ==
    LET rec == opts.trace[r.pos]
        own == rec.type = (IF s = "client" THEN "SENT" ELSE "RECEIVED")
    IN IF own THEN do_replay(s, enqueue(s, rec.message, r))
       ELSE do_read([r EXCEPT !.expected = @ \o rec.message])

\* What the timer's handler does with the record: a side sends what it has sent
\* when the trace was recorded, and expects what it received.
replayed(s, r) ==
    LET rec == opts.trace[r.pos]
        own == rec.type = (IF s = "client" THEN "SENT" ELSE "RECEIVED")
    IN IF own THEN do_replay(s, enqueue(s, rec.message, r))
       ELSE do_read([r EXCEPT !.expected = rec.message])

\* A read's octets in the buffer, over what earlier reads have left there.
Fill(m, r) == [r EXCEPT !.data = m \o SubSeq(@, Len(m) + 1, BufferSize)]
Begins(word, r) == SubSeq(r.data, 1, Len(word)) = word

Mismatch(s, m) == opts[s] = "replay" /\ m # side[s].expected
-----------------------------------------------------------------------------
\* The session object of the server lives as long as a handler holds it; its
\* destructor closes the socket and cancels the limit.
Holders == {"signal", "handshake", "read", "timer"} \cup Writes
Held(r) == \/ r.wait \cap Holders # {}
           \/ \E i \in 1..Len(r.loop) : r.loop[i].op \in Holders

Released(r) ==
    IF r.session = "live" /\ ~Held(r)
    THEN [Abort({"limit"}, close(r)) EXCEPT !.session = "destroyed"]
    ELSE r

\* A handler of the client, or of the server, ends with r.
ClientDoes(r) ==
    /\ side' = [side EXCEPT !["client"] = r]
    /\ UNCHANGED <<opts, wire, lines, signals, given>>
ServerDoes(r) ==
    /\ side' = [side EXCEPT !["server"] = Released(r)]
    /\ UNCHANGED <<opts, wire, lines, signals, given>>
ThisClient == This("client")
ThisServer == This("server")
-----------------------------------------------------------------------------
\* Handlers of the client.

resolved ==
    /\ Turn("client", "resolve")
    /\ ClientDoes(IF Fine("client")
                  THEN [Begin("connect", ThisClient) EXCEPT !.conn = "connecting"]
                  ELSE ThisClient)

do_connect ==
    /\ Turn("client", "connect")
    /\ ClientDoes(
          CASE Fine("client") /\ opts.ssl ->
                  LET h == Begin("handshake", ThisClient)
                  IN [h EXCEPT !.conn = IF @ = "closed" THEN @ ELSE "handshaking"]
            [] Fine("client") /\ ~opts.ssl -> Established("client", ThisClient)
            [] OTHER -> Abort({"signal", "stdin"}, ThisClient))

\* The handler of the handshake goes on before it looks at the error.
do_handshake ==
    /\ Turn("client", "handshake")
    /\ LET r == Established("client", ThisClient)
       IN ClientDoes(IF Fine("client") THEN r
                     ELSE close(Abort({"signal", "stdin"}, r)))

client_timer ==
    /\ Turn("client", "timer")
    /\ ClientDoes(replayed("client", ThisClient))

\* The end of the connection: TLS's shutdown follows only a truncated stream or
\* a cancelled read.
client_read_failed ==
    /\ Turn("client", "read") /\ ~Fine("client")
    /\ ClientDoes(IF Code("client") \in {"short", "aborted"}
                  THEN do_shutdown(ThisClient) ELSE ThisClient)

client_read ==
    /\ Turn("client", "read") /\ Fine("client")
    /\ LET m == Octets("client")
           r == push("RECEIVED", m, Fill(m, ThisClient))
       IN ClientDoes(CASE Mismatch("client", m) -> Throw("mismatch", r)
                       [] ~Mismatch("client", m) /\ Begins(Bye, r) ->
                             do_shutdown(r)
                       [] OTHER -> IF opts.client = "replay"
                                   THEN do_replay("client", r)
                                   ELSE do_read(r))

shutdown_done ==
    /\ Turn("client", "shutdown")
    /\ ClientDoes(close(Abort({"stdin", "signal", "timer", "limit"},
                              push("DISCONNECT", <<>>, ThisClient))))

\* A line from the keyboard: its line feed becomes "\r\n".
do_keyboard_read ==
    /\ Turn("client", "stdin") /\ Fine("client")
    /\ LET m == Front(Octets("client")) \o <<"cr", "nl">>
       IN ClientDoes(Begin("stdin", enqueue("client", m, ThisClient)))

keyboard_ends ==
    /\ Turn("client", "stdin") /\ ~Fine("client")
    /\ ClientDoes(Abort({"signal"}, close(ThisClient)))

\* do_signal_wait(): the second signal closes.
client_signal ==
    /\ Turn("client", "signal")
    /\ LET r == ThisClient
           s == [r EXCEPT !.signaled = TRUE]
       IN ClientDoes(
             CASE ~Fine("client") -> r
               [] Fine("client") /\ r.signaled ->
                     Abort({"stdin", "signal"}, close(r))
               [] OTHER -> do_last_write_close(Begin("signal", s)))

client_bye ==
    /\ Turn("client", "bye")
    /\ ClientDoes(do_close(ThisClient))
-----------------------------------------------------------------------------
\* Handlers of the server.

\* Mutant: a connection stops the limit.
accepted_unlimited ==
    /\ Turn("server", "accept") /\ Fine("server")
    /\ LET up == [ThisServer EXCEPT !.session = "live", !.conn = "handshaking"]
           r == Begin("signal", up)
           begun == IF opts.ssl THEN Begin("handshake", r)
                    ELSE Established("server", r)
       IN ServerDoes(IF opts.server = "replay"
                     THEN Abort({"main_signal", "limit"}, begun)
                     ELSE Begin("accept", begun))

\* do_accept(), do_ssl_accept() and session::start()
accepted ==
    /\ Turn("server", "accept") /\ Fine("server")
    /\ LET up == [ThisServer EXCEPT !.session = "live", !.conn = "handshaking"]
           r == Begin("signal", up)
           begun == IF opts.ssl THEN Begin("handshake", r)
                    ELSE Established("server", r)
       IN ServerDoes(IF opts.server = "replay" THEN Abort({"main_signal"}, begun)
                     ELSE Begin("accept", begun))

\* Over TLS the session object that waits for a client is destroyed.
accept_failed ==
    /\ Turn("server", "accept") /\ ~Fine("server")
    /\ ServerDoes(IF opts.ssl THEN Abort({"limit"}, ThisServer) ELSE ThisServer)

handshaken ==
    /\ Turn("server", "handshake")
    /\ ServerDoes(IF Fine("server") THEN Established("server", ThisServer)
                  ELSE Abort({"signal"}, ThisServer))

server_timer ==
    /\ Turn("server", "timer")
    /\ ServerDoes(replayed("server", ThisServer))

\* do_read(): an exit is answered and ends the session, anything else is
\* compared with the trace or sent back.
server_read ==
    /\ Turn("server", "read")
    /\ LET m == Octets("server")
           r == Fill(m, ThisServer)
       IN ServerDoes(
             CASE ~Fine("server") -> ThisServer
               [] Fine("server") /\ Mismatch("server", m) -> Throw("mismatch", r)
               [] OTHER -> IF Begins(Exit, r) THEN Begin("last", r)
                           ELSE IF opts.server = "replay"
                                THEN do_replay("server", r)
                                ELSE Begin("echo", [r EXCEPT !.echo = m]))

\* The handler of do_write(length): the echo has been sent.
echoed ==
    /\ Turn("server", "echo")
    /\ ServerDoes(IF Fine("server") THEN do_read(ThisServer) ELSE ThisServer)

\* do_last_write()
last_written ==
    /\ Turn("server", "last")
    /\ ServerDoes(Abort({"signal"}, ThisServer))

\* Mutant: the client's close_notify does not end the session.
wait_for_disconnect_eof ==
    /\ Turn("server", "watch")
    /\ ServerDoes(CASE side["server"].session = "destroyed" ->
                          Throw("undefined", ThisServer)
                    [] side["server"].session # "destroyed"
                       /\ Code("server") \in {"short", "aborted"} ->
                          Abort({"signal"}, ThisServer)
                    [] side["server"].session # "destroyed"
                       /\ Code("server") = "eof" -> ThisServer
                    [] OTHER -> Throw("disconnect", ThisServer))

\* wait_for_disconnect(): its handler does not hold the session.
wait_for_disconnect ==
    /\ Turn("server", "watch")
    /\ ServerDoes(CASE side["server"].session = "destroyed" ->
                          Throw("undefined", ThisServer)
                    [] side["server"].session # "destroyed"
                       /\ Code("server") \in {"short", "aborted", "eof"} ->
                          Abort({"signal"}, ThisServer)
                    [] OTHER -> Throw("disconnect", ThisServer))

\* do_signal_wait() of the session: socket() is the one of TLS.
server_signal ==
    /\ Turn("server", "signal")
    /\ LET r == ThisServer
           s == [r EXCEPT !.signaled = TRUE]
       IN ServerDoes(
             CASE ~Fine("server") -> r
               [] Fine("server") /\ r.signaled -> IF opts.ssl THEN close(r) ELSE r
               [] OTHER -> do_last_write_close(Begin("signal", s)))

server_bye ==
    /\ Turn("server", "bye")
    /\ ServerDoes(Abort({"signal"}, IF opts.ssl THEN close(ThisServer)
                                    ELSE Abort(SocketOps, ThisServer)))

\* Main's signal handler closes the acceptor.
main_signal ==
    /\ Turn("server", "main_signal")
    /\ ServerDoes(IF Fine("server") THEN Abort({"accept"}, ThisServer)
                  ELSE ThisServer)
-----------------------------------------------------------------------------
\* Handlers of either side.

Does(s, r) == IF s = "client" THEN ClientDoes(r) ELSE ServerDoes(r)

written(s) ==
    /\ Turn(s, "write")
    /\ LET r == [This(s) EXCEPT !.queue = IF Fine(s) THEN Tail(@) ELSE @]
       IN Does(s, IF Fine(s) /\ r.queue # <<>> THEN do_write(s, r) ELSE r)

limit(s) ==
    /\ Turn(s, "limit")
    /\ Does(s, IF Code(s) = "aborted" THEN This(s) ELSE Throw("limit", This(s)))

\* io_service::run() has nothing left to do.
run_returns(s) ==
    /\ Running(s) /\ side[s].wait = {} /\ side[s].loop = <<>>
    /\ Does(s, [side[s] EXCEPT !.status = "returned"])

\* The process ends, also when a handler has thrown: Main::~Main() of the client
\* finishes the trace, and the socket closes.
finish(s) ==
    /\ ~Running(s) /\ side[s].session # "gone"
    /\ LET r == [close(side[s]) EXCEPT !.session = "gone", !.wait = {},
                                       !.loop = <<>>]
       IN side' = [side EXCEPT ![s] = IF s = "client"
                                      THEN push("END_OF_FILE", <<>>, r) ELSE r]
    /\ UNCHANGED <<opts, wire, lines, signals, given>>
-----------------------------------------------------------------------------
\* The outside world.

Waits(s, x) == Running(s) /\ x \in side[s].wait
Completes(s, x, c, m) ==
    side' = [side EXCEPT ![s].wait = @ \ {x},
                         ![s].loop = Append(@, Done(x, c, m))]
Gone(s) == side[s].conn = "closed" \/ ~Running(s)

Resolves ==
    /\ Waits("client", "resolve")
    /\ \E c \in {"ok"} \cup (IF opts.faulty THEN {"error"} ELSE {}) :
          Completes("client", "resolve", c, <<>>)
    /\ UNCHANGED <<opts, wire, lines, signals, given>>

Connects ==
    /\ Waits("client", "connect")
    /\ IF Waits("server", "accept")
       THEN side' = [s \in Sides |->
               LET x == IF s = "client" THEN "connect" ELSE "accept"
               IN [side[s] EXCEPT !.wait = @ \ {x},
                                  !.loop = Append(@, Done(x, "ok", <<>>))]]
       ELSE Completes("client", "connect", "error", <<>>)
    /\ UNCHANGED <<opts, wire, lines, signals, given>>

\* TLS's handshake succeeds on both sides or fails on both: the client rejects
\* the certificate.
Handshakes ==
    /\ \A s \in Sides : Waits(s, "handshake")
    /\ \E c \in {"ok"} \cup (IF opts.faulty THEN {"error"} ELSE {}) :
          side' = [s \in Sides |->
             [side[s] EXCEPT !.wait = @ \ {"handshake"},
                             !.loop = Append(@, Done("handshake", c, <<>>))]]
    /\ UNCHANGED <<opts, wire, lines, signals, given>>

HandshakeBreaks(s) ==
    /\ Waits(s, "handshake") /\ Gone(Peer(s))
    /\ Completes(s, "handshake", "error", <<>>)
    /\ UNCHANGED <<opts, wire, lines, signals, given>>

\* What a write sends.
Message(s, x) == CASE x = "write" -> Head(side[s].queue)
                   [] x = "echo" -> <<"S">> \o side[s].echo
                   [] x = "last" -> GoodBye
                   [] x = "bye" -> LastWords(s)

\* Messages keep their boundaries with TLS; without it they become one stream.
Sent(w, m) == IF opts.ssl \/ w = <<>> THEN Append(w, m) ELSE <<Head(w) \o m>>

Transmits(s, x) ==
    /\ Waits(s, x)
    /\ \/ /\ side[s].conn = "open" /\ ~Gone(Peer(s))
          /\ Completes(s, x, "ok", <<>>)
          /\ wire' = [wire EXCEPT ![s] = Sent(@, Message(s, x))]
          /\ given' = IF s = "client" /\ x = "write"
                      THEN Append(given, Message(s, x)) ELSE given
       \/ /\ side[s].conn # "open" \/ Gone(Peer(s))
          /\ Completes(s, x, "error", <<>>)
          /\ UNCHANGED <<wire, given>>
    /\ UNCHANGED <<opts, lines, signals>>

\* A read gets what one write has sent (TLS), or a piece of the stream.
Arrives(s, x) ==
    LET w == wire[Peer(s)]
        stream == Head(w)
    IN /\ Waits(s, x) /\ w # <<>> /\ side[s].conn = "open"
       /\ \/ /\ opts.ssl
             /\ Completes(s, x, "ok", Head(w))
             /\ wire' = [wire EXCEPT ![Peer(s)] = Tail(w)]
          \/ /\ ~opts.ssl
             /\ \E n \in 1..Len(stream) :
                   /\ n <= BufferSize
                   /\ Completes(s, x, "ok", SubSeq(stream, 1, n))
                   /\ wire' = [wire EXCEPT ![Peer(s)] =
                         IF n = Len(stream) THEN <<>>
                         ELSE <<SubSeq(stream, n + 1, Len(stream))>>]
       /\ UNCHANGED <<opts, lines, signals, given>>

\* The peer has closed; what it has left unread resets the connection.
PeerEnds(s, x) ==
    LET p == Peer(s)
        notified == side[p].conn = "shutdown"
    IN /\ Waits(s, x)
       /\ \/ /\ wire[p] = <<>> /\ Gone(p)
             /\ Completes(s, x, IF opts.ssl THEN "short" ELSE "eof", <<>>)
             /\ UNCHANGED wire
          \/ /\ wire[p] = <<>> /\ notified
             /\ Completes(s, x, "eof", <<>>)
             /\ UNCHANGED wire
          \/ /\ wire[s] # <<>> /\ Gone(p)
             /\ Completes(s, x, "error", <<>>)
             /\ wire' = [wire EXCEPT ![p] = <<>>]
       /\ UNCHANGED <<opts, lines, signals, given>>

\* The shutdown of TLS waits for the peer's.
ShutdownCompletes ==
    /\ Waits("client", "shutdown") /\ Gone("server")
    /\ Completes("client", "shutdown", "short", <<>>)
    /\ UNCHANGED <<opts, wire, lines, signals, given>>

Expires(s, x) ==
    /\ Waits(s, x)
    /\ Completes(s, x, "ok", <<>>)
    /\ UNCHANGED <<opts, wire, lines, signals, given>>

Types_line ==
    /\ Waits("client", "stdin") /\ lines < opts.lines
    /\ \E l \in Lines : Completes("client", "stdin", "ok", l)
    /\ lines' = lines + 1
    /\ UNCHANGED <<opts, wire, signals, given>>

Types_eof ==
    /\ Waits("client", "stdin")
    /\ Completes("client", "stdin", "eof", <<>>)
    /\ UNCHANGED <<opts, wire, lines, signals, given>>

\* A signal goes to every signal_set of the program that waits for one.
Signal(s) ==
    LET to == side[s].wait \cap {"signal", "main_signal"}
    IN /\ Running(s) /\ to # {} /\ signals < opts.signals
       /\ side' = [side EXCEPT
             ![s].wait = @ \ to,
             ![s].loop = @ \o SetToSeq({Done(x, "ok", <<>>) : x \in to})]
       /\ signals' = signals + 1
       /\ UNCHANGED <<opts, wire, lines, given>>

\* The trace that the client has recorded over TLS is replayed, undisturbed
\* and without a limit.
Recorded == opts.client = "keyboard" /\ opts.log /\ opts.ssl
ReplayRecorded ==
    /\ Recorded /\ side["client"].session = "gone"
    /\ opts' = [Basic(side["client"].log) EXCEPT !.limit = FALSE]
    /\ side' = [client |-> ClientMain(opts'), server |-> ServerMain(opts')]
    /\ wire' = [s \in Sides |-> <<>>]
    /\ lines' = 0 /\ signals' = 0 /\ given' = <<>>
-----------------------------------------------------------------------------
ClientHandler ==
    \/ resolved \/ do_connect \/ do_handshake \/ client_timer \/ client_read
    \/ client_read_failed \/ shutdown_done \/ do_keyboard_read \/ keyboard_ends
    \/ client_signal \/ client_bye

ServerHandler ==
    \/ accepted \/ accept_failed \/ handshaken \/ server_timer \/ server_read
    \/ echoed \/ last_written \/ wait_for_disconnect \/ server_signal
    \/ server_bye \/ main_signal

Handler ==
    \/ ClientHandler \/ ServerHandler
    \/ \E s \in Sides : written(s) \/ limit(s) \/ run_returns(s) \/ finish(s)

Network ==
    \/ Resolves \/ Connects \/ Handshakes \/ ShutdownCompletes
    \/ \E s \in Sides :
          \/ HandshakeBreaks(s) \/ Expires(s, "timer")
          \/ \E x \in Writes : Transmits(s, x)
          \/ \E x \in Reads : Arrives(s, x) \/ PeerEnds(s, x)

Limit == \E s \in Sides : Expires(s, "limit")
User == Types_line \/ Types_eof \/ \E s \in Sides : Signal(s)

Next == Handler \/ Network \/ Limit \/ User \/ ReplayRecorded
Spec == Init /\ [][Next]_vars

\* The loops run their handlers, the network delivers, and timers expire.
FairSpec == /\ Spec
            /\ WF_vars(Handler) /\ WF_vars(Network)
            /\ \A s \in Sides : WF_vars(Expires(s, "limit"))
-----------------------------------------------------------------------------
(* Properties. *)

\* Types of the two programs' members, of the queued handlers, and of the trace.
TypeOK ==
    /\ opts \in ConfigsOf({opts.trace})
    /\ lines \in 0..opts.lines /\ signals \in 0..opts.signals
    /\ \A s \in Sides :
          LET r == side[s]
          IN /\ r.wait \subseteq Ops
             /\ \A i \in 1..Len(r.loop) :
                   /\ r.loop[i].op \in Ops /\ r.loop[i].code \in Codes
                   /\ Range(r.loop[i].octets) \subseteq Octet
             /\ r.conn \in {"none", "connecting", "handshaking", "open",
                             "shutdown", "closed"}
             /\ r.pos <= Len(opts.trace)
             /\ Len(r.data) = BufferSize /\ Range(r.data) \subseteq Octet
             /\ r.session \in {"none", "live", "destroyed", "gone"}
             /\ r.status \in {"running", "returned", "mismatch", "limit",
                               "cancel", "disconnect", "undefined"}

\* A session replayed by both sides over TLS and left alone fits its trace: no
\* side meets a message it does not expect, an end it does not expect, or a
\* handler without its session; also when the trace is one that the client has
\* just recorded.  A trace with an exit is excepted: the server obeys it.
ReplayAgrees ==
    (/\ opts.ssl /\ opts.signals = 0 /\ ~opts.faulty
     /\ opts.client = "replay" /\ opts.server = "replay"
     /\ Record("SENT", Exit) \notin Range(opts.trace))
       => \A s \in Sides : \/ side[s].status \in {"running", "returned", "limit"}
                            \/ side[Peer(s)].status = "limit"

\* A replay is one chain: of the timer, the read, and the wait for the end, one
\* at most is outstanding or queued, so that nothing runs ahead of the trace or
\* past its end.  Types hold as well.
ReplayIsSequential ==
    /\ TypeOK
    /\ \A s \in Sides : opts[s] = "replay" =>
          LET chain == Reads \cup {"timer"}
              queued == {i \in 1..Len(side[s].loop) : side[s].loop[i].op \in chain}
          IN Cardinality(side[s].wait \cap chain) + Cardinality(queued) <= 1

\* Among the first i records of a trace: how many are about a message sent, and how
\* many are equal to r.
SentUpTo(log, i) == Cardinality({k \in 1..i : log[k].type = "SENT"})
UpTo(log, i, r) == Cardinality({k \in 1..i : log[k] = r})

\* What a typed line is sent as, and how the server sends it back.
Typed == {Front(l) \o <<"cr", "nl">> : l \in Lines}
Echo(m) == <<"S">> \o m

\* The recorded trace is a transcript: it names the written messages in their
\* order and at most one that is being written; and over TLS, with the echoing
\* server, a line is named before its echo, each time.  A line that reads like the
\* client's last words is excepted: those are echoed too, but not recorded.
TraceIsTranscript ==
    LET log == side["client"].log
    IN opts.log =>
          /\ SentUpTo(log, Len(log)) \in Len(given)..(Len(given) + 1)
          /\ \A i \in 1..Len(log) :
                log[i].type = "SENT" /\ SentUpTo(log, i) <= Len(given)
                   => log[i].message = given[SentUpTo(log, i)]
          /\ opts.ssl /\ opts.server = "echo" =>
                \A m \in Typed \ {LastWords("client")}, i \in 1..Len(log) :
                   log[i] = Record("RECEIVED", Echo(m)) =>
                      UpTo(log, i, log[i]) <= UpTo(log, i, Record("SENT", m))

\* A replaying server with a limit ends, whatever its client does.
LimitEnds ==
    (opts.server = "replay" /\ opts.limit)
       ~> (opts.server = "replay" /\ ~Running("server"))

\* A trace in which the server takes leave before the disconnect is replayed to
\* its end, and both programs return.
TakesLeave(tr) ==
    \E i \in 1..Len(tr) : /\ tr[i] = Record("RECEIVED", Bye)
                          /\ SubSeq(tr, i + 1, Len(tr)) =
                                <<Record("DISCONNECT", <<>>),
                                  Record("END_OF_FILE", <<>>)>>
ReplayConcludes ==
    (opts.ssl /\ opts.signals = 0 /\ ~opts.faulty /\ ~opts.limit
       /\ opts.client = "replay" /\ opts.server = "replay"
       /\ TakesLeave(opts.trace))
       ~> (\A s \in Sides : side[s].status = "returned")
=============================================================================
