------------------------------ MODULE Commands ------------------------------
(***************************************************************************)
(* The commands of an IMAP session, from the call of IMAP::Client::Base to *)
(* the continuation: the generator of tags, the writer, the parser of the  *)
(* server side, which the writer runs over each of its own lines before it *)
(* lets them go, the server, and the tagged answers.                       *)
(*                                                                         *)
(* Any call may be made at any time, several commands may be under way at  *)
(* once, and a continuation may make the next call.  The text of an        *)
(* argument is abstracted to what the grammar makes of it:                 *)
(*    "alnum"       letters and digits     "wildcard"  has a % or *        *)
(*    "punctuated"  any other atom         "spaced"    has a space         *)
(*    "quoted"      in double quotes       "empty"     the empty string    *)
(*    "literal"     {n} and n octets                                       *)
(***************************************************************************)
EXTENDS SequenceSet, Sequences, SequencesExt

CONSTANTS
    MaxUid,      \* the highest number there is, 2^32 - 1 in the code
    MaxCommands  \* bound: commands per session

ASSUME CommandsAssumption == MaxUid \in Nat \ {0} /\ MaxCommands \in Nat

Words == {"alnum", "punctuated", "quoted", "wildcard", "spaced", "empty"}

Nullary == {"CAPABILITY", "NOOP", "LOGOUT", "CLOSE", "EXPUNGE"}
UidCommands == {"UID STORE", "UID EXPUNGE"}
CommandNames == Nullary \cup UidCommands
                \cup {"LOGIN", "LIST", "SELECT", "EXAMINE", "FETCH"}

\* A FETCH attribute and what is printed for it; a section of BODY or
\* BODY.PEEK is part of the attribute.
Fetch_Attributes == {"ENVELOPE", "FLAGS", "RGC822", "UID", "BODY.PEEK[HEADER]",
                     "BODY[]"}
Flags == {"Deleted", "Seen", "Recent"}

\* The calls a client can make.
Arguments(cmd) ==
    CASE cmd \in {"LOGIN", "LIST"}     -> {<<v, w>> : v, w \in Words}
      [] cmd \in {"SELECT", "EXAMINE"} -> {<<w>> : w \in Words}
      [] cmd = "FETCH"                 -> BoundedSeq(Fetch_Attributes, 2)
      [] cmd = "UID STORE"             -> BoundedSeq(Flags, 2)
      [] OTHER                         -> {<<>>}
\* The messages to fetch: a set without ranges and one with a zero are errors.
Fetched(cmd) == IF cmd = "FETCH" THEN {{}, {<<0, 0>>}, {<<1, MaxUid>>}} ELSE {{}}
Calls == UNION {[cmd : {c}, args : Arguments(c), set : Fetched(c)] :
                  c \in CommandNames}

VARIABLES
    map,          \* Tag::map_: the command of each tag that is under way
    command_set,  \* Tag::command_set_: the commands under way
    value,        \* Tag::value_: the next tag
    fns,          \* tag_to_fn_: the tags that have a continuation
    verifier,     \* the writer's parser_: its state_ and read_only_
    uids,         \* the Sequence_Set of the messages to remove ...
    meant,        \* ... and the numbers that have been put into it
    wire,         \* lines on their way to the server
    server,       \* the server's own idea of the session
    mailbox,      \* the UIDs in the selected mailbox
    refused,      \* has the server refused a command?
    executed,     \* the tags of the commands it has carried out, in order
    answers,      \* tagged answers on their way to the client
    called,       \* the continuations called, in order
    outcome       \* "open" or "thrown"

tagVars == <<map, command_set, value, fns>>
clientVars == <<tagVars, verifier, uids, meant>>
serverVars == <<server, mailbox, refused, executed>>
cvars == <<clientVars, wire, serverVars, answers, called, outcome>>

SessionStates == {"NOT_AUTHENTICATED", "AUTHENTICATED", "SELECTED", "LOGGED_OUT"}
Fresh == [state |-> "NOT_AUTHENTICATED", read_only |-> FALSE]

Init ==
    /\ map = <<>> /\ command_set = {} /\ value = 0 /\ fns = {}
    /\ verifier = Fresh /\ server = Fresh
    /\ \/ uids = clear /\ meant = {}
       \/ \E a, b \in 0 .. MaxUid :           \* a journal's list is assigned
            uids = insert(clear, a, b) /\ meant = a .. b
    /\ wire = <<>> /\ answers = <<>>
    /\ mailbox = 1 .. MaxUid
    /\ refused = FALSE
    /\ executed = <<>> /\ called = <<>>
    /\ outcome = "open"
-----------------------------------------------------------------------------
\* The grammar of commands, as far as the writer writes them.

\* Strings.  A list pattern may have wildcards, and an unquoted name may not
\* have spaces.
astring == {"alnum", "punctuated", "quoted", "literal"}
list_mailbox == astring \cup {"wildcard"}

\* Which flags and which FETCH attributes the grammar knows: "\Recent" cannot
\* be stored, and RFC822 is misspelled by the printing function.
flag == {"Deleted", "Seen"}
fetch_att == {"ENVELOPE", "FLAGS", "RFC822", "UID", "BODY.PEEK[HEADER]", "BODY[]"}

\* The arguments of a command.
Grammatical(cmd, text) ==
    CASE cmd \in Nullary \cup {"UID EXPUNGE"} -> text = <<>>
      [] cmd = "LOGIN" -> \A i \in 1 .. 2 : text[i] \in astring
      [] cmd = "LIST"  -> text[1] \in astring /\ text[2] \in list_mailbox
      [] cmd \in {"SELECT", "EXAMINE"} -> text[1] \in astring
      [] cmd = "FETCH" -> text # <<>> /\ ToSet(text) \subseteq fetch_att
      [] cmd = "UID STORE" -> text # <<>> /\ ToSet(text) \subseteq flag

\* The commands of each state.
command_any == {"CAPABILITY", "LOGOUT", "NOOP"}
command_nonauth == {"LOGIN"}
command_auth == {"EXAMINE", "LIST", "SELECT"}
command_select == {"CLOSE", "EXPUNGE", "FETCH"} \cup UidCommands

Permitted(s) ==
    CASE s.state = "NOT_AUTHENTICATED" -> command_nonauth \cup command_any
      [] s.state = "AUTHENTICATED" -> command_auth \cup command_any
      [] s.state = "SELECTED" -> command_select \cup command_auth \cup command_any
      [] s.state = "LOGGED_OUT" -> {}

\* cb_store, cb_expunge and cb_uid_expunge: a mailbox opened by EXAMINE is not
\* to be changed.
Writes == {"UID STORE", "EXPUNGE", "UID EXPUNGE"}

\* Another state of the session.
InState(s, state) == [state |-> state, read_only |-> s.read_only]

\* Mutant: CLOSE leaves the mailbox selected.
Enters_close(s, cmd) ==
    CASE cmd = "LOGIN"   -> InState(s, "AUTHENTICATED")
      [] cmd = "LOGOUT"  -> InState(s, "LOGGED_OUT")
      [] cmd = "EXAMINE" -> [state |-> "SELECTED", read_only |-> TRUE]
      [] cmd = "SELECT"  -> [state |-> "SELECTED", read_only |-> FALSE]
      [] OTHER           -> s

\* cb_login (the callback of the writer's parser accepts every login),
\* cb_logout, cb_examine, cb_select and cb_close.
Enters(s, cmd) ==
    CASE cmd = "LOGIN"   -> InState(s, "AUTHENTICATED")
      [] cmd = "LOGOUT"  -> InState(s, "LOGGED_OUT")
      [] cmd = "EXAMINE" -> [state |-> "SELECTED", read_only |-> TRUE]
      [] cmd = "SELECT"  -> [state |-> "SELECTED", read_only |-> FALSE]
      [] cmd = "CLOSE"   -> InState(s, "AUTHENTICATED")
      [] OTHER           -> s

\* Server::Parser::read() goes through one line without an error.
Accepts(s, cmd, text) ==
    /\ cmd \in Permitted(s)
    /\ Grammatical(cmd, text)
    /\ ~(cmd \in Writes /\ s.read_only)
-----------------------------------------------------------------------------
\* The writer.

write_literal(w) == "literal"
write_cond_literal(w) == IF w = "alnum" THEN w ELSE write_literal(w)

\* login(), list(), select(), examine(), fetch() and uid_store(): the text of
\* the arguments.  The name of a mailbox to select is written as it is.
Text(call) ==
    CASE call.cmd = "LOGIN" -> [i \in 1 .. 2 |-> write_cond_literal(call.args[i])]
      [] call.cmd = "LIST"  -> [i \in 1 .. 2 |-> write_literal(call.args[i])]
      [] OTHER              -> call.args

\* A number that no message has stands for '*'.
Star == 0

\* write_sequence_nr(), write_sequence(), write_sequence_set(): zero and the
\* empty set are errors.
write_sequence_nr(n) == IF n = MaxUid THEN Star ELSE n

\* Mutant: the end of a range is written twice.
write_sequence_set_ends(S) ==
    {<<write_sequence_nr(i[2]), write_sequence_nr(i[2])>> : i \in S}

write_sequence_set(S) ==
    {<<write_sequence_nr(i[1]), write_sequence_nr(i[2])>> : i \in S}

Writable(S) == S # {} /\ \A i \in S : i[1] # 0

\* fetch() is called with a set, uid_store() and uid_expunge() with uids_.
SetWritable(call) == /\ call.cmd = "FETCH" => Writable(call.set)
                     /\ call.cmd \in UidCommands => Writable(uids)

\* An exception leaves the loop; what the call has not changed yet stays.
Throw == outcome' = "thrown"

\* Base::async_...() and the Writer's function of the same name, called when M
\* and C are Tag's map_ and command_set_ and F is tag_to_fn_.
Issue(call, M, C, F) ==
    LET line == [tag |-> value, cmd |-> call.cmd,
                 set |-> IF call.cmd \in UidCommands
                         THEN write_sequence_set(uids) ELSE {},
                 meant |-> IF call.cmd \in UidCommands THEN meant ELSE {}]
        \* Tag::next()
        next == /\ command_set' = C \cup {call.cmd}
                /\ map' = [t \in DOMAIN M \cup {value} |->
                             IF t = value THEN call.cmd ELSE M[t]]
                /\ value' = value + 1
        \* No attributes, or the command is still active; the command is entered
        \* before it turns out that the tag is in use.
        early == (call.cmd = "FETCH" /\ call.args = <<>>) \/ call.cmd \in C
    IN  \/ /\ early \/ value \in DOMAIN M
           /\ Throw
           /\ command_set' = IF early THEN C ELSE C \cup {call.cmd}
           /\ map' = M /\ fns' = F
           /\ UNCHANGED <<value, verifier, wire>>
        \/ /\ ~early /\ value \notin DOMAIN M
           /\ next
           /\ IF /\ SetWritable(call)
                 /\ Accepts(verifier, call.cmd, Text(call))
              THEN /\ verifier' = Enters(verifier, call.cmd)
                   /\ fns' = F \cup {value}
                   /\ wire' = Append(wire, line)
                   /\ UNCHANGED outcome
              ELSE /\ Throw
                   /\ fns' = F
                   /\ UNCHANGED <<verifier, wire>>

\* A call from outside of a continuation (a timer's handler, say).
Call ==
    /\ outcome = "open" /\ value < MaxCommands
    /\ \E call \in Calls : Issue(call, map, command_set, fns)
    /\ UNCHANGED <<uids, meant, serverVars, answers, called>>
-----------------------------------------------------------------------------
\* Every step below is one of a run that goes on.
Running == outcome = "open"

\* Sequence_Set::push(), for a UID that the server reports in its answer to
\* FETCH, and clear().
Push ==
    /\ Running /\ server.state = "SELECTED" /\ "FETCH" \in command_set
    /\ \E id \in 1 .. MaxUid :
         /\ uids' = push(uids, id)
         /\ meant' = meant \cup {id}
    /\ UNCHANGED <<tagVars, verifier, wire, serverVars, answers, called, outcome>>

Clear ==
    /\ Running /\ server.state = "SELECTED"
    /\ uids' = clear
    /\ meant' = {}
    /\ UNCHANGED <<tagVars, verifier, wire, serverVars, answers, called, outcome>>
-----------------------------------------------------------------------------
\* The server (external): RFC 3501's diagram of the states of a session, which
\* server_parser.rl quotes, read as "from which states, to which state".
Everywhere == {"NOT_AUTHENTICATED", "AUTHENTICATED", "SELECTED"}
ValidIn(cmd) ==
    CASE cmd \in {"CAPABILITY", "NOOP", "LOGOUT"} -> Everywhere
      [] cmd = "LOGIN" -> {"NOT_AUTHENTICATED"}
      [] cmd \in {"LIST", "SELECT", "EXAMINE"} -> {"AUTHENTICATED", "SELECTED"}
      [] OTHER -> {"SELECTED"}
Carries(s, cmd) ==
    s.state \in ValidIn(cmd) /\ ~(s.read_only /\ cmd \in {"UID STORE", "EXPUNGE", "UID EXPUNGE"})
After(s, cmd) ==
    [state |-> IF cmd \in {"LOGIN", "CLOSE"} THEN "AUTHENTICATED"
               ELSE IF cmd \in {"SELECT", "EXAMINE"} THEN "SELECTED"
               ELSE IF cmd = "LOGOUT" THEN "LOGGED_OUT" ELSE s.state,
     read_only |-> cmd = "EXAMINE" \/ (cmd \notin {"SELECT", "CLOSE"} /\ s.read_only)]

\* It carries out the next command, or refuses it.  A refused SELECT leaves no
\* mailbox selected.
ServerExecutes ==
    /\ Running /\ wire # <<>>
    /\ wire' = Tail(wire)
    /\ LET line == Head(wire) IN
         \/ /\ Carries(server, line.cmd)
            /\ server' = After(server, line.cmd)
            /\ executed' = Append(executed, line.tag)
            /\ answers' = Append(answers, [tag |-> line.tag, status |-> "OK"])
            /\ UNCHANGED refused
         \/ /\ refused' = TRUE
            /\ server' = IF line.cmd \in {"SELECT", "EXAMINE"}
                         THEN InState(server, "AUTHENTICATED") ELSE server
            /\ \E s \in {"NO", "BAD"} :
                 answers' = Append(answers, [tag |-> line.tag, status |-> s])
            /\ UNCHANGED executed
    /\ UNCHANGED <<clientVars, mailbox, called, outcome>>

\* It repeats an answer.
ServerRepeats ==
    /\ Running /\ executed # <<>> /\ answers = <<>>
    /\ \E i \in DOMAIN executed :
         answers' = <<[tag |-> executed[i], status |-> "OK"]>>
    /\ UNCHANGED <<clientVars, wire, serverVars, called, outcome>>

\* Another session expunges a message.
OtherExpunges ==
    /\ Running /\ server.state = "SELECTED"
    /\ \E u \in mailbox : mailbox' = mailbox \ {u}
    /\ UNCHANGED <<clientVars, wire, server, refused, executed, answers, called,
                   outcome>>
-----------------------------------------------------------------------------
\* Mutant: the continuation stays registered.
Completes_keeps(t) ==
    /\ called' = Append(called, t)
    /\ UNCHANGED <<tagVars, verifier, wire, outcome>>

\* Mutant: the tag is dropped without its command.
Completes_tag_only(t) ==
    /\ called' = Append(called, t)
    /\ map' = [u \in DOMAIN map \ {t} |-> map[u]] /\ fns' = fns \ {t}
    /\ UNCHANGED <<value, command_set, verifier, wire, outcome>>

\* The answer, if it is good and the tag is known, ends the command t; the
\* continuation makes another call or none.
Completes(t) ==
    LET M == [u \in DOMAIN map \ {t} |-> map[u]]   \* Tag::pop()
        C == command_set \ {map[t]}
        F == fns \ {t}
    IN  /\ called' = Append(called, t)
        /\ \/ /\ map' = M /\ command_set' = C /\ fns' = F
              /\ UNCHANGED <<value, verifier, wire, outcome>>
           \/ /\ value < MaxCommands
              /\ \E call \in Calls : Issue(call, M, C, F)

\* Base::imap_tagged_status_end().
imap_tagged_status_end ==
    /\ outcome = "open" /\ answers # <<>>
    /\ answers' = Tail(answers)
    /\ LET a == Head(answers) IN
         IF a.status = "OK" /\ a.tag \in fns
         THEN Completes(a.tag)
         ELSE /\ Throw
              /\ UNCHANGED <<tagVars, verifier, wire, called>>
    /\ UNCHANGED <<uids, meant, serverVars>>

Next ==
    \/ Call \/ imap_tagged_status_end
    \/ Push \/ Clear
    \/ ServerExecutes \/ ServerRepeats \/ OtherExpunges

Spec == Init /\ [][Next]_cvars
-----------------------------------------------------------------------------
Lines == [tag : Nat, cmd : CommandNames, set : SUBSET (Nat \X Nat),
          meant : SUBSET (0 .. MaxUid)]
Sessions == [state : SessionStates, read_only : BOOLEAN]

\* The type invariant; a line about UIDs names some.
TypeOK ==
    /\ value \in Nat
    /\ DOMAIN map \subseteq Nat /\ \A t \in DOMAIN map : map[t] \in CommandNames
    /\ command_set \in SUBSET CommandNames
    /\ fns \in SUBSET Nat
    /\ verifier \in Sessions /\ server \in Sessions
    /\ uids \in SUBSET (Nat \X Nat) /\ meant \in SUBSET (0 .. MaxUid)
    /\ wire \in Seq(Lines)
    /\ \A i \in DOMAIN wire : wire[i].cmd \in UidCommands => wire[i].set # {}
    /\ mailbox \in SUBSET (1 .. MaxUid)
    /\ refused \in BOOLEAN
    /\ executed \in Seq(Nat) /\ called \in Seq(Nat)
    /\ answers \in Seq([tag : Nat, status : {"OK", "NO", "BAD"}])
    /\ outcome \in {"open", "thrown"}

\* The three records of what is under way - Tag's tags, Tag's commands and
\* Base's continuations - agree, tags are not used twice, and no two tags are
\* of the same command.  (While an exception is under way a command that has
\* been given a tag may be without a continuation.)
BookkeepingAgrees ==
    /\ fns \subseteq DOMAIN map
    /\ outcome = "open" => fns = DOMAIN map
    /\ DOMAIN map \subseteq 0 .. value - 1
    /\ command_set = {map[t] : t \in DOMAIN map}
    /\ \A t, u \in DOMAIN map : map[t] = map[u] => t = u

\* Sequence_Set is exact: it stands for the numbers put into it and no others,
\* in as few intervals as possible.
SetIsExact == Numbers(uids) = meant /\ Canonical(uids)

\* What "to verify that we send conforming IMAP commands" is for: a server
\* that has refused nothing so far is never sent a command that is not
\* permitted in the state it is in when the command gets there, however many
\* commands are under way.
OnlyPermitted ==
    ~refused /\ wire # <<>> => Carries(server, Head(wire).cmd)

\* A continuation is called once, after the server has carried out its
\* command, and in that order, even if an answer is repeated.
CalledInOrder == IsPrefix(called, executed)

\* What a server makes of a set of numbers: '*' is the last message, and the
\* ends of a range may be swapped (RFC 3501, quoted in server_parser.rl).
Highest(S) == CHOOSE m \in S : \A n \in S : n <= m
End(n, S) == IF n = Star THEN Highest(S) ELSE n
Between(u, a, b) == (a <= u /\ u <= b) \/ (b <= u /\ u <= a)
Named(set, S) ==
    {u \in S : \E w \in set : Between(u, End(w[1], S), End(w[2], S))}

\* The messages flagged and expunged are those of the set that are still
\* there, whatever other sessions have expunged meanwhile.  That does not hold
\* for a set with the highest UID, written as '*', if that message is gone.
NamesExactly ==
    \A i \in DOMAIN wire :
        wire[i].cmd \in UidCommands /\ (MaxUid \in wire[i].meant => MaxUid \in mailbox)
        => Named(wire[i].set, mailbox) = wire[i].meant \cap mailbox
=============================================================================
