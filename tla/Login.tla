------------------------------- MODULE Login --------------------------------
(***************************************************************************)
(* The dialogue on an established connection: the server's greeting, which *)
(* may or may not carry a capability list, the timer that waits for it,    *)
(* the CAPABILITY commands, LOGIN, and the commands that do_post_login()   *)
(* leads to, whose contents are Session's.                                 *)
(*                                                                         *)
(* Input is parsed as it arrives, in chunks that may end anywhere, so the  *)
(* timer's handler may run between any two of the parser's callbacks; each *)
(* callback is an action.                                                  *)
(***************************************************************************)
EXTENDS Naturals, Sequences, FiniteSets

CONSTANTS
    PreCaps,         \* capability lists a server can have before LOGIN ...
    PostCaps,        \* ... and after it
    SplitGreeting,   \* may the timer's handler run while the greeting's
                     \* capability list has been received only in part?
    StrayCodes       \* may a status line have a code with a C, other than
                     \* CAPABILITY: CLOSED, COPYUID, CLIENTBUG?

\* The capabilities the client asks for, and one that stands for all others.
Caps == {"IMAP4rev1", "LOGINDISABLED", "UIDPLUS", "IDLE"}

ASSUME LoginAssumption ==
    /\ PreCaps \subseteq SUBSET Caps
    /\ PostCaps \subseteq SUBSET Caps
    /\ {SplitGreeting, StrayCodes} \subseteq BOOLEAN

\* What the server sends: capability lists and other lines.
List(S) == [kind |-> "list", caps |-> S, tag |-> "none"]
Line(t) == [kind |-> "line", caps |-> {}, tag |-> t]
Failed(t) == [kind |-> "no", caps |-> {}, tag |-> t]

\* Tags stand for the commands: capability_1 is sent before LOGIN,
\* capability_2 after it.  "look" is FETCH of headers, or LIST.  Those with
\* c_ are the clean-up's.
LoginTags == {"capability_1", "login", "capability_2"}
BeforeFetch == {"c_select", "c_store", "c_expunge", "select"}
TaskTags == BeforeFetch \cup {"fetch", "look", "store", "expunge", "logout"}
Tags == LoginTags \cup TaskTags

\* The commands that may follow another: async_cleanup() with do_task() after
\* it, do_download(), do_fetch_header(), do_list().
Follow(t) ==
    CASE t = "c_select"  -> {"c_store"}
      [] t = "c_store"   -> {"c_expunge"}
      [] t = "c_expunge" -> {"select"}
      [] t = "select"  -> {"fetch", "look", "logout"}
      [] t = "fetch"   -> {"store", "logout"}
      [] t = "store"   -> {"expunge"}
      [] t = "look"    -> {"logout"}
      [] t = "expunge" -> {"logout"}
      [] OTHER         -> {}

VARIABLES
    pre, post,      \* the server's capabilities before and after LOGIN
    requests,       \* commands on their way to the server
    input,          \* what the server has sent and the client has not parsed
    left,           \* the part of the list at the head of input still to come
    inList,         \* is the parser inside that list?
    capabilities,   \* capabilities_
    hasRev1,        \* the parser's has_imap4rev1_
    timer,          \* login_timer_: "armed", "queued" (its handler) or "done"
    pending,        \* tag_to_fn_: the commands whose answer is awaited
    outcome         \* "open", "post_login" or "thrown"

lvars == <<pre, post, requests, input, left, inList, capabilities, hasRev1,
           timer, pending, outcome>>
serverVars == <<pre, post>>
parserVars == <<input, left, inList, hasRev1>>

Init ==
    /\ pre \in PreCaps /\ post \in PostCaps
    /\ requests = <<>>
    /\ input \in {<<Line("greeting")>>, <<List(pre), Line("greeting")>>}
    /\ left = {} /\ inList = FALSE
    /\ capabilities = {} /\ hasRev1 = FALSE
    /\ timer = "armed"
    /\ pending = {}
    /\ outcome = "open"

\* Every handler below runs only as long as no exception has left the loop.
Running == outcome # "thrown"

-----------------------------------------------------------------------------
\* Base::async_capabilities(), Base::async_login(): write the command and
\* remember what to do with its answer.  P is what else is awaited.
Send(t, P) ==
    /\ requests' = Append(requests, t)
    /\ pending' = P \cup {t}
    /\ UNCHANGED outcome

\* Mutant: LOGINDISABLED is not looked for.
async_login_unchecked(P) ==
    IF "IMAP4rev1" \in capabilities
    THEN /\ capabilities' = {}
         /\ Send("login", P)
    ELSE /\ outcome' = "thrown"
         /\ pending' = P
         /\ UNCHANGED <<requests, capabilities>>

\* Mutant: the capabilities from before login are kept.
async_login_keeps(P) ==
    IF "IMAP4rev1" \in capabilities /\ "LOGINDISABLED" \notin capabilities
    THEN /\ UNCHANGED capabilities
         /\ Send("login", P)
    ELSE /\ outcome' = "thrown"
         /\ pending' = P
         /\ UNCHANGED <<requests, capabilities>>

\* Client::async_login().
async_login(P) ==
    IF "IMAP4rev1" \in capabilities /\ "LOGINDISABLED" \notin capabilities
    THEN /\ capabilities' = {}
         /\ Send("login", P)
    ELSE /\ outcome' = "thrown"
         /\ pending' = P
         /\ UNCHANGED <<requests, capabilities>>

\* The time is up.
TimerExpires ==
    /\ Running /\ timer = "armed"
    /\ timer' = "queued"
    /\ UNCHANGED <<serverVars, requests, parserVars, capabilities, pending,
                   outcome>>

\* do_pre_login()'s handler, called when the timer has expired or has been
\* cancelled: cond_async_capabilities() in front of async_login().
do_pre_login ==
    /\ Running /\ timer = "queued"
    /\ inList => SplitGreeting
    /\ timer' = "done"
    /\ IF capabilities = {}
       THEN Send("capability_1", pending) /\ UNCHANGED capabilities
       ELSE async_login(pending)
    /\ UNCHANGED <<serverVars, parserVars>>
-----------------------------------------------------------------------------
\* imap_status_code_capability_begin().
capability_begin ==
    /\ Running /\ input # <<>> /\ Head(input).kind = "list" /\ ~inList
    /\ inList' = TRUE
    /\ left' = Head(input).caps
    /\ capabilities' = {}
    /\ hasRev1' = FALSE
    /\ UNCHANGED <<serverVars, requests, input, timer, pending, outcome>>

imap_capability(c) ==
    /\ Running /\ inList /\ c \in left
    /\ left' = left \ {c}
    /\ capabilities' = capabilities \cup {c}
    /\ hasRev1' = (hasRev1 \/ c = "IMAP4rev1")
    /\ UNCHANGED <<serverVars, requests, input, inList, timer, pending,
                   outcome>>

\* Mutant: the cancelled timer's handler does nothing.
capability_end_stops ==
    /\ Running /\ inList /\ left = {}
    /\ inList' = FALSE
    /\ input' = Tail(input)
    /\ timer' = "done"
    /\ outcome' = IF hasRev1 THEN outcome ELSE "thrown"
    /\ UNCHANGED <<serverVars, requests, left, capabilities, hasRev1, pending>>

\* imap_status_code_capability_end(): cancel() posts the handler of a timer
\* that is still waiting.  A list without IMAP4rev1 is an error.
capability_end ==
    /\ Running /\ inList /\ left = {}
    /\ inList' = FALSE
    /\ input' = Tail(input)
    /\ timer' = IF timer = "armed" THEN "queued" ELSE timer
    /\ outcome' = IF hasRev1 THEN outcome ELSE "thrown"
    /\ UNCHANGED <<serverVars, requests, left, capabilities, hasRev1, pending>>

\* The status code of a line begins with a C and is not CAPABILITY: the
\* parser's action cap_begin has been run, imap_status_code_capability_begin()
\* with it, and no capability and no end follow.
code_begin ==
    /\ Running /\ input # <<>> /\ Head(input) = Line("code")
    /\ input' = Tail(input)
    /\ capabilities' = {}
    /\ hasRev1' = FALSE
    /\ UNCHANGED <<serverVars, requests, left, inList, timer, pending, outcome>>

\* The end of a line that answers no command.
untagged_end ==
    /\ Running /\ input # <<>> /\ Head(input) \in {Line("greeting"), Line("untagged")}
    /\ input' = Tail(input)
    /\ UNCHANGED <<serverVars, requests, left, inList, capabilities, hasRev1,
                   timer, pending, outcome>>

\* imap_tagged_status_end(): look the tag up, call its continuation.
TaggedOK(t) ==
    /\ Running /\ input # <<>> /\ Head(input) = Line(t)
    /\ t \in pending
    /\ input' = Tail(input)
    /\ UNCHANGED <<serverVars, left, inList, hasRev1, timer>>

capabilities_received ==
    /\ TaggedOK("capability_1")
    /\ async_login(pending \ {"capability_1"})

\* do_post_login(): SELECT is the first command of every task, and of the
\* clean-up.  t is the command that has been answered.
do_post_login(t) ==
    \E s \in {"select", "c_select"} :
       /\ requests' = Append(requests, s)
       /\ pending' = (pending \ {t}) \cup {s}
       /\ outcome' = "post_login"

\* LOGIN is answered: cond_async_capabilities() in front of do_post_login().
logged_in ==
    /\ TaggedOK("login")
    /\ UNCHANGED capabilities
    /\ IF capabilities = {}
       THEN Send("capability_2", pending \ {"login"})
       ELSE do_post_login("login")

capabilities_received_again ==
    /\ TaggedOK("capability_2")
    /\ do_post_login("capability_2")
    /\ UNCHANGED capabilities

\* A command of the task is answered, another one follows.
next_command(t, s) ==
    /\ TaggedOK(t) /\ s \in Follow(t)
    /\ Send(s, pending \ {t})
    /\ UNCHANGED capabilities

\* LOGOUT is answered: what follows is do_quit().
logged_out ==
    /\ TaggedOK("logout")
    /\ pending' = pending \ {"logout"}
    /\ UNCHANGED <<requests, capabilities, outcome>>

\* A command has failed.
imap_tagged_status_failed ==
    /\ Running /\ input # <<>> /\ Head(input).kind = "no"
    /\ input' = Tail(input)
    /\ outcome' = "thrown"
    /\ UNCHANGED <<serverVars, requests, left, inList, capabilities, hasRev1,
                   timer, pending>>
-----------------------------------------------------------------------------
\* The server (external) answers the next command; the answer to LOGIN may
\* carry the new capability list, the answers to LOGIN and to the commands
\* after it a code.
Coded(t) == IF StrayCodes THEN {<<Line("code"), Line(t)>>} ELSE {}
Answers(t) ==
    CASE t = "capability_1" -> {<<List(pre), Line(t)>>}
      [] t = "login"        -> IF "LOGINDISABLED" \in pre THEN {<<Failed(t)>>}
                               ELSE {<<Line(t)>>, <<List(post), Line(t)>>,
                                     <<Failed(t)>>} \cup Coded(t)
      [] t = "capability_2" -> {<<List(post), Line(t)>>}
      [] OTHER -> {<<Line("untagged"), Line(t)>>, <<Line(t)>>, <<Failed(t)>>}
                  \cup Coded(t)

ServerAnswers ==
    /\ requests # <<>>
    /\ requests' = Tail(requests)
    /\ \E a \in Answers(Head(requests)) : input' = input \o a
    /\ UNCHANGED <<serverVars, left, inList, hasRev1, capabilities, timer,
                   pending, outcome>>

Next ==
    \/ TimerExpires \/ do_pre_login
    \/ capability_begin \/ (\E c \in Caps : imap_capability(c)) \/ capability_end
    \/ code_begin \/ untagged_end
    \/ capabilities_received \/ logged_in \/ capabilities_received_again
    \/ (\E t, u \in TaskTags : next_command(t, u)) \/ logged_out
    \/ imap_tagged_status_failed
    \/ ServerAnswers

Spec == Init /\ [][Next]_lvars
-----------------------------------------------------------------------------
Items == [kind : {"list", "line", "no"}, caps : SUBSET Caps,
          tag : Tags \cup {"none", "greeting", "untagged", "code"}]

\* The type invariant; the parser is inside a capability list only as long as
\* the list is at the head of the input.
TypeOK ==
    /\ pre \in PreCaps /\ post \in PostCaps
    /\ requests \in Seq(Tags)
    /\ input \in Seq(Items)
    /\ left \in SUBSET Caps
    /\ inList \in BOOLEAN
    /\ inList => input # <<>> /\ left \subseteq Head(input).caps
    /\ ~inList => left = {}
    /\ capabilities \in SUBSET Caps
    /\ hasRev1 \in BOOLEAN
    /\ timer \in {"armed", "queued", "done"}
    /\ pending \in SUBSET Tags
    /\ outcome \in {"open", "post_login", "thrown"}

\* LOGIN is not sent to a server that has LOGINDISABLED: the client does not
\* send commands that are expected to fail.
LoginOnlyIfAllowed == "login" \in pending => "LOGINDISABLED" \notin pre

\* After login the client knows the server's capabilities of that time: the
\* whole list, not what the greeting said and not a part of the new list.  A
\* status code that begins with a C takes them away again; then the client
\* knows none, and does without UIDPLUS.
CapabilitiesAreCurrent ==
    outcome = "post_login" => capabilities = post \/ (StrayCodes /\ capabilities = {})

\* One command is outstanding at a time, whichever of timer, greeting and
\* answers comes first.  Net::Client::Base relies on it: the handler of a
\* finished write does not start the next write in the queue.
OneCommandAtATime == Cardinality(pending) <= 1 /\ Len(requests) <= 1
=============================================================================
