----------------------------- MODULE Responses ------------------------------
(***************************************************************************)
(* IMAP::Client::Parser, the automaton that reads what a server sends and  *)
(* calls the client's imap_... functions.                                  *)
(*                                                                         *)
(* The automaton is Ragel's; here it is the grammar it is generated from,  *)
(* read by a stack machine.  The stack holds what is still to come of the  *)
(* line: tokens, rules and actions.  An action of the grammar written with *)
(* @ or > runs with its token, one written with % when the token after it  *)
(* is read, and only if that token can follow.  The server may send any    *)
(* token at any time; a token that cannot follow is the automaton's error  *)
(* state, and read() throws.  The contents of a literal are octets, not    *)
(* tokens, and go through the automaton of the literal converter.          *)
(***************************************************************************)
EXTENDS Naturals, Sequences, SequencesExt

CONSTANTS
    Numbers,       \* the numbers a server sends, "0" and "Huge" among them
    StrayCodes     \* does it send the response codes that "CLOSED" stands for?

\* "Huge" does not fit into 32 bits.
ASSUME ResponsesAssumption ==
    /\ Numbers \subseteq {"0", "1", "2", "3", "4", "Huge"}
    /\ StrayCodes \in BOOLEAN

Value == [n \in Numbers \ {"Huge"} |->
            CHOOSE i \in 0 .. 4 : n = <<"0", "1", "2", "3", "4">>[i + 1]]

\* Tokens.  "ATOM" is any other atom, "FLAG" \Seen and its like, "SFLAG"
\* \Noselect, "OFLAG" \Noinferiors, "XFLAG" other extensions; "ALERT" stands
\* for the response codes without arguments, "CLOSED" for the unknown ones that
\* begin with C and for COPYUID, "UIDVALIDITY" for those with a number,
\* "EXISTS" also for RECENT, and "STRUCTURE" for a body structure, which is
\* skipped.
Keywords == {"OK", "NO", "BAD", "BYE", "ALERT", "BADCHARSET", "CAPABILITY",
    "CLOSED", "PERMANENTFLAGS", "UIDVALIDITY", "IMAP4rev1", "EXISTS", "EXPUNGE", "FETCH",
    "FLAGS", "LIST", "LSUB", "SEARCH", "STATUS", "MESSAGES", "ID", "ENVELOPE",
    "INTERNALDATE", "RFC822", "RFC822.SIZE", "BODY", "UID", "HEADER",
    "HEADER.FIELDS", "MIME", "NIL", "ATOM"}
Tokens == Keywords \cup Numbers \cup
    {"+", "*", "SP", "CR", "LF", "[", "]", "(", ")", "<", ">", "{", "}", ".",
     "QUOTED", "FLAG", "XFLAG", "RECENT", "WILDFLAG", "SFLAG", "OFLAG", "DATE",
     "STRUCTURE"}

\* Classes of tokens.  A tag and an atom may look like a keyword or a number,
\* and a text like anything; Words are the ones that could be mistaken.
Words == {"ATOM", "OK", "UID"} \cup Numbers
Class ==
    [tag |-> Words, astring_chars |-> Words, atom |-> Words, code_atom |-> Words,
     capability |-> Words, text |-> Words \cup {"SP", "[", "]"},
     textNB |-> Words \cup {"SP", "]"}, code_text |-> Words \cup {"SP", "["},
     digits |-> Numbers, digit_nz |-> Numbers \ {"0"}]

\* The actions of the grammar.
Actions == {"number_finish", "call_literal_tail",
    "status_ok", "status_no", "status_bad", "status_bye",
    "imap_tagged_status_begin", "imap_tagged_status_end",
    "imap_untagged_status_begin", "imap_untagged_status_end", "imap_status_code",
    "imap_status_code_capability_begin", "imap_status_code_capability_end",
    "imap_capability", "imap4rev1", "imap_data_exists", "imap_data_expunge",
    "imap_data_flags_begin", "imap_data_flags_end", "imap_flag", "imap_atom_flag",
    "imap_list_begin", "imap_list_end", "imap_list_flag", "imap_list_mailbox",
    "imap_data_fetch_begin", "imap_data_fetch_end", "imap_uid",
    "imap_body_section_begin", "imap_body_section_inner", "imap_body_section_end",
    "imap_section_empty", "imap_section_header"}

\* Mutant: the end of a tagged line is reported when the next line begins.
Immediate_late ==
    {"imap_tagged_status_begin", "status_bye", "imap_untagged_status_begin",
     "imap_untagged_status_end", "imap_status_code_capability_begin",
     "imap_data_flags_begin", "imap_list_begin",
     "imap_data_fetch_begin", "imap_body_section_begin", "imap_section_empty",
     "imap_body_section_inner", "call_literal_tail"}

\* Those that run with their token; the others run when it is left.
Immediate ==
    {"imap_tagged_status_begin", "imap_tagged_status_end", "status_bye",
     "imap_untagged_status_begin", "imap_untagged_status_end",
     "imap_status_code_capability_begin", "imap_data_flags_begin",
     "imap_list_begin", "imap_data_fetch_begin", "imap_body_section_begin",
     "imap_section_empty", "imap_body_section_inner",
     "call_literal_tail"}
-----------------------------------------------------------------------------
\* The grammar: for each rule the set of its alternatives.

\* The state chart of lines: tagged and untagged responses and continuation
\* requests.  The entering actions of BYE run with its first letter, and thus
\* also for BAD.
responses ==
    [start |-> {<<"+", "SP", "continue_req", "CR", "LF", "start">>,
                <<"*", "SP", "untagged", "start">>,
                <<"response_tagged", "start">>},
     continue_req |-> {<<"resp_text">>, <<>>},
     untagged |-> {<<"resp_cond_bye", "CR", "LF", "imap_untagged_status_end">>,
                   <<"response_data", "CR", "LF", "imap_untagged_status_end">>},
     resp_cond_bye |-> {<<"BYE", "status_bye", "imap_untagged_status_begin",
                          "SP", "resp_text">>},
     response_data |-> {<<"OK", "status_ok", "SP", "resp_text">>,
                        <<"NO", "status_no", "SP", "resp_text">>,
                        <<"BAD", "status_bye", "imap_untagged_status_begin",
                          "status_bad", "SP", "resp_text">>,
                        <<"mailbox_data">>,
                        <<"capability_data">>, <<"id_response">>,
                        <<"digit_nz", "number_finish", "SP", "counted">>,
                        <<"0", "number_finish", "SP", "EXISTS", "imap_data_exists">>},
     counted |-> {<<"EXISTS", "imap_data_exists">>, <<"message_data">>},
     id_response |-> {<<"ID", "SP", "id_params_list">>},
     id_params_list |-> {<<"(", "string", "SP", "nstring", "id_params", ")">>, <<"NIL">>},
     id_params |-> {<<"SP", "string", "SP", "nstring", "id_params">>, <<>>}]

\* Status lines and their response codes.
status_responses ==
    [response_tagged |-> {<<"tag", "SP", "imap_tagged_status_begin",
                            "resp_cond_state", "CR", "LF", "imap_tagged_status_end">>},
     resp_cond_state |-> {<<"OK", "status_ok", "SP", "resp_text">>,
                          <<"NO", "status_no", "SP", "resp_text">>,
                          <<"BAD", "status_bad", "SP", "resp_text">>},
     resp_text |-> {<<"[", "resp_text_code", "]", "resp_text_tail">>,
                    <<"textNB", "texts">>},
     resp_text_tail |-> {<<"SP", "textNB", "texts">>, <<>>},
     texts |-> {<<"text", "texts">>, <<>>}]

\* The entering action of CAPABILITY, too, runs with the first letter.
resp_text_codes ==
    [resp_text_code |->
        {<<"ALERT", "imap_status_code">>,
         <<"BADCHARSET", "imap_status_code", "charsets">>,
         <<"capability_data">>,
         <<"PERMANENTFLAGS", "imap_status_code", "SP", "(", "flag_perms", ")">>,
         <<"UIDVALIDITY", "SP", "nz_number", "imap_status_code">>,
         <<"CLOSED", "imap_status_code_capability_begin", "code_args">>,
         <<"code_atom", "code_args">>},
     charsets |-> {<<"SP", "(", "astring", "astrings", ")">>, <<>>},
     flag_perms |-> {<<"flag_perm", "more_perms">>, <<>>},
     more_perms |-> {<<"SP", "flag_perm", "more_perms">>, <<>>},
     flag_perm |-> {<<"flag">>, <<"WILDFLAG">>},
     code_args |-> {<<"SP", "code_text", "code_texts">>, <<>>},
     code_texts |-> {<<"code_text", "code_texts">>, <<>>}]

\* Mutant: the end of the list is not reported.
capabilities_unended ==
    [capability_data |-> {<<"CAPABILITY", "imap_status_code_capability_begin",
                            "capability_list">>},
     capability_list |-> {<<"SP", "listed", "imap_capability", "capability_list">>, <<>>},
     listed |-> {<<"IMAP4rev1", "imap4rev1">>, <<"capability">>}]

\* Capability lists, in a response code or a line of their own.
capabilities ==
    [capability_data |-> {<<"CAPABILITY", "imap_status_code_capability_begin",
                            "capability_list", "imap_status_code_capability_end">>},
     capability_list |-> {<<"SP", "listed", "imap_capability", "capability_list">>, <<>>},
     listed |-> {<<"IMAP4rev1", "imap4rev1">>, <<"capability">>}]

\* Data about mailboxes.
mailbox_data ==
    [mailbox_data |->
        {<<"FLAGS", "SP", "imap_data_flags_begin", "flag_list", "imap_data_flags_end">>,
         <<"LIST", "SP", "imap_list_begin", "mailbox_list", "imap_list_end">>,
         <<"LSUB", "SP", "mailbox_list">>,
         <<"SEARCH", "found">>,
         <<"STATUS", "SP", "astring", "SP", "(", "status_atts", ")">>},
     found |-> {<<"SP", "nz_number", "found">>, <<>>},
     status_atts |-> {<<"MESSAGES", "SP", "number", "more_status_atts">>, <<>>},
     more_status_atts |-> {<<"SP", "MESSAGES", "SP", "number", "more_status_atts">>, <<>>},
     flag_list |-> {<<"(", "flags", ")">>},
     flags |-> {<<"flag", "more_flags">>, <<>>},
     more_flags |-> {<<"SP", "flag", "more_flags">>, <<>>},
     flag |-> {<<"FLAG", "imap_flag">>, <<"XFLAG", "imap_atom_flag">>, <<"atom">>},
     mailbox_list |-> {<<"(", "mbx_list_flags", ")", "SP", "delimiter", "SP",
                         "astring", "imap_list_mailbox">>},
     delimiter |-> {<<"QUOTED">>, <<"NIL">>},
     mbx_list_flags |-> {<<"mbx_list_flag">>, <<>>},
     mbx_list_flag |-> {<<"oflag", "more_mbx_flags">>,
                        <<"SFLAG", "imap_list_flag", "more_oflags">>},
     more_mbx_flags |-> {<<"SP", "mbx_list_flag">>, <<>>},
     more_oflags |-> {<<"SP", "oflag", "more_oflags">>, <<>>},
     oflag |-> {<<"OFLAG", "imap_list_flag">>, <<"XFLAG">>}]

\* Mutant: the UID is reported without its number having been read to the end.
message_data_early ==
    [message_data |-> {<<"EXPUNGE", "imap_data_expunge">>,
                       <<"FETCH", "SP", "imap_data_fetch_begin", "msg_att",
                         "imap_data_fetch_end">>},
     msg_att |-> {<<"(", "att", "atts", ")">>},
     atts |-> {<<"SP", "att", "atts">>, <<>>},
     att |-> {<<"UID", "SP", "digit_nz", "imap_uid", "number_finish">>}]

\* Data about messages.
message_data ==
    [message_data |-> {<<"EXPUNGE", "imap_data_expunge">>,
                       <<"FETCH", "SP", "imap_data_fetch_begin", "msg_att",
                         "imap_data_fetch_end">>},
     msg_att |-> {<<"(", "att", "atts", ")">>},
     atts |-> {<<"SP", "att", "atts">>, <<>>},
     att |-> {<<"FLAGS", "SP", "(", "flag_fetches", ")">>,
              <<"ENVELOPE", "SP", "envelope">>,
              <<"INTERNALDATE", "SP", "DATE">>,
              <<"RFC822", "SP", "nstring">>,
              <<"RFC822.SIZE", "SP", "number">>,
              <<"BODY", "body_or_section">>,
              <<"UID", "SP", "nz_number", "imap_uid">>},
     flag_fetches |-> {<<"flag_fetch", "more_fetches">>, <<>>},
     more_fetches |-> {<<"SP", "flag_fetch", "more_fetches">>, <<>>},
     flag_fetch |-> {<<"flag">>, <<"RECENT", "imap_flag">>},
     body_or_section |-> {<<"SP", "STRUCTURE">>,
                          <<"[", "imap_body_section_begin", "section", "partial", "SP",
                            "imap_body_section_inner", "nstring",
                            "imap_body_section_end">>},
     partial |-> {<<"<", "number", ">">>, <<>>}]

section ==
    [section |-> {<<"]", "imap_section_empty">>, <<"section_text", "]">>,
                  <<"nz_number", "section_part", "]">>},
     section_text |-> {<<"HEADER", "imap_section_header">>,
                       <<"HEADER.FIELDS", "SP", "(", "astring", "astrings", ")">>},
     section_part |-> {<<".", "part_text">>, <<>>},
     part_text |-> {<<"section_text">>, <<"MIME">>, <<"nz_number", "section_part">>}]

envelope ==
    [envelope |-> {<<"(", "nstring", "SP", "nstring", "SP", "addresses", "SP",
                     "addresses", "SP", "addresses", "SP", "addresses", "SP",
                     "addresses", "SP", "addresses", "SP", "nstring", "SP",
                     "nstring", ")">>},
     addresses |-> {<<"(", "address", "more_addresses", ")">>, <<"NIL">>},
     more_addresses |-> {<<"address", "more_addresses">>, <<>>},
     address |-> {<<"(", "nstring", "SP", "nstring", "SP", "nstring", "SP",
                    "nstring", ")">>}]

\* Numbers, strings and literals.
strings ==
    [number |-> {<<"digits", "number_finish">>},
     nz_number |-> {<<"digit_nz", "number_finish">>},
     nstring |-> {<<"string">>, <<"NIL">>},
     string |-> {<<"QUOTED">>, <<"literal">>},
     astring |-> {<<"astring_chars">>, <<"string">>},
     astrings |-> {<<"SP", "astring", "astrings">>, <<>>},
     literal |-> {<<"{", "number", "}", "CR", "LF", "call_literal_tail">>}]

Rules == responses @@ status_responses @@ resp_text_codes @@ capabilities
         @@ mailbox_data @@ message_data @@ section @@ envelope @@ strings

Matches(symbol, token) ==
    IF symbol \in DOMAIN Class THEN token \in Class[symbol] ELSE symbol = token

\* Can a text of these symbols begin with the token?
RECURSIVE Begins(_, _)
Begins(symbols, token) ==
    /\ symbols # <<>>
    /\ CASE Head(symbols) \in Actions -> Begins(Tail(symbols), token)
         [] Head(symbols) \in DOMAIN Rules ->
              \E alt \in Rules[Head(symbols)] : Begins(alt \o Tail(symbols), token)
         [] OTHER -> Matches(Head(symbols), token)

\* The same, for each rule; only an empty alternative makes a rule empty.
First == [r \in DOMAIN Rules |->
            {t \in Tokens : \E alt \in Rules[r] : Begins(alt, t)}]

\* The tokens that can follow.
RECURSIVE Following(_)
Following(symbols) ==
    CASE symbols = <<>> -> {}
      [] Head(symbols) \in Actions -> Following(Tail(symbols))
      [] Head(symbols) \in DOMAIN Rules ->
           First[Head(symbols)] \cup
             (IF <<>> \in Rules[Head(symbols)] THEN Following(Tail(symbols)) ELSE {})
      [] Head(symbols) \in DOMAIN Class -> Class[Head(symbols)]
      [] OTHER -> {Head(symbols)}

\* The rules replaced by the alternatives that the token decides for; the
\* actions in front of the token are kept.
RECURSIVE Expand(_, _)
Expand(symbols, token) ==
    CASE Head(symbols) \in Actions -> <<Head(symbols)>> \o Expand(Tail(symbols), token)
      [] Head(symbols) \in DOMAIN Rules ->
           Expand((CHOOSE alt \in Rules[Head(symbols)] :
                     token \in Following(alt \o Tail(symbols))) \o Tail(symbols), token)
      [] OTHER -> symbols
-----------------------------------------------------------------------------
VARIABLES
    stack,      \* what is to come: cs and stack_vector_
    due,        \* how many of its first actions are due, the next token being read
    digits,     \* number_buffer_
    number,     \* number_
    status,     \* status_
    has_imap4rev1,  \* has_imap4rev1_
    literal,    \* the octets to come of a literal and the converter's state
    buffer,     \* what buffer_ holds of the literal
    outcome,    \* "open" or "thrown"
    event, arg, \* the function being called, and its argument
    line,       \* what the line really says: its status, its number, its UID
    octets      \* what the server has sent of the literal

rvars == <<stack, due, digits, number, status, has_imap4rev1, literal, buffer,
           outcome, event, arg, line, octets>>
literalVars == <<literal, buffer, octets>>

NoLine == [last |-> "none", status |-> "none", number |-> "none", uid |-> "none"]
NoLiteral == [left |-> 0, state |-> "start"]

Init ==
    /\ stack = <<"start">>
    /\ due = 0
    /\ digits = "none" /\ number = "0" /\ status = "OK" /\ has_imap4rev1 = FALSE
    /\ literal = NoLiteral /\ buffer = <<>> /\ octets = <<>>
    /\ outcome = "open"
    /\ event = "none" /\ arg = "none"
    /\ line = NoLine

Running == outcome = "open"
InLiteral == literal.left > 0
Top(S) == stack # <<>> /\ Head(stack) \in S
-----------------------------------------------------------------------------
\* The line as a reader would understand it: the status after the tag, the
\* number after the asterisk, the number after UID, IMAP4rev1.
Understood(l, t) ==
    [last   |-> CASE t = "SP" -> l.last [] l.last = "none" /\ t # "*" -> "tag"
                  [] t \in {"*", "UID", "CAPABILITY"} -> t [] OTHER -> "other",
     status |-> IF l.last = "tag" /\ t # "SP" THEN t ELSE l.status,
     number |-> IF l.last = "*" /\ t \in Numbers THEN t ELSE l.number,
     uid    |-> IF l.last = "UID" /\ t \in Numbers THEN t ELSE l.uid]

\* A token arrives; the actions that belong to the one before it have run, and
\* the leaving actions become due.
Receive ==
    /\ Running /\ due = 0 /\ ~InLiteral /\ ~Top(Immediate)
    /\ \E t \in Following(stack) \ (IF StrayCodes THEN {} ELSE {"CLOSED"}) :
         LET symbols == Expand(stack, t)
             place == CHOOSE i \in DOMAIN symbols :
                        /\ symbols[i] \notin Actions
                        /\ \A j \in 1 .. i - 1 : symbols[j] \in Actions
         IN  /\ stack' = RemoveAt(symbols, place)
             /\ due' = place - 1
             /\ digits' = IF symbols[place] \in {"digits", "digit_nz", "0"}
                          THEN t ELSE digits
             /\ line' = Understood(IF stack = <<"start">> THEN NoLine ELSE line, t)
    /\ event' = "none" /\ arg' = "none"
    /\ buffer' = <<>> /\ octets' = <<>>
    /\ UNCHANGED <<number, status, has_imap4rev1, literal, outcome>>

\* A token that cannot follow is the automaton's error state.
ReceiveError ==
    /\ Running /\ due = 0 /\ ~InLiteral /\ ~Top(Immediate)
    /\ Following(stack) # Tokens
    /\ outcome' = "thrown"
    /\ event' = "none" /\ arg' = "none"
    /\ UNCHANGED <<stack, due, digits, number, status, has_imap4rev1, literalVars, line>>
-----------------------------------------------------------------------------
\* The actions.

Calls(a, x) == event' = a /\ arg' = x

\* number_finish: lexical_cast throws if the number does not fit.
number_finish ==
    /\ IF digits = "Huge" THEN outcome' = "thrown" /\ UNCHANGED number
                          ELSE number' = digits /\ UNCHANGED outcome
    /\ digits' = "none"
    /\ UNCHANGED <<status, has_imap4rev1, literal, event, arg>>

set_status(s) ==
    /\ status' = s
    /\ UNCHANGED <<digits, number, has_imap4rev1, literal, outcome, event, arg>>

call_literal_tail ==
    /\ literal' = [left |-> Value[number], state |-> "start"]
    /\ UNCHANGED <<digits, number, status, has_imap4rev1, outcome, event, arg>>

capability_begin(a) ==
    /\ Calls(a, "none")
    /\ has_imap4rev1' = FALSE
    /\ UNCHANGED <<digits, number, status, literal, outcome>>

imap4rev1 ==
    /\ has_imap4rev1' = TRUE
    /\ UNCHANGED <<digits, number, status, literal, outcome, event, arg>>

\* A list without IMAP4rev1 is an error.
capability_end(a) ==
    /\ Calls(a, "none")
    /\ outcome' = IF has_imap4rev1 THEN outcome ELSE "thrown"
    /\ UNCHANGED <<digits, number, status, has_imap4rev1, literal>>

WithNumber == {"imap_data_exists", "imap_data_expunge", "imap_data_fetch_begin",
               "imap_uid"}
WithStatus == {"imap_tagged_status_end", "imap_untagged_status_begin",
               "imap_untagged_status_end"}

callback(a) ==
    /\ Calls(a, IF a \in WithNumber THEN number
                ELSE IF a \in WithStatus THEN status ELSE "none")
    /\ UNCHANGED <<digits, number, status, has_imap4rev1, literal, outcome>>

Act ==
    /\ Running /\ Top(Actions)
    /\ due > 0 \/ Top(Immediate)
    /\ due' = IF due > 0 THEN due - 1 ELSE 0
    /\ stack' = Tail(stack)
    /\ LET a == Head(stack) IN
         CASE a = "number_finish" -> number_finish
           [] a = "status_ok"  -> set_status("OK")
           [] a = "status_no"  -> set_status("NO")
           [] a = "status_bad" -> set_status("BAD")
           [] a = "status_bye" -> set_status("BYE")
           [] a = "call_literal_tail" -> call_literal_tail
           [] a = "imap_status_code_capability_begin" -> capability_begin(a)
           [] a = "imap4rev1" -> imap4rev1
           [] a = "imap_status_code_capability_end" -> capability_end(a)
           [] OTHER -> callback(a)
    /\ UNCHANGED <<line, buffer, octets>>
-----------------------------------------------------------------------------
\* The literal converter.  Octets are "CR", "LF" and "x", any other.

\* What lit_ret adds for the last octet.  libbuffer (external) is only asked
\* for what it is known to do if a piece is open exactly when it ends one:
\* finish() ends an open piece, cont() and stop() add one octet when none is
\* open.  Otherwise the octet is taken or lost.
lit_ret(c, s) ==
    IF <<s, c>> \in {<<"s2", "x">>, <<"s3", "LF">>} THEN {<<c>>} ELSE {<<c>>, <<>>}

\* Mutant: a CR that does not end a line is dropped.
convert_drops(c, s) ==
    CASE c = "x"  -> [add |-> <<"x">>, to |-> "s2"]
      [] c = "CR" -> [add |-> <<>>, to |-> "s3"]
      [] c = "LF" -> [add |-> <<"LF">>, to |-> "start"]

\* What the other octets add, and the state after them.
convert(c, s) ==
    CASE s = "start" /\ c = "x"  -> [add |-> <<"x">>, to |-> "s2"]
      [] s = "start" /\ c = "CR" -> [add |-> <<>>, to |-> "s3"]
      [] s = "s2" /\ c = "x"     -> [add |-> <<"x">>, to |-> "s2"]
      [] s = "s2" /\ c = "CR"    -> [add |-> <<>>, to |-> "s3"]
      [] s = "s3" /\ c = "LF"    -> [add |-> <<"LF">>, to |-> "start"]
      [] s = "s3" /\ c = "x"     -> [add |-> <<"CR", "x">>, to |-> "s2"]
      [] s = "s3" /\ c = "CR"    -> [add |-> <<"CR">>, to |-> "s3"]

\* An LF that is not preceded by CR is an error.
ReadOctet ==
    /\ Running /\ InLiteral
    /\ \E c \in {"CR", "LF", "x"} :
         IF c = "LF" /\ literal.state # "s3"
         THEN outcome' = "thrown" /\ UNCHANGED literalVars
         ELSE /\ octets' = Append(octets, c)
              /\ IF literal.left = 1
                 THEN /\ literal' = NoLiteral
                      /\ \E add \in lit_ret(c, literal.state) : buffer' = buffer \o add
                 ELSE LET r == convert(c, literal.state)
                      IN  /\ literal' = [left |-> literal.left - 1, state |-> r.to]
                          /\ buffer' = buffer \o r.add
              /\ UNCHANGED outcome
    /\ UNCHANGED <<stack, due, digits, number, status, has_imap4rev1, event, arg,
                   line>>

Next == Receive \/ ReceiveError \/ Act \/ ReadOctet

Spec == Init /\ [][Next]_rvars
-----------------------------------------------------------------------------
\* The type invariant.
TypeOK ==
    /\ stack \in Seq(Actions \cup DOMAIN Rules \cup DOMAIN Class \cup Tokens)
    /\ due \in 0 .. Len(stack) /\ \A i \in 1 .. due : stack[i] \in Actions
    /\ digits \in Numbers \cup {"none"} /\ number \in Numbers \ {"Huge"}
    /\ status \in {"OK", "NO", "BAD", "BYE"} /\ has_imap4rev1 \in BOOLEAN
    /\ literal \in [left : 0 .. 4, state : {"start", "s2", "s3"}]
    /\ Len(buffer) <= Len(octets) + 1
    /\ outcome \in {"open", "thrown"}

\* What has begun is what the grammar still has to end.
Has(a) == a \in ToSet(stack)
mode ==
    CASE Has("imap_body_section_inner") /\ ~Has("imap_body_section_begin") -> "section"
      [] Has("imap_body_section_end") /\ ~Has("imap_body_section_inner") -> "inner"
      [] Has("imap_data_fetch_end") /\ ~Has("imap_data_fetch_begin") -> "fetch"
      [] Has("imap_status_code_capability_end")
           /\ ~Has("imap_status_code_capability_begin") -> "capabilities"
      [] Has("imap_data_flags_end") /\ ~Has("imap_data_flags_begin") -> "flags"
      [] Has("imap_list_end") /\ ~Has("imap_list_begin") -> "list"
      [] Has("imap_tagged_status_end") /\ ~Has("imap_tagged_status_begin") -> "tagged"
      [] OTHER -> "line"

Promise == INSTANCE Callbacks

\* The parser calls the client's functions in the order module Callbacks
\* describes: sections and UIDs only inside of a FETCH response, every begin
\* with its end before anything else begins, whatever the server sends.  Not
\* with StrayCodes: the C of another code begins a capability list that has no
\* end.
KeepsPromise == Promise!Spec

\* A line is reported as soon as it is complete: when nothing but the next
\* line can follow, the parser waits for it with no action left to do.  The
\* client sends its next command from imap_tagged_status_end(), and a server
\* that waits for that command sends nothing that would trigger it.
Prompt ==
    /\ Running /\ due = 0 /\ ~Top(Immediate) /\ ~InLiteral
    /\ SelectSeq(stack, LAMBDA x : x \notin Actions) = <<"start">>
    => stack = <<"start">>

\* Numbers and statuses are those of the line they are reported for: the
\* tagged status is not one that an untagged line has left behind, the message
\* number not a UID or the size of a literal.  Types hold as well.
OwnArguments ==
    /\ TypeOK
    /\ Running =>
          /\ event = "imap_tagged_status_end" => arg = line.status
          /\ event \in {"imap_data_exists", "imap_data_expunge",
                        "imap_data_fetch_begin"} => arg = line.number
          /\ event = "imap_uid" => arg = line.uid

\* The contents of a literal: every CR LF becomes LF, nothing else changes ...
RECURSIVE Converted(_)
Converted(s) ==
    IF Len(s) < 2 THEN s
    ELSE IF s[1] = "CR" /\ s[2] = "LF" THEN Converted(Tail(s))
    ELSE <<s[1]>> \o Converted(Tail(s))

\* ... if it ends with a line, or in the middle of one after at least two
\* octets of it.
WellEnded(s) ==
    LET n == Len(s)
    IN  s[n] = "LF" \/ (n > 1 /\ s[n] = "x" /\ s[n - 1] = "x")

\* When the literal is complete the buffer holds the message with the line
\* ends of the local system; the count has not run over into the line.
LiteralConverted ==
    Running /\ ~InLiteral /\ octets # <<>> =>
        /\ Len(octets) = Value[number]
        /\ WellEnded(octets) => buffer = Converted(octets)
=============================================================================
