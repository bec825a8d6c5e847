------------------------------- MODULE Header -------------------------------
(***************************************************************************)
(* The header printer and the MIME decoder behind it: fields, folded       *)
(* lines, encoded words in base64 and Q, and the sanitizer for control     *)
(* characters.                                                             *)
(*                                                                         *)
(* One printer decodes the headers of all messages of a run, one after the *)
(* other; an error ends the decoding of a header and the fields decoded up *)
(* to then are printed.  Characters are classes outside of encoded words   *)
(* ("fa" any that is not white, =, CR or LF) and numbers inside of them.   *)
(***************************************************************************)
EXTENDS Integers, FiniteSets, Sequences, SequencesExt

CONSTANTS
    FieldNames,   \* the names of the fields
    Endings,      \* the ending policies to look at
    Sextets,      \* the base64 digits that occur, as numbers,
    HexDigits,    \* and the hexadecimal ones
    MaxTokens,    \* bounds: the length of a field, that of the encoded words
    MaxSymbols,   \* of all headers, the number of messages
    MaxMessages

ASSUME HeaderAssumption ==
    /\ Endings \subseteq {"LF", "CRLF", "BOTH"}
    /\ Sextets \subseteq 0 .. 63
    /\ HexDigits \subseteq 0 .. 15
    /\ MaxTokens \in Nat /\ MaxMessages \in Nat \ {0}

Tokens == {"SP", "fa", "EQ", "CR", "LF", "NUL", "?B", "?Q"}
Code == [SP |-> 32, fa |-> 119, EQ |-> 61]

\* What encoded words consist of, besides digits: '=' at the end of base64; any
\* character, '_' and '=' in Q.
Pad == -1
Plain == -2
Underscore == -3
Equals == -4

\* Of a field as the message has it: a token or an encoded word, and its text.
Item(k, s) == [kind |-> k, text |-> s]

VARIABLES
    ending,       \* ending_
    messages,     \* how many headers have been begun
    cs,           \* the automaton's state
    name,         \* field_buffer_
    buffer,       \* buffer_, the decoded body of the field
    space,        \* space_buffer_: the white space to insert before the next word
    white,        \* ... and its piece that has been started
    unit,         \* unit_, the bits of a base64 word
    conv,         \* conv_buffer_, the decoded octets of an encoded word
    fields,       \* the names in fields_
    raw,          \* the field as it is in the message: tokens and encoded words
    symbols,      \* the digits of the encoded word being read,
    read,         \* and how many of them there have been
    spoiled       \* has a header ended inside of a base64 word before?

bufferVars == <<buffer, space, white>>
wordVars == <<unit, conv, symbols, read>>
hvars == <<ending, messages, cs, name, bufferVars, wordVars, fields, raw, spoiled>>

Init ==
    /\ ending \in Endings
    /\ messages = 1 /\ cs = "start" /\ name = "none"
    /\ buffer = <<>> /\ space = 0 /\ white = 0
    /\ unit = [high |-> 0, low |-> 0] /\ conv = <<>>
    /\ symbols = <<>> /\ read = 0
    /\ fields = {} /\ raw = <<>>
    /\ spoiled = FALSE
-----------------------------------------------------------------------------
\* The state chart: for each state and token the actions, and the next state.
\* A token that is missing is the error state.

header ==
    [fb_start    |-> [SP |-> <<"space_start", "ws">>, fa |-> <<"buffer_cont", "w">>,
                      EQ |-> <<"ew">>, CR |-> <<"check_cr", "cr">>,
                      LF |-> <<"check_lf", "lf">>],
     ws          |-> [SP |-> <<"space_more", "ws">>,
                      EQ |-> <<"space_finish", "ins_trail_space", "ew">>,
                      fa |-> <<"space_finish", "ins_trail_space", "buffer_cont", "w">>,
                      CR |-> <<"check_cr", "space_finish", "cr">>,
                      LF |-> <<"check_lf", "space_finish", "lf">>],
     w           |-> [SP |-> <<"space_start", "ws">>, fa |-> <<"buffer_cont", "w">>,
                      EQ |-> <<"ew">>, CR |-> <<"check_cr", "cr">>,
                      LF |-> <<"check_lf", "lf">>],
     ew          |-> [fa |-> <<"buffer_eq", "buffer_cont", "w">>,
                      SP |-> <<"buffer_eq", "space_start", "ws">>,
                      CR |-> <<"check_cr", "buffer_eq", "cr">>,
                      LF |-> <<"check_lf", "buffer_eq", "lf">>],
     ew_tail     |-> [EQ |-> <<"ew">>, SP |-> <<"space_start", "after_ew_ws">>,
                      CR |-> <<"check_cr", "cr">>, LF |-> <<"check_lf", "lf">>,
                      fa |-> <<"buffer_cont", "w">>],
     after_ew_ws |-> [SP |-> <<"space_more", "after_ew_ws">>, EQ |-> <<"ew">>,
                      fa |-> <<"space_finish", "ins_trail_space", "buffer_cont", "w">>,
                      CR |-> <<"check_cr", "cr">>, LF |-> <<"check_lf", "lf">>],
     cr          |-> [LF |-> <<"lf">>],
     lf          |-> [SP |-> <<"ins_trail_space", "space_start", "foldmark">>,
                      NUL |-> <<"ins_trail_space", "cb_header", "final">>,
                      LF  |-> <<"ins_trail_space", "cb_header", "final">>],
     foldmark    |-> [SP |-> <<"space_more", "foldmark">>,
                      fa |-> <<"space_finish", "ins_trail_space", "buffer_cont", "w">>,
                      EQ |-> <<"ew">>]]

\* What an action does with the buffers b, token t being read.
Do(b, a, t) ==
    CASE a = "buffer_cont" -> [b EXCEPT !.buffer = Append(@, Code[t])]
      [] a = "buffer_eq"   -> [b EXCEPT !.buffer = Append(@, Code.EQ)]
      [] a = "space_start" -> [b EXCEPT !.space = 0, !.white = 1]
      [] a = "space_more"  -> [b EXCEPT !.white = @ + 1]
      [] a = "space_finish" -> [b EXCEPT !.space = b.white]
      [] a = "ins_trail_space" ->
           [b EXCEPT !.buffer = @ \o [i \in 1 .. b.space |-> Code.SP], !.space = 0]
      [] a = "check_cr" -> [b EXCEPT !.thrown = @ \/ ending = "LF"]
      [] a = "check_lf" -> [b EXCEPT !.thrown = @ \/ ending = "CRLF"]
      [] a = "cb_header" -> b

Buffers == [buffer |-> buffer, space |-> space, white |-> white, thrown |-> FALSE]
Run(actions, t) ==
    LET after[i \in 0 .. Len(actions)] ==
            IF i = 0 THEN Buffers ELSE Do(after[i - 1], actions[i], t)
    IN  after[Len(actions)]
-----------------------------------------------------------------------------
\* The callback: the field is reported.
callback == fields' = fields \cup {name}

\* The end of the header, or an error anywhere in it: read() throws, print()
\* goes on with the fields it has.  For the next message it clears the decoder,
\* except for conv_buffer_ and the bits of unit_.
print ==
    /\ cs # "printed"
    /\ IF messages < MaxMessages THEN messages' = messages + 1 /\ cs' = "start"
                                 ELSE cs' = "printed" /\ UNCHANGED messages
    /\ spoiled' = (spoiled \/ conv # <<>>)
    /\ name' = "none"
    /\ buffer' = <<>> /\ space' = 0 /\ white' = 0
    /\ fields' = {} /\ raw' = <<>> /\ symbols' = <<>>
    /\ UNCHANGED <<ending, unit, conv, read>>

\* The name of a field and ': '; it ends the field before it.
FieldName(f) ==
    /\ cs \in {"start", "lf"}
    /\ cs' = "fb_start"
    /\ name' = f
    /\ buffer' = <<>> /\ raw' = <<>>
    /\ IF cs = "lf"
       THEN LET b == Run(<<"ins_trail_space">>, "fa")
            IN  callback /\ space' = b.space
       ELSE UNCHANGED <<fields, space>>
    /\ UNCHANGED <<ending, messages, white, wordVars, spoiled>>

\* Any other token outside of an encoded word.  (The policy's error is part
\* of print.)
Read(t) ==
    /\ Len(raw) < MaxTokens
    /\ cs \in DOMAIN header /\ t \in DOMAIN header[cs]
    /\ LET steps == header[cs][t]
           b == Run(Front(steps), t)
       IN  /\ ~b.thrown
           /\ cs' = Last(steps)
           /\ buffer' = b.buffer /\ space' = b.space /\ white' = b.white
           /\ IF "cb_header" \in ToSet(steps) THEN callback ELSE UNCHANGED fields
    /\ raw' = Append(raw, Item(t, IF t \in DOMAIN Code THEN <<Code[t]>> ELSE <<>>))
    /\ UNCHANGED <<ending, messages, name, wordVars, spoiled>>

\* '=?', the character set and the encoding: clear_trail_space.
WordBegins(t) ==
    /\ cs = "ew"
    /\ cs' = IF t = "?B" THEN "b_first" ELSE "q_first"
    /\ space' = 0
    /\ raw' = Front(raw)
    /\ symbols' = <<>>
    /\ UNCHANGED <<ending, messages, name, buffer, white, unit, conv, read,
                   fields, spoiled>>
-----------------------------------------------------------------------------
\* Base64 words.

\* unit_ has 32 bits: the low 24 and the eight above them.
LowLimit == 2^24
push_unit(v) ==
    LET low == unit.low * 64 + v
    IN  [high |-> (unit.high * 64 + low \div LowLimit) % 256, low |-> low % LowLimit]
Octet(u, i) == (u.low \div 2^(8 * i)) % 256
shift_24(u) == [high |-> 0, low |-> u.high]
shift_16(u) == [high |-> 0, low |-> u.high * 256 + u.low \div 2^16]

\* Mutant: the octets of a unit in the wrong order.
finish_unit_swapped(u) == <<Octet(u, 0), Octet(u, 1), Octet(u, 2)>>

finish_unit(u) == <<Octet(u, 2), Octet(u, 1), Octet(u, 0)>>
finish_pad1(u) == <<Octet(u, 2), Octet(u, 1)>>
finish_pad2(u) == <<Octet(u, 2)>>

Symbol(to, s) ==
    /\ read < MaxSymbols
    /\ read' = read + 1
    /\ cs' = to
    /\ symbols' = Append(symbols, s)
    /\ UNCHANGED <<ending, messages, name, bufferVars, fields, raw, spoiled>>

base64_alph(v) ==
    \E step \in {<<"b_first", "s2">>, <<"b_start", "s2">>, <<"s2", "s3">>,
                  <<"s3", "s4">>, <<"s4", "b_start">>} :
        /\ cs = step[1]
        /\ Symbol(step[2], v)
        /\ IF cs = "s4" THEN /\ conv' = conv \o finish_unit(push_unit(v))
                             /\ unit' = shift_24(push_unit(v))
                        ELSE unit' = push_unit(v) /\ UNCHANGED conv

pad ==
    \/ /\ cs = "s3" /\ Symbol("e4", Pad)
       /\ unit' = push_unit(0) /\ UNCHANGED conv
    \/ /\ cs = "s4" /\ Symbol("word_end", Pad)
       /\ conv' = conv \o finish_pad1(push_unit(0))
       /\ unit' = shift_24(push_unit(0))
    \/ /\ cs = "e4" /\ Symbol("word_end", Pad)
       /\ conv' = conv \o finish_pad2(push_unit(0))
       /\ unit' = shift_16(push_unit(0))
-----------------------------------------------------------------------------
\* Q words: '_' is a blank, '=' begins two hexadecimal digits.  The first symbol
\* starts conv_buffer_ anew.
Begun == IF cs = "q_first" THEN <<>> ELSE conv

q_plain(c) ==
    /\ cs \in {"q_first", "q"}
    /\ Symbol("q", c)
    /\ conv' = Append(Begun, IF c = Underscore THEN 32 ELSE 120)
    /\ UNCHANGED unit

clear_hex ==
    /\ cs \in {"q_first", "q"}
    /\ Symbol("hex1", Equals)
    /\ conv' = Begun
    /\ UNCHANGED unit

\* q_value_ is the digit before, if there is one.
push_hex(d) == 16 * Last(symbols) + d

q_hex(d) ==
    /\ cs \in {"hex1", "hex2"}
    /\ Symbol(IF cs = "hex1" THEN "hex2" ELSE "q", d)
    /\ conv' = IF cs = "hex2" THEN Append(conv, push_hex(d)) ELSE conv
    /\ UNCHANGED unit
-----------------------------------------------------------------------------
CTL == (0 .. 31) \cup {127}
HexDigit(n) == IF n > 9 THEN n + 55 ELSE n + 48

\* The sanitizer: a control character becomes \xHH.
push_ctl(c) == <<92, 120, HexDigit(c \div 16), HexDigit(c % 16)>>

\* Mutant: only what is below the blank is a control character.
escape_controls_low(s) ==
    FlattenSeq([i \in 1 .. Len(s) |-> IF s[i] < 32 THEN push_ctl(s[i]) ELSE <<s[i]>>])

escape_controls(s) ==
    FlattenSeq([i \in 1 .. Len(s) |-> IF s[i] \in CTL THEN push_ctl(s[i]) ELSE <<s[i]>>])

\* boost::locale (external): a number above 127 stands for its UTF-8 form.  It
\* throws if it does not know the character set, which is part of print.
to_utf(s) == s

\* What the word says, from its symbols: the six bits of each base64 digit in a
\* row, cut into octets; of Q, a character for each symbol or hexadecimal number.
Bit(s, n) == (s[n \div 6 + 1] \div 2^(5 - (n % 6))) % 2
OctetAt(s, o) ==
    LET at(k) == Bit(s, 8 * (o - 1) + k)
    IN  128 * at(0) + 64 * at(1) + 32 * at(2) + 16 * at(3)
        + 8 * at(4) + 4 * at(5) + 2 * at(6) + at(7)
Digits(s) == Cardinality({i \in 1 .. Len(s) : s[i] # Pad})
Base64Text(s) == [o \in 1 .. (6 * Digits(s)) \div 8 |-> OctetAt(s, o)]
QText(s) ==
    FlattenSeq([i \in 1 .. Len(s) |->
        CASE s[i] = Plain -> <<120>>
          [] s[i] = Underscore -> <<32>>
          [] s[i] >= 0 /\ i > 2 /\ s[i - 2] = Equals -> <<16 * s[i - 1] + s[i]>>
          [] OTHER -> <<>>])

\* '?=': convert_buffer and default_convert().
WordEnds ==
    /\ cs \in {"b_start", "word_end", "q"}
    /\ cs' = "ew_tail"
    /\ buffer' = buffer \o escape_controls(to_utf(conv))
    /\ conv' = <<>>
    /\ raw' = Append(raw, Item("ew", escape_controls(IF cs = "q" THEN QText(symbols)
                                                     ELSE Base64Text(symbols))))
    /\ symbols' = <<>>
    /\ UNCHANGED <<ending, messages, name, space, white, unit, read, fields,
                   spoiled>>

Next ==
    \/ \E f \in FieldNames : FieldName(f)
    \/ \E t \in Tokens : Read(t)
    \/ \E t \in {"?B", "?Q"} : WordBegins(t)
    \/ (\E v \in Sextets : base64_alph(v)) \/ pad
    \/ (\E c \in {Plain, Underscore} : q_plain(c)) \/ clear_hex
    \/ (\E d \in HexDigits : q_hex(d))
    \/ WordEnds
    \/ print

Spec == Init /\ [][Next]_hvars
-----------------------------------------------------------------------------
States == DOMAIN header \cup {"start", "final", "printed", "b_first", "b_start",
    "s2", "s3", "s4", "e4", "word_end", "q_first", "q", "hex1", "hex2"}

\* The type invariant; the bits of unit_ fit into its 32.
TypeOK ==
    /\ ending \in Endings /\ messages \in 1 .. MaxMessages
    /\ cs \in States
    /\ name \in FieldNames \cup {"none"}
    /\ buffer \in Seq(0 .. 255)
    /\ space \in 0 .. MaxTokens /\ white \in 0 .. MaxTokens
    /\ unit \in [high : 0 .. 255, low : 0 .. LowLimit - 1]
    /\ conv \in Seq(0 .. 255)
    /\ fields \subseteq FieldNames
    /\ spoiled \in BOOLEAN

\* The text of a field (RFC 2047, RFC 2822): line ends do not belong to it, nor
\* does white space between two encoded words; nor, at the end, after one.
Breaks == {"CR", "LF", "NUL"}
Blank == Breaks \cup {"SP"}
Blanks(r, i, j) == \A k \in i .. j : r[k].kind \in Blank
AfterWord(r, i) == \E j \in 1 .. i : r[j].kind = "ew" /\ Blanks(r, j + 1, i)
BeforeWord(r, i) ==
    \A j \in i .. Len(r) : r[j].kind \notin Blank /\ Blanks(r, i, j - 1)
                           => r[j].kind = "ew"
Text(r) ==
    FlattenSeq([i \in 1 .. Len(r) |->
        IF r[i].kind = "SP" /\ AfterWord(r, i) /\ BeforeWord(r, i) THEN <<>> ELSE r[i].text])

\* White space that the automaton puts aside because an encoded word might
\* follow, and forgets although it should not: between a fold and any '=',
\* between an encoded word and a plain '=', between an encoded word and a fold.
Forgotten(r) ==
    \E i \in 1 .. Len(r) - 1 :
        /\ r[i].kind = "SP" /\ ~(AfterWord(r, i) /\ BeforeWord(r, i))
        /\ \/ /\ r[i + 1].kind \in {"EQ", "ew"}
              /\ \E j \in 1 .. i : r[j].kind = "LF" /\ Blanks(r, j, i)
           \/ r[i + 1].kind \in {"EQ"} \cup Breaks /\ AfterWord(r, i)

\* What is handed over as the body of a field is its text: no character lost,
\* invented or moved, whatever the mixture of folds, white space and encoded
\* words, every encoded word decoded, and nothing of another message in it.
\* (The bits that an aborted word leaves in unit_ do no harm; what it leaves in
\* conv_buffer_ does, so only as long as no header has ended in such a word.)
BodyIsText ==
    cs = "lf" /\ ~spoiled /\ ~Forgotten(raw) =>
        buffer \o [i \in 1 .. space |-> Code.SP] = Text(raw)

\* No control character of an encoded word reaches the terminal.  Types hold as
\* well, and the bits of unit_ do not run over.
NoControls == TypeOK /\ \A i \in 1 .. Len(buffer) : buffer[i] \notin CTL
=============================================================================
