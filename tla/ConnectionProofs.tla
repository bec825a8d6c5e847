-------------------------- MODULE ConnectionProofs --------------------------
(***************************************************************************)
(* Proofs about Login and Connection, for all capability lists, transports *)
(* and numbers of signals.                                                 *)
(*                                                                         *)
(* DialogueInv orders commands, requests and answers; CapsInv says what    *)
(* capabilities_ is at each point of the dialogue, and needs that the      *)
(* timer's handler does not run inside a capability list.  Every step of   *)
(* Connection is a step of Login, so both carry over.  LoopInv adds what   *)
(* is outstanding or queued in the loop: each operation once, and a write  *)
(* whose handler runs before the answer to the command is read.  OthersInv *)
(* counts the TLS shutdowns and the waits for signals.  CalmInv is about   *)
(* runs that nobody disturbs.                                              *)
(***************************************************************************)
EXTENDS Connection, FiniteSetTheorems, TLAPS

\* No capability list is left in the input.
NoLists == \A i \in DOMAIN input : input[i].kind # "list"
\* One at most is left.
OneList == \A i, j \in DOMAIN input :
              input[i].kind = "list" /\ input[j].kind = "list" => i = j

\* A tagged line is the last thing the server has sent, and answers the command.
InputInv ==
    /\ input \in Seq(Items)
    /\ \A i \in DOMAIN input :
          /\ input[i].tag \in Tags =>
                i = Len(input) /\ requests = <<>> /\ pending = {input[i].tag}
          /\ input[i].kind = "no" => input[i].tag \in Tags
          /\ input[i].kind = "list" => input[i].tag = "none"
          /\ input[i].tag = "code" => StrayCodes

\* The commands: one is outstanding, its request is on the way or it is answered by
\* the last item of the input; none before the timer's handler has run.
DialogueInv ==
    /\ TypeOK
    /\ Len(requests) <= 1
    /\ \A t, u \in pending : t = u
    /\ requests # <<>> => pending = {requests[1]}
    /\ InputInv
    /\ inList => input[1].kind = "list"
    /\ timer # "done" => pending = {} /\ outcome # "post_login"
    /\ outcome = "open" => pending \subseteq LoginTags
    /\ outcome = "post_login" => pending \subseteq TaskTags

\* A status code with a C has taken the capabilities away.
Cleared == StrayCodes /\ capabilities = {}

\* The capabilities: what they are at each point of the dialogue.
CapsInv ==
    /\ "login" \in pending => "LOGINDISABLED" \notin pre
    /\ outcome # "thrown" /\ inList =>
          /\ capabilities = Head(input).caps \ left
          /\ hasRev1 <=> "IMAP4rev1" \in capabilities
    /\ outcome = "open" =>
          \A i \in DOMAIN input : input[i].kind = "list" =>
             input[i].caps = IF pending \subseteq {"capability_1"} THEN pre ELSE post
    /\ outcome = "open" /\ "capability_1" \notin pending =>
          /\ OneList
          /\ ~inList => capabilities = {} \/ NoLists
    /\ outcome = "open" /\ pending = {} /\ ~inList =>
          capabilities = {} \/ capabilities = pre
    /\ outcome = "open" /\ pending = {"login"} =>
          /\ ~inList => capabilities = {} \/ capabilities = post
          /\ requests # <<>> => ~inList /\ capabilities = {} /\ NoLists
    /\ outcome = "open" /\ requests = <<>> /\ NoLists =>
          /\ pending = {"capability_1"} => capabilities = pre \/ Cleared
          /\ pending = {"capability_2"} => capabilities = post \/ Cleared
    /\ outcome = "open" /\ requests = <<"capability_2">> =>
          ~inList /\ capabilities = {} /\ NoLists
    /\ outcome = "post_login" => /\ capabilities = post \/ Cleared
                                 /\ ~inList /\ NoLists
-----------------------------------------------------------------------------
\* Removing the first element, and appending a sequence.
LEMMA TailFacts ==
  ASSUME NEW S, NEW s \in Seq(S), s # <<>>
  PROVE  /\ Tail(s) \in Seq(S) /\ Len(s) \in Nat /\ Len(s) > 0
         /\ Len(Tail(s)) = Len(s) - 1
         /\ DOMAIN s = 1 .. Len(s) /\ DOMAIN Tail(s) = 1 .. Len(Tail(s))
         /\ Head(s) = s[1] /\ s[1] \in S
         /\ \A i \in DOMAIN Tail(s) : i + 1 \in DOMAIN s /\ Tail(s)[i] = s[i + 1]
  OBVIOUS

\* A sequence of at most one element that is not empty.
LEMMA LengthOne ==
  ASSUME NEW S, NEW s \in Seq(S), s # <<>>, Len(s) <= 1
  PROVE  Len(s) = 1
  <1>1. Len(s) \in Nat /\ Len(s) # 0
    OBVIOUS
  <1>2. \A n \in Nat : n # 0 /\ n <= 1 => n = 1
    OBVIOUS
  <1> QED BY <1>1, <1>2, Zenon

\* The elements of a concatenation.
LEMMA ConcatFacts ==
  ASSUME NEW S, NEW s \in Seq(S), NEW t \in Seq(S)
  PROVE  /\ s \o t \in Seq(S) /\ Len(s) \in Nat /\ Len(t) \in Nat
         /\ Len(s \o t) = Len(s) + Len(t)
         /\ DOMAIN s = 1 .. Len(s) /\ DOMAIN t = 1 .. Len(t)
         /\ DOMAIN (s \o t) = 1 .. Len(s) + Len(t)
         /\ \A i \in DOMAIN s : i \in DOMAIN (s \o t) /\ (s \o t)[i] = s[i]
         /\ \A i \in DOMAIN (s \o t) : i \notin DOMAIN s =>
               i - Len(s) \in DOMAIN t /\ (s \o t)[i] = t[i - Len(s)]
  OBVIOUS

\* Appending one element.
LEMMA AppendFacts ==
  ASSUME NEW S, NEW s \in Seq(S), NEW e \in S
  PROVE  /\ Append(s, e) \in Seq(S) /\ Len(s) \in Nat
         /\ Len(Append(s, e)) = Len(s) + 1
         /\ Append(s, e) # <<>>
         /\ s = <<>> => Append(s, e)[1] = e /\ Len(Append(s, e)) = 1
  OBVIOUS

\* The server's answer to t ends with the tagged line; a list may precede it.
LEMMA AnswerShape ==
  ASSUME LoginAssumption, pre \in PreCaps, post \in PostCaps,
         NEW t \in Tags, NEW a \in Answers(t)
  PROVE  /\ a \in Seq(Items) /\ Len(a) \in {1, 2}
         /\ a[Len(a)].tag = t /\ a[Len(a)].kind \in {"line", "no"}
         /\ Len(a) = 2 => /\ a[1].tag \in {"none", "untagged", "code"}
                          /\ a[1].kind \in {"list", "line"}
                          /\ a[1].kind = "list" => a[1].tag = "none"
                          /\ a[1].tag = "code" => StrayCodes
  <1>1. PICK x \in {<<List(pre), Line(t)>>, <<List(post), Line(t)>>, <<Failed(t)>>,
                    <<Line(t)>>, <<Line("untagged"), Line(t)>>} \cup Coded(t) : a = x
    BY DEF Answers
  <1>2. /\ List(pre) \in Items /\ List(post) \in Items /\ Line(t) \in Items
        /\ Failed(t) \in Items /\ Line("untagged") \in Items /\ Line("code") \in Items
    BY LoginAssumption DEF Items, List, Line, Failed
  <1>3. CASE a = <<List(pre), Line(t)>>
    BY <1>2, <1>3 DEF List, Line
  <1>4. CASE a = <<List(post), Line(t)>>
    BY <1>2, <1>4 DEF List, Line
  <1>5. CASE a = <<Failed(t)>>
    BY <1>2, <1>5 DEF Failed
  <1>6. CASE a = <<Line(t)>>
    BY <1>2, <1>6 DEF Line
  <1>7. CASE a = <<Line("untagged"), Line(t)>>
    BY <1>2, <1>7 DEF Line
  <1>8. CASE StrayCodes /\ a = <<Line("code"), Line(t)>>
    BY <1>2, <1>8 DEF Line
  <1> QED BY <1>1, <1>3, <1>4, <1>5, <1>6, <1>7, <1>8 DEF Coded

\* A tagged response is the last thing the server has sent.
LEMMA TaggedIsLast ==
  ASSUME DialogueInv, NEW t \in Tags, TaggedOK(t)
  PROVE  /\ input' = <<>> /\ requests = <<>> /\ pending = {t}
         /\ ~inList /\ left = {} /\ timer = "done"
         /\ Len(input) = 1 /\ NoLists
         /\ UNCHANGED <<pre, post, left, inList, hasRev1, timer>>
  <1>1. input \in Seq(Items) /\ input # <<>> /\ Head(input) = Line(t) /\ input' = Tail(input)
    BY DEF DialogueInv, TypeOK, TaggedOK
  <1>2. input[1].tag = t /\ input[1].kind = "line" /\ 1 \in DOMAIN input
    BY <1>1, TailFacts DEF Line
  <1>3. 1 = Len(input) /\ requests = <<>> /\ pending = {t}
    BY <1>2 DEF DialogueInv, InputInv
  <1>4. input' = <<>>
    BY <1>1, <1>3
  <1>5. ~inList /\ left = {}
    BY <1>1, <1>2 DEF DialogueInv, TypeOK, Line
  <1>6. timer = "done"
    BY <1>3 DEF DialogueInv
  <1>7. NoLists
    BY <1>1, <1>2, <1>3, TailFacts DEF NoLists
  <1> QED BY <1>3, <1>4, <1>5, <1>6, <1>7 DEF TaggedOK, serverVars

\* Parsing an item leaves the rest of the input as it is.
LEMMA PopKeepsInput ==
  ASSUME InputInv, input # <<>>, input' = Tail(input), UNCHANGED <<requests, pending>>
  PROVE  InputInv'
  BY TailFacts DEF InputInv

\* The greeting answers no command.
LEMMA DialogueInit == Init => DialogueInv
  <1> SUFFICES ASSUME Init PROVE DialogueInv
    OBVIOUS
  <1>1. input \in {<<Line("greeting")>>, <<List(pre), Line("greeting")>>}
    BY DEF Init
  <1>2. List(pre) \in Items /\ Line("greeting") \in Items
    BY LoginAssumption DEF Init, Items, List, Line
  <1>3. InputInv
    <2>1. CASE input = <<Line("greeting")>>
      BY <1>2, <2>1 DEF InputInv, Line, Tags, LoginTags, TaskTags, BeforeFetch
    <2>2. CASE input = <<List(pre), Line("greeting")>>
      BY <1>2, <2>2 DEF InputInv, Line, List, Tags, LoginTags, TaskTags, BeforeFetch
    <2> QED BY <1>1, <2>1, <2>2
  <1>4. requests \in Seq(Tags) /\ Len(requests) = 0 /\ requests = <<>>
    BY DEF Init
  <1>5. TypeOK
    BY <1>3, <1>4 DEF Init, TypeOK, InputInv
  <1> QED BY <1>3, <1>4, <1>5 DEF Init, DialogueInv

\* Every step of the dialogue keeps DialogueInv.
LEMMA DialogueStep == DialogueInv /\ [Next]_lvars => DialogueInv'
  <1> SUFFICES ASSUME DialogueInv, [Next]_lvars PROVE DialogueInv'
    OBVIOUS
  <1>0. /\ LoginTags \subseteq Tags /\ TaskTags \subseteq Tags /\ LoginTags \cap TaskTags = {}
        /\ {"capability_1", "login", "capability_2"} = LoginTags
        /\ {"select", "c_select", "logout"} \subseteq TaskTags
        /\ "code" \notin Tags /\ "none" \notin Tags /\ "untagged" \notin Tags /\ "greeting" \notin Tags
    BY DEF Tags, LoginTags, TaskTags, BeforeFetch
  <1>1. CASE TimerExpires
    BY <1>1 DEF TimerExpires, DialogueInv, TypeOK, InputInv, serverVars, parserVars
  <1>2. CASE do_pre_login
    <2>1. pending = {} /\ requests = <<>> /\ timer' = "done"
          /\ UNCHANGED <<pre, post, input, left, inList, hasRev1>>
      BY <1>2 DEF do_pre_login, DialogueInv, serverVars, parserVars
    <2>2. \A i \in DOMAIN input : input[i].tag \notin Tags
      BY <2>1 DEF DialogueInv, InputInv
    <2>3. InputInv'
      BY <2>1, <2>2 DEF DialogueInv, InputInv
    <2>4. CASE \E t \in LoginTags : Send(t, pending) /\ capabilities' \in SUBSET Caps
      <3>1. PICK t \in LoginTags : Send(t, pending) /\ capabilities' \in SUBSET Caps
        BY <2>4
      <3>2. /\ requests' \in Seq(Tags) /\ Len(requests') = 1 /\ requests'[1] = t
            /\ pending' = {t} /\ outcome' = outcome
        BY <1>0, <2>1, <3>1 DEF Send
      <3> QED BY <1>0, <1>2, <2>1, <2>3, <3>1, <3>2 DEF DialogueInv, TypeOK, do_pre_login
    <2>5. CASE outcome' = "thrown" /\ UNCHANGED <<pending, requests, capabilities>>
      BY <2>1, <2>3, <2>5 DEF DialogueInv, TypeOK
    <2>6. {} \in SUBSET Caps /\ capabilities \in SUBSET Caps
      BY DEF DialogueInv, TypeOK
    <2> QED BY <1>0, <1>2, <2>4, <2>5, <2>6 DEF do_pre_login, async_login
  <1>3. CASE capability_begin
    <2>1. Head(input) \in Items /\ input[1] = Head(input)
      BY <1>3, TailFacts DEF DialogueInv, TypeOK, capability_begin
    <2>2. Head(input).caps \in SUBSET Caps
      BY <2>1 DEF Items
    <2> QED BY <1>3, <2>1, <2>2 DEF capability_begin, DialogueInv, TypeOK, InputInv, serverVars
  <1>4. CASE \E c \in Caps : imap_capability(c)
    <2>1. PICK c \in Caps : imap_capability(c)
      BY <1>4
    <2> QED BY <2>1 DEF imap_capability, DialogueInv, TypeOK, InputInv, serverVars
  <1>5. CASE capability_end
    <2>1. input # <<>> /\ input' = Tail(input) /\ UNCHANGED <<requests, pending>>
      BY <1>5 DEF capability_end, DialogueInv, TypeOK
    <2>2. InputInv'
      BY <2>1, PopKeepsInput DEF DialogueInv
    <2> QED BY <1>5, <2>2 DEF capability_end, DialogueInv, TypeOK, InputInv, serverVars
  <1>6. CASE untagged_end
    <2>1. input # <<>> /\ input' = Tail(input) /\ UNCHANGED <<requests, pending>>
      BY <1>6 DEF untagged_end
    <2>2. InputInv'
      BY <2>1, PopKeepsInput DEF DialogueInv
    <2>3. ~inList
      BY <1>6, TailFacts DEF untagged_end, DialogueInv, TypeOK, Line
    <2> QED BY <1>6, <2>2, <2>3 DEF untagged_end, DialogueInv, TypeOK, InputInv, serverVars
  <1>6a. CASE code_begin
    <2>1. input # <<>> /\ input' = Tail(input) /\ UNCHANGED <<requests, pending>>
      BY <1>6a DEF code_begin
    <2>2. InputInv'
      BY <2>1, PopKeepsInput DEF DialogueInv
    <2>3. ~inList
      BY <1>6a, TailFacts DEF code_begin, DialogueInv, TypeOK, Line
    <2> QED BY <1>6a, <2>2, <2>3 DEF code_begin, DialogueInv, TypeOK, InputInv, serverVars
  <1>7. ASSUME NEW t \in Tags, TaggedOK(t), capabilities' \in SUBSET Caps,
               \/ \E u \in Tags : /\ requests' = Append(requests, u)
                                  /\ pending' = (pending \ {t}) \cup {u}
                                  /\ outcome' \in {"open", "post_login"}
                                  /\ outcome' = "open" => u \in LoginTags
                                  /\ outcome' = "post_login" => u \in TaskTags
               \/ /\ UNCHANGED requests /\ pending' = pending \ {t}
                  /\ outcome' \in {"post_login", "thrown"}
        PROVE  DialogueInv'
    <2>1. /\ input' = <<>> /\ requests = <<>> /\ pending = {t}
          /\ ~inList /\ left = {} /\ timer = "done"
          /\ UNCHANGED <<pre, post, left, inList, hasRev1, timer>>
      BY <1>7, TaggedIsLast
    <2>2. InputInv'
      BY <2>1 DEF InputInv
    <2>3. CASE \E u \in Tags : /\ requests' = Append(requests, u)
                               /\ pending' = (pending \ {t}) \cup {u}
                               /\ outcome' \in {"open", "post_login"}
                               /\ outcome' = "open" => u \in LoginTags
                               /\ outcome' = "post_login" => u \in TaskTags
      <3>1. PICK u \in Tags : /\ requests' = Append(requests, u)
                              /\ pending' = (pending \ {t}) \cup {u}
                              /\ outcome' \in {"open", "post_login"}
                              /\ outcome' = "open" => u \in LoginTags
                              /\ outcome' = "post_login" => u \in TaskTags
        BY <2>3
      <3>2. /\ requests' \in Seq(Tags) /\ Len(requests') = 1 /\ requests'[1] = u
            /\ pending' = {u}
        BY <2>1, <3>1
      <3> QED BY <1>7, <2>1, <2>2, <3>1, <3>2 DEF DialogueInv, TypeOK, InputInv
    <2>4. CASE /\ UNCHANGED requests /\ pending' = pending \ {t}
               /\ outcome' \in {"post_login", "thrown"}
      BY <1>7, <2>1, <2>2, <2>4 DEF DialogueInv, TypeOK, InputInv
    <2> QED BY <1>7, <2>3, <2>4
  <1>8. CASE capabilities_received
    BY <1>0, <1>7, <1>8 DEF capabilities_received, async_login, Send, DialogueInv, TypeOK, TaggedOK, Running
  <1>9. CASE logged_in
    BY <1>0, <1>7, <1>9 DEF logged_in, do_post_login, Send, DialogueInv, TypeOK, TaggedOK, Running
  <1>10. CASE capabilities_received_again
    BY <1>0, <1>7, <1>10 DEF capabilities_received_again, do_post_login, DialogueInv, TypeOK
  <1>11. CASE \E t, u \in TaskTags : next_command(t, u)
    BY <1>0, <1>7, <1>11 DEF next_command, Send, DialogueInv, TypeOK, TaggedOK, Running
  <1>12. CASE logged_out
    BY <1>0, <1>7, <1>12 DEF logged_out, DialogueInv, TypeOK, TaggedOK, Running
  <1>13. CASE imap_tagged_status_failed
    <2>1. input # <<>> /\ input' = Tail(input) /\ UNCHANGED <<requests, pending>>
      BY <1>13 DEF imap_tagged_status_failed
    <2>2. InputInv'
      BY <2>1, PopKeepsInput DEF DialogueInv
    <2>3. ~inList
      BY <1>13, TailFacts DEF imap_tagged_status_failed, DialogueInv, TypeOK
    <2> QED BY <1>13, <2>2, <2>3
        DEF imap_tagged_status_failed, DialogueInv, TypeOK, InputInv, serverVars
  <1>14. CASE ServerAnswers
    <2> DEFINE t == requests[1]
    <2>1. /\ t \in Tags /\ requests \in Seq(Tags) /\ requests # <<>> /\ Len(requests) = 1
          /\ Head(requests) = t /\ pending = {t}
      <3>1. requests \in Seq(Tags) /\ requests # <<>> /\ Len(requests) <= 1
        BY <1>14 DEF ServerAnswers, DialogueInv, TypeOK
      <3>2. Len(requests) \in Nat /\ Len(requests) > 0 /\ t \in Tags /\ Head(requests) = t
        BY <3>1, TailFacts
      <3>3. Len(requests) = 1
        BY <3>1, LengthOne
      <3>4. pending = {t}
        BY <3>1 DEF DialogueInv
      <3> QED BY <3>1, <3>2, <3>3, <3>4
    <2> HIDE DEF t
    <2>2. requests' = <<>>
      BY <1>14, <2>1 DEF ServerAnswers
    <2>3. PICK a \in Answers(t) : input' = input \o a
      BY <1>14, <2>1 DEF ServerAnswers
    <2>4. /\ a \in Seq(Items) /\ Len(a) \in {1, 2}
          /\ a[Len(a)].tag = t /\ a[Len(a)].kind \in {"line", "no"}
          /\ Len(a) = 2 => /\ a[1].tag \in {"none", "untagged", "code"}
                           /\ a[1].kind \in {"list", "line"}
                           /\ a[1].kind = "list" => a[1].tag = "none"
                           /\ a[1].tag = "code" => StrayCodes
      BY <2>1, AnswerShape, LoginAssumption DEF DialogueInv, TypeOK
    <2>5. /\ input \in Seq(Items)
          /\ \A i \in DOMAIN input : /\ input[i].tag \notin Tags
                                     /\ input[i].kind # "no"
                                     /\ input[i].kind = "list" => input[i].tag = "none"
                                     /\ input[i].tag = "code" => StrayCodes
      BY <2>1 DEF DialogueInv, InputInv
    <2>6. /\ input' \in Seq(Items) /\ Len(input') = Len(input) + Len(a)
          /\ Len(input) \in Nat /\ DOMAIN input = 1 .. Len(input)
          /\ DOMAIN input' = 1 .. Len(input) + Len(a)
          /\ \A i \in DOMAIN input : i \in DOMAIN input' /\ input'[i] = input[i]
          /\ \A i \in DOMAIN input' : i \notin DOMAIN input =>
                i - Len(input) \in 1 .. Len(a) /\ input'[i] = a[i - Len(input)]
      BY <2>3, <2>4, <2>5, ConcatFacts
    <2>7. InputInv'
      <3> SUFFICES ASSUME NEW i \in DOMAIN input'
                   PROVE  /\ input'[i].tag \in Tags =>
                               i = Len(input') /\ requests' = <<>> /\ pending' = {input'[i].tag}
                          /\ input'[i].kind = "no" => input'[i].tag \in Tags
                          /\ input'[i].kind = "list" => input'[i].tag = "none"
                          /\ input'[i].tag = "code" => StrayCodes
        BY <2>6 DEF InputInv
      <3>1. CASE i \in DOMAIN input
        BY <2>5, <2>6, <3>1
      <3>2. CASE i \notin DOMAIN input /\ i - Len(input) = Len(a)
        <4>1. input'[i] = a[Len(a)] /\ i = Len(input')
          BY <2>4, <2>6, <3>2
        <4>2. pending' = {t}
          BY <1>14, <2>1 DEF ServerAnswers
        <4> QED BY <1>0, <2>1, <2>2, <2>4, <4>1, <4>2
      <3>3. CASE i \notin DOMAIN input /\ i - Len(input) # Len(a)
        <4>1. Len(a) = 2 /\ i - Len(input) = 1
          BY <2>4, <2>6, <3>3
        <4> QED BY <1>0, <2>4, <2>6, <3>3, <4>1
      <3> QED BY <3>1, <3>2, <3>3
    <2>8. inList' => input' # <<>> /\ Head(input') = Head(input) /\ input'[1] = input[1]
      <3> SUFFICES ASSUME inList PROVE input' # <<>> /\ Head(input') = Head(input) /\ input'[1] = input[1]
        BY <1>14 DEF ServerAnswers
      <3>1. input # <<>> /\ 1 \in DOMAIN input /\ Head(input) = input[1]
        BY <2>5, TailFacts DEF DialogueInv, TypeOK
      <3> QED BY <2>6, <3>1, TailFacts
    <2>9. requests' \in Seq(Tags) /\ Len(requests') = 0
      BY <2>2
    <2>10. UNCHANGED <<pre, post, left, inList, hasRev1, capabilities, timer, pending, outcome>>
      BY <1>14 DEF ServerAnswers, serverVars
    <2>11. TypeOK'
      BY <2>6, <2>8, <2>9, <2>10 DEF DialogueInv, TypeOK
    <2> QED BY <2>2, <2>7, <2>8, <2>9, <2>10, <2>11 DEF DialogueInv
  <1>15. CASE UNCHANGED lvars
    BY <1>15 DEF lvars, DialogueInv, TypeOK, InputInv
  <1> QED BY <1>1, <1>2, <1>3, <1>4, <1>5, <1>6, <1>6a, <1>8, <1>9, <1>10, <1>11, <1>12,
             <1>13, <1>14, <1>15 DEF Next

\* DialogueInv has what the write queue relies on.
LEMMA OneOutstanding == DialogueInv => OneCommandAtATime
  <1> SUFFICES ASSUME DialogueInv PROVE Cardinality(pending) <= 1
    BY DEF DialogueInv, OneCommandAtATime
  <1>1. CASE pending = {}
    BY <1>1, FS_EmptySet
  <1>2. CASE pending # {}
    <2>1. PICK t \in pending : TRUE
      BY <1>2
    <2>2. pending = {t}
      BY <2>1 DEF DialogueInv
    <2> QED BY <2>2, FS_Singleton
  <1> QED BY <1>1, <1>2

\* One command is outstanding at a time, whichever of timer, greeting and answers
\* comes first, and however the input is cut into chunks.
THEOREM OneCommandAtATimeAlways == Spec => []OneCommandAtATime
  BY OneOutstanding, DialogueInit, DialogueStep, PTL DEF Spec
-----------------------------------------------------------------------------
\* The lists in an answer.
LEMMA AnswerLists ==
  ASSUME NEW t \in Tags, NEW a \in Answers(t)
  PROVE  /\ Len(a) \in {1, 2}
         /\ \A i \in 1 .. Len(a) : a[i].kind = "list" =>
               /\ i = 1 /\ t \in LoginTags
               /\ a[i].caps = IF t = "capability_1" THEN pre ELSE post
         /\ t \in {"capability_1", "capability_2"} => a[1].kind = "list"
  <1>1. CASE t = "capability_1"
    <2>1. a = <<List(pre), Line(t)>>
      BY <1>1 DEF Answers
    <2> QED BY <1>1, <2>1 DEF List, Line, LoginTags
  <1>2. CASE t = "login"
    <2>1. a \in {<<Failed(t)>>, <<Line(t)>>, <<List(post), Line(t)>>, <<Line("code"), Line(t)>>}
      BY <1>2 DEF Answers, Coded
    <2>2. CASE a = <<List(post), Line(t)>>
      BY <1>2, <2>2 DEF List, Line, LoginTags
    <2>3. CASE a = <<Failed(t)>>
      BY <1>2, <2>3 DEF Failed
    <2>4. CASE a = <<Line(t)>>
      BY <1>2, <2>4 DEF Line
    <2>5. CASE a = <<Line("code"), Line(t)>>
      BY <1>2, <2>5 DEF Line
    <2> QED BY <2>1, <2>2, <2>3, <2>4, <2>5
  <1>3. CASE t = "capability_2"
    <2>1. a = <<List(post), Line(t)>>
      BY <1>3 DEF Answers
    <2> QED BY <1>3, <2>1 DEF List, Line, LoginTags
  <1>4. CASE t \notin LoginTags
    <2>1. a \in {<<Line("untagged"), Line(t)>>, <<Line(t)>>, <<Failed(t)>>, <<Line("code"), Line(t)>>}
      BY <1>4 DEF Answers, Coded, LoginTags
    <2>2. CASE a = <<Line("untagged"), Line(t)>>
      BY <1>4, <2>2 DEF Line, LoginTags
    <2>3. CASE a = <<Failed(t)>>
      BY <1>4, <2>3 DEF Failed, LoginTags
    <2>4. CASE a = <<Line(t)>>
      BY <1>4, <2>4 DEF Line, LoginTags
    <2>5. CASE a = <<Line("code"), Line(t)>>
      BY <1>4, <2>5 DEF Line, LoginTags
    <2> QED BY <2>1, <2>2, <2>3, <2>4, <2>5
  <1> QED BY <1>1, <1>2, <1>3, <1>4 DEF LoginTags

\* Before the dialogue nothing is known of the server.
LEMMA CapsInit == Init => CapsInv
  <1> SUFFICES ASSUME Init PROVE CapsInv
    OBVIOUS
  <1>1. CASE input = <<Line("greeting")>>
    BY <1>1 DEF Init, CapsInv, OneList, NoLists, Line
  <1>2. CASE input = <<List(pre), Line("greeting")>>
    BY <1>2 DEF Init, CapsInv, OneList, NoLists, Line, List
  <1> QED BY <1>1, <1>2 DEF Init

\* As the first item goes, lists stay as they are.
LEMMA PopLists ==
  ASSUME input \in Seq(Items), input # <<>>, input' = Tail(input)
  PROVE  /\ NoLists => NoLists'
         /\ OneList => OneList'
         /\ OneList /\ input[1].kind = "list" => NoLists'
         /\ NoLists' /\ input[1].kind # "list" => NoLists
         /\ \A i \in DOMAIN input' : i + 1 \in DOMAIN input /\ input'[i] = input[i + 1]
  <1>1. /\ Len(input) \in Nat /\ Len(input) > 0 /\ Len(input') = Len(input) - 1
        /\ DOMAIN input = 1 .. Len(input) /\ DOMAIN input' = 1 .. Len(input')
        /\ \A i \in DOMAIN input' : i + 1 \in DOMAIN input /\ input'[i] = input[i + 1]
    BY TailFacts
  <1>2. NoLists => NoLists'
    BY <1>1 DEF NoLists
  <1>3. OneList => OneList'
    BY <1>1 DEF OneList
  <1>4. OneList /\ input[1].kind = "list" => NoLists'
    BY <1>1 DEF NoLists, OneList
  <1>5. ASSUME NoLists', input[1].kind # "list" PROVE NoLists
    <2> SUFFICES ASSUME NEW i \in DOMAIN input PROVE input[i].kind # "list"
      BY DEF NoLists
    <2>1. CASE i = 1
      BY <1>5, <2>1
    <2>2. CASE i # 1
      <3>1. i - 1 \in DOMAIN input' /\ (i - 1) + 1 = i
        BY <1>1, <2>2
      <3>2. input'[i - 1] = input[i]
        BY <1>1, <3>1
      <3> QED BY <1>5, <3>1, <3>2 DEF NoLists
    <2> QED BY <2>1, <2>2
  <1> QED BY <1>1, <1>2, <1>3, <1>4, <1>5

\* Every step of the dialogue keeps CapsInv, unless the timer's handler runs in the
\* middle of the greeting's list.
LEMMA CapsStep ==
  ASSUME ~SplitGreeting, DialogueInv, CapsInv, [Next]_lvars
  PROVE  CapsInv'
  <1>0. /\ LoginTags \cap TaskTags = {} /\ {"capability_1", "login", "capability_2"} = LoginTags
        /\ "select" \in TaskTags /\ LoginTags \subseteq Tags /\ TaskTags \subseteq Tags
        /\ "c_select" \in TaskTags /\ "logout" \in TaskTags
    BY DEF Tags, LoginTags, TaskTags, BeforeFetch
  <1>1. CASE TimerExpires
    BY <1>1 DEF TimerExpires, CapsInv, Cleared, NoLists, OneList, serverVars, parserVars
  <1>2. ASSUME async_login({}), capabilities = pre \/ Cleared, NoLists', ~inList', UNCHANGED <<pre, post>>,
               requests = <<>>, outcome = "open"
        PROVE  CapsInv'
    <2>1. CASE "IMAP4rev1" \in capabilities /\ "LOGINDISABLED" \notin capabilities
      <3>1. /\ capabilities' = {} /\ requests' = <<"login">> /\ pending' = {"login"}
            /\ UNCHANGED outcome
        BY <1>2, <2>1 DEF async_login, Send
      <3>2. capabilities = pre
        BY <1>2, <2>1 DEF Cleared
      <3> QED BY <1>2, <2>1, <3>1, <3>2 DEF CapsInv, NoLists, OneList
    <2>2. CASE ~("IMAP4rev1" \in capabilities /\ "LOGINDISABLED" \notin capabilities)
      BY <1>2, <2>2 DEF async_login, CapsInv
    <2> QED BY <2>1, <2>2
  <1>3. CASE do_pre_login
    <2>1. /\ pending = {} /\ requests = <<>> /\ ~inList /\ outcome = "open"
          /\ UNCHANGED <<pre, post, input, left, inList, hasRev1>>
      BY <1>3 DEF do_pre_login, DialogueInv, TypeOK, serverVars, parserVars, Running
    <2>2. CASE capabilities = {}
      <3>1. /\ requests' = <<"capability_1">> /\ pending' = {"capability_1"}
            /\ UNCHANGED <<capabilities, outcome>>
        BY <1>3, <2>1, <2>2 DEF do_pre_login, Send
      <3> QED BY <2>1, <2>2, <3>1 DEF CapsInv, NoLists, OneList
    <2>3. CASE capabilities # {}
      <3>1. capabilities = pre /\ NoLists
        BY <2>1, <2>3 DEF CapsInv
      <3>2. async_login({})
        BY <1>3, <2>1, <2>3 DEF do_pre_login
      <3>3. NoLists'
        BY <2>1, <3>1 DEF NoLists
      <3> QED BY <1>2, <2>1, <3>1, <3>2, <3>3
    <2> QED BY <2>2, <2>3
  <1>4. CASE capability_begin
    <2>1. /\ input[1].kind = "list" /\ 1 \in DOMAIN input /\ ~NoLists /\ ~NoLists'
          /\ Head(input) = input[1] /\ inList' /\ ~inList
          /\ UNCHANGED <<pre, post, requests, input, pending, outcome>>
      BY <1>4, TailFacts DEF capability_begin, DialogueInv, TypeOK, NoLists, serverVars
    <2>2. left' = Head(input).caps /\ capabilities' = {} /\ hasRev1' = FALSE
      BY <1>4 DEF capability_begin
    <2> QED BY <2>1, <2>2 DEF CapsInv, OneList
  <1>5. CASE \E c \in Caps : imap_capability(c)
    <2>1. PICK c \in Caps : imap_capability(c)
      BY <1>5
    <2>2. /\ input[1].kind = "list" /\ 1 \in DOMAIN input /\ ~NoLists /\ ~NoLists'
          /\ inList /\ inList' /\ outcome # "thrown" /\ c \in left /\ left \subseteq Head(input).caps
          /\ UNCHANGED <<pre, post, requests, input, pending, outcome>>
      BY <2>1, TailFacts DEF imap_capability, DialogueInv, TypeOK, NoLists, serverVars, Running
    <2>3. capabilities' = Head(input).caps \ left'
      BY <2>1, <2>2 DEF imap_capability, CapsInv
    <2>4. hasRev1' <=> "IMAP4rev1" \in capabilities'
      BY <2>1, <2>2 DEF imap_capability, CapsInv
    <2> QED BY <2>2, <2>3, <2>4 DEF CapsInv, OneList
  <1>6. CASE capability_end
    <2>1. /\ input \in Seq(Items) /\ input # <<>> /\ input' = Tail(input) /\ ~inList' /\ inList
          /\ outcome # "thrown" /\ left = {} /\ input[1].kind = "list" /\ 1 \in DOMAIN input
          /\ Head(input) = input[1] /\ ~NoLists
          /\ UNCHANGED <<pre, post, requests, pending, capabilities>>
          /\ outcome' = IF hasRev1 THEN outcome ELSE "thrown"
      BY <1>6, TailFacts DEF capability_end, DialogueInv, TypeOK, NoLists, serverVars, Running
    <2>2. CASE ~hasRev1
      BY <2>1, <2>2 DEF CapsInv
    <2>3. CASE hasRev1
      <3>1. outcome = "open" /\ outcome' = "open"
        BY <2>1, <2>3 DEF CapsInv, DialogueInv, TypeOK
      <3>2. capabilities = input[1].caps
        BY <2>1 DEF CapsInv
      <3>3. capabilities = IF pending \subseteq {"capability_1"} THEN pre ELSE post
        BY <2>1, <3>1, <3>2 DEF CapsInv
      <3>4. \A i \in DOMAIN input' : input'[i].kind = "list" =>
               input'[i].caps = IF pending \subseteq {"capability_1"} THEN pre ELSE post
        BY <2>1, <3>1, PopLists DEF CapsInv
      <3>5. "capability_1" \notin pending => OneList' /\ NoLists'
        BY <2>1, <3>1, PopLists DEF CapsInv
      <3>6. requests # <<>> => pending # {"login"} /\ requests # <<"capability_2">>
        BY <2>1, <3>1 DEF CapsInv
      <3> QED BY <2>1, <3>1, <3>3, <3>4, <3>5, <3>6 DEF CapsInv
    <2> QED BY <2>2, <2>3
  <1>7. CASE untagged_end
    <2>1. /\ input \in Seq(Items) /\ input # <<>> /\ input' = Tail(input)
          /\ input[1].kind # "list" /\ ~inList
          /\ UNCHANGED <<pre, post, requests, left, inList, capabilities, hasRev1, pending, outcome>>
      BY <1>7, TailFacts DEF untagged_end, DialogueInv, TypeOK, Line, serverVars
    <2>2. (NoLists <=> NoLists') /\ (OneList => OneList')
      BY <2>1, PopLists
    <2>3. outcome = "open" =>
             \A i \in DOMAIN input' : input'[i].kind = "list" =>
                input'[i].caps = IF pending \subseteq {"capability_1"} THEN pre ELSE post
      BY <2>1, PopLists DEF CapsInv
    <2> QED BY <2>1, <2>2, <2>3 DEF CapsInv, Cleared
  <1>7a. CASE code_begin
    <2>1. /\ input \in Seq(Items) /\ input # <<>> /\ input' = Tail(input)
          /\ input[1].kind # "list" /\ input[1].tag = "code" /\ 1 \in DOMAIN input
          /\ ~inList /\ capabilities' = {}
          /\ UNCHANGED <<pre, post, requests, left, inList, pending, outcome>>
      BY <1>7a, TailFacts DEF code_begin, DialogueInv, TypeOK, Line, serverVars
    <2>2. (NoLists <=> NoLists') /\ (OneList => OneList')
      BY <2>1, PopLists
    <2>3. outcome = "open" =>
             \A i \in DOMAIN input' : input'[i].kind = "list" =>
                input'[i].caps = IF pending \subseteq {"capability_1"} THEN pre ELSE post
      BY <2>1, PopLists DEF CapsInv
    <2>4. Cleared'
      BY <2>1 DEF Cleared, DialogueInv, InputInv
    <2> QED BY <2>1, <2>2, <2>3, <2>4 DEF CapsInv
  <1>8. ASSUME NEW t \in Tags, TaggedOK(t)
        PROVE  /\ input' = <<>> /\ NoLists /\ NoLists' /\ OneList' /\ ~inList /\ ~inList'
               /\ requests = <<>> /\ pending = {t} /\ UNCHANGED <<pre, post>>
               /\ outcome = IF t \in LoginTags THEN "open" ELSE "post_login"
    <2>1. /\ input' = <<>> /\ NoLists /\ ~inList /\ ~inList'
          /\ requests = <<>> /\ pending = {t} /\ UNCHANGED <<pre, post>>
      BY <1>8, TaggedIsLast
    <2>2. outcome \in {"open", "post_login"}
      BY <1>8 DEF TaggedOK, Running, DialogueInv, TypeOK
    <2>3. outcome = IF t \in LoginTags THEN "open" ELSE "post_login"
      BY <1>0, <2>1, <2>2 DEF DialogueInv, Tags
    <2> QED BY <2>1, <2>3 DEF NoLists, OneList
  <1>9. CASE capabilities_received
    <2>1. TaggedOK("capability_1") /\ async_login(pending \ {"capability_1"})
      BY <1>9 DEF capabilities_received
    <2>2. /\ NoLists /\ NoLists' /\ ~inList' /\ requests = <<>> /\ pending = {"capability_1"}
          /\ UNCHANGED <<pre, post>> /\ outcome = "open"
      BY <1>0, <1>8, <2>1
    <2>3. capabilities = pre \/ Cleared
      BY <2>2 DEF CapsInv
    <2>4. async_login({})
      <3>1. pending \ {"capability_1"} = {}
        BY <2>2
      <3> QED BY <2>1, <3>1
    <2> QED BY <1>2, <2>2, <2>3, <2>4
  <1>10. CASE logged_in
    <2>1. TaggedOK("login") /\ UNCHANGED capabilities
      BY <1>10 DEF logged_in
    <2>2. /\ input' = <<>> /\ NoLists /\ NoLists' /\ OneList' /\ ~inList /\ ~inList'
          /\ requests = <<>> /\ pending = {"login"} /\ UNCHANGED <<pre, post>> /\ outcome = "open"
      BY <1>0, <1>8, <2>1
    <2>3. CASE capabilities = {}
      <3>1. requests' = <<"capability_2">> /\ pending' = {"capability_2"} /\ outcome' = "open"
        BY <1>10, <2>2, <2>3 DEF logged_in, Send
      <3> QED BY <2>1, <2>2, <2>3, <3>1 DEF CapsInv, NoLists
    <2>4. CASE capabilities # {}
      <3>1. capabilities = post
        BY <2>2, <2>4 DEF CapsInv
      <3>2. "login" \notin pending' /\ outcome' = "post_login"
        BY <1>10, <2>2, <2>4 DEF logged_in, do_post_login
      <3> QED BY <2>1, <2>2, <3>1, <3>2 DEF CapsInv
    <2> QED BY <2>3, <2>4
  <1>11. CASE capabilities_received_again
    <2>1. TaggedOK("capability_2") /\ UNCHANGED capabilities
      BY <1>11 DEF capabilities_received_again
    <2>2. /\ input' = <<>> /\ NoLists /\ NoLists' /\ OneList' /\ ~inList /\ ~inList'
          /\ requests = <<>> /\ pending = {"capability_2"} /\ UNCHANGED <<pre, post>>
          /\ outcome = "open"
      BY <1>0, <1>8, <2>1
    <2>3. capabilities' = post \/ Cleared'
      BY <2>1, <2>2 DEF CapsInv, Cleared
    <2>4. "login" \notin pending' /\ outcome' = "post_login"
      BY <1>11, <2>2 DEF capabilities_received_again, do_post_login
    <2> QED BY <2>1, <2>2, <2>3, <2>4 DEF CapsInv
  <1>12. CASE (\E t, u \in TaskTags : next_command(t, u)) \/ logged_out
    <2>1. PICK t \in TaskTags : /\ TaggedOK(t) /\ UNCHANGED <<capabilities, outcome>>
                                /\ \/ \E u \in TaskTags : pending' = (pending \ {t}) \cup {u}
                                   \/ pending' = pending \ {t}
      BY <1>0, <1>12 DEF next_command, logged_out, Send
    <2>2. /\ NoLists' /\ ~inList' /\ pending = {t} /\ UNCHANGED <<pre, post>>
          /\ outcome = "post_login"
      BY <1>0, <1>8, <2>1
    <2>3. (capabilities' = post \/ Cleared') /\ "login" \notin pending'
      BY <1>0, <2>1, <2>2 DEF CapsInv, Cleared
    <2> QED BY <2>1, <2>2, <2>3 DEF CapsInv
  <1>13. CASE imap_tagged_status_failed
    BY <1>13 DEF imap_tagged_status_failed, CapsInv, serverVars
  <1>14. CASE ServerAnswers
    <2> DEFINE t == requests[1]
    <2>1. /\ t \in Tags /\ requests = <<t>> /\ pending = {t} /\ requests # <<>>
          /\ Head(requests) = t
      <3>1. requests \in Seq(Tags) /\ requests # <<>> /\ Len(requests) <= 1
        BY <1>14 DEF ServerAnswers, DialogueInv, TypeOK
      <3>2. Len(requests) = 1
        BY <3>1, LengthOne
      <3> QED BY <3>1, <3>2, TailFacts DEF DialogueInv
    <2> HIDE DEF t
    <2>2. requests' = <<>> /\ UNCHANGED <<pre, post, left, inList, hasRev1, capabilities,
                                          pending, outcome>>
      BY <1>14, <2>1 DEF ServerAnswers, serverVars
    <2>3. PICK a \in Answers(t) : input' = input \o a
      BY <1>14, <2>1 DEF ServerAnswers
    <2>4. /\ Len(a) \in {1, 2} /\ a \in Seq(Items)
          /\ \A i \in 1 .. Len(a) : a[i].kind = "list" =>
                /\ i = 1 /\ t \in LoginTags
                /\ a[i].caps = IF t = "capability_1" THEN pre ELSE post
          /\ t \in {"capability_1", "capability_2"} => a[1].kind = "list"
      BY <2>1, AnswerLists, AnswerShape, LoginAssumption DEF DialogueInv, TypeOK
    <2>5. /\ input \in Seq(Items) /\ Len(input) \in Nat /\ DOMAIN input = 1 .. Len(input)
          /\ DOMAIN input' = 1 .. Len(input) + Len(a)
          /\ \A i \in DOMAIN input : i \in DOMAIN input' /\ input'[i] = input[i]
          /\ \A i \in DOMAIN input' : i \notin DOMAIN input =>
                i - Len(input) \in 1 .. Len(a) /\ input'[i] = a[i - Len(input)]
      <3>1. input \in Seq(Items)
        BY DEF DialogueInv, TypeOK
      <3> QED BY <2>3, <2>4, <3>1, ConcatFacts
    <2>6. t \in {"capability_1", "capability_2"} => ~NoLists'
      <3> SUFFICES ASSUME t \in {"capability_1", "capability_2"} PROVE ~NoLists'
        OBVIOUS
      <3>1. Len(input) + 1 \in DOMAIN input' /\ Len(input) + 1 \notin DOMAIN input
            /\ (Len(input) + 1) - Len(input) = 1
        BY <2>4, <2>5
      <3>2. input'[Len(input) + 1] = a[1]
        BY <2>5, <3>1
      <3> QED BY <2>4, <3>1, <3>2 DEF NoLists
    <2>7. ASSUME NoLists PROVE OneList' /\ (t \notin LoginTags => NoLists')
      <3>1. \A i \in DOMAIN input' : input'[i].kind = "list" =>
               i = Len(input) + 1 /\ t \in LoginTags
        <4> SUFFICES ASSUME NEW i \in DOMAIN input', input'[i].kind = "list"
                     PROVE  i = Len(input) + 1 /\ t \in LoginTags
          OBVIOUS
        <4>1. i \notin DOMAIN input
          BY <2>5, <2>7 DEF NoLists
        <4>2. i - Len(input) \in 1 .. Len(a) /\ input'[i] = a[i - Len(input)]
          BY <2>5, <4>1
        <4>3. i - Len(input) = 1 /\ t \in LoginTags
          BY <2>4, <4>2
        <4> QED BY <2>5, <4>3
      <3> QED BY <3>1 DEF OneList, NoLists
    <2>8. outcome = "open" =>
            \A i \in DOMAIN input' : input'[i].kind = "list" =>
               input'[i].caps = IF pending \subseteq {"capability_1"} THEN pre ELSE post
      <3> SUFFICES ASSUME outcome = "open", NEW i \in DOMAIN input', input'[i].kind = "list"
                   PROVE  input'[i].caps = IF pending \subseteq {"capability_1"} THEN pre ELSE post
        OBVIOUS
      <3>1. CASE i \in DOMAIN input
        BY <2>5, <3>1 DEF CapsInv
      <3>2. CASE i \notin DOMAIN input
        <4>1. i - Len(input) \in 1 .. Len(a) /\ input'[i] = a[i - Len(input)]
          BY <2>5, <3>2
        <4>2. input'[i].caps = IF t = "capability_1" THEN pre ELSE post
          BY <2>4, <4>1
        <4> QED BY <2>1, <4>2
      <3> QED BY <3>1, <3>2
    <2>9. inList => Head(input') = Head(input)
      <3> SUFFICES ASSUME inList PROVE Head(input') = Head(input)
        OBVIOUS
      <3>1. input # <<>>
        BY DEF DialogueInv, TypeOK
      <3> QED BY <2>3, <2>4, <2>5, <3>1
    <2>10. CASE outcome = "thrown"
      BY <2>2, <2>10 DEF CapsInv
    <2>11. CASE outcome = "post_login"
      <3>1. t \notin LoginTags
        BY <1>0, <2>1, <2>11 DEF DialogueInv
      <3> QED BY <2>2, <2>7, <2>11, <3>1 DEF CapsInv, Cleared
    <2>12. CASE outcome = "open"
      <3>1. t \in LoginTags
        BY <2>1, <2>12 DEF DialogueInv
      <3>2. CASE t = "capability_1"
        BY <2>1, <2>2, <2>6, <2>8, <2>9, <2>12, <3>2 DEF CapsInv
      <3>3. CASE t = "login"
        <4>1. NoLists /\ ~inList /\ capabilities = {}
          BY <2>1, <2>12, <3>3 DEF CapsInv
        <4> QED BY <2>1, <2>2, <2>7, <2>8, <2>12, <3>3, <4>1 DEF CapsInv
      <3>4. CASE t = "capability_2"
        <4>1. NoLists /\ ~inList /\ capabilities = {}
          BY <2>1, <2>12, <3>4 DEF CapsInv
        <4> QED BY <2>1, <2>2, <2>6, <2>7, <2>8, <2>12, <3>4, <4>1 DEF CapsInv
      <3> QED BY <1>0, <3>1, <3>2, <3>3, <3>4
    <2> QED BY <2>10, <2>11, <2>12 DEF DialogueInv, TypeOK
  <1>15. CASE UNCHANGED lvars
    BY <1>15 DEF lvars, CapsInv, Cleared, NoLists, OneList
  <1> QED BY <1>1, <1>3, <1>4, <1>5, <1>6, <1>7, <1>7a, <1>9, <1>10, <1>11, <1>12, <1>13, <1>14,
             <1>15 DEF Next

\* Both invariants hold as long as the timer's handler does not run inside a list.
LEMMA LoginInvariant == ~SplitGreeting => (Spec => [](DialogueInv /\ CapsInv))
  <1> SUFFICES ASSUME ~SplitGreeting PROVE Spec => [](DialogueInv /\ CapsInv)
    OBVIOUS
  <1>1. Init => DialogueInv /\ CapsInv
    BY DialogueInit, CapsInit
  <1>2. (DialogueInv /\ CapsInv) /\ [Next]_lvars => (DialogueInv /\ CapsInv)'
    BY DialogueStep, CapsStep
  <1> QED BY <1>1, <1>2, PTL DEF Spec

\* LOGIN is not sent to a server that has LOGINDISABLED.
THEOREM LoginOnlyIfAllowedAlways == ~SplitGreeting => (Spec => []LoginOnlyIfAllowed)
  <1>1. CapsInv => LoginOnlyIfAllowed
    BY DEF CapsInv, LoginOnlyIfAllowed
  <1> QED BY <1>1, LoginInvariant, PTL

\* After login the client knows the server's whole list of that time, or, once a status
\* code with a C has come, nothing: never the greeting's list, never a part of the new one.
THEOREM CapabilitiesAreCurrentAlways == ~SplitGreeting => (Spec => []CapabilitiesAreCurrent)
  <1>1. CapsInv => CapabilitiesAreCurrent
    BY DEF CapsInv, Cleared, CapabilitiesAreCurrent
  <1> QED BY <1>1, LoginInvariant, PTL

\* Every step of a connection is one of the dialogue, or leaves it alone.
LEMMA ConnStepIsLoginStep == [ConnNext]_vars => [Next]_lvars
  BY DEF ConnNext, vars, Next, Handle, async_connect, async_handshake, handshaken,
     operation_failed, login_callback, LoginCallback, task_command, finished, do_read,
     read_failed, written, login_timer, fetch_timer, do_signal, do_signal_again,
     signal_cancelled, async_shutdown, run_returns, login_timer_expires,
     fetch_timer_expires, Succeeds, Breaks, Serves, GoesMute, Signal

\* A connection shows only behaviours of the dialogue: whatever the sockets, signals and
\* timers do, what Login promises holds of the program's whole life.
THEOREM ConnectionRefinesLogin == ConnSpec => Spec
  <1>1. ConnInit => Init
    BY DEF ConnInit
  <1> QED BY <1>1, ConnStepIsLoginStep, PTL DEF ConnSpec, Spec

\* On the connection as well LOGIN is not sent to a server that has LOGINDISABLED, and
\* the client goes by the server's list after login or, after a status code with a C, by
\* none, whatever else happens in the loop.
THEOREM ConnectionKnowsCapabilities ==
  ~SplitGreeting => (ConnSpec => [](LoginOnlyIfAllowed /\ CapabilitiesAreCurrent))
  BY ConnectionRefinesLogin, LoginOnlyIfAllowedAlways, CapabilitiesAreCurrentAlways, PTL
-----------------------------------------------------------------------------
(***************************************************************************)
(* The operations: what is outstanding (W) and what is queued (L).         *)
(***************************************************************************)
\* The operations that open the connection.
Opening == {"resolve", "connect", "handshake"}
\* The operations that are under way once at most.
Once == Opening \cup {"read", "write", "fetch_timer", "login_timer"}
\* What may be queued: an operation with its error code.
Handlers == (Ops \cup {"login_timer"}) \X Codes

\* The operations of O that are under way, and that each is so once only.
Active(O, W, L) == {x \in O : x \in W \/ \E i \in DOMAIN L : L[i][1] = x}
Single(O, W, L) ==
    /\ \A i, j \in DOMAIN L : L[i][1] = L[j][1] /\ L[i][1] \in O => i = j
    /\ \A i \in DOMAIN L : L[i][1] \in O => L[i][1] \notin W

\* The handler of a finished write runs before the answer is read.
WriteFirst(L, f) ==
    \E p \in DOMAIN L : /\ L[p] = <<"write", "ok">>
                        /\ f > 0 \/ \A q \in 1 .. p : L[q][1] # "read"

\* Types; one command in the queue at most, no more signals caught than sent.
LoopTypeOK ==
    /\ tls \in Transports
    /\ conn \in {"resolving", "connecting", "handshaking", "open", "shutdown",
                 "closed"}
    /\ wait \in SUBSET Ops
    /\ loop \in Seq(Handlers)
    /\ queue \in Seq(Tags) /\ Len(queue) <= 1
    /\ fresh \in 0 .. Len(input)
    /\ {established, loggedOut, signaled, stopped, failed, mute} \subseteq BOOLEAN
    /\ caught \in 0 .. signals /\ signals \in 0 .. MaxSignals
    /\ ended \in {"running", "returned", "thrown"}

\* The operations outstanding or queued, of those that are so once at most.
UnderWay == Active(Once, wait, loop)

\* No operation of Once is under way twice; those that open the connection come one
\* after the other and before the others.  A write is under way as long as there is a
\* command in the queue, which is then the outstanding one; its handler runs before
\* the answer is read.  The fetch timer is started once: after SELECT.
LoopInv ==
    /\ LoopTypeOK
    /\ Single(Once, wait, loop)
    /\ established => UnderWay \cap Opening = {}
    /\ ~established => UnderWay \subseteq Opening /\ \A x, y \in UnderWay : x = y
    /\ "login_timer" \in UnderWay => timer = "queued"
    /\ "write" \in UnderWay <=> queue # <<>>
    /\ queue # <<>> => pending = {queue[1]}
    /\ queue # <<>> /\ requests = <<>> => WriteFirst(loop, fresh)
    /\ "fetch_timer" \in UnderWay => outcome # "open" /\ pending \cap BeforeFetch = {}

\* The handlers that may be queued if nobody disturbs.
CalmHandlers ==
    { <<x, "ok">> : x \in Once \cup {"shutdown"} }
    \cup { <<x, "aborted">> : x \in {"signal", "fetch_timer", "login_timer"} }
    \cup { <<"read", "parsed">>, <<"shutdown", "eof">> }

\* The operation that do_quit() starts.
Farewell == {"shutdown"}

\* Without a signal or a failure, the state of the socket follows the handlers, and
\* nothing is left to be aborted when do_quit() is called.
Calm ==
    /\ \A h \in ToSet(loop) : h \in CalmHandlers
    /\ "resolve" \in UnderWay => conn = "resolving"
    /\ "connect" \in UnderWay => conn = "connecting"
    /\ "handshake" \in UnderWay => conn = "handshaking"
    /\ Single(Farewell, wait, loop)
    /\ ~loggedOut => /\ established => conn = "open"
                     /\ Active(Farewell, wait, loop) = {}
    /\ loggedOut => /\ established /\ pending = {} /\ outcome = "post_login"
                    /\ \A x \in wait : x \in SocketOps => x = "shutdown"

\* Neither a signal nor a failure so far.
Undisturbed == Alive /\ signals = 0 /\ ~failed
CalmInv == (Undisturbed => Calm) /\ UndisturbedReturns
-----------------------------------------------------------------------------
\* The sequence of aborted operations: each of S once.
LEMMA AbortedFacts ==
  ASSUME NEW S \in SUBSET Ops
  PROVE  /\ Aborted(S) \in Seq(Handlers)
         /\ \A i \in DOMAIN Aborted(S) : \E x \in S : Aborted(S)[i] = <<x, "aborted">>
         /\ \A x \in S : \E i \in DOMAIN Aborted(S) : Aborted(S)[i] = <<x, "aborted">>
         /\ \A i, j \in DOMAIN Aborted(S) : Aborted(S)[i] = Aborted(S)[j] => i = j
  <1> DEFINE T == {<<x, "aborted">> : x \in S}
             n == Cardinality(T)
  <1>1. IsFiniteSet(Ops)
    <2>1. IsFiniteSet({"connect"})
      BY FS_Singleton
    <2>2. IsFiniteSet({"connect"} \cup {"handshake"})
      BY <2>1, FS_AddElement
    <2>3. IsFiniteSet({"connect"} \cup {"handshake"} \cup {"read"})
      BY <2>2, FS_AddElement
    <2>4. IsFiniteSet({"connect"} \cup {"handshake"} \cup {"read"} \cup {"write"})
      BY <2>3, FS_AddElement
    <2>5. IsFiniteSet({"resolve"})
      BY FS_Singleton
    <2>6. IsFiniteSet({"resolve"} \cup {"signal"})
      BY <2>5, FS_AddElement
    <2>7. IsFiniteSet({"resolve"} \cup {"signal"} \cup {"fetch_timer"})
      BY <2>6, FS_AddElement
    <2>8. IsFiniteSet({"resolve"} \cup {"signal"} \cup {"fetch_timer"} \cup {"shutdown"})
      BY <2>7, FS_AddElement
    <2>9. IsFiniteSet(({"connect"} \cup {"handshake"} \cup {"read"} \cup {"write"})
             \cup ({"resolve"} \cup {"signal"} \cup {"fetch_timer"} \cup {"shutdown"}))
      BY <2>4, <2>8, FS_Union
    <2>10. Ops = ({"connect"} \cup {"handshake"} \cup {"read"} \cup {"write"})
             \cup ({"resolve"} \cup {"signal"} \cup {"fetch_timer"} \cup {"shutdown"})
      BY DEF Ops, SocketOps
    <2> QED BY <2>9, <2>10
  <1>2. IsFiniteSet(S)
    BY <1>1, FS_Subset
  <1>3. IsFiniteSet(T)
    <2> DEFINE g == [x \in S |-> <<x, "aborted">>]
    <2>1. g \in Surjection(S, T)
      BY DEF Surjection
    <2> QED BY <1>2, <2>1, FS_Surjection
  <1>4. n \in Nat /\ ExistsBijection(1 .. n, T)
    BY <1>3, FS_CardinalityType
  <1>5. PICK f \in Bijection(1 .. n, T) : TRUE
    BY <1>4 DEF ExistsBijection
  <1>6. f \in [1 .. n -> T] /\ IsInjective(f)
    BY <1>5 DEF Bijection, Injection
  <1>7. SetToSeq(T) \in [1 .. n -> T] /\ IsInjective(SetToSeq(T))
    BY <1>6 DEF SetToSeq
  <1>8. SetToSeq(T) \in Injection(1 .. n, T)
    BY <1>7 DEF Injection
  <1>9. Cardinality(1 .. n) = n
    BY <1>4, FS_Interval
  <1>10. SetToSeq(T) \in Surjection(1 .. n, T)
    BY <1>3, <1>8, <1>9, FS_Injection
  <1>11. T \subseteq Handlers
    BY DEF Handlers, Codes
  <1>12. Aborted(S) = SetToSeq(T)
    BY DEF Aborted
  <1> HIDE DEF n
  <1>13. SetToSeq(T) \in Seq(Handlers) /\ DOMAIN SetToSeq(T) = 1 .. n
    BY <1>4, <1>7, <1>11
  <1>14. \A i \in 1 .. n : SetToSeq(T)[i] \in T
    BY <1>7
  <1>15. \A h \in T : \E i \in 1 .. n : SetToSeq(T)[i] = h
    BY <1>10 DEF Surjection
  <1>16. \A i, j \in 1 .. n : SetToSeq(T)[i] = SetToSeq(T)[j] => i = j
    BY <1>7, <1>13 DEF IsInjective
  <1>17. /\ \A h \in T : \E x \in S : h = <<x, "aborted">>
         /\ \A x \in S : <<x, "aborted">> \in T
    OBVIOUS
  <1> HIDE DEF T
  <1> QED BY <1>12, <1>13, <1>14, <1>15, <1>16, <1>17

\* From W and L to V and M: the handlers Q are queued, the operations Y of O begun.
Grown(O, W, L, V, M, Y, Q) ==
    /\ V \in SUBSET Ops /\ M \in Seq(Handlers)
    /\ Single(O, V, M)
    /\ \A x : x \in Active(O, V, M) <=> x \in Active(O, W, L) \/ x \in Y
    /\ \A i \in DOMAIN L : i \in DOMAIN M /\ M[i] = L[i]
    /\ \A h \in ToSet(M) : h \in ToSet(L) \/ h \in ToSet(Q)

\* A handler has run.
LEMMA PopActive ==
  ASSUME NEW O, NEW W, NEW L \in Seq(Handlers), L # <<>>, Single(O, W, L)
  PROVE  /\ Single(O, W, Tail(L))
         /\ Active(O, W, Tail(L)) = Active(O, W, L) \ {L[1][1]}
  <1>1. /\ Tail(L) \in Seq(Handlers) /\ Len(L) \in Nat /\ Len(L) > 0
        /\ DOMAIN L = 1 .. Len(L) /\ DOMAIN Tail(L) = 1 .. Len(L) - 1
        /\ \A i \in DOMAIN Tail(L) : i + 1 \in DOMAIN L /\ Tail(L)[i] = L[i + 1]
    BY TailFacts
  <1>2. Single(O, W, Tail(L))
    BY <1>1 DEF Single
  <1>3. ASSUME NEW x \in Active(O, W, Tail(L)) PROVE x \in Active(O, W, L) /\ x # L[1][1]
    <2>1. CASE x \in W
      BY <1>1, <1>3, <2>1 DEF Active, Single
    <2>2. CASE \E i \in DOMAIN Tail(L) : Tail(L)[i][1] = x
      <3>1. PICK i \in DOMAIN Tail(L) : Tail(L)[i][1] = x
        BY <2>2
      <3>2. i + 1 \in DOMAIN L /\ L[i + 1][1] = x /\ i + 1 # 1 /\ 1 \in DOMAIN L
        BY <1>1, <3>1
      <3>3. x \in O
        BY <1>3 DEF Active
      <3> QED BY <3>2, <3>3 DEF Active, Single
    <2> QED BY <1>3, <2>1, <2>2 DEF Active
  <1>4. ASSUME NEW x \in Active(O, W, L), x # L[1][1] PROVE x \in Active(O, W, Tail(L))
    <2>1. CASE x \in W
      BY <1>4, <2>1 DEF Active
    <2>2. CASE \E i \in DOMAIN L : L[i][1] = x
      <3>1. PICK i \in DOMAIN L : L[i][1] = x
        BY <2>2
      <3>2. i - 1 \in DOMAIN Tail(L) /\ (i - 1) + 1 = i
        BY <1>1, <1>4, <3>1
      <3>3. Tail(L)[i - 1][1] = x
        BY <1>1, <3>1, <3>2
      <3> QED BY <1>4, <3>2, <3>3 DEF Active
    <2> QED BY <1>4, <2>1, <2>2 DEF Active
  <1> QED BY <1>2, <1>3, <1>4

\* Operations are started.
LEMMA StartActive ==
  ASSUME NEW O, NEW W, NEW L \in Seq(Handlers), Single(O, W, L),
         NEW S, \A x \in S : x \notin Active(O, W, L),
         NEW V, \A x : x \in V <=> x \in W \/ x \in S
  PROVE  /\ Single(O, V, L)
         /\ \A x : x \in Active(O, V, L) <=> x \in Active(O, W, L) \/ (x \in S /\ x \in O)
  BY DEF Single, Active

\* A handler is queued.
LEMMA QueueActive ==
  ASSUME NEW O, NEW W, NEW L \in Seq(Handlers), Single(O, W, L),
         NEW h \in Handlers, h[1] \notin Active(O, W, L)
  PROVE  /\ L \o <<h>> \in Seq(Handlers) /\ Append(L, h) = L \o <<h>>
         /\ Single(O, W, L \o <<h>>)
         /\ Active(O, W, L \o <<h>>) = Active(O, W, L) \cup ({h[1]} \cap O)
  <1> DEFINE M == L \o <<h>>
  <1>1. /\ M \in Seq(Handlers) /\ Len(L) \in Nat /\ DOMAIN L = 1 .. Len(L)
        /\ DOMAIN M = 1 .. Len(L) + 1 /\ \A i \in DOMAIN L : M[i] = L[i]
        /\ M[Len(L) + 1] = h /\ Append(L, h) = M
    OBVIOUS
  <1> HIDE DEF M
  <1>2. \A i \in DOMAIN M : i \in DOMAIN L \/ i = Len(L) + 1
    BY <1>1
  <1>3. Single(O, W, M)
    <2>1. ASSUME NEW i \in DOMAIN M, NEW j \in DOMAIN M, M[i][1] = M[j][1], M[i][1] \in O
          PROVE  i = j
      BY <1>1, <1>2, <2>1 DEF Single, Active
    <2>2. ASSUME NEW i \in DOMAIN M, M[i][1] \in O PROVE M[i][1] \notin W
      BY <1>1, <1>2, <2>2 DEF Single, Active
    <2> QED BY <2>1, <2>2 DEF Single
  <1>4. Active(O, W, M) = Active(O, W, L) \cup ({h[1]} \cap O)
    <2>1. DOMAIN L \subseteq DOMAIN M /\ Len(L) + 1 \in DOMAIN M
      BY <1>1
    <2> QED BY <1>1, <1>2, <2>1 DEF Active
  <1> QED BY <1>1, <1>3, <1>4 DEF M

\* Operations are aborted: their handlers are queued.
LEMMA AbortActive ==
  ASSUME NEW O, NEW W \in SUBSET Ops, NEW L \in Seq(Handlers), Single(O, W, L),
         NEW V, NEW B, \A x : x \in W <=> x \in V \/ x \in B, \A x \in B : x \notin V,
         NEW M, M = L \o Aborted(B)
  PROVE  Grown(O, W, L, V, M, {}, Aborted(B))
  <1> DEFINE Q == Aborted(B)
  <1>0. B \in SUBSET Ops /\ V \in SUBSET Ops
    OBVIOUS
  <1>1. /\ Q \in Seq(Handlers)
        /\ \A i \in DOMAIN Q : \E x \in B : Q[i] = <<x, "aborted">>
        /\ \A x \in B : \E i \in DOMAIN Q : Q[i] = <<x, "aborted">>
        /\ \A i, j \in DOMAIN Q : Q[i] = Q[j] => i = j
    BY <1>0, AbortedFacts
  <1>1a. M = L \o Q
    OBVIOUS
  <1> HIDE DEF Q
  <1>2. /\ M \in Seq(Handlers) /\ Len(L) \in Nat /\ Len(Q) \in Nat
        /\ DOMAIN L = 1 .. Len(L) /\ DOMAIN Q = 1 .. Len(Q)
        /\ DOMAIN M = 1 .. Len(L) + Len(Q)
        /\ \A i \in DOMAIN L : i \in DOMAIN M /\ M[i] = L[i]
        /\ \A i \in DOMAIN M : i \notin DOMAIN L => i - Len(L) \in DOMAIN Q /\ M[i] = Q[i - Len(L)]
    BY <1>1, <1>1a, ConcatFacts
  <1>3. \A i \in DOMAIN M : i \notin DOMAIN L => \E x \in B : M[i] = <<x, "aborted">>
    BY <1>1, <1>2
  <1>4. \A i, j \in DOMAIN M : i \notin DOMAIN L /\ j \notin DOMAIN L /\ M[i][1] = M[j][1] => i = j
    <2> SUFFICES ASSUME NEW i \in DOMAIN M, NEW j \in DOMAIN M, i \notin DOMAIN L,
                        j \notin DOMAIN L, M[i][1] = M[j][1]
                 PROVE  i = j
      OBVIOUS
    <2>1. M[i] = M[j]
      <3>1. PICK x \in B : M[i] = <<x, "aborted">>
        BY <1>3
      <3>2. PICK y \in B : M[j] = <<y, "aborted">>
        BY <1>3
      <3> QED BY <3>1, <3>2
    <2>2. /\ i - Len(L) \in DOMAIN Q /\ j - Len(L) \in DOMAIN Q
          /\ Q[i - Len(L)] = Q[j - Len(L)]
      BY <1>2, <2>1
    <2>3. i - Len(L) = j - Len(L)
      BY <1>1, <2>2
    <2> QED BY <1>2, <2>3
  <1>5. Single(O, V, M)
    <2>1. ASSUME NEW i \in DOMAIN M, NEW j \in DOMAIN M, M[i][1] = M[j][1], M[i][1] \in O
          PROVE  i = j
      <3>1. CASE i \in DOMAIN L /\ j \in DOMAIN L
        BY <1>2, <2>1, <3>1 DEF Single
      <3>2. CASE i \notin DOMAIN L /\ j \notin DOMAIN L
        BY <1>4, <2>1, <3>2
      <3>3. CASE i \in DOMAIN L /\ j \notin DOMAIN L
        BY <1>2, <1>3, <2>1, <3>3 DEF Single
      <3>4. CASE i \notin DOMAIN L /\ j \in DOMAIN L
        BY <1>2, <1>3, <2>1, <3>4 DEF Single
      <3> QED BY <3>1, <3>2, <3>3, <3>4
    <2>2. ASSUME NEW i \in DOMAIN M, M[i][1] \in O PROVE M[i][1] \notin V
      BY <1>2, <1>3, <2>2 DEF Single
    <2> QED BY <2>1, <2>2 DEF Single
  <1>6. ASSUME NEW x \in Active(O, V, M) PROVE x \in Active(O, W, L)
    BY <1>2, <1>3, <1>6 DEF Active
  <1>7. ASSUME NEW x \in Active(O, W, L) PROVE x \in Active(O, V, M)
    <2>1. CASE x \in V
      BY <1>7, <2>1 DEF Active
    <2>2. CASE x \in B
      <3>1. PICK i \in DOMAIN Q : Q[i] = <<x, "aborted">>
        BY <1>1, <2>2
      <3>2. /\ Len(L) + i \in DOMAIN M /\ Len(L) + i \notin DOMAIN L
            /\ (Len(L) + i) - Len(L) = i
        BY <1>2, <3>1
      <3>3. M[Len(L) + i][1] = x
        BY <1>2, <3>1, <3>2
      <3> QED BY <1>7, <3>2, <3>3 DEF Active
    <2>3. CASE x \notin W
      BY <1>2, <1>7, <2>3 DEF Active
    <2> QED BY <2>1, <2>2, <2>3
  <1>8. \A h \in ToSet(M) : h \in ToSet(L) \/ h \in ToSet(Q)
    BY <1>2 DEF ToSet
  <1> QED BY <1>0, <1>2, <1>5, <1>6, <1>7, <1>8 DEF Grown, Q

\* An operation completes.
LEMMA CompleteActive ==
  ASSUME NEW O, NEW W \in SUBSET Ops, NEW L \in Seq(Handlers), Single(O, W, L),
         NEW h \in Handlers, h[1] \in W,
         NEW V, \A x : x \in V <=> x \in W /\ x # h[1],
         NEW N, N = Append(L, h)
  PROVE  Grown(O, W, L, V, N, {}, <<h>>)
  <1> DEFINE M == L \o <<h>>
  <1>1. Single(O, V, L) /\ \A x : x \in Active(O, V, L) <=> x \in Active(O, W, L) /\ x # h[1]
    BY DEF Single, Active
  <1>2. /\ M \in Seq(Handlers) /\ Append(L, h) = M /\ Single(O, V, M)
        /\ Active(O, V, M) = Active(O, V, L) \cup ({h[1]} \cap O)
    BY <1>1, QueueActive
  <1>3. /\ Len(L) \in Nat /\ DOMAIN L = 1 .. Len(L) /\ DOMAIN M = 1 .. Len(L) + 1
        /\ \A i \in DOMAIN L : M[i] = L[i]
        /\ M[Len(L) + 1] = h
    OBVIOUS
  <1> HIDE DEF M
  <1>4. \A x : x \in Active(O, V, M) <=> x \in Active(O, V, L) \/ (x = h[1] /\ x \in O)
    BY <1>2
  <1>5. h[1] \in O <=> h[1] \in Active(O, W, L)
    BY DEF Active
  <1>6. \A x : x \in Active(O, V, M) <=> x \in Active(O, W, L)
    BY <1>1, <1>4, <1>5
  <1>7. \A g \in ToSet(M) : g \in ToSet(L) \/ g = h
    BY <1>3 DEF ToSet
  <1>8. \A i \in DOMAIN L : i \in DOMAIN M /\ M[i] = L[i]
    BY <1>3
  <1>9. V \in SUBSET Ops /\ N = M /\ h \in ToSet(<<h>>)
    BY <1>2 DEF ToSet
  <1> QED BY <1>2, <1>6, <1>7, <1>8, <1>9 DEF Grown

\* The head of the loop is being parsed.
LEMMA ParsedActive ==
  ASSUME NEW O, NEW W, NEW L \in Seq(Handlers), L # <<>>, L[1][1] = "read", Single(O, W, L)
  PROVE  /\ << <<"read", "parsed">> >> \o Tail(L) \in Seq(Handlers)
         /\ Single(O, W, << <<"read", "parsed">> >> \o Tail(L))
         /\ Active(O, W, << <<"read", "parsed">> >> \o Tail(L)) = Active(O, W, L)
         /\ DOMAIN (<< <<"read", "parsed">> >> \o Tail(L)) = DOMAIN L
         /\ \A i \in DOMAIN L : (<< <<"read", "parsed">> >> \o Tail(L))[i] =
                                   IF i = 1 THEN <<"read", "parsed">> ELSE L[i]
  <1> DEFINE M == << <<"read", "parsed">> >> \o Tail(L)
  <1>0. <<"read", "parsed">> \in Handlers
    BY DEF Handlers, Ops, SocketOps, Codes
  <1>1. /\ M \in Seq(Handlers) /\ Len(L) \in Nat /\ Len(L) > 0 /\ DOMAIN L = 1 .. Len(L)
        /\ DOMAIN M = 1 .. Len(L)
        /\ \A i \in DOMAIN L : M[i] = IF i = 1 THEN <<"read", "parsed">> ELSE L[i]
    BY <1>0
  <1> HIDE DEF M
  <1>2. \A i \in DOMAIN L : M[i][1] = L[i][1]
    BY <1>1
  <1>3. Single(O, W, M) /\ Active(O, W, M) = Active(O, W, L)
    BY <1>1, <1>2, SMTT(30) DEF Single, Active
  <1> QED BY <1>1, <1>3 DEF M

\* WriteFirst is kept as handlers run,
LEMMA WriteFirstPop ==
  ASSUME NEW L \in Seq(Handlers), L # <<>>, L[1][1] # "write", NEW f, WriteFirst(L, f)
  PROVE  WriteFirst(Tail(L), f)
  <1>1. /\ Len(L) \in Nat /\ DOMAIN L = 1 .. Len(L) /\ DOMAIN Tail(L) = 1 .. Len(L) - 1
        /\ \A i \in DOMAIN Tail(L) : i + 1 \in DOMAIN L /\ Tail(L)[i] = L[i + 1]
    BY TailFacts
  <1>2. PICK p \in DOMAIN L : /\ L[p] = <<"write", "ok">>
                              /\ f > 0 \/ \A q \in 1 .. p : L[q][1] # "read"
    BY DEF WriteFirst
  <1>3. L[p][1] = "write"
    BY <1>2
  <1>4. p - 1 \in DOMAIN Tail(L) /\ (p - 1) + 1 = p
    BY <1>1, <1>2, <1>3
  <1>5. Tail(L)[p - 1] = <<"write", "ok">>
    BY <1>1, <1>2, <1>4
  <1>6. ASSUME ~(f > 0), NEW q \in 1 .. p - 1 PROVE Tail(L)[q][1] # "read"
    <2>1. q \in DOMAIN Tail(L) /\ q + 1 \in 1 .. p
      BY <1>1, <1>2, <1>4
    <2> QED BY <1>1, <1>2, <1>6, <2>1
  <1> QED BY <1>4, <1>5, <1>6 DEF WriteFirst

\* ... also when more handlers are queued behind,
LEMMA WriteFirstMore ==
  ASSUME NEW L \in Seq(Handlers), NEW M, NEW f, WriteFirst(L, f),
         \A i \in DOMAIN L : i \in DOMAIN M /\ M[i] = L[i]
  PROVE  WriteFirst(M, f)
  <1>1. PICK p \in DOMAIN L : /\ L[p] = <<"write", "ok">>
                              /\ f > 0 \/ \A q \in 1 .. p : L[q][1] # "read"
    BY DEF WriteFirst
  <1>2. \A q \in 1 .. p : q \in DOMAIN L
    BY <1>1
  <1>3. p \in DOMAIN M /\ M[p] = <<"write", "ok">>
    BY <1>1
  <1>4. f > 0 \/ \A q \in 1 .. p : M[q][1] # "read"
    BY <1>1, <1>2
  <1> QED BY <1>3, <1>4 DEF WriteFirst

\* ... and when the head of the loop is a read's handler, which is then older than the
\* answer.
LEMMA WriteFirstParsed ==
  ASSUME NEW L \in Seq(Handlers), L # <<>>, L[1][1] = "read", NEW f, WriteFirst(L, f),
         NEW M, DOMAIN M = DOMAIN L, \A i \in DOMAIN L : i # 1 => M[i] = L[i]
  PROVE  WriteFirst(M, f) /\ f > 0
  <1>1. PICK p \in DOMAIN L : /\ L[p] = <<"write", "ok">>
                              /\ f > 0 \/ \A q \in 1 .. p : L[q][1] # "read"
    BY DEF WriteFirst
  <1>2. p # 1 /\ 1 \in 1 .. p
    <2>1. L[p][1] = "write"
      BY <1>1
    <2>2. p \in 1 .. Len(L) /\ Len(L) \in Nat
      BY <1>1
    <2> QED BY <2>1, <2>2
  <1>3. f > 0
    BY <1>1, <1>2
  <1>4. M[p] = <<"write", "ok">> /\ p \in DOMAIN M
    BY <1>1, <1>2
  <1> QED BY <1>3, <1>4 DEF WriteFirst

\* What a handler has begun: the operations Y of O, outstanding or queued.
Begun(O, S, Q, Y) ==
    /\ S \subseteq Ops
    /\ \/ Q = <<>> /\ \A x : x \in Y <=> x \in S /\ x \in O
       \/ S = {} /\ \E h \in Handlers : Q = <<h>> /\ \A x : x \in Y <=> x = h[1] /\ x \in O

\* The effect of beginning Y on what is outstanding and queued.
LEMMA BeginFacts ==
  ASSUME NEW O, NEW W \in SUBSET Ops, NEW L \in Seq(Handlers), Single(O, W, L),
         NEW S, NEW Q, NEW Y, Begun(O, S, Q, Y), \A x \in Y : x \notin Active(O, W, L),
         NEW V, \A x : x \in V <=> x \in W \/ x \in S,
         NEW N, N = L \o Q
  PROVE  Grown(O, W, L, V, N, Y, Q)
  <1> SUFFICES /\ V \in SUBSET Ops /\ L \o Q \in Seq(Handlers)
               /\ Single(O, V, L \o Q)
               /\ \A x : x \in Active(O, V, L \o Q) <=> x \in Active(O, W, L) \/ x \in Y
               /\ \A i \in DOMAIN L : i \in DOMAIN (L \o Q) /\ (L \o Q)[i] = L[i]
               /\ \A h \in ToSet(L \o Q) : h \in ToSet(L) \/ h \in ToSet(Q)
    BY DEF Grown
  <1>0. V \in SUBSET Ops
    BY DEF Begun
  <1>1. CASE Q = <<>> /\ \A x : x \in Y <=> x \in S /\ x \in O
    <2>1. L \o Q = L
      BY <1>1
    <2>2. \A x \in S : x \notin Active(O, W, L)
      BY <1>1 DEF Active
    <2>3. /\ Single(O, V, L)
          /\ \A x : x \in Active(O, V, L) <=> x \in Active(O, W, L) \/ (x \in S /\ x \in O)
      BY <2>2, StartActive
    <2> QED BY <1>0, <1>1, <2>1, <2>3
  <1>2. CASE S = {} /\ \E h \in Handlers : Q = <<h>> /\ \A x : x \in Y <=> x = h[1] /\ x \in O
    <2>1. PICK h \in Handlers : Q = <<h>> /\ \A x : x \in Y <=> x = h[1] /\ x \in O
      BY <1>2
    <2>2. h[1] \notin Active(O, W, L)
      BY <2>1 DEF Active
    <2>3. /\ L \o <<h>> \in Seq(Handlers) /\ Single(O, W, L \o <<h>>)
          /\ Active(O, W, L \o <<h>>) = Active(O, W, L) \cup ({h[1]} \cap O)
      BY <2>2, QueueActive
    <2> DEFINE M == L \o Q
    <2>4. /\ M \in Seq(Handlers) /\ Single(O, W, M)
          /\ Active(O, W, M) = Active(O, W, L) \cup ({h[1]} \cap O)
      BY <2>1, <2>3
    <2>5. /\ Len(L) \in Nat /\ DOMAIN L = 1 .. Len(L) /\ DOMAIN M = 1 .. Len(L) + 1
          /\ \A i \in DOMAIN L : M[i] = L[i]
          /\ M[Len(L) + 1] = h
      BY <2>1
    <2>6. h \in ToSet(Q)
      BY <2>1 DEF ToSet
    <2> HIDE DEF M
    <2>7. \A g \in ToSet(M) : g \in ToSet(L) \/ g \in ToSet(Q)
      BY <2>5, <2>6 DEF ToSet
    <2>8. V = W
      BY <1>2
    <2>9. \A i \in DOMAIN L : i \in DOMAIN M /\ M[i] = L[i]
      BY <2>5
    <2>10. \A x : x \in Active(O, V, M) <=> x \in Active(O, W, L) \/ x \in Y
      BY <2>1, <2>4, <2>8
    <2>11. Single(O, V, M)
      BY <2>4, <2>8
    <2> QED BY <1>0, <2>4, <2>7, <2>9, <2>10, <2>11 DEF M
  <1> QED BY <1>1, <1>2 DEF Begun

\* The handler at the head of the loop is done.
LEMMA HandledFacts ==
  ASSUME NEW O, wait \in SUBSET Ops, loop \in Seq(Handlers), Single(O, wait, loop), loop # <<>>,
         NEW S, NEW Q, NEW Y, Begun(O, S, Q, Y), Handled(S, Q),
         \A x \in Y : x \in Active(O, wait, loop) => x = loop[1][1]
  PROVE  /\ wait' \in SUBSET Ops /\ loop' \in Seq(Handlers)
         /\ Single(O, wait', loop')
         /\ \A x : x \in Active(O, wait', loop') <=>
               (x \in Active(O, wait, loop) /\ x # loop[1][1]) \/ x \in Y
         /\ \A h \in ToSet(loop') : h \in ToSet(loop) \/ h \in ToSet(Q)
         /\ \A f : loop[1][1] # "write" /\ WriteFirst(loop, f) => WriteFirst(loop', f)
  <1> DEFINE L == Tail(loop)
  <1>1. /\ L \in Seq(Handlers) /\ Single(O, wait, L)
        /\ \A x : x \in Active(O, wait, L) <=> x \in Active(O, wait, loop) /\ x # loop[1][1]
    <2>1. Single(O, wait, L) /\ Active(O, wait, L) = Active(O, wait, loop) \ {loop[1][1]}
      BY PopActive
    <2>2. L \in Seq(Handlers)
      BY TailFacts
    <2> HIDE DEF L
    <2> QED BY <2>1, <2>2
  <1>2. \A h \in ToSet(L) : h \in ToSet(loop)
    BY TailFacts DEF ToSet
  <1>3. \A f : loop[1][1] # "write" /\ WriteFirst(loop, f) => WriteFirst(L, f)
    BY WriteFirstPop
  <1>4. wait' = wait \cup S /\ loop' = L \o Q
    BY DEF Handled
  <1> HIDE DEF L
  <1>5. /\ wait' \in SUBSET Ops /\ loop' \in Seq(Handlers)
        /\ Single(O, wait', loop')
        /\ \A x : x \in Active(O, wait', loop') <=> x \in Active(O, wait, L) \/ x \in Y
        /\ \A i \in DOMAIN L : i \in DOMAIN loop' /\ loop'[i] = L[i]
        /\ \A h \in ToSet(loop') : h \in ToSet(L) \/ h \in ToSet(Q)
    <2>1. \A x \in Y : x \notin Active(O, wait, L)
      BY <1>1
    <2> DEFINE V == wait'
               M == loop'
    <2>2. (\A x : x \in V <=> x \in wait \/ x \in S) /\ M = L \o Q
      BY <1>4
    <2> HIDE DEF V, M
    <2>3. Grown(O, wait, L, V, M, Y, Q)
      BY <1>1, <2>1, <2>2, BeginFacts
    <2> QED BY <2>3 DEF Grown, V, M
  <1>6. \A f : WriteFirst(L, f) => WriteFirst(loop', f)
    BY <1>1, <1>5, WriteFirstMore
  <1> QED BY <1>1, <1>2, <1>3, <1>5, <1>6

\* The handler at the head of the loop is a read's, and goes on with parsing.
LEMMA ParsedFacts ==
  ASSUME NEW O, wait \in SUBSET Ops, loop \in Seq(Handlers), Single(O, wait, loop), loop # <<>>,
         loop[1][1] = "read",
         NEW S, NEW Q, NEW Y, Begun(O, S, Q, Y), Parsed(S, Q),
         \A x \in Y : x \notin Active(O, wait, loop)
  PROVE  /\ wait' \in SUBSET Ops /\ loop' \in Seq(Handlers)
         /\ Single(O, wait', loop')
         /\ \A x : x \in Active(O, wait', loop') <=> x \in Active(O, wait, loop) \/ x \in Y
         /\ \A h \in ToSet(loop') :
               h \in ToSet(loop) \/ h \in ToSet(Q) \/ h = <<"read", "parsed">>
         /\ \A f : WriteFirst(loop, f) => WriteFirst(loop', f)
  <1> DEFINE L == << <<"read", "parsed">> >> \o Tail(loop)
  <1>1. /\ L \in Seq(Handlers) /\ Single(O, wait, L)
        /\ Active(O, wait, L) = Active(O, wait, loop)
        /\ DOMAIN L = DOMAIN loop
        /\ \A i \in DOMAIN loop : L[i] = IF i = 1 THEN <<"read", "parsed">> ELSE loop[i]
    BY ParsedActive
  <1>2. wait' = wait \cup S /\ loop' = L \o Q
    BY DEF Parsed
  <1> HIDE DEF L
  <1>3. \A h \in ToSet(L) : h \in ToSet(loop) \/ h = <<"read", "parsed">>
    BY <1>1 DEF ToSet
  <1>4. \A f : WriteFirst(loop, f) => WriteFirst(L, f)
    BY <1>1, WriteFirstParsed
  <1>5. /\ wait' \in SUBSET Ops /\ loop' \in Seq(Handlers)
        /\ Single(O, wait', loop')
        /\ \A x : x \in Active(O, wait', loop') <=> x \in Active(O, wait, L) \/ x \in Y
        /\ \A i \in DOMAIN L : i \in DOMAIN loop' /\ loop'[i] = L[i]
        /\ \A h \in ToSet(loop') : h \in ToSet(L) \/ h \in ToSet(Q)
    <2>1. \A x \in Y : x \notin Active(O, wait, L)
      BY <1>1
    <2> DEFINE V == wait'
               M == loop'
    <2>2. (\A x : x \in V <=> x \in wait \/ x \in S) /\ M = L \o Q
      BY <1>2
    <2> HIDE DEF V, M
    <2>3. Grown(O, wait, L, V, M, Y, Q)
      BY <1>1, <2>1, <2>2, BeginFacts
    <2> QED BY <2>3 DEF Grown, V, M
  <1>6. \A f : WriteFirst(L, f) => WriteFirst(loop', f)
    BY <1>1, <1>5, WriteFirstMore
  <1> QED BY <1>1, <1>3, <1>4, <1>5, <1>6

\* Starting one operation on the socket, and nothing at all.
LEMMA BegunOne ==
  ASSUME NEW O, NEW x \in Ops, NEW c
  PROVE  Begun(O, Waits(x, c), Fails(x, c), {y \in O : y = x})
  <1>1. CASE FailsAtOnce(x, c)
    <2> DEFINE h == <<x, "error">>
    <2>1. h \in Handlers /\ h[1] = x
      BY DEF Handlers, Codes
    <2>2. Waits(x, c) = {} /\ Fails(x, c) = <<h>>
      BY <1>1 DEF Waits, Fails
    <2> HIDE DEF h
    <2> QED BY <2>1, <2>2 DEF Begun
  <1>2. CASE ~FailsAtOnce(x, c)
    BY <1>2 DEF Waits, Fails, Begun
  <1> QED BY <1>1, <1>2

\* A handler that starts nothing.
LEMMA BegunNothing ==
  ASSUME NEW O PROVE Begun(O, {}, <<>>, {})
  BY DEF Begun

\* do_quit(): what is outstanding is queued.
LEMMA QuitFacts ==
  ASSUME NEW O, NEW W \in SUBSET Ops, NEW L \in Seq(Handlers), Single(O, W, L), do_quit(W, L),
         "shutdown" \notin O
  PROVE  /\ wait' \in SUBSET Ops /\ loop' \in Seq(Handlers)
         /\ Single(O, wait', loop')
         /\ \A x : x \in Active(O, wait', loop') <=> x \in Active(O, W, L)
         /\ \A f : WriteFirst(L, f) => WriteFirst(loop', f)
         /\ loggedOut' = TRUE /\ ended' \in {ended, "thrown"}
         /\ conn' \in {conn, "shutdown", "closed"}
  <1>0. ASSUME NEW V, NEW B, loop' = L \o Aborted(B),
               \A x : x \in W <=> x \in V \/ x \in B, \A x \in B : x \notin V
        PROVE  /\ V \in SUBSET Ops /\ loop' \in Seq(Handlers) /\ Single(O, V, loop')
               /\ \A x : x \in Active(O, V, loop') <=> x \in Active(O, W, L)
               /\ \A f : WriteFirst(L, f) => WriteFirst(loop', f)
    <2> DEFINE M == loop'
    <2>1. M = L \o Aborted(B)
      BY <1>0
    <2> HIDE DEF M
    <2>2. Grown(O, W, L, V, M, {}, Aborted(B))
      BY <1>0, <2>1, AbortActive
    <2>3. \A f : WriteFirst(L, f) => WriteFirst(M, f)
      BY <2>2, WriteFirstMore DEF Grown
    <2> QED BY <2>2, <2>3 DEF Grown, M
  <1>1. CASE conn \in {"resolving", "closed"}
    BY <1>1 DEF do_quit
  <1>2. CASE conn \notin {"resolving", "closed"} /\ tls
    <2> DEFINE V == W \ SocketOps
               B == W \cap SocketOps
    <2>1. /\ conn' = "shutdown" /\ wait' = V \cup {"shutdown"}
          /\ loop' = L \o Aborted(B) /\ UNCHANGED ended /\ loggedOut' = TRUE
      BY <1>2 DEF do_quit
    <2>2. (\A x : x \in W <=> x \in V \/ x \in B) /\ (\A x \in B : x \notin V)
      OBVIOUS
    <2>3. \A x : x \in wait' <=> x \in V \/ x = "shutdown"
      BY <2>1
    <2> HIDE DEF V, B
    <2>4. /\ V \in SUBSET Ops /\ loop' \in Seq(Handlers) /\ Single(O, V, loop')
          /\ \A x : x \in Active(O, V, loop') <=> x \in Active(O, W, L)
          /\ \A f : WriteFirst(L, f) => WriteFirst(loop', f)
      BY <1>0, <2>1, <2>2
    <2>5. Single(O, wait', loop')
      BY <2>3, <2>4 DEF Single
    <2>6. \A x : x \in Active(O, wait', loop') <=> x \in Active(O, V, loop')
      BY <2>3 DEF Active
    <2>7. \A x : x \in Active(O, wait', loop') <=> x \in Active(O, W, L)
      BY <2>4, <2>6
    <2> QED BY <2>1, <2>4, <2>5, <2>7 DEF Ops, SocketOps
  <1>3. CASE conn \notin {"resolving", "closed"} /\ ~tls
    <2> DEFINE V == W \ (SocketOps \cup {"signal"})
               B == W \cap (SocketOps \cup {"signal"})
    <2>1. /\ conn' = "closed" /\ wait' = V
          /\ loop' = L \o Aborted(B) /\ UNCHANGED ended /\ loggedOut' = TRUE
      BY <1>3 DEF do_quit, Close
    <2>2. (\A x : x \in W <=> x \in V \/ x \in B) /\ (\A x \in B : x \notin V)
      OBVIOUS
    <2> HIDE DEF V, B
    <2>3. /\ V \in SUBSET Ops /\ loop' \in Seq(Handlers) /\ Single(O, V, loop')
          /\ \A x : x \in Active(O, V, loop') <=> x \in Active(O, W, L)
          /\ \A f : WriteFirst(L, f) => WriteFirst(loop', f)
      BY <1>0, <2>1, <2>2
    <2> QED BY <2>1, <2>3
  <1> QED BY <1>1, <1>2, <1>3
-----------------------------------------------------------------------------
\* The handler whose turn it is.
LEMMA TurnFacts ==
  ASSUME LoopInv, NEW x, NEW c, Turn(x, c)
  PROVE  /\ wait \in SUBSET Ops /\ loop \in Seq(Handlers) /\ Single(Once, wait, loop)
         /\ loop # <<>> /\ loop[1] = <<x, c>> /\ loop[1][1] = x
         /\ x \in Once => x \in UnderWay
  <1>1. /\ wait \in SUBSET Ops /\ loop \in Seq(Handlers) /\ Single(Once, wait, loop)
        /\ loop # <<>> /\ Head(loop) = <<x, c>>
    BY DEF LoopInv, LoopTypeOK, Turn
  <1>2. loop[1] = <<x, c>> /\ 1 \in DOMAIN loop
    BY <1>1, TailFacts
  <1>3. loop[1][1] = x
    BY <1>2
  <1> QED BY <1>1, <1>2, <1>3 DEF UnderWay, Active

\* A step that leaves the dialogue alone keeps LoopInv if it begins nothing.
LEMMA LoopSame ==
  ASSUME LoopInv, LoopTypeOK', Single(Once, wait', loop'),
         \A x : x \in Active(Once, wait', loop') => x \in Active(Once, wait, loop),
         "write" \in Active(Once, wait, loop) => "write" \in Active(Once, wait', loop'),
         UNCHANGED <<established, queue, requests, pending, timer, outcome>>,
         WriteFirst(loop, fresh) => WriteFirst(loop', fresh')
  PROVE  LoopInv'
  <1> DEFINE U == UnderWay
             V == UnderWay'
  <1>1. /\ \A x : x \in V => x \in U
        /\ "write" \in U => "write" \in V
    BY DEF UnderWay
  <1>2. /\ established => U \cap Opening = {}
        /\ ~established => U \subseteq Opening /\ \A x, y \in U : x = y
        /\ "login_timer" \in U => timer = "queued"
        /\ "write" \in U <=> queue # <<>>
        /\ queue # <<>> => pending = {queue[1]}
        /\ queue # <<>> /\ requests = <<>> => WriteFirst(loop, fresh)
        /\ "fetch_timer" \in U => outcome # "open" /\ pending \cap BeforeFetch = {}
    BY DEF LoopInv
  <1> HIDE DEF U, V
  <1>3. /\ established' => V \cap Opening = {}
        /\ ~established' => V \subseteq Opening /\ \A x, y \in V : x = y
        /\ "login_timer" \in V => timer' = "queued"
        /\ "write" \in V <=> queue' # <<>>
        /\ queue' # <<>> => pending' = {queue'[1]}
        /\ queue' # <<>> /\ requests' = <<>> => WriteFirst(loop', fresh')
        /\ "fetch_timer" \in V => outcome' # "open" /\ pending' \cap BeforeFetch = {}
    BY <1>1, <1>2
  <1> QED BY <1>3 DEF LoopInv, V

\* The steps that change the dialogue: queue and pending go together.
LEMMA LoopMade ==
  ASSUME LoopTypeOK', Single(Once, wait', loop'), NEW V,
         \A x : x \in V <=> x \in Active(Once, wait', loop'),
         established' = TRUE, \A x \in V : x \notin Opening,
         "login_timer" \in V => timer' = "queued",
         "write" \in V <=> queue' # <<>>,
         queue' # <<>> => pending' = {queue'[1]} /\ (requests' = <<>> => WriteFirst(loop', fresh')),
         "fetch_timer" \in V => outcome' # "open" /\ pending' \cap BeforeFetch = {}
  PROVE  LoopInv'
  <1>1. \A x : x \in UnderWay' <=> x \in V
    BY DEF UnderWay
  <1> QED BY <1>1 DEF LoopInv

\* A chunk is parsed only on an established connection.
LEMMA ReadingFacts ==
  ASSUME LoopInv, InChunk
  PROVE  /\ wait \in SUBSET Ops /\ loop \in Seq(Handlers) /\ Single(Once, wait, loop)
         /\ loop # <<>> /\ loop[1][1] = "read" /\ "read" \in UnderWay
         /\ established = TRUE /\ \A x \in UnderWay : x \notin Opening
         /\ Len(input) > fresh
  <1>1. /\ wait \in SUBSET Ops /\ loop \in Seq(Handlers) /\ Single(Once, wait, loop)
        /\ loop # <<>> /\ loop[1][1] = "read" /\ "read" \in UnderWay
    <2>1. "read" \in Once
      BY DEF Once
    <2>2. CASE Turn("read", "ok")
      BY <2>1, <2>2, TurnFacts
    <2>3. CASE Turn("read", "parsed")
      BY <2>1, <2>3, TurnFacts
    <2> QED BY <2>2, <2>3 DEF InChunk
  <1>2. established \in BOOLEAN
    BY DEF LoopInv, LoopTypeOK
  <1>3. "read" \notin Opening
    BY DEF Opening
  <1>4. /\ established => UnderWay \cap Opening = {}
        /\ ~established => UnderWay \subseteq Opening
    BY DEF LoopInv
  <1> QED BY <1>1, <1>2, <1>3, <1>4 DEF InChunk

\* When a tagged response is parsed, the command's write has been handled.
LEMMA AnsweredFacts ==
  ASSUME DialogueInv, LoopInv, InChunk, NEW t \in Tags, TaggedOK(t)
  PROVE  /\ queue = <<>> /\ fresh = 0 /\ input' = <<>> /\ requests = <<>> /\ pending = {t}
         /\ "write" \notin UnderWay /\ timer = "done" /\ timer' = "done"
         /\ "login_timer" \notin UnderWay /\ Len(input') = 0
  <1>1. /\ input' = <<>> /\ requests = <<>> /\ pending = {t} /\ timer = "done"
        /\ Len(input) = 1 /\ timer' = timer
    BY TaggedIsLast
  <1>2. fresh = 0
    BY <1>1 DEF LoopInv, LoopTypeOK, InChunk
  <1>3. ~WriteFirst(loop, fresh)
    <2>1. loop \in Seq(Handlers) /\ loop # <<>> /\ loop[1][1] = "read"
      BY ReadingFacts
    <2>2. WriteFirst(loop, fresh) => fresh > 0
      BY <2>1, WriteFirstParsed
    <2> QED BY <1>2, <2>2
  <1>4. queue = <<>>
    BY <1>1, <1>3 DEF LoopInv
  <1> QED BY <1>1, <1>2, <1>4 DEF LoopInv
-----------------------------------------------------------------------------
\* The constructor starts resolve, and the wait for signals.
LEMMA LoopInit == ConnInit => LoopInv
  <1> SUFFICES ASSUME ConnInit PROVE LoopInv
    OBVIOUS
  <1>1. /\ wait = {"resolve", "signal"} /\ loop = <<>> /\ queue = <<>>
        /\ fresh = Len(input) /\ established = FALSE /\ caught = 0 /\ signals = 0
    BY DEF ConnInit
  <1>2. input \in Seq(Items)
    BY DialogueInit DEF ConnInit, DialogueInv, TypeOK
  <1>3. /\ wait \in SUBSET Ops /\ loop \in Seq(Handlers) /\ DOMAIN loop = {}
    BY <1>1 DEF Ops
  <1>4. queue \in Seq(Tags) /\ Len(queue) = 0
    BY <1>1
  <1>5. fresh \in 0 .. Len(input)
    BY <1>1, <1>2
  <1>6. LoopTypeOK
    <2>1. caught \in 0 .. signals /\ signals \in 0 .. MaxSignals
      BY <1>1, ConnectionAssumption
    <2>2. {established, loggedOut, signaled, stopped, failed, mute} \subseteq BOOLEAN
      BY DEF ConnInit
    <2>3. Len(queue) <= 1
      BY <1>4
    <2> QED BY <1>3, <1>4, <1>5, <2>1, <2>2, <2>3 DEF LoopTypeOK, ConnInit
  <1>7. Single(Once, wait, loop) /\ \A x \in UnderWay : x = "resolve"
    BY <1>1, <1>3 DEF Single, UnderWay, Active, Once, Opening
  <1>8. "resolve" \in Opening /\ "login_timer" # "resolve" /\ "write" # "resolve"
    BY DEF Opening
  <1> QED BY <1>1, <1>6, <1>7, <1>8 DEF LoopInv

\* While the connection is being opened, one operation of Opening is under way.
LEMMA OpeningFacts ==
  ASSUME LoopInv, NEW x \in Opening, NEW c, Turn(x, c)
  PROVE  /\ established = FALSE /\ queue = <<>>
         /\ \A y : y \in Active(Once, wait, loop) <=> y = x
  <1>1. x \in UnderWay
    BY TurnFacts DEF Once
  <1>2. established \in BOOLEAN
    BY DEF LoopInv, LoopTypeOK
  <1>3. established = FALSE /\ UnderWay \subseteq Opening /\ \A y, z \in UnderWay : y = z
    BY <1>1, <1>2 DEF LoopInv
  <1>4. "write" \notin UnderWay
    BY <1>3 DEF Opening
  <1>5. queue = <<>>
    BY <1>4 DEF LoopInv
  <1> QED BY <1>1, <1>3, <1>5 DEF UnderWay

\* The continuation of async_start() starts the first read.
LEMMA StartKeeps ==
  ASSUME LoopInv, NEW x \in Opening, NEW c, Turn(x, c), Start,
         UNCHANGED <<lvars, envVars, dialogueVars, loggedOut, signaled, stopped, caught, ended>>
  PROVE  LoopInv'
  <1>1. /\ wait \in SUBSET Ops /\ loop \in Seq(Handlers) /\ Single(Once, wait, loop)
        /\ loop # <<>> /\ loop[1][1] = x
    BY TurnFacts
  <1>2. /\ established = FALSE /\ queue = <<>>
        /\ \A y : y \in Active(Once, wait, loop) <=> y = x
    BY OpeningFacts
  <1> DEFINE Y == {y \in Once : y = "read"}
             S == Waits("read", conn)
             Q == Fails("read", conn)
  <1>3. "read" \in Ops /\ "read" \in Once /\ "read" \notin Opening
    BY DEF Ops, SocketOps, Once, Opening
  <1>4. Begun(Once, S, Q, Y)
    BY <1>3, BegunOne
  <1>5. Handled(S, Q) /\ established' = TRUE
    BY DEF Start
  <1>6. \A y : y \in Y <=> y = "read"
    BY <1>3
  <1> HIDE DEF S, Q, Y
  <1>7. \A y \in Y : y \in Active(Once, wait, loop) => y = loop[1][1]
    BY <1>1, <1>2
  <1>8. /\ wait' \in SUBSET Ops /\ loop' \in Seq(Handlers) /\ Single(Once, wait', loop')
        /\ \A y : y \in Active(Once, wait', loop') <=>
              (y \in Active(Once, wait, loop) /\ y # loop[1][1]) \/ y \in Y
    BY <1>1, <1>4, <1>5, <1>7, HandledFacts
  <1>9. \A y : y \in Y <=> y \in Active(Once, wait', loop')
    BY <1>1, <1>2, <1>8
  <1>10. LoopTypeOK'
    <2>1. conn' \in {"open", conn}
      BY DEF Start
    <2> QED BY <1>5, <1>8, <2>1 DEF LoopInv, LoopTypeOK, lvars, envVars, dialogueVars
  <1>11. queue' = <<>>
    BY <1>2 DEF dialogueVars
  <1>12. /\ \A y \in Y : y \notin Opening
         /\ "login_timer" \in Y => timer' = "queued"
         /\ "write" \in Y <=> queue' # <<>>
         /\ queue' # <<>> => pending' = {queue'[1]} /\ (requests' = <<>> => WriteFirst(loop', fresh'))
         /\ "fetch_timer" \in Y => outcome' # "open" /\ pending' \cap BeforeFetch = {}
    BY <1>3, <1>6, <1>11
  <1> QED BY <1>5, <1>8, <1>9, <1>10, <1>12, LoopMade

\* Opening the connection: each step starts the next.
LEMMA OpeningKeeps ==
  ASSUME LoopInv, async_connect \/ async_handshake \/ handshaken
  PROVE  LoopInv'
  <1>0. /\ "resolve" \in Opening /\ "connect" \in Opening /\ "handshake" \in Opening
        /\ Opening \subseteq Once
        /\ "connect" \in Ops /\ "handshake" \in Ops
        /\ "write" \notin Opening /\ "login_timer" \notin Opening /\ "fetch_timer" \notin Opening
    BY DEF Opening, Once, Ops, SocketOps
  <1>1. ASSUME NEW x \in Opening, NEW c, Turn(x, c), NEW z \in Opening, z \in Ops, x # z,
               NEW S, NEW Q, Handled(S, Q), Begun(Once, S, Q, {y \in Once : y = z}),
               conn' \in {"connecting", "handshaking", conn},
               UNCHANGED <<lvars, envVars, dialogueVars, handlerVars, caught, ended>>
        PROVE  LoopInv'
    <2>1. /\ wait \in SUBSET Ops /\ loop \in Seq(Handlers) /\ Single(Once, wait, loop)
          /\ loop # <<>> /\ loop[1][1] = x
      BY <1>1, TurnFacts
    <2>2. /\ established = FALSE /\ queue = <<>>
          /\ \A y : y \in Active(Once, wait, loop) <=> y = x
      BY <1>1, OpeningFacts
    <2> DEFINE Y == {y \in Once : y = z}
    <2>3. \A y : y \in Y <=> y = z
      BY <1>0
    <2>4. Begun(Once, S, Q, Y)
      BY <1>1
    <2> HIDE DEF Y
    <2>5. \A y \in Y : y \in Active(Once, wait, loop) => y = loop[1][1]
      BY <2>1, <2>2
    <2>6. /\ wait' \in SUBSET Ops /\ loop' \in Seq(Handlers) /\ Single(Once, wait', loop')
          /\ \A y : y \in Active(Once, wait', loop') <=>
                (y \in Active(Once, wait, loop) /\ y # loop[1][1]) \/ y \in Y
      BY <1>1, <2>1, <2>4, <2>5, HandledFacts
    <2>7. \A y : y \in UnderWay' <=> y = z
      BY <2>1, <2>2, <2>3, <2>6 DEF UnderWay
    <2>8. LoopTypeOK'
      BY <1>1, <2>6 DEF LoopInv, LoopTypeOK, lvars, envVars, dialogueVars, handlerVars
    <2>9. established' = FALSE /\ queue' = <<>>
      BY <1>1, <2>2 DEF handlerVars, dialogueVars
    <2> QED BY <1>0, <1>1, <2>6, <2>7, <2>8, <2>9 DEF LoopInv
  <1>2. CASE async_connect
    <2> DEFINE S == {"connect"}
    <2>1. /\ Turn("resolve", "ok") /\ Handled(S, <<>>) /\ conn' = "connecting"
          /\ UNCHANGED <<lvars, envVars, dialogueVars, handlerVars, caught, ended>>
      BY <1>2 DEF async_connect
    <2>2. Begun(Once, S, <<>>, {y \in Once : y = "connect"})
      BY <1>0 DEF Begun
    <2> HIDE DEF S
    <2> QED BY <1>0, <1>1, <2>1, <2>2
  <1>3. CASE async_handshake /\ tls
    <2>1. /\ Turn("connect", "ok")
          /\ Handled(Waits("handshake", conn), Fails("handshake", conn))
          /\ conn' \in {"handshaking", conn}
          /\ UNCHANGED <<lvars, envVars, dialogueVars, handlerVars, caught, ended>>
      BY <1>3 DEF async_handshake, handlerVars
    <2>2. Begun(Once, Waits("handshake", conn), Fails("handshake", conn),
                {y \in Once : y = "handshake"})
      BY <1>0, BegunOne
    <2> QED BY <1>0, <1>1, <2>1, <2>2
  <1>4. CASE async_handshake /\ ~tls
    BY <1>0, <1>4, StartKeeps DEF async_handshake
  <1>5. CASE handshaken
    BY <1>0, <1>5, StartKeeps DEF handshaken
  <1> QED BY <1>2, <1>3, <1>4, <1>5
-----------------------------------------------------------------------------
\* A command is sent: its write is the only one.
LEMMA WriteBegun ==
  ASSUME queue = <<>>
  PROVE  /\ Begun(Once, WriteWaits, WriteFails, {y \in Once : y = "write"})
         /\ \A t \in Tags : push_write(t) =>
               queue' \in Seq(Tags) /\ Len(queue') <= 1 /\ queue' # <<>> /\ queue'[1] = t
  <1>1. "write" \in Ops
    BY DEF Ops, SocketOps
  <1>2. Begun(Once, Waits("write", conn), Fails("write", conn), {y \in Once : y = "write"})
    BY <1>1, BegunOne
  <1>3. WriteWaits = Waits("write", conn) /\ WriteFails = Fails("write", conn)
    BY DEF WriteWaits, WriteFails
  <1>4. ASSUME NEW t \in Tags, push_write(t)
        PROVE  queue' \in Seq(Tags) /\ Len(queue') <= 1 /\ queue' # <<>> /\ queue'[1] = t
    <2>1. queue' = Append(<<>>, t) /\ <<>> \in Seq(Tags)
      BY <1>4 DEF push_write
    <2> QED BY <2>1
  <1> QED BY <1>2, <1>3, <1>4

\* A callback of Login sends a command only as the continuation of another.
LEMMA LoginCallbackFacts ==
  ASSUME DialogueInv, LoopInv, InChunk, LoginCallback
  PROVE  \/ /\ queue = <<>> /\ requests = <<>> /\ fresh = 0 /\ input' = <<>> /\ outcome = "open"
            /\ "write" \notin UnderWay /\ "login_timer" \notin UnderWay
            /\ \/ \E u \in Tags : requests' = <<u>> /\ pending' = {u}
               \/ requests' = requests /\ timer' = timer /\ outcome' = "thrown"
         \/ /\ UNCHANGED <<requests, pending>>
            /\ outcome' \in {outcome, "thrown"}
            /\ timer' = timer \/ (timer = "armed" /\ timer' = "queued")
            /\ input' = input \/ (input # <<>> /\ input' = Tail(input))
  <1>0. LoginTags \subseteq Tags /\ "select" \in Tags /\ "c_select" \in Tags
    BY DEF Tags, TaskTags, BeforeFetch
  <1>1. ASSUME NEW t \in LoginTags, TaggedOK(t),
               \/ \E u \in Tags : requests' = Append(requests, u) /\ pending' = (pending \ {t}) \cup {u}
               \/ requests' = requests /\ outcome' = "thrown"
        PROVE  /\ queue = <<>> /\ requests = <<>> /\ fresh = 0 /\ input' = <<>> /\ outcome = "open"
               /\ "write" \notin UnderWay /\ "login_timer" \notin UnderWay
               /\ \/ \E u \in Tags : requests' = <<u>> /\ pending' = {u}
                  \/ requests' = requests /\ timer' = timer /\ outcome' = "thrown"
    <2>1. /\ queue = <<>> /\ fresh = 0 /\ input' = <<>> /\ requests = <<>> /\ pending = {t}
          /\ "write" \notin UnderWay /\ timer = timer' /\ "login_timer" \notin UnderWay
      BY <1>0, <1>1, AnsweredFacts
    <2>2. outcome = "open"
      <3>1. t \notin TaskTags
        BY DEF LoginTags, TaskTags, BeforeFetch
      <3> QED BY <1>1, <2>1, <3>1 DEF DialogueInv, TypeOK, TaggedOK, Running
    <2>3. CASE \E u \in Tags : requests' = Append(requests, u) /\ pending' = (pending \ {t}) \cup {u}
      <3>1. PICK u \in Tags : requests' = Append(requests, u) /\ pending' = (pending \ {t}) \cup {u}
        BY <2>3
      <3>2. requests' = <<u>> /\ pending' = {u}
        BY <2>1, <3>1
      <3> QED BY <2>1, <2>2, <3>2
    <2>4. CASE requests' = requests /\ outcome' = "thrown"
      BY <2>1, <2>2, <2>4
    <2> QED BY <1>1, <2>3, <2>4
  <1>2. CASE capabilities_received
    BY <1>0, <1>1, <1>2 DEF capabilities_received, async_login, Send, LoginTags
  <1>3. CASE logged_in
    BY <1>0, <1>1, <1>3 DEF logged_in, do_post_login, Send, LoginTags
  <1>4. CASE capabilities_received_again
    BY <1>0, <1>1, <1>4 DEF capabilities_received_again, do_post_login, LoginTags
  <1>5. CASE capability_begin
    BY <1>5 DEF capability_begin
  <1>6. CASE \E c \in Caps : imap_capability(c)
    BY <1>6 DEF imap_capability
  <1>7. CASE capability_end
    <2>1. input # <<>>
      BY <1>7 DEF capability_end, DialogueInv, TypeOK
    <2> QED BY <1>7, <2>1 DEF capability_end
  <1>8. CASE untagged_end \/ code_begin
    BY <1>8 DEF untagged_end, code_begin
  <1>9. CASE imap_tagged_status_failed
    BY <1>9 DEF imap_tagged_status_failed
  <1> QED BY <1>2, <1>3, <1>4, <1>5, <1>6, <1>7, <1>8, <1>9 DEF LoginCallback

\* The callbacks of the dialogue start a write only when none is under way.
LEMMA LoginCallbackKeeps ==
  ASSUME DialogueInv, LoopInv, login_callback
  PROVE  LoopInv'
  <1>0. /\ "write" \in Once /\ "write" \notin Opening
        /\ "login_timer" \in Once /\ "login_timer" \notin Opening
    BY DEF Once, Opening
  <1>1. /\ wait \in SUBSET Ops /\ loop \in Seq(Handlers) /\ Single(Once, wait, loop)
        /\ loop # <<>> /\ loop[1][1] = "read"
        /\ established = TRUE /\ \A x \in UnderWay : x \notin Opening
        /\ Len(input) > fresh
    BY ReadingFacts DEF login_callback
  <1>2. /\ UNCHANGED <<tls, conn, established, fresh, loggedOut, signaled, stopped, failed,
                       mute, caught, signals>>
        /\ ended' \in {ended, "thrown"}
    BY DEF login_callback, envVars, handlerVars
  <1>3. CASE /\ queue = <<>> /\ requests = <<>> /\ fresh = 0 /\ input' = <<>> /\ outcome = "open"
             /\ "write" \notin UnderWay /\ "login_timer" \notin UnderWay
             /\ \E u \in Tags : requests' = <<u>> /\ pending' = {u}
    <2>1. PICK u \in Tags : requests' = <<u>> /\ pending' = {u}
      BY <1>3
    <2>2. Len(requests') > Len(requests) /\ Last(requests') = u /\ requests' # <<>>
      BY <1>3, <2>1 DEF Last
    <2>3. Parsed(WriteWaits, WriteFails) /\ push_write(u)
      BY <2>2 DEF login_callback
    <2> DEFINE Y == {y \in Once : y = "write"}
    <2>4. /\ Begun(Once, WriteWaits, WriteFails, Y)
          /\ queue' \in Seq(Tags) /\ Len(queue') <= 1 /\ queue' # <<>> /\ queue'[1] = u
      BY <1>3, <2>3, WriteBegun
    <2>5. \A y : y \in Y <=> y = "write"
      BY <1>0
    <2> HIDE DEF Y
    <2>6. \A x \in Y : x \notin Active(Once, wait, loop)
      BY <1>3, <2>5 DEF UnderWay
    <2>7. /\ wait' \in SUBSET Ops /\ loop' \in Seq(Handlers)
          /\ Single(Once, wait', loop')
          /\ \A x : x \in Active(Once, wait', loop') <=> x \in Active(Once, wait, loop) \/ x \in Y
      BY <1>1, <2>3, <2>4, <2>6, ParsedFacts
    <2> DEFINE V == Active(Once, wait', loop')
    <2>8. \A x : x \in V <=> x \in UnderWay \/ x = "write"
      BY <2>5, <2>7 DEF UnderWay
    <2>9. Single(Once, wait', loop') /\ \A x : x \in V <=> x \in Active(Once, wait', loop')
      BY <2>7
    <2> HIDE DEF V
    <2>10. LoopTypeOK'
      <3>1. fresh' \in 0 .. Len(input')
        BY <1>2, <1>3
      <3> QED BY <1>2, <2>4, <2>7, <3>1 DEF LoopInv, LoopTypeOK
    <2>11. "fetch_timer" \notin V
      BY <1>3, <2>8 DEF LoopInv
    <2>12. /\ established' = TRUE
           /\ \A x \in V : x \notin Opening
           /\ "login_timer" \in V => timer' = "queued"
           /\ "write" \in V <=> queue' # <<>>
           /\ queue' # <<>> => pending' = {queue'[1]} /\ (requests' = <<>> => WriteFirst(loop', fresh'))
           /\ "fetch_timer" \in V => outcome' # "open" /\ pending' \cap BeforeFetch = {}
      BY <1>0, <1>1, <1>2, <1>3, <2>1, <2>2, <2>4, <2>8, <2>11
    <2> QED BY <2>9, <2>10, <2>12, LoopMade
  <1>4. ASSUME ~(Len(requests') > Len(requests)), NEW Y,
               fresh' \in 0 .. Len(input'),
               \A x : x \in Y <=> x = "login_timer" /\ timer = "armed" /\ timer' = "queued",
               timer' = timer \/ (timer = "armed" /\ timer' = "queued")
        PROVE  /\ LoopTypeOK' /\ Single(Once, wait', loop') /\ UNCHANGED queue
               /\ \A x : x \in Active(Once, wait', loop') <=> x \in Active(Once, wait, loop) \/ x \in Y
               /\ \A f : WriteFirst(loop, f) => WriteFirst(loop', f)
               /\ established' = TRUE
    <2> DEFINE b == timer = "armed" /\ timer' = "queued"
               Q == IF b THEN << <<"login_timer", "aborted">> >> ELSE <<>>
               S == {}
    <2>1. Parsed(S, Q) /\ UNCHANGED queue
      BY <1>4 DEF login_callback
    <2>2. Begun(Once, S, Q, Y)
      <3>1. CASE b
        <4> DEFINE h == <<"login_timer", "aborted">>
        <4>1. h \in Handlers /\ h[1] = "login_timer" /\ Q = <<h>>
          BY <3>1 DEF Handlers, Codes
        <4>2. \A x : x \in Y <=> x = h[1] /\ x \in Once
          BY <1>0, <1>4, <3>1, <4>1
        <4> HIDE DEF h, Q
        <4> QED BY <4>1, <4>2 DEF Begun
      <3>2. CASE ~b
        <4>1. Q = <<>> /\ \A x : x \notin Y
          BY <1>4, <3>2
        <4> QED BY <4>1 DEF Begun
      <3> QED BY <3>1, <3>2
    <2>3. \A x \in Y : x \notin Active(Once, wait, loop)
      <3>1. "login_timer" \in UnderWay => timer = "queued"
        BY DEF LoopInv
      <3> QED BY <1>4, <3>1 DEF UnderWay
    <2> HIDE DEF Q, S
    <2>4. /\ wait' \in SUBSET Ops /\ loop' \in Seq(Handlers)
          /\ Single(Once, wait', loop')
          /\ \A x : x \in Active(Once, wait', loop') <=> x \in Active(Once, wait, loop) \/ x \in Y
          /\ \A f : WriteFirst(loop, f) => WriteFirst(loop', f)
      BY <1>1, <2>1, <2>2, <2>3, ParsedFacts
    <2>5. LoopTypeOK'
      BY <1>2, <1>4, <2>1, <2>4 DEF LoopInv, LoopTypeOK
    <2> QED BY <1>1, <1>2, <2>1, <2>4, <2>5
  <1>5. CASE /\ queue = <<>> /\ requests = <<>> /\ fresh = 0 /\ input' = <<>> /\ outcome = "open"
             /\ "write" \notin UnderWay /\ "login_timer" \notin UnderWay
             /\ requests' = requests /\ timer' = timer /\ outcome' = "thrown"
    <2> DEFINE Y == {}
    <2>1. /\ ~(Len(requests') > Len(requests)) /\ fresh' \in 0 .. Len(input')
          /\ \A x : x \in Y <=> x = "login_timer" /\ timer = "armed" /\ timer' = "queued"
          /\ timer' = timer
      BY <1>2, <1>5
    <2> HIDE DEF Y
    <2>2. /\ LoopTypeOK' /\ Single(Once, wait', loop') /\ UNCHANGED queue
          /\ \A x : x \in Active(Once, wait', loop') <=> x \in Active(Once, wait, loop) \/ x \in Y
          /\ established' = TRUE
      BY <1>4, <2>1
    <2>3. \A x : x \in UnderWay <=> x \in Active(Once, wait', loop')
      BY <2>2 DEF Y, UnderWay
    <2>4. /\ "login_timer" \in UnderWay => timer' = "queued"
          /\ "write" \in UnderWay <=> queue' # <<>>
          /\ queue' # <<>> => pending' = {queue'[1]} /\ (requests' = <<>> => WriteFirst(loop', fresh'))
          /\ "fetch_timer" \notin UnderWay
      BY <1>5, <2>2 DEF LoopInv
    <2> QED BY <1>1, <2>2, <2>3, <2>4, LoopMade
  <1>6. CASE /\ UNCHANGED <<requests, pending>>
             /\ outcome' \in {outcome, "thrown"}
             /\ timer' = timer \/ (timer = "armed" /\ timer' = "queued")
             /\ input' = input \/ (input # <<>> /\ input' = Tail(input))
    <2> DEFINE Y == {x \in {"login_timer"} : timer = "armed" /\ timer' = "queued"}
    <2>1. fresh' \in 0 .. Len(input')
      <3>1. input \in Seq(Items) /\ fresh \in 0 .. Len(input)
        BY DEF DialogueInv, TypeOK, LoopInv, LoopTypeOK
      <3>2. Len(input) \in Nat /\ Len(input') \in {Len(input), Len(input) - 1}
        BY <1>6, <3>1, TailFacts
      <3> QED BY <1>1, <1>2, <3>1, <3>2
    <2>2. /\ ~(Len(requests') > Len(requests))
          /\ \A x : x \in Y <=> x = "login_timer" /\ timer = "armed" /\ timer' = "queued"
          /\ timer' = timer \/ (timer = "armed" /\ timer' = "queued")
      <3>1. Len(requests) \in Nat
        BY DEF DialogueInv, TypeOK
      <3> QED BY <1>6, <3>1
    <2> HIDE DEF Y
    <2>3. /\ LoopTypeOK' /\ Single(Once, wait', loop') /\ UNCHANGED queue
          /\ \A x : x \in Active(Once, wait', loop') <=> x \in Active(Once, wait, loop) \/ x \in Y
          /\ \A f : WriteFirst(loop, f) => WriteFirst(loop', f)
          /\ established' = TRUE
      BY <1>4, <2>1, <2>2
    <2> DEFINE V == Active(Once, wait', loop')
    <2>4. (\A x : x \in V <=> x \in UnderWay \/ x \in Y) /\ \A x : x \in V <=> x \in Active(Once, wait', loop')
      BY <2>3 DEF UnderWay
    <2> HIDE DEF V
    <2>5. /\ "login_timer" \in UnderWay => timer = "queued"
          /\ "write" \in UnderWay <=> queue # <<>>
          /\ queue # <<>> => pending = {queue[1]} /\ (requests = <<>> => WriteFirst(loop, fresh))
          /\ "fetch_timer" \in UnderWay => outcome # "open" /\ pending \cap BeforeFetch = {}
      BY DEF LoopInv
    <2>6. /\ \A x \in V : x \notin Opening
          /\ "login_timer" \in V => timer' = "queued"
          /\ "write" \in V <=> queue' # <<>>
      BY <1>0, <1>1, <1>6, <2>2, <2>3, <2>4, <2>5
    <2>7. queue' # <<>> => pending' = {queue'[1]} /\ (requests' = <<>> => WriteFirst(loop', fresh'))
      BY <1>2, <1>6, <2>3, <2>5
    <2>8. "fetch_timer" \in V => outcome' # "open" /\ pending' \cap BeforeFetch = {}
      BY <1>6, <2>2, <2>4, <2>5
    <2> QED BY <2>3, <2>4, <2>6, <2>7, <2>8, LoopMade
  <1>7. InChunk /\ LoginCallback
    BY DEF login_callback
  <1> QED BY <1>3, <1>5, <1>6, <1>7, LoginCallbackFacts
-----------------------------------------------------------------------------
\* The continuation of a tagged response starts the write of the next command; the
\* fetch timer is stopped after FETCH and started after SELECT.
LEMMA TaskCommandKeeps ==
  ASSUME DialogueInv, LoopInv, task_command
  PROVE  LoopInv'
  <1>0. /\ "write" \in Once /\ "write" \notin Opening
        /\ "fetch_timer" \in Once /\ "fetch_timer" \notin Opening /\ "fetch_timer" \in Ops
        /\ TaskTags \subseteq Tags
    BY DEF Once, Opening, Ops, Tags
  <1> DEFINE stops(t) == t = "fetch" /\ "fetch_timer" \in wait
             B(t) == {x \in {"fetch_timer"} : stops(t)}
             L == << <<"read", "parsed">> >> \o Tail(loop)
  <1>1. PICK t \in TaskTags, s \in TaskTags :
          /\ next_command(t, s) /\ push_write(s)
          /\ wait' = (IF stops(t) THEN wait \ {"fetch_timer"} ELSE wait) \cup WriteWaits
                        \cup (IF s = "fetch" THEN {"fetch_timer"} ELSE {})
          /\ loop' = L \o Aborted(B(t)) \o WriteFails
          /\ stopped' \in {FALSE, TRUE, stopped}
    BY DEF task_command
  <1>2. InChunk /\ TaggedOK(t) /\ s \in Follow(t) /\ Send(s, pending \ {t})
    BY <1>1 DEF next_command, task_command
  <1>3. /\ UNCHANGED <<tls, conn, established, fresh, loggedOut, signaled, failed, mute, caught,
                       signals, ended>>
    BY DEF task_command, envVars
  <1>4. /\ wait \in SUBSET Ops /\ loop \in Seq(Handlers) /\ Single(Once, wait, loop)
        /\ loop # <<>> /\ loop[1][1] = "read"
        /\ established = TRUE /\ \A x \in UnderWay : x \notin Opening
    BY <1>2, ReadingFacts
  <1>5. /\ queue = <<>> /\ fresh = 0 /\ input' = <<>> /\ requests = <<>> /\ pending = {t}
        /\ "write" \notin UnderWay /\ "login_timer" \notin UnderWay
    BY <1>0, <1>2, AnsweredFacts
  <1>6. outcome = "post_login" /\ outcome' = outcome
    <2>1. t \notin LoginTags
      BY DEF LoginTags, TaskTags, BeforeFetch
    <2> QED BY <1>2, <1>5, <2>1 DEF Send, TaggedOK, Running, DialogueInv, TypeOK
  <1>7. /\ s \in BeforeFetch => t \in BeforeFetch
        /\ s = "fetch" => t \in BeforeFetch
    <2>1. t \in {"c_select", "c_store", "c_expunge", "select", "fetch", "look", "store",
                 "expunge", "logout"}
      BY DEF TaskTags, BeforeFetch
    <2>2. CASE t = "select"
      BY <1>2, <2>2 DEF Follow, BeforeFetch
    <2>3. CASE t = "fetch"
      BY <1>2, <2>3 DEF Follow, BeforeFetch
    <2>4. CASE t = "look"
      BY <1>2, <2>4 DEF Follow, BeforeFetch
    <2>5. CASE t = "store"
      BY <1>2, <2>5 DEF Follow, BeforeFetch
    <2>6. CASE t = "expunge"
      BY <1>2, <2>6 DEF Follow, BeforeFetch
    <2>7. CASE t = "logout"
      BY <1>2, <2>7 DEF Follow, BeforeFetch
    <2>8. CASE t \in {"c_select", "c_store", "c_expunge"}
      BY <2>8 DEF BeforeFetch
    <2> QED BY <2>1, <2>2, <2>3, <2>4, <2>5, <2>6, <2>7, <2>8
  <1>8. requests' = <<s>> /\ pending' = {s} /\ requests' # <<>>
    BY <1>2, <1>5 DEF Send
  <1> DEFINE A == Aborted(B(t))
             W == wait \ B(t)
             T == IF s = "fetch" THEN {"fetch_timer"} ELSE {}
  <1>9. wait' = W \cup WriteWaits \cup T /\ loop' = (L \o A) \o WriteFails
    BY <1>1
  <1>10. /\ L \in Seq(Handlers) /\ Single(Once, wait, L)
         /\ Active(Once, wait, L) = Active(Once, wait, loop)
    BY <1>4, ParsedActive
  <1> HIDE DEF L
  <1> DEFINE M == L \o A
  <1>11. Grown(Once, wait, L, W, M, {}, A)
    <2> DEFINE C == B(t)
    <2>1. /\ \A x : x \in wait <=> x \in W \/ x \in C
          /\ \A x \in C : x \notin W
          /\ M = L \o Aborted(C)
      OBVIOUS
    <2> HIDE DEF C, W, M
    <2>2. Grown(Once, wait, L, W, M, {}, Aborted(C))
      BY <1>4, <1>10, <2>1, AbortActive
    <2> QED BY <2>2 DEF C
  <1>12. \A x \in T : x = "fetch_timer" /\ s = "fetch"
    OBVIOUS
  <1>12a. s = "fetch" => "fetch_timer" \in T
    OBVIOUS
  <1> HIDE DEF W, M, A, T
  <1>13. \A x : x \in Active(Once, W, M) <=> x \in UnderWay
    BY <1>10, <1>11 DEF Grown, UnderWay
  <1>14. W \in SUBSET Ops /\ M \in Seq(Handlers) /\ Single(Once, W, M)
    BY <1>11 DEF Grown
  <1> DEFINE Y == {y \in Once : y = "write"}
             X == W \cup WriteWaits
             N == M \o WriteFails
  <1>15. /\ Begun(Once, WriteWaits, WriteFails, Y)
         /\ queue' \in Seq(Tags) /\ Len(queue') <= 1 /\ queue' # <<>> /\ queue'[1] = s
    BY <1>0, <1>1, <1>5, WriteBegun
  <1>16. /\ \A y : y \in Y <=> y = "write"
         /\ \A x : x \in X <=> x \in W \/ x \in WriteWaits
         /\ N = M \o WriteFails
         /\ wait' = X \cup T
         /\ loop' = N
    BY <1>0, <1>9 DEF M
  <1> HIDE DEF Y, X, N
  <1>17. \A x \in Y : x \notin Active(Once, W, M)
    BY <1>5, <1>13, <1>16
  <1>18. Grown(Once, W, M, X, N, Y, WriteFails)
    BY <1>14, <1>15, <1>16, <1>17, BeginFacts
  <1>19. /\ X \in SUBSET Ops /\ N \in Seq(Handlers) /\ Single(Once, X, N)
         /\ \A x : x \in Active(Once, X, N) <=> x \in UnderWay \/ x = "write"
    BY <1>13, <1>16, <1>18 DEF Grown
  <1>20. \A x \in T : x \notin Active(Once, X, N)
    <2>1. s = "fetch" => "fetch_timer" \notin UnderWay
      BY <1>5, <1>7 DEF LoopInv
    <2> QED BY <1>12, <1>19, <2>1
  <1> DEFINE V == wait'
  <1>21. \A x : x \in V <=> x \in X \/ x \in T
    BY <1>16
  <1> HIDE DEF V
  <1>22. /\ Single(Once, V, N)
         /\ \A x : x \in Active(Once, V, N) <=> x \in Active(Once, X, N) \/ (x \in T /\ x \in Once)
    <2>1. /\ \A i, j \in DOMAIN N : N[i][1] = N[j][1] /\ N[i][1] \in Once => i = j
          /\ \A i \in DOMAIN N : N[i][1] \in Once => N[i][1] \notin X
      BY <1>19 DEF Single
    <2>2. \A i \in DOMAIN N : N[i][1] \in Once => N[i][1] \notin T
      BY <1>20 DEF Active
    <2>3. \A i \in DOMAIN N : N[i][1] \in Once => N[i][1] \notin V
      BY <1>21, <2>1, <2>2
    <2>4. Single(Once, V, N)
      BY <2>1, <2>3 DEF Single
    <2>5. \A x : x \in Active(Once, V, N) <=> x \in Active(Once, X, N) \/ (x \in T /\ x \in Once)
      BY <1>21 DEF Active
    <2> QED BY <2>4, <2>5
  <1>23. /\ wait' \in SUBSET Ops /\ loop' \in Seq(Handlers) /\ Single(Once, wait', loop')
         /\ \A x : x \in Active(Once, wait', loop') <=>
               x \in UnderWay \/ x = "write" \/ (x = "fetch_timer" /\ s = "fetch")
    BY <1>0, <1>12, <1>12a, <1>16, <1>19, <1>21, <1>22 DEF V
  <1> DEFINE U == Active(Once, wait', loop')
  <1>24. \A x : x \in U <=> x \in UnderWay \/ x = "write" \/ (x = "fetch_timer" /\ s = "fetch")
    BY <1>23
  <1>25. \A x : x \in U <=> x \in Active(Once, wait', loop')
    OBVIOUS
  <1> HIDE DEF U
  <1>26. LoopTypeOK'
    <2>1. fresh' \in 0 .. Len(input')
      BY <1>3, <1>5
    <2>2. stopped' \in BOOLEAN
      BY <1>1 DEF LoopInv, LoopTypeOK
    <2> QED BY <1>3, <1>15, <1>23, <2>1, <2>2 DEF LoopInv, LoopTypeOK
  <1>27. /\ established' = TRUE
         /\ \A x \in U : x \notin Opening
         /\ "login_timer" \in U => timer' = "queued"
         /\ "write" \in U <=> queue' # <<>>
    BY <1>0, <1>3, <1>4, <1>5, <1>15, <1>24
  <1>28. /\ queue' # <<>> => pending' = {queue'[1]} /\ (requests' = <<>> => WriteFirst(loop', fresh'))
         /\ "fetch_timer" \in U => outcome' # "open" /\ pending' \cap BeforeFetch = {}
    <2>1. "fetch_timer" \in UnderWay => t \notin BeforeFetch
      BY <1>5 DEF LoopInv
    <2>2. "fetch_timer" \in U /\ s = "fetch" => s \notin BeforeFetch
      BY DEF BeforeFetch
    <2>3. "fetch_timer" \in U => s \notin BeforeFetch
      BY <1>7, <1>24, <2>1, <2>2
    <2> QED BY <1>6, <1>8, <1>15, <2>3
  <1> QED BY <1>23, <1>25, <1>26, <1>27, <1>28, LoopMade

\* LOGOUT is answered: no command is left in the queue.
LEMMA FinishedKeeps ==
  ASSUME DialogueInv, LoopInv, finished
  PROVE  LoopInv'
  <1> DEFINE L == << <<"read", "parsed">> >> \o Tail(loop)
  <1>0. "shutdown" \notin Once /\ "logout" \in Tags
    BY DEF Once, Opening, Tags, TaskTags
  <1>1. InChunk /\ logged_out /\ do_quit(wait, L)
    BY DEF finished
  <1>2. /\ wait \in SUBSET Ops /\ loop \in Seq(Handlers) /\ Single(Once, wait, loop)
        /\ loop # <<>> /\ loop[1][1] = "read"
        /\ established = TRUE /\ \A x \in UnderWay : x \notin Opening
    BY <1>1, ReadingFacts
  <1>3. /\ queue = <<>> /\ fresh = 0 /\ input' = <<>> /\ requests = <<>>
        /\ "write" \notin UnderWay /\ "login_timer" \notin UnderWay
    BY <1>0, <1>1, AnsweredFacts DEF logged_out
  <1>4. /\ L \in Seq(Handlers) /\ Single(Once, wait, L)
        /\ Active(Once, wait, L) = Active(Once, wait, loop)
    BY <1>2, ParsedActive
  <1> HIDE DEF L
  <1>5. /\ wait' \in SUBSET Ops /\ loop' \in Seq(Handlers)
        /\ Single(Once, wait', loop')
        /\ \A x : x \in Active(Once, wait', loop') <=> x \in Active(Once, wait, L)
        /\ loggedOut' = TRUE /\ ended' \in {ended, "thrown"}
        /\ conn' \in {conn, "shutdown", "closed"}
    BY <1>0, <1>1, <1>2, <1>4, QuitFacts
  <1>6. \A x : x \in UnderWay <=> x \in Active(Once, wait', loop')
    BY <1>4, <1>5 DEF UnderWay
  <1>7. UNCHANGED <<tls, signals, failed, mute, queue, fresh, established, signaled, stopped, caught>>
    BY DEF finished, envVars, dialogueVars
  <1>8. LoopTypeOK'
    <2>1. fresh' \in 0 .. Len(input')
      BY <1>3, <1>7
    <2> QED BY <1>5, <1>7, <2>1 DEF LoopInv, LoopTypeOK
  <1>9. "fetch_timer" \in UnderWay => outcome' # "open" /\ pending' \cap BeforeFetch = {}
    BY <1>1 DEF LoopInv, logged_out
  <1>10. /\ established' = TRUE
         /\ "login_timer" \in UnderWay => timer' = "queued"
         /\ "write" \in UnderWay <=> queue' # <<>>
         /\ queue' # <<>> => pending' = {queue'[1]} /\ (requests' = <<>> => WriteFirst(loop', fresh'))
    BY <1>2, <1>3, <1>7
  <1> QED BY <1>2, <1>5, <1>6, <1>8, <1>9, <1>10, LoopMade
-----------------------------------------------------------------------------
\* A handler that leaves the dialogue alone and begins, if anything, its own operation
\* again keeps LoopInv.
LEMMA HandlerKeeps ==
  ASSUME LoopInv, NEW x, NEW c, Turn(x, c), x # "write",
         NEW S, NEW Q, NEW Y, Begun(Once, S, Q, Y), Handled(S, Q), \A y \in Y : y = x,
         UNCHANGED <<lvars, envVars, dialogueVars, handlerVars, conn, caught, ended>>
  PROVE  LoopInv'
  <1>1. /\ wait \in SUBSET Ops /\ loop \in Seq(Handlers) /\ Single(Once, wait, loop)
        /\ loop # <<>> /\ loop[1][1] = x
        /\ x \in Once => x \in UnderWay
    BY TurnFacts
  <1>2. \A y \in Y : y \in Active(Once, wait, loop) => y = loop[1][1]
    BY <1>1
  <1>3. /\ wait' \in SUBSET Ops /\ loop' \in Seq(Handlers)
        /\ Single(Once, wait', loop')
        /\ \A y : y \in Active(Once, wait', loop') <=>
              (y \in Active(Once, wait, loop) /\ y # loop[1][1]) \/ y \in Y
        /\ \A f : loop[1][1] # "write" /\ WriteFirst(loop, f) => WriteFirst(loop', f)
    BY <1>1, <1>2, HandledFacts
  <1>4. \A y \in Y : y \in Once
    BY DEF Begun
  <1>5. /\ \A y : y \in Active(Once, wait', loop') => y \in Active(Once, wait, loop)
        /\ "write" \in Active(Once, wait, loop) => "write" \in Active(Once, wait', loop')
    BY <1>1, <1>3, <1>4 DEF UnderWay
  <1>6. LoopTypeOK'
    BY <1>3 DEF LoopInv, LoopTypeOK, lvars, envVars, dialogueVars, handlerVars
  <1>7. WriteFirst(loop, fresh) => WriteFirst(loop', fresh')
    BY <1>1, <1>3 DEF dialogueVars
  <1> QED BY <1>3, <1>5, <1>6, <1>7, LoopSame DEF lvars, dialogueVars, handlerVars

\* A step that does not touch the loop: the program ends, or the peer goes mute.
LEMMA IdleKeeps ==
  ASSUME LoopInv, UNCHANGED <<lvars, dialogueVars, handlerVars, loopVars, tls, conn, caught,
                              signals, failed>>,
         mute' \in BOOLEAN, ended' \in {"running", "returned", "thrown"}
  PROVE  LoopInv'
  <1>1. LoopTypeOK'
    BY DEF LoopInv, LoopTypeOK, lvars, dialogueVars, handlerVars, loopVars
  <1>2. /\ wait' = wait /\ loop' = loop /\ fresh' = fresh
        /\ UNCHANGED <<established, queue, requests, pending, timer, outcome>>
    BY DEF lvars, dialogueVars, handlerVars, loopVars
  <1>3. /\ Single(Once, wait', loop')
        /\ \A x : x \in Active(Once, wait', loop') => x \in Active(Once, wait, loop)
        /\ "write" \in Active(Once, wait, loop) => "write" \in Active(Once, wait', loop')
        /\ WriteFirst(loop, fresh) => WriteFirst(loop', fresh')
    BY <1>2 DEF LoopInv
  <1> QED BY <1>1, <1>2, <1>3, LoopSame

\* The end of a chunk, and a read that fails.
LEMMA ReadKeeps ==
  ASSUME LoopInv, do_read \/ read_failed
  PROVE  LoopInv'
  <1> DEFINE N == {}
  <1>0. Begun(Once, {}, <<>>, N) /\ \A y \in N : y = "read"
    BY BegunNothing
  <1> HIDE DEF N
  <1>1. CASE do_read /\ loggedOut
    <2>1. /\ Turn("read", "parsed") /\ Handled({}, <<>>)
          /\ UNCHANGED <<lvars, envVars, dialogueVars, handlerVars, conn, caught, ended>>
      BY <1>1 DEF do_read
    <2> QED BY <1>0, <2>1, HandlerKeeps
  <1>2. CASE do_read /\ ~loggedOut
    <2> DEFINE S == Waits("read", conn)
               Q == Fails("read", conn)
               Y == {y \in Once : y = "read"}
    <2>1. /\ Turn("read", "parsed") /\ Handled(S, Q)
          /\ UNCHANGED <<lvars, envVars, dialogueVars, handlerVars, conn, caught, ended>>
      BY <1>2 DEF do_read
    <2>2. Begun(Once, S, Q, Y) /\ \A y \in Y : y = "read"
      BY BegunOne DEF Ops, SocketOps
    <2> HIDE DEF S, Q, Y
    <2> QED BY <2>1, <2>2, HandlerKeeps
  <1>3. CASE read_failed /\ UNCHANGED ended
    <2>1. CASE ended' = "thrown" /\ UNCHANGED <<wait, loop>>
      BY <1>3, <2>1, IdleKeeps DEF read_failed, envVars, loopVars, LoopInv, LoopTypeOK
    <2>2. CASE \E c : Turn("read", c) /\ Handled({}, <<>>)
      <3>1. PICK c : Turn("read", c) /\ Handled({}, <<>>)
        BY <2>2
      <3>2. UNCHANGED <<lvars, envVars, dialogueVars, handlerVars, conn, caught, ended>>
        BY <1>3 DEF read_failed
      <3> QED BY <1>0, <3>1, <3>2, HandlerKeeps
    <2> QED BY <1>3, <2>1, <2>2 DEF read_failed
  <1>4. CASE read_failed /\ ~UNCHANGED ended
    <2>1. ended' = "thrown" /\ UNCHANGED <<wait, loop>>
      BY <1>4 DEF read_failed
    <2> QED BY <1>4, <2>1, IdleKeeps DEF read_failed, envVars, loopVars, LoopInv, LoopTypeOK
  <1> QED BY <1>1, <1>2, <1>3, <1>4

\* A finished write: the queue is empty.
LEMMA WrittenKeeps ==
  ASSUME LoopInv, written
  PROVE  LoopInv'
  <1> DEFINE N == {}
  <1>0. Begun(Once, {}, <<>>, N) /\ "write" \in Once /\ \A x : x \notin N
    BY BegunNothing DEF Once
  <1> HIDE DEF N
  <1>1. /\ Turn("write", "ok") /\ Handled({}, <<>>) /\ queue' = Tail(queue)
        /\ UNCHANGED <<lvars, envVars, handlerVars, conn, fresh, caught, ended>>
    BY DEF written
  <1>2. /\ wait \in SUBSET Ops /\ loop \in Seq(Handlers) /\ Single(Once, wait, loop)
        /\ loop # <<>> /\ loop[1][1] = "write" /\ "write" \in UnderWay
    BY <1>0, <1>1, TurnFacts
  <1>3. \A y \in N : y \in Active(Once, wait, loop) => y = loop[1][1]
    BY <1>0
  <1>4. /\ wait' \in SUBSET Ops /\ loop' \in Seq(Handlers)
        /\ Single(Once, wait', loop')
        /\ \A y : y \in Active(Once, wait', loop') <=>
              (y \in Active(Once, wait, loop) /\ y # loop[1][1]) \/ y \in N
    BY <1>0, <1>1, <1>2, <1>3, HandledFacts
  <1>5. queue' = <<>>
    <2>1. queue # <<>> /\ queue \in Seq(Tags) /\ Len(queue) <= 1
      BY <1>2 DEF LoopInv, LoopTypeOK
    <2>2. Len(queue) = 1
      BY <2>1, LengthOne
    <2> QED BY <1>1, <2>1, <2>2
  <1>6. LoopTypeOK'
    <2>1. queue' \in Seq(Tags) /\ Len(queue') <= 1
      BY <1>5
    <2> QED BY <1>1, <1>4, <2>1 DEF LoopInv, LoopTypeOK, lvars, envVars, handlerVars
  <1> DEFINE V == Active(Once, wait', loop')
  <1>7. /\ \A x : x \in V <=> x \in UnderWay /\ x # "write"
        /\ \A x : x \in V <=> x \in Active(Once, wait', loop')
    BY <1>0, <1>2, <1>4 DEF UnderWay
  <1> HIDE DEF V
  <1>8. established = TRUE /\ \A x \in UnderWay : x \notin Opening
    <2>1. established \in BOOLEAN /\ "write" \notin Opening
      BY DEF LoopInv, LoopTypeOK, Opening
    <2> QED BY <1>2, <2>1 DEF LoopInv
  <1>9. /\ established' = TRUE /\ \A x \in V : x \notin Opening
        /\ "login_timer" \in V => timer' = "queued"
        /\ "write" \in V <=> queue' # <<>>
        /\ queue' # <<>> => pending' = {queue'[1]} /\ (requests' = <<>> => WriteFirst(loop', fresh'))
        /\ "fetch_timer" \in V => outcome' # "open" /\ pending' \cap BeforeFetch = {}
    BY <1>1, <1>5, <1>7, <1>8 DEF LoopInv, lvars, handlerVars
  <1> QED BY <1>4, <1>6, <1>7, <1>9, LoopMade

\* The login timer's handler sends the first command.
LEMMA LoginTimerKeeps ==
  ASSUME DialogueInv, LoopInv, login_timer
  PROVE  LoopInv'
  <1> DEFINE x == "login_timer"
  <1>0. x \in Once /\ x \notin Opening /\ "write" \in Once /\ "write" \notin Opening /\ x # "write"
    BY DEF Once, Opening
  <1>1. PICK c : Turn(x, c)
    BY DEF login_timer
  <1> HIDE DEF x
  <1>2. /\ wait \in SUBSET Ops /\ loop \in Seq(Handlers) /\ Single(Once, wait, loop)
        /\ loop # <<>> /\ loop[1][1] = x /\ x \in UnderWay
    BY <1>0, <1>1, TurnFacts
  <1>3. established = TRUE /\ \A y \in UnderWay : y \notin Opening
    <2>1. established \in BOOLEAN
      BY DEF LoopInv, LoopTypeOK
    <2> QED BY <1>0, <1>2, <2>1 DEF LoopInv
  <1>4. pending = {} /\ requests = <<>> /\ UNCHANGED input /\ queue = <<>> /\ "write" \notin UnderWay
    <2>1. timer = "queued" /\ UNCHANGED input
      BY DEF login_timer, do_pre_login, parserVars
    <2>2. pending = {} /\ requests = <<>>
      BY <2>1 DEF DialogueInv
    <2>3. queue = <<>>
      BY <2>2 DEF LoopInv
    <2> QED BY <2>1, <2>2, <2>3 DEF LoopInv
  <1>5. \/ \E u \in Tags : requests' = <<u>> /\ pending' = {u} /\ u \notin BeforeFetch /\ outcome' = outcome
        \/ requests' = requests /\ pending' = {} /\ outcome' = "thrown"
    <2>1. "capability_1" \in Tags /\ "login" \in Tags
      BY DEF Tags, LoginTags
    <2>2. ASSUME NEW u \in {"capability_1", "login"}, Send(u, pending)
          PROVE  requests' = <<u>> /\ pending' = {u} /\ u \notin BeforeFetch /\ outcome' = outcome
      BY <1>4, <2>2 DEF Send, BeforeFetch
    <2>3. CASE capabilities = {}
      BY <2>1, <2>2, <2>3 DEF login_timer, do_pre_login
    <2>4. CASE capabilities # {}
      BY <1>4, <2>1, <2>2, <2>4 DEF login_timer, do_pre_login, async_login
    <2> QED BY <2>3, <2>4
  <1>6. /\ UNCHANGED <<tls, signals, failed, mute, established, loggedOut, signaled, stopped,
                       conn, fresh, caught>>
        /\ ended' \in {ended, "thrown"}
    BY DEF login_timer, envVars, handlerVars
  <1>7. ASSUME NEW S, NEW Q, NEW Y, Begun(Once, S, Q, Y), Handled(S, Q), \A y \in Y : y = "write",
               queue' \in Seq(Tags), Len(queue') <= 1, "write" \in Y <=> queue' # <<>>,
               queue' # <<>> => pending' = {queue'[1]} /\ requests' # <<>>,
               outcome' \in {outcome, "thrown"}, pending' \cap BeforeFetch = {}
        PROVE  LoopInv'
    <2>1. \A y \in Y : y \in Active(Once, wait, loop) => y = loop[1][1]
      BY <1>4, <1>7 DEF UnderWay
    <2>2. /\ wait' \in SUBSET Ops /\ loop' \in Seq(Handlers)
          /\ Single(Once, wait', loop')
          /\ \A y : y \in Active(Once, wait', loop') <=>
                (y \in Active(Once, wait, loop) /\ y # loop[1][1]) \/ y \in Y
      BY <1>2, <1>7, <2>1, HandledFacts
    <2> DEFINE V == Active(Once, wait', loop')
    <2>3. /\ \A y : y \in V <=> (y \in UnderWay /\ y # x) \/ y \in Y
          /\ \A y : y \in V <=> y \in Active(Once, wait', loop')
      BY <1>2, <2>2 DEF UnderWay
    <2> HIDE DEF V
    <2>4. LoopTypeOK'
      BY <1>4, <1>6, <1>7, <2>2 DEF LoopInv, LoopTypeOK
    <2>5. x \notin V
      BY <1>0, <1>7, <2>3
    <2>6. "fetch_timer" \in V => outcome' # "open" /\ pending' \cap BeforeFetch = {}
      BY <1>7, <2>3 DEF LoopInv
    <2>7. /\ established' = TRUE /\ \A y \in V : y \notin Opening
          /\ "login_timer" \in V => timer' = "queued"
          /\ "write" \in V <=> queue' # <<>>
      BY <1>0, <1>3, <1>4, <1>6, <1>7, <2>3, <2>5 DEF x
    <2> QED BY <1>7, <2>2, <2>3, <2>4, <2>6, <2>7, LoopMade
  <1>8. CASE requests' = requests /\ pending' = {} /\ outcome' = "thrown"
    <2> DEFINE N == {}
    <2>1. Begun(Once, {}, <<>>, N) /\ \A y : y \notin N
      BY BegunNothing
    <2> HIDE DEF N
    <2>2. Handled({}, <<>>) /\ queue' = queue
      BY <1>8 DEF login_timer
    <2>3. queue' \in Seq(Tags) /\ Len(queue') <= 1
      BY <1>4, <2>2
    <2> QED BY <1>4, <1>7, <1>8, <2>1, <2>2, <2>3
  <1>9. CASE \E u \in Tags : requests' = <<u>> /\ pending' = {u} /\ u \notin BeforeFetch /\ outcome' = outcome
    <2>1. PICK u \in Tags : requests' = <<u>> /\ pending' = {u} /\ u \notin BeforeFetch /\ outcome' = outcome
      BY <1>9
    <2>2. requests' # requests /\ requests' # <<>> /\ Last(requests') = u
      BY <1>4, <2>1 DEF Last
    <2>3. Handled(WriteWaits, WriteFails) /\ push_write(u)
      BY <2>2 DEF login_timer
    <2> DEFINE Y == {y \in Once : y = "write"}
    <2>4. /\ Begun(Once, WriteWaits, WriteFails, Y)
          /\ queue' \in Seq(Tags) /\ Len(queue') <= 1 /\ queue' # <<>> /\ queue'[1] = u
      BY <1>4, <2>3, WriteBegun
    <2>5. \A y : y \in Y <=> y = "write"
      BY <1>0
    <2> HIDE DEF Y
    <2> QED BY <1>7, <2>1, <2>2, <2>3, <2>4, <2>5
  <1> QED BY <1>5, <1>8, <1>9
\* The fetch timer starts itself again; a cancelled wait for signals ends.
LEMMA FetchTimerKeeps ==
  ASSUME LoopInv, fetch_timer \/ signal_cancelled
  PROVE  LoopInv'
  <1> DEFINE N == {}
  <1>0. Begun(Once, {}, <<>>, N) /\ \A y : y \notin N
    BY BegunNothing
  <1> HIDE DEF N
  <1>1. ASSUME NEW x \in {"fetch_timer", "signal"}, NEW c, Turn(x, c), Handled({}, <<>>),
               UNCHANGED <<lvars, envVars, dialogueVars, handlerVars, conn, caught, ended>>
        PROVE  LoopInv'
    BY <1>0, <1>1, HandlerKeeps
  <1>2. ASSUME Turn("fetch_timer", "ok"), Handled({"fetch_timer"}, <<>>),
               UNCHANGED <<lvars, envVars, dialogueVars, handlerVars, conn, caught, ended>>
        PROVE  LoopInv'
    <2> DEFINE S == {"fetch_timer"}
               Y == {"fetch_timer"}
    <2>1. Begun(Once, S, <<>>, Y) /\ Handled(S, <<>>) /\ \A y \in Y : y = "fetch_timer"
      BY <1>2 DEF Begun, Ops, Once
    <2> HIDE DEF S, Y
    <2> QED BY <1>2, <2>1, HandlerKeeps
  <1>3. CASE signal_cancelled
    BY <1>1, <1>3 DEF signal_cancelled
  <1>4. CASE fetch_timer
    BY <1>1, <1>2, <1>4 DEF fetch_timer
  <1> QED BY <1>3, <1>4

\* The first signal: do_quit() queues what it aborts.
LEMMA SignalKeeps ==
  ASSUME LoopInv, do_signal
  PROVE  LoopInv'
  <1> DEFINE P == Tail(loop)
  <1>0. "signal" \notin Once /\ "shutdown" \notin Once /\ "signal" \in Ops
    BY DEF Once, Opening, Ops
  <1>1. /\ wait \in SUBSET Ops /\ loop \in Seq(Handlers) /\ Single(Once, wait, loop)
        /\ loop # <<>> /\ loop[1][1] = "signal"
    BY TurnFacts DEF do_signal
  <1>2. /\ P \in Seq(Handlers) /\ Single(Once, wait, P)
        /\ \A x : x \in Active(Once, wait, P) <=> x \in Active(Once, wait, loop)
        /\ WriteFirst(loop, fresh) => WriteFirst(P, fresh)
    <2>1. Single(Once, wait, P) /\ Active(Once, wait, P) = Active(Once, wait, loop) \ {loop[1][1]}
      BY <1>1, PopActive
    <2>2. P \in Seq(Handlers)
      BY <1>1, TailFacts
    <2>3. WriteFirst(loop, fresh) => WriteFirst(P, fresh)
      BY <1>1, WriteFirstPop
    <2>4. "signal" \notin Active(Once, wait, loop)
      BY <1>0 DEF Active
    <2> HIDE DEF P
    <2> QED BY <1>1, <2>1, <2>2, <2>3, <2>4
  <1>3. /\ UNCHANGED <<lvars, tls, failed, mute, signals, queue, fresh, established, stopped>>
        /\ signaled' = TRUE
    BY DEF do_signal, envVars, dialogueVars
  <1>4. ASSUME NEW W, NEW L, do_quit(W, L), W \in SUBSET Ops, L \in Seq(Handlers),
               Single(Once, W, L), caught' \in 0 .. signals,
               \A x : x \in Active(Once, W, L) <=> x \in Active(Once, wait, loop),
               WriteFirst(P, fresh) => WriteFirst(L, fresh)
        PROVE  LoopInv'
    <2>1. /\ wait' \in SUBSET Ops /\ loop' \in Seq(Handlers)
          /\ Single(Once, wait', loop')
          /\ \A x : x \in Active(Once, wait', loop') <=> x \in Active(Once, W, L)
          /\ \A f : WriteFirst(L, f) => WriteFirst(loop', f)
          /\ loggedOut' = TRUE /\ ended' \in {ended, "thrown"}
          /\ conn' \in {conn, "shutdown", "closed"}
      BY <1>0, <1>4, QuitFacts
    <2>2. \A x : x \in Active(Once, wait', loop') <=> x \in Active(Once, wait, loop)
      BY <1>4, <2>1
    <2>3. WriteFirst(loop, fresh) => WriteFirst(loop', fresh')
      BY <1>2, <1>3, <1>4, <2>1
    <2>4. LoopTypeOK'
      BY <1>3, <1>4, <2>1 DEF LoopInv, LoopTypeOK, lvars
    <2> QED BY <1>3, <2>1, <2>2, <2>3, <2>4, LoopSame DEF lvars
  <1> HIDE DEF P
  <1>5. CASE caught > 0
    <2> DEFINE h == <<"signal", "ok">>
               L == Append(P, h)
    <2>1. caught' = caught - 1 /\ do_quit(wait, L)
      BY <1>5 DEF do_signal, P
    <2>2. h \in Handlers /\ h[1] = "signal"
      BY <1>0 DEF Handlers, Codes
    <2> HIDE DEF h
    <2>3. h[1] \notin Active(Once, wait, P)
      BY <1>0, <2>2 DEF Active
    <2>4. /\ P \o <<h>> \in Seq(Handlers) /\ L = P \o <<h>>
          /\ Single(Once, wait, P \o <<h>>)
          /\ Active(Once, wait, P \o <<h>>) = Active(Once, wait, P) \cup ({h[1]} \cap Once)
      BY <1>1, <1>2, <2>2, <2>3, QueueActive
    <2>5. L \in Seq(Handlers) /\ Single(Once, wait, L)
      BY <2>4
    <2>6. Active(Once, wait, L) = Active(Once, wait, P) \cup ({h[1]} \cap Once)
      BY <2>4
    <2>7. \A i \in DOMAIN P : i \in DOMAIN L /\ L[i] = P[i]
      BY <1>2, <2>2
    <2> HIDE DEF L
    <2>8. WriteFirst(P, fresh) => WriteFirst(L, fresh)
      BY <1>2, <2>7, WriteFirstMore
    <2>9. \A x : x \in Active(Once, wait, L) <=> x \in Active(Once, wait, loop)
      BY <1>0, <1>2, <2>2, <2>6
    <2>10. caught' \in 0 .. signals
      BY <1>5, <2>1 DEF LoopInv, LoopTypeOK
    <2> QED BY <1>1, <1>4, <2>1, <2>5, <2>8, <2>9, <2>10
  <1>6. CASE ~(caught > 0)
    <2> DEFINE W == wait \cup {"signal"}
    <2>1. caught' = caught /\ do_quit(W, P)
      BY <1>6 DEF do_signal, P
    <2>2. W \in SUBSET Ops /\ \A x : x \in W <=> x \in wait \/ x = "signal"
      BY <1>0, <1>1
    <2> HIDE DEF W
    <2>3. Single(Once, W, P)
      BY <1>0, <1>2, <2>2 DEF Single
    <2>4. \A x : x \in Active(Once, W, P) <=> x \in Active(Once, wait, P)
      BY <1>0, <2>2 DEF Active
    <2>5. \A x : x \in Active(Once, W, P) <=> x \in Active(Once, wait, loop)
      BY <1>2, <2>4
    <2>6. caught' \in 0 .. signals
      BY <2>1 DEF LoopInv, LoopTypeOK
    <2> QED BY <1>2, <1>4, <2>1, <2>2, <2>3, <2>5, <2>6
  <1> QED BY <1>5, <1>6

\* The TLS shutdown is over: close() queues what it aborts.
LEMMA ShutdownKeeps ==
  ASSUME LoopInv, async_shutdown
  PROVE  LoopInv'
  <1> DEFINE P == Tail(loop)
  <1>0. "shutdown" \notin Once
    BY DEF Once, Opening
  <1>1. CASE Turn("shutdown", "ok") \/ Turn("shutdown", "eof")
    <2>1. PICK c : Turn("shutdown", c)
      BY <1>1
    <2>2. /\ wait \in SUBSET Ops /\ loop \in Seq(Handlers) /\ Single(Once, wait, loop)
          /\ loop # <<>> /\ loop[1][1] = "shutdown" /\ loop[1] = <<"shutdown", c>>
      BY <2>1, TurnFacts
    <2>3. Close(wait, P)
      <3>1. ~Turn("shutdown", "aborted") /\ ~Turn("shutdown", "error")
        BY <1>1 DEF Turn
      <3> QED BY <3>1 DEF async_shutdown
    <2>4. /\ P \in Seq(Handlers) /\ Single(Once, wait, P)
          /\ \A x : x \in Active(Once, wait, P) <=> x \in Active(Once, wait, loop)
          /\ WriteFirst(loop, fresh) => WriteFirst(P, fresh)
      <3>1. Single(Once, wait, P) /\ Active(Once, wait, P) = Active(Once, wait, loop) \ {loop[1][1]}
        BY <2>2, PopActive
      <3>2. P \in Seq(Handlers)
        BY <2>2, TailFacts
      <3>3. WriteFirst(loop, fresh) => WriteFirst(P, fresh)
        BY <2>2, WriteFirstPop
      <3>4. "shutdown" \notin Active(Once, wait, loop)
        BY <1>0 DEF Active
      <3> HIDE DEF P
      <3> QED BY <2>2, <3>1, <3>2, <3>3, <3>4
    <2> DEFINE V == wait'
               B == wait \cap (SocketOps \cup {"signal"})
               M == loop'
    <2>5. /\ \A x : x \in wait <=> x \in V \/ x \in B
          /\ \A x \in B : x \notin V
          /\ M = P \o Aborted(B)
          /\ conn' = "closed" /\ ended' = ended
      BY <2>3 DEF Close
    <2> HIDE DEF V, B, M, P
    <2>6. Grown(Once, wait, P, V, M, {}, Aborted(B))
      BY <2>2, <2>4, <2>5, AbortActive
    <2>7. \A f : WriteFirst(P, f) => WriteFirst(M, f)
      BY <2>4, <2>6, WriteFirstMore DEF Grown
    <2>8. /\ wait' \in SUBSET Ops /\ loop' \in Seq(Handlers) /\ Single(Once, wait', loop')
          /\ \A x : x \in Active(Once, wait', loop') <=> x \in Active(Once, wait, loop)
          /\ WriteFirst(loop, fresh) => WriteFirst(loop', fresh)
      BY <2>4, <2>6, <2>7 DEF Grown, V, M
    <2>9. UNCHANGED <<lvars, envVars, dialogueVars, handlerVars, caught>>
      BY DEF async_shutdown
    <2>10. LoopTypeOK'
      BY <2>5, <2>8, <2>9 DEF LoopInv, LoopTypeOK, lvars, envVars, dialogueVars, handlerVars
    <2>11. WriteFirst(loop, fresh) => WriteFirst(loop', fresh')
      BY <2>8, <2>9 DEF dialogueVars
    <2> QED BY <2>8, <2>9, <2>10, <2>11, LoopSame DEF lvars, dialogueVars, handlerVars
  <1>2. CASE ended' = "thrown" /\ UNCHANGED <<conn, wait, loop>>
    BY <1>2, IdleKeeps DEF async_shutdown, envVars, loopVars, LoopInv, LoopTypeOK
  <1> QED BY <1>1, <1>2 DEF async_shutdown
-----------------------------------------------------------------------------
\* An operation completes: its handler is queued.  After a read has fetched the
\* input, a write's handler that was queued before still runs first.
LEMMA CompleteFacts ==
  ASSUME LoopInv, NEW x \in Ops, NEW c \in Codes, Complete(x, c)
  PROVE  /\ wait' \in SUBSET Ops /\ loop' \in Seq(Handlers) /\ Single(Once, wait', loop')
         /\ \A y : y \in Active(Once, wait', loop') <=> y \in Active(Once, wait, loop)
         /\ \A f : WriteFirst(loop, f) => WriteFirst(loop', f)
         /\ x = "read" => \A f : WriteFirst(loop, f) => WriteFirst(loop', 0)
  <1> DEFINE h == <<x, c>>
             V == wait'
             M == loop'
  <1>1. /\ wait \in SUBSET Ops /\ loop \in Seq(Handlers) /\ Single(Once, wait, loop)
    BY DEF LoopInv, LoopTypeOK
  <1>2. h \in Handlers /\ h[1] = x
    BY DEF Handlers
  <1>3. /\ x \in wait /\ M = Append(loop, h)
        /\ \A y : y \in V <=> y \in wait /\ y # x
    BY DEF Complete
  <1> HIDE DEF h, V, M
  <1>4. Grown(Once, wait, loop, V, M, {}, <<h>>)
    BY <1>1, <1>2, <1>3, CompleteActive
  <1>5. \A f : WriteFirst(loop, f) => WriteFirst(M, f)
    BY <1>1, <1>4, WriteFirstMore DEF Grown
  <1>6. ASSUME x = "read", NEW f, WriteFirst(loop, f) PROVE WriteFirst(M, 0)
    <2>1. "read" \in Once
      BY DEF Once
    <2>2. \A q \in DOMAIN loop : loop[q][1] # "read"
      BY <1>1, <1>3, <1>6, <2>1 DEF Single
    <2>3. PICK p \in DOMAIN loop : loop[p] = <<"write", "ok">>
      BY <1>6 DEF WriteFirst
    <2>4. \A q \in 1 .. p : q \in DOMAIN loop
      BY <1>1, <2>3
    <2>5. WriteFirst(loop, 0)
      BY <2>2, <2>3, <2>4 DEF WriteFirst
    <2> QED BY <1>5, <2>5
  <1> QED BY <1>4, <1>5, <1>6 DEF Grown, V, M

\* What the operating system, the timers and the peer do, the server's answers aside.
LEMMA EnvironmentKeeps ==
  ASSUME DialogueInv, LoopInv,
         \/ login_timer_expires \/ fetch_timer_expires
         \/ Succeeds \/ Breaks \/ GoesMute \/ Signal
  PROVE  LoopInv'
  <1>0. /\ SocketOps \cup {"resolve"} \subseteq Ops
        /\ "fetch_timer" \in Ops /\ "signal" \in Ops /\ "shutdown" \in Ops /\ "read" \in Ops
        /\ "ok" \in Codes /\ "error" \in Codes /\ "eof" \in Codes
    BY DEF Ops, SocketOps, Codes
  <1>1. ASSUME NEW x \in Ops, NEW c \in Codes, Complete(x, c), failed' \in BOOLEAN,
               fresh' = fresh \/ (x = "read" /\ fresh' = 0),
               caught' = caught, signals' \in {signals, signals + 1}, signals' <= MaxSignals,
               UNCHANGED <<lvars, handlerVars, tls, conn, queue, mute, ended>>
        PROVE  LoopInv'
    <2>1. /\ wait' \in SUBSET Ops /\ loop' \in Seq(Handlers) /\ Single(Once, wait', loop')
          /\ \A y : y \in Active(Once, wait', loop') <=> y \in Active(Once, wait, loop)
          /\ \A f : WriteFirst(loop, f) => WriteFirst(loop', f)
          /\ x = "read" => \A f : WriteFirst(loop, f) => WriteFirst(loop', 0)
      BY <1>1, CompleteFacts
    <2>2. WriteFirst(loop, fresh) => WriteFirst(loop', fresh')
      BY <1>1, <2>1
    <2>3. fresh' \in 0 .. Len(input')
      <3>1. input' = input /\ Len(input) \in Nat /\ fresh \in 0 .. Len(input)
        BY <1>1 DEF lvars, DialogueInv, TypeOK, LoopInv, LoopTypeOK
      <3> QED BY <1>1, <3>1
    <2>4. caught' \in 0 .. signals' /\ signals' \in 0 .. MaxSignals
      BY <1>1, ConnectionAssumption DEF LoopInv, LoopTypeOK
    <2>5. LoopTypeOK'
      BY <1>1, <2>1, <2>3, <2>4 DEF LoopInv, LoopTypeOK, handlerVars
    <2> QED BY <1>1, <2>1, <2>2, <2>5, LoopSame DEF lvars, handlerVars
  <1>2. signals \in Nat /\ signals <= MaxSignals /\ MaxSignals \in Nat /\ failed \in BOOLEAN
    BY ConnectionAssumption DEF LoopInv, LoopTypeOK
  <1>3. CASE login_timer_expires
    <2> DEFINE h == <<"login_timer", "ok">>
               M == loop'
               S == {}
               Y == {"login_timer"}
    <2>1. /\ established /\ timer = "armed" /\ timer' = "queued"
          /\ UNCHANGED <<requests, input, pending, outcome, wait, queue, fresh, established>>
          /\ UNCHANGED <<tls, signals, failed, mute, loggedOut, signaled, stopped, conn, caught, ended>>
      BY <1>3 DEF login_timer_expires, TimerExpires, envVars, dialogueVars, handlerVars, parserVars
    <2>2. h \in Handlers /\ h[1] = "login_timer" /\ M = Append(loop, h)
      BY <1>3 DEF Handlers, Codes, login_timer_expires
    <2>3. /\ wait \in SUBSET Ops /\ loop \in Seq(Handlers) /\ Single(Once, wait, loop)
      BY DEF LoopInv, LoopTypeOK
    <2> HIDE DEF h
    <2>4. M = loop \o <<h>>
      BY <2>2, <2>3
    <2>5. "login_timer" \in Once /\ "login_timer" \notin UnderWay
      BY <2>1 DEF Once, LoopInv
    <2>6. Begun(Once, S, <<h>>, Y)
      BY <2>2, <2>5 DEF Begun
    <2>7. /\ \A x \in Y : x \notin Active(Once, wait, loop)
          /\ \A x : x \in wait <=> x \in wait \/ x \in S
      BY <2>5 DEF UnderWay
    <2>8. \A x : x \in Y <=> x = "login_timer"
      OBVIOUS
    <2> HIDE DEF M, S, Y
    <2>9. Grown(Once, wait, loop, wait, M, Y, <<h>>)
      BY <2>3, <2>4, <2>6, <2>7, BeginFacts
    <2>10. \A f : WriteFirst(loop, f) => WriteFirst(M, f)
      BY <2>3, <2>9, WriteFirstMore DEF Grown
    <2>11. /\ wait' \in SUBSET Ops /\ loop' \in Seq(Handlers) /\ Single(Once, wait', loop')
           /\ \A x : x \in Active(Once, wait', loop') <=> x \in UnderWay \/ x = "login_timer"
           /\ WriteFirst(loop, fresh) => WriteFirst(loop', fresh')
      BY <2>1, <2>8, <2>9, <2>10 DEF Grown, M, UnderWay
    <2> DEFINE V == Active(Once, wait', loop')
    <2>12. /\ \A x : x \in V <=> x \in UnderWay \/ x = "login_timer"
           /\ \A x : x \in V <=> x \in Active(Once, wait', loop')
      BY <2>11
    <2> HIDE DEF V
    <2>13. LoopTypeOK'
      BY <2>1, <2>11 DEF LoopInv, LoopTypeOK
    <2>14. established' = TRUE /\ \A x \in UnderWay : x \notin Opening
      BY <2>1 DEF LoopInv, LoopTypeOK
    <2>15. /\ \A x \in V : x \notin Opening
           /\ "write" \in V <=> queue' # <<>>
           /\ "fetch_timer" \in V => outcome' # "open" /\ pending' \cap BeforeFetch = {}
      <3>1. "login_timer" \notin Opening
        BY DEF Opening
      <3> QED BY <2>1, <2>12, <2>14, <3>1 DEF LoopInv
    <2>16. queue' # <<>> => pending' = {queue'[1]} /\ (requests' = <<>> => WriteFirst(loop', fresh'))
      BY <2>1, <2>11 DEF LoopInv
    <2> QED BY <2>1, <2>11, <2>12, <2>13, <2>14, <2>15, <2>16, LoopMade
  <1>4. CASE fetch_timer_expires
    BY <1>0, <1>1, <1>2, <1>4 DEF fetch_timer_expires, envVars, dialogueVars
  <1>5. CASE Succeeds
    <2>1. PICK x \in SocketOps \cup {"resolve"} :
             Complete(x, "ok") /\ fresh' = IF x = "read" THEN 0 ELSE fresh
      BY <1>5 DEF Succeeds
    <2>2. UNCHANGED <<lvars, handlerVars, tls, conn, queue, mute, ended, failed, signals, caught>>
      BY <1>5 DEF Succeeds, envVars
    <2> QED BY <1>0, <1>1, <1>2, <2>1, <2>2
  <1>6. CASE Breaks
    <2>1. PICK x \in Ops, c \in Codes : Complete(x, c) /\ failed' \in {TRUE, failed}
      BY <1>0, <1>6 DEF Breaks
    <2>2. UNCHANGED <<lvars, handlerVars, tls, conn, queue, fresh, mute, ended, signals, caught>>
      BY <1>6 DEF Breaks, dialogueVars
    <2> QED BY <1>1, <1>2, <2>1, <2>2
  <1>7. CASE GoesMute
    BY <1>7, IdleKeeps DEF GoesMute, LoopInv, LoopTypeOK
  <1>8. CASE Signal
    <2>1. /\ signals' = signals + 1 /\ signals' <= MaxSignals
          /\ UNCHANGED <<lvars, dialogueVars, handlerVars, tls, conn, failed, mute, ended>>
      BY <1>2, <1>8 DEF Signal
    <2>2. CASE Complete("signal", "ok") /\ UNCHANGED caught
      BY <1>0, <1>1, <1>2, <2>1, <2>2 DEF dialogueVars
    <2>3. CASE caught' = caught + 1 /\ UNCHANGED <<wait, loop>>
      <3>1. caught' \in 0 .. signals' /\ signals' \in 0 .. MaxSignals
        BY <1>2, <2>1, <2>3 DEF LoopInv, LoopTypeOK
      <3>2. LoopTypeOK'
        BY <2>1, <2>3, <3>1 DEF LoopInv, LoopTypeOK, lvars, dialogueVars, handlerVars
      <3>3. /\ wait' = wait /\ loop' = loop /\ fresh' = fresh
            /\ UNCHANGED <<established, queue, requests, pending, timer, outcome>>
        BY <2>1, <2>3 DEF lvars, dialogueVars, handlerVars
      <3>4. /\ Single(Once, wait', loop')
            /\ \A x : x \in Active(Once, wait', loop') => x \in Active(Once, wait, loop)
            /\ "write" \in Active(Once, wait, loop) => "write" \in Active(Once, wait', loop')
            /\ WriteFirst(loop, fresh) => WriteFirst(loop', fresh')
        BY <3>3 DEF LoopInv
      <3> QED BY <3>2, <3>3, <3>4, LoopSame
    <2> QED BY <1>8, <2>2, <2>3 DEF Signal
  <1> QED BY <1>3, <1>4, <1>5, <1>6, <1>7, <1>8

\* The server answers a command that has left the socket: the write's handler is
\* queued, and no read has fetched the answer yet.
LEMMA ServesKeeps ==
  ASSUME DialogueInv, LoopInv, Serves
  PROVE  LoopInv'
  <1> DEFINE t == requests[1]
  <1>1. /\ requests \in Seq(Tags) /\ requests # <<>> /\ Len(requests) = 1 /\ t \in Tags
        /\ Head(requests) = t /\ pending = {t} /\ requests' = <<>>
    <2>1. requests \in Seq(Tags) /\ requests # <<>> /\ Len(requests) <= 1
      BY DEF Serves, DialogueInv, TypeOK
    <2>2. Len(requests) = 1
      BY <2>1, LengthOne
    <2>3. t \in Tags /\ Head(requests) = t
      BY <2>1, TailFacts
    <2> QED BY <2>1, <2>2, <2>3 DEF Serves, ServerAnswers, DialogueInv
  <1> HIDE DEF t
  <1>2. PICK a \in Answers(t) : input' = input \o a
    BY <1>1 DEF Serves, ServerAnswers
  <1>3. a \in Seq(Items) /\ Len(a) \in {1, 2}
    BY <1>1, AnswerShape, LoginAssumption DEF DialogueInv, TypeOK
  <1>4. input \in Seq(Items) /\ Len(input) \in Nat /\ Len(input') = Len(input) + Len(a)
    <2>1. input \in Seq(Items)
      BY DEF DialogueInv, TypeOK
    <2> QED BY <1>2, <1>3, <2>1, ConcatFacts
  <1>5. fresh' \in 0 .. Len(input') /\ fresh' > 0
    <2>1. fresh' = fresh + Len(input') - Len(input) /\ fresh \in 0 .. Len(input)
      BY DEF Serves, LoopInv, LoopTypeOK
    <2>2. fresh' = fresh + Len(a) /\ fresh \in Nat /\ Len(a) > 0
      <3>0. fresh \in 0 .. Len(input)
        BY DEF LoopInv, LoopTypeOK
      <3>a. Len(a) \in Nat /\ Len(a) > 0
        BY <1>3
      <3>1. fresh \in Nat /\ fresh <= Len(input) /\ Len(a) \in Nat /\ Len(a) > 0
        BY <1>4, <3>0, <3>a
      <3>2. \A f, m, n \in Nat : f + (m + n) - m = f + n
        OBVIOUS
      <3>3. fresh' = fresh + (Len(input) + Len(a)) - Len(input)
        BY <1>4, <2>1
      <3>4. fresh + (Len(input) + Len(a)) - Len(input) = fresh + Len(a)
        BY <1>4, <3>1, <3>2
      <3> QED BY <3>1, <3>3, <3>4
    <2> QED BY <1>3, <1>4, <2>1, <2>2
  <1>6. /\ wait' = wait /\ loop' = loop
        /\ UNCHANGED <<established, queue, pending, timer, outcome>>
        /\ UNCHANGED <<tls, signals, failed, mute, loggedOut, signaled, stopped, conn, caught, ended>>
    BY DEF Serves, ServerAnswers, envVars, handlerVars, loopVars
  <1>7. LoopTypeOK'
    BY <1>5, <1>6 DEF LoopInv, LoopTypeOK
  <1>8. queue # <<>> => WriteFirst(loop', fresh')
    <2> SUFFICES ASSUME queue # <<>> PROVE WriteFirst(loop', fresh')
      OBVIOUS
    <2>1. queue \in Seq(Tags) /\ pending = {queue[1]}
      BY DEF LoopInv, LoopTypeOK
    <2>2. queue[1] = t /\ 1 \in DOMAIN queue
      <3>1. queue[1] \in pending
        BY <2>1
      <3> QED BY <1>1, <2>1, <3>1, TailFacts
    <2>3. t \in ToSet(queue)
      BY <2>2 DEF ToSet
    <2>4. <<"write", "ok">> \in ToSet(loop)
      BY <1>1, <2>3 DEF Serves, Sent
    <2>5. PICK p \in DOMAIN loop : loop[p] = <<"write", "ok">>
      BY <2>4 DEF ToSet
    <2> QED BY <1>5, <1>6, <2>5 DEF WriteFirst
  <1>9. UnderWay' = UnderWay /\ Single(Once, wait', loop')
    BY <1>6 DEF UnderWay, LoopInv
  <1> QED BY <1>6, <1>7, <1>8, <1>9 DEF LoopInv

\* Every step keeps LoopInv.
LEMMA LoopStep == DialogueInv /\ LoopInv /\ [ConnNext]_vars => LoopInv'
  <1> SUFFICES ASSUME DialogueInv, LoopInv, [ConnNext]_vars PROVE LoopInv'
    OBVIOUS
  <1>0. mute \in BOOLEAN /\ ended \in {"running", "returned", "thrown"}
    BY DEF LoopInv, LoopTypeOK
  <1>1. CASE operation_failed \/ do_signal_again \/ run_returns
    BY <1>0, <1>1, IdleKeeps DEF operation_failed, do_signal_again, run_returns, envVars
  <1>2. CASE UNCHANGED vars
    <2>1. UNCHANGED <<lvars, dialogueVars, handlerVars, loopVars, tls, conn, caught, signals,
                      failed, mute, ended>>
      BY <1>2 DEF vars, cvars, dialogueVars, handlerVars, loopVars
    <2> QED BY <1>0, <2>1, IdleKeeps
  <1>3. CASE ConnNext
    BY <1>1, <1>3, OpeningKeeps, LoginCallbackKeeps, TaskCommandKeeps, FinishedKeeps, ReadKeeps,
       WrittenKeeps, LoginTimerKeeps, FetchTimerKeeps, SignalKeeps, ShutdownKeeps,
       EnvironmentKeeps, ServesKeeps DEF ConnNext, Handle
  <1> QED BY <1>2, <1>3

\* The invariants of the dialogue and of the loop hold together.
LEMMA LoopInvariant == ConnSpec => [](DialogueInv /\ LoopInv)
  <1>1. ConnInit => DialogueInv /\ LoopInv
    BY DialogueInit, LoopInit DEF ConnInit
  <1>2. (DialogueInv /\ LoopInv) /\ [ConnNext]_vars => (DialogueInv /\ LoopInv)'
    BY DialogueStep, LoopStep, ConnStepIsLoginStep
  <1> QED BY <1>1, <1>2, PTL DEF ConnSpec

\* No command is left in the queue, although the handler of a finished write does not
\* start the next one: a write is under way, or its handler about to run, as long as
\* there is a command in the queue.
THEOREM NoStrandedWriteAlways == ConnSpec => []NoStrandedWrite
  <1>1. DialogueInv /\ LoopInv => NoStrandedWrite
    <2> SUFFICES ASSUME DialogueInv, LoopInv, queue # <<>>
                 PROVE  "write" \in wait \/ \E c \in Codes : <<"write", c>> \in ToSet(loop)
      BY OneOutstanding DEF NoStrandedWrite
    <2>1. "write" \in UnderWay /\ loop \in Seq(Handlers)
      BY DEF LoopInv, LoopTypeOK
    <2>2. CASE \E i \in DOMAIN loop : loop[i][1] = "write"
      <3>1. PICK i \in DOMAIN loop : loop[i][1] = "write"
        BY <2>2
      <3>2. loop[i] \in Handlers
        BY <2>1, <3>1
      <3>3. PICK x \in Ops \cup {"login_timer"}, c \in Codes : loop[i] = <<x, c>>
        BY <3>2 DEF Handlers
      <3>4. loop[i] = <<"write", c>>
        BY <3>1, <3>3
      <3> QED BY <3>1, <3>4 DEF ToSet
    <2> QED BY <2>1, <2>2 DEF UnderWay, Active
  <1> QED BY <1>1, LoopInvariant, PTL

-----------------------------------------------------------------------------
(***************************************************************************)
(* How often an operation has been started.                                *)
(***************************************************************************)
\* The handlers of x that are queued, and with them whether x is outstanding.
Count(x, L) == Cardinality({i \in DOMAIN L : L[i][1] = x})
Total(x, W, L) == Count(x, L) + (IF x \in W THEN 1 ELSE 0)

\* Counts are numbers.
LEMMA CountType ==
  ASSUME NEW x, NEW L \in Seq(Handlers)
  PROVE  /\ IsFiniteSet({i \in DOMAIN L : L[i][1] = x})
         /\ Count(x, L) \in Nat
  <1>1. Len(L) \in Nat /\ DOMAIN L = 1 .. Len(L)
    OBVIOUS
  <1>2. IsFiniteSet(1 .. Len(L))
    BY <1>1, FS_Interval
  <1>3. IsFiniteSet({i \in DOMAIN L : L[i][1] = x})
    BY <1>1, <1>2, FS_Subset
  <1> QED BY <1>3, FS_CardinalityType DEF Count

LEMMA TotalType ==
  ASSUME NEW x, NEW W, NEW L \in Seq(Handlers)
  PROVE  Total(x, W, L) \in Nat
  <1>1. Count(x, L) \in Nat
    BY CountType
  <1> QED BY <1>1 DEF Total

\* Appending one element is appending a sequence of one.
LEMMA AppendConcat ==
  ASSUME NEW S, NEW s \in Seq(S), NEW e \in S
  PROVE  Append(s, e) = s \o <<e>>
  OBVIOUS

\* The count of a concatenation.
LEMMA CountConcat ==
  ASSUME NEW x, NEW L \in Seq(Handlers), NEW M \in Seq(Handlers)
  PROVE  Count(x, L \o M) = Count(x, L) + Count(x, M)
  <1> DEFINE A == {i \in DOMAIN L : L[i][1] = x}
             B == {i \in DOMAIN M : M[i][1] = x}
             C == {i \in DOMAIN (L \o M) : (L \o M)[i][1] = x}
             D == {i \in C : i \notin DOMAIN L}
             f == [i \in B |-> i + Len(L)]
  <1>1. /\ Len(L) \in Nat /\ Len(M) \in Nat
        /\ DOMAIN L = 1 .. Len(L) /\ DOMAIN M = 1 .. Len(M)
        /\ DOMAIN (L \o M) = 1 .. Len(L) + Len(M)
        /\ \A i \in DOMAIN L : i \in DOMAIN (L \o M) /\ (L \o M)[i] = L[i]
        /\ \A i \in DOMAIN (L \o M) : i \notin DOMAIN L =>
              i - Len(L) \in DOMAIN M /\ (L \o M)[i] = M[i - Len(L)]
    BY ConcatFacts
  <1>2. \A i \in DOMAIN M : /\ i + Len(L) \in DOMAIN (L \o M) /\ i + Len(L) \notin DOMAIN L
                            /\ (i + Len(L)) - Len(L) = i
    BY <1>1
  <1>3. \A i \in DOMAIN M : (L \o M)[i + Len(L)] = M[i]
    BY <1>1, <1>2
  <1>4. \A i \in B : i + Len(L) \in D
    BY <1>2, <1>3
  <1>5. \A d \in D : d - Len(L) \in B /\ (d - Len(L)) + Len(L) = d
    BY <1>1
  <1>6. C = A \cup D /\ A \cap D = {}
    BY <1>1
  <1>7. \A i, j \in B : i + Len(L) = j + Len(L) => i = j
    BY <1>1
  <1>8. IsFiniteSet(A) /\ IsFiniteSet(B) /\ Cardinality(A) \in Nat /\ Cardinality(B) \in Nat
    BY CountType DEF Count
  <1> HIDE DEF A, B, C, D
  <1>9. f \in Bijection(B, D)
    <2>1. f \in [B -> D]
      BY <1>4
    <2>2. \A i, j \in B : f[i] = f[j] => i = j
      BY <1>7
    <2>3. \A d \in D : \E i \in B : f[i] = d
      <3> SUFFICES ASSUME NEW d \in D PROVE \E i \in B : f[i] = d
        OBVIOUS
      <3>1. d - Len(L) \in B /\ (d - Len(L)) + Len(L) = d
        BY <1>5
      <3>2. f[d - Len(L)] = d
        BY <3>1
      <3> QED BY <3>1, <3>2
    <2> HIDE DEF f
    <2> QED BY <2>1, <2>2, <2>3 DEF Bijection, Injection, Surjection, IsInjective
  <1>10. IsFiniteSet(D) /\ Cardinality(D) = Cardinality(B)
    BY <1>8, <1>9, FS_Bijection DEF ExistsBijection
  <1>11. Cardinality(A \cup D) = Cardinality(A) + Cardinality(D) - Cardinality(A \cap D)
    BY <1>8, <1>10, FS_Union
  <1>12. Cardinality(A \cap D) = 0
    BY <1>6, FS_EmptySet
  <1>13. Cardinality(C) = Cardinality(A) + Cardinality(B)
    BY <1>6, <1>8, <1>10, <1>11, <1>12
  <1> QED BY <1>13 DEF Count, A, B, C

\* The count of one handler, and of none.
LEMMA CountOne ==
  ASSUME NEW x, NEW h \in Handlers
  PROVE  /\ <<h>> \in Seq(Handlers) /\ Count(x, <<h>>) = IF h[1] = x THEN 1 ELSE 0
         /\ <<>> \in Seq(Handlers) /\ Count(x, <<>>) = 0
  <1> DEFINE L == <<h>>
             S == {i \in DOMAIN L : L[i][1] = x}
  <1>1. L \in Seq(Handlers) /\ DOMAIN L = {1} /\ L[1] = h
    OBVIOUS
  <1> HIDE DEF L
  <1>2. S = IF h[1] = x THEN {1} ELSE {}
    BY <1>1
  <1>3. Cardinality(S) = IF h[1] = x THEN 1 ELSE 0
    BY <1>2, FS_EmptySet, FS_Singleton
  <1>4. {i \in DOMAIN <<>> : <<>>[i][1] = x} = {}
    OBVIOUS
  <1>5. Count(x, <<>>) = 0
    BY <1>4, FS_EmptySet DEF Count
  <1> QED BY <1>1, <1>3, <1>5 DEF Count, L

\* A handler has run.
LEMMA CountPop ==
  ASSUME NEW x, NEW L \in Seq(Handlers), L # <<>>
  PROVE  /\ Tail(L) \in Seq(Handlers)
         /\ Count(x, L) = Count(x, Tail(L)) + IF L[1][1] = x THEN 1 ELSE 0
  <1>1. L = <<L[1]>> \o Tail(L) /\ L[1] \in Handlers /\ Tail(L) \in Seq(Handlers)
    OBVIOUS
  <1>2. <<L[1]>> \in Seq(Handlers)
    BY <1>1
  <1>3. Count(x, <<L[1]>> \o Tail(L)) = Count(x, <<L[1]>>) + Count(x, Tail(L))
    BY <1>1, <1>2, CountConcat
  <1>4. Count(x, <<L[1]>>) = IF L[1][1] = x THEN 1 ELSE 0
    BY <1>1, CountOne
  <1>5. Count(x, L) = Count(x, <<L[1]>>) + Count(x, Tail(L))
    BY <1>1, <1>3
  <1>6. Count(x, Tail(L)) \in Nat
    BY <1>1, CountType
  <1> QED BY <1>1, <1>4, <1>5, <1>6

\* Aborted operations are queued once each.
LEMMA CountAborted ==
  ASSUME NEW x, NEW S \in SUBSET Ops
  PROVE  Aborted(S) \in Seq(Handlers) /\ Count(x, Aborted(S)) = IF x \in S THEN 1 ELSE 0
  <1> DEFINE L == Aborted(S)
             T == {i \in DOMAIN L : L[i][1] = x}
  <1>1. /\ L \in Seq(Handlers)
        /\ \A i \in DOMAIN L : \E y \in S : L[i] = <<y, "aborted">>
        /\ \A y \in S : \E i \in DOMAIN L : L[i] = <<y, "aborted">>
        /\ \A i, j \in DOMAIN L : L[i] = L[j] => i = j
    BY AbortedFacts
  <1> HIDE DEF L
  <1>2. CASE x \notin S
    <2>1. T = {}
      BY <1>1, <1>2
    <2> QED BY <1>1, <1>2, <2>1, FS_EmptySet DEF Count, L
  <1>3. CASE x \in S
    <2>1. PICK k \in DOMAIN L : L[k] = <<x, "aborted">>
      BY <1>1, <1>3
    <2>2. ASSUME NEW i \in T PROVE i = k
      <3>1. PICK y \in S : L[i] = <<y, "aborted">>
        BY <1>1
      <3>2. L[i] = L[k]
        BY <2>1, <3>1
      <3> QED BY <1>1, <3>2
    <2>3. T = {k}
      BY <2>1, <2>2
    <2> QED BY <1>1, <1>3, <2>3, FS_Singleton DEF Count, L
  <1> QED BY <1>2, <1>3

\* Operations that are aborted are queued instead of outstanding.
LEMMA TotalAborted ==
  ASSUME NEW x, NEW W \in SUBSET Ops, NEW L \in Seq(Handlers), NEW V, NEW B,
         \A y : y \in W <=> y \in V \/ y \in B, \A y \in B : y \notin V
  PROVE  /\ L \o Aborted(B) \in Seq(Handlers)
         /\ Total(x, V, L \o Aborted(B)) = Total(x, W, L)
  <1>1. B \in SUBSET Ops
    OBVIOUS
  <1>2. Aborted(B) \in Seq(Handlers) /\ Count(x, Aborted(B)) = IF x \in B THEN 1 ELSE 0
    BY <1>1, CountAborted
  <1>3. Count(x, L \o Aborted(B)) = Count(x, L) + Count(x, Aborted(B))
    BY <1>2, CountConcat
  <1>4. Count(x, L) \in Nat
    BY CountType
  <1>5. L \o Aborted(B) \in Seq(Handlers)
    BY <1>2, ConcatFacts
  <1> QED BY <1>2, <1>3, <1>4, <1>5 DEF Total

\* The two operations that are not in Once.
Others == {"signal", "shutdown"}

\* Starting an operation that is not one of them: it is outstanding, or has failed.
LEMMA OthersNotStarted ==
  ASSUME NEW x \in Others, NEW y \in Ops, y \notin Others, NEW c
  PROVE  /\ x \notin Waits(y, c) /\ Fails(y, c) \in Seq(Handlers)
         /\ Count(x, Fails(y, c)) = 0
  <1> DEFINE h == <<y, "error">>
  <1>1. h \in Handlers /\ h[1] = y
    BY DEF Handlers, Codes
  <1> HIDE DEF h
  <1>2. /\ <<h>> \in Seq(Handlers) /\ Count(x, <<h>>) = 0
        /\ <<>> \in Seq(Handlers) /\ Count(x, <<>>) = 0
    BY <1>1, CountOne
  <1>3. Fails(y, c) = <<h>> \/ Fails(y, c) = <<>>
    BY DEF Fails, h
  <1> QED BY <1>2, <1>3 DEF Waits

\* A handler has run and has started neither of them.
LEMMA OthersHandled ==
  ASSUME LoopInv, loop # <<>>, NEW x \in Others, NEW S, NEW Q \in Seq(Handlers), Handled(S, Q),
         x \notin S, Count(x, Q) = 0
  PROVE  Total(x, wait', loop') <= Total(x, wait, loop)
  <1>1. loop \in Seq(Handlers)
    BY DEF LoopInv, LoopTypeOK
  <1>2. /\ Tail(loop) \in Seq(Handlers)
        /\ Count(x, loop) = Count(x, Tail(loop)) + IF loop[1][1] = x THEN 1 ELSE 0
    BY <1>1, CountPop
  <1>3. Count(x, loop') = Count(x, Tail(loop)) + Count(x, Q)
    BY <1>2, CountConcat DEF Handled
  <1>4. Count(x, Tail(loop)) \in Nat /\ Count(x, loop) \in Nat
    BY <1>1, <1>2, CountType
  <1>5. x \in wait' <=> x \in wait
    BY DEF Handled
  <1>6. Count(x, loop') <= Count(x, loop) /\ Count(x, loop') \in Nat
    BY <1>2, <1>3, <1>4
  <1> QED BY <1>4, <1>5, <1>6 DEF Total

\* The read handler goes on parsing.
LEMMA CountParsed ==
  ASSUME LoopInv, InChunk, NEW x \in Others
  PROVE  /\ << <<"read", "parsed">> >> \o Tail(loop) \in Seq(Handlers)
         /\ Count(x, << <<"read", "parsed">> >> \o Tail(loop)) = Count(x, loop)
  <1> DEFINE h == <<"read", "parsed">>
  <1>1. loop \in Seq(Handlers) /\ loop # <<>> /\ loop[1][1] = "read"
    BY ReadingFacts
  <1>2. h \in Handlers /\ h[1] = "read" /\ x # "read"
    BY DEF Handlers, Codes, Ops, SocketOps, Others
  <1> HIDE DEF h
  <1>3. Tail(loop) \in Seq(Handlers) /\ Count(x, loop) = Count(x, Tail(loop)) + 0
    BY <1>1, <1>2, CountPop
  <1>4. <<h>> \in Seq(Handlers) /\ Count(x, <<h>>) = 0
    BY <1>2, CountOne
  <1>5. Count(x, <<h>> \o Tail(loop)) = Count(x, <<h>>) + Count(x, Tail(loop))
    BY <1>3, <1>4, CountConcat
  <1>6. Count(x, Tail(loop)) \in Nat
    BY <1>3, CountType
  <1>7. <<h>> \o Tail(loop) \in Seq(Handlers)
    BY <1>3, <1>4, ConcatFacts
  <1> QED BY <1>3, <1>4, <1>5, <1>6, <1>7 DEF h

\* A callback has started neither of them.
LEMMA OthersParsed ==
  ASSUME LoopInv, InChunk, NEW x \in Others, NEW S, NEW Q \in Seq(Handlers),
         x \in wait' <=> x \in wait \/ x \in S,
         loop' = (<< <<"read", "parsed">> >> \o Tail(loop)) \o Q,
         x \notin S, Count(x, Q) = 0
  PROVE  Total(x, wait', loop') <= Total(x, wait, loop)
  <1> DEFINE L == << <<"read", "parsed">> >> \o Tail(loop)
  <1>1. L \in Seq(Handlers) /\ Count(x, L) = Count(x, loop) /\ loop' = L \o Q
    BY CountParsed
  <1> HIDE DEF L
  <1>2. Count(x, loop') = Count(x, L) + Count(x, Q)
    BY <1>1, CountConcat
  <1>3. Count(x, L) \in Nat
    BY <1>1, CountType
  <1> QED BY <1>1, <1>2, <1>3 DEF Total

\* An operation completes: it is queued instead of outstanding.
LEMMA OthersCompleted ==
  ASSUME LoopInv, NEW x \in Others, NEW y \in Ops, NEW c \in Codes, Complete(y, c)
  PROVE  Total(x, wait', loop') = Total(x, wait, loop)
  <1> DEFINE h == <<y, c>>
  <1>1. h \in Handlers /\ h[1] = y /\ loop' = Append(loop, h) /\ y \in wait /\ wait' = wait \ {y}
    BY DEF Handlers, Complete
  <1>2. loop \in Seq(Handlers)
    BY DEF LoopInv, LoopTypeOK
  <1> HIDE DEF h
  <1>3. <<h>> \in Seq(Handlers) /\ Count(x, <<h>>) = IF y = x THEN 1 ELSE 0
    BY <1>1, CountOne
  <1>4. loop' = loop \o <<h>>
    BY <1>1, <1>2
  <1>5. Count(x, loop') = Count(x, loop) + Count(x, <<h>>)
    BY <1>2, <1>3, <1>4, CountConcat
  <1>6. Count(x, loop) \in Nat
    BY <1>2, CountType
  <1>7. CASE y = x
    BY <1>1, <1>3, <1>5, <1>6, <1>7 DEF Total
  <1>8. CASE y # x
    BY <1>1, <1>3, <1>5, <1>6, <1>8 DEF Total
  <1> QED BY <1>7, <1>8

\* do_quit() starts one shutdown at most, and leaves the wait for signals alone or
\* queues it.
LEMMA OthersQuit ==
  ASSUME NEW W \in SUBSET Ops, NEW L \in Seq(Handlers), do_quit(W, L)
  PROVE  /\ Total("shutdown", wait', loop') <= Total("shutdown", W, L) + 1
         /\ Total("signal", wait', loop') = Total("signal", W, L)
  <1>0. \A x : Total(x, W, L) \in Nat
    BY TotalType
  <1>1. CASE conn \in {"resolving", "closed"}
    BY <1>0, <1>1 DEF do_quit
  <1>2. CASE conn \notin {"resolving", "closed"} /\ tls
    <2> DEFINE V == W \ SocketOps
               B == W \cap SocketOps
    <2>1. wait' = V \cup {"shutdown"} /\ loop' = L \o Aborted(B)
      BY <1>2 DEF do_quit
    <2>2. (\A x : x \in W <=> x \in V \/ x \in B) /\ (\A x \in B : x \notin V)
      OBVIOUS
    <2>3. "shutdown" \notin V
      BY DEF SocketOps
    <2> HIDE DEF V, B
    <2>4. /\ L \o Aborted(B) \in Seq(Handlers)
          /\ \A x : Total(x, V, L \o Aborted(B)) = Total(x, W, L)
      BY <2>2, TotalAborted
    <2>5. Total("shutdown", wait', loop') = Total("shutdown", V, loop') + 1
      <3>1. Count("shutdown", loop') \in Nat
        BY <2>1, <2>4, CountType
      <3> QED BY <2>1, <2>3, <3>1 DEF Total
    <2>6. Total("signal", wait', loop') = Total("signal", V, loop')
      BY <2>1 DEF Total
    <2> QED BY <1>0, <2>1, <2>4, <2>5, <2>6
  <1>3. CASE conn \notin {"resolving", "closed"} /\ ~tls
    <2>1. Close(W, L)
      BY <1>3 DEF do_quit
    <2> DEFINE V == W \ (SocketOps \cup {"signal"})
               B == W \cap (SocketOps \cup {"signal"})
    <2>2. wait' = V /\ loop' = L \o Aborted(B)
      BY <2>1 DEF Close
    <2>3. (\A x : x \in W <=> x \in V \/ x \in B) /\ (\A x \in B : x \notin V)
      OBVIOUS
    <2> HIDE DEF V, B
    <2>4. \A x : Total(x, V, L \o Aborted(B)) = Total(x, W, L)
      BY <2>3, TotalAborted
    <2> QED BY <1>0, <2>2, <2>4
  <1> QED BY <1>1, <1>2, <1>3

\* No other step starts a shutdown, or waits for a signal.
LEMMA OthersStep ==
  ASSUME DialogueInv, LoopInv, ConnNext, ~finished, ~do_signal, NEW x \in Others
  PROVE  Total(x, wait', loop') <= Total(x, wait, loop)
  <1>0. /\ x \in {"signal", "shutdown"}
        /\ {"connect", "handshake", "read", "write", "fetch_timer"} \cap Others = {}
        /\ {"connect", "handshake", "read", "write", "fetch_timer"} \subseteq Ops
        /\ SocketOps \subseteq Ops /\ "resolve" \in Ops /\ "signal" \in Ops /\ "shutdown" \in Ops
        /\ {"ok", "eof", "error"} \subseteq Codes
    BY DEF Others, Ops, SocketOps, Codes
  <1>a. loop \in Seq(Handlers) /\ wait \in SUBSET Ops
    BY DEF LoopInv, LoopTypeOK
  <1>b. Count(x, loop) \in Nat /\ Total(x, wait, loop) \in Nat
    BY <1>a, CountType, TotalType
  <1>c. \A c : Count(x, <<>>) = 0 /\ <<>> \in Seq(Handlers)
    <2>1. <<"read", "ok">> \in Handlers
      BY <1>0 DEF Handlers
    <2> QED BY <2>1, CountOne
  <1>d. \A y \in Ops : y \notin Others =>
           \A c : /\ x \notin Waits(y, c) /\ Fails(y, c) \in Seq(Handlers)
                  /\ Count(x, Fails(y, c)) = 0
    BY OthersNotStarted
  <1>e. x \notin WriteWaits /\ WriteFails \in Seq(Handlers) /\ Count(x, WriteFails) = 0
    BY <1>0, <1>c, <1>d DEF WriteWaits, WriteFails
  <1>1. CASE UNCHANGED <<wait, loop>>
    BY <1>b, <1>1
  <1>2. ASSUME loop # <<>>, NEW y \in {"connect", "handshake", "read", "write", "fetch_timer"}, NEW c,
               \/ Handled({}, <<>>) \/ Handled({y}, <<>>)
               \/ Handled(Waits(y, c), Fails(y, c)) \/ Handled(WriteWaits, WriteFails)
        PROVE  Total(x, wait', loop') <= Total(x, wait, loop)
    <2>1. x # y /\ y \in Ops /\ y \notin Others
      BY <1>0
    <2>2. CASE Handled({}, <<>>)
      BY <1>2, <1>c, <2>2, OthersHandled
    <2>3. CASE Handled({y}, <<>>)
      BY <1>2, <1>c, <2>1, <2>3, OthersHandled
    <2>4. CASE Handled(Waits(y, c), Fails(y, c))
      BY <1>2, <1>d, <2>1, <2>4, OthersHandled
    <2>5. CASE Handled(WriteWaits, WriteFails)
      BY <1>2, <1>e, <2>5, OthersHandled
    <2> QED BY <1>2, <2>2, <2>3, <2>4, <2>5
  <1>3. CASE async_connect \/ async_handshake \/ handshaken
    BY <1>2, <1>3 DEF async_connect, async_handshake, handshaken, Start, Turn
  <1>4. CASE \/ operation_failed \/ do_signal_again \/ run_returns
    BY <1>1, <1>4 DEF operation_failed, do_signal_again, run_returns, loopVars
  <1>5. CASE do_read \/ read_failed \/ written \/ signal_cancelled
    BY <1>1, <1>2, <1>5 DEF do_read, read_failed, written, signal_cancelled, Turn
  <1>6. CASE login_timer \/ fetch_timer
    BY <1>2, <1>6 DEF login_timer, fetch_timer, Turn
  <1>7. CASE login_callback
    <2> DEFINE h == <<"login_timer", "aborted">>
    <2>1. h \in Handlers /\ h[1] = "login_timer" /\ x # "login_timer"
      BY <1>0 DEF Handlers, Codes
    <2> HIDE DEF h
    <2>2. <<h>> \in Seq(Handlers) /\ Count(x, <<h>>) = 0
      BY <2>1, CountOne
    <2>3. InChunk
      BY <1>7 DEF login_callback
    <2>4. ASSUME NEW S, NEW Q \in Seq(Handlers), Parsed(S, Q), x \notin S, Count(x, Q) = 0
          PROVE  Total(x, wait', loop') <= Total(x, wait, loop)
      <3>1. /\ x \in wait' <=> x \in wait \/ x \in S
            /\ loop' = (<< <<"read", "parsed">> >> \o Tail(loop)) \o Q
        BY <2>4 DEF Parsed
      <3> QED BY <2>3, <2>4, <3>1, OthersParsed
    <2>5. CASE Parsed(WriteWaits, WriteFails)
      BY <1>e, <2>4, <2>5
    <2>6. CASE Parsed({}, <<>>)
      BY <1>c, <2>4, <2>6
    <2>7. CASE Parsed({}, <<h>>)
      BY <2>2, <2>4, <2>7
    <2> QED BY <1>7, <2>5, <2>6, <2>7 DEF login_callback, h
  <1>8. CASE task_command
    <2>1. PICK t \in TaskTags, s \in TaskTags :
            /\ wait' = (IF t = "fetch" /\ "fetch_timer" \in wait
                        THEN wait \ {"fetch_timer"} ELSE wait) \cup WriteWaits
                          \cup (IF s = "fetch" THEN {"fetch_timer"} ELSE {})
            /\ loop' = << <<"read", "parsed">> >> \o Tail(loop)
                        \o Aborted({y \in {"fetch_timer"} : t = "fetch" /\ "fetch_timer" \in wait})
                        \o WriteFails
      BY <1>8 DEF task_command
    <2> DEFINE B == {y \in {"fetch_timer"} : t = "fetch" /\ "fetch_timer" \in wait}
               A == Aborted(B)
               L == << <<"read", "parsed">> >> \o Tail(loop)
    <2>2. B \in SUBSET Ops /\ x \notin B
      BY <1>0
    <2>3. (x \in wait' <=> x \in wait \/ x \in {}) /\ InChunk
      BY <1>0, <1>8, <1>e, <2>1 DEF task_command
    <2>4. loop' = (L \o A) \o WriteFails
      BY <2>1
    <2> HIDE DEF B
    <2>5. A \in Seq(Handlers) /\ Count(x, A) = 0
      BY <2>2, CountAborted
    <2> HIDE DEF A
    <2>6. L \in Seq(Handlers) /\ Count(x, L) = Count(x, loop)
      BY <2>3, CountParsed
    <2> HIDE DEF L
    <2>7. L \o A \in Seq(Handlers) /\ Count(x, L \o A) = Count(x, L) + Count(x, A)
      BY <2>5, <2>6, CountConcat, ConcatFacts
    <2>8. Count(x, loop') = Count(x, L \o A) + Count(x, WriteFails)
      BY <1>e, <2>4, <2>7, CountConcat
    <2>9. Count(x, loop') = Count(x, loop)
      BY <1>b, <1>e, <2>5, <2>6, <2>7, <2>8
    <2> QED BY <1>b, <2>3, <2>9 DEF Total
  <1>9. CASE async_shutdown
    <2>1. CASE Close(wait, Tail(loop)) /\ loop # <<>>
      <3> DEFINE V == wait \ (SocketOps \cup {"signal"})
                 B == wait \cap (SocketOps \cup {"signal"})
      <3>1. wait' = V /\ loop' = Tail(loop) \o Aborted(B)
        BY <2>1 DEF Close
      <3>2. (\A y : y \in wait <=> y \in V \/ y \in B) /\ (\A y \in B : y \notin V)
        OBVIOUS
      <3>3. /\ Tail(loop) \in Seq(Handlers)
            /\ Count(x, loop) = Count(x, Tail(loop)) + IF loop[1][1] = x THEN 1 ELSE 0
        BY <1>a, <2>1, CountPop
      <3> HIDE DEF V, B
      <3>4. Total(x, wait', loop') = Total(x, wait, Tail(loop))
        <4> DEFINE P == Tail(loop)
        <4>1. P \in Seq(Handlers)
          BY <3>3
        <4> HIDE DEF P
        <4>2. Total(x, V, P \o Aborted(B)) = Total(x, wait, P)
          BY <1>a, <3>2, <4>1, TotalAborted
        <4> QED BY <3>1, <4>2 DEF P
      <3>5. Count(x, Tail(loop)) \in Nat
        BY <3>3, CountType
      <3> QED BY <1>b, <3>3, <3>4, <3>5 DEF Total
    <2>2. CASE UNCHANGED <<wait, loop>>
      BY <1>1, <2>2
    <2> QED BY <1>9, <2>1, <2>2 DEF async_shutdown, Turn
  <1>10. CASE login_timer_expires
    <2> DEFINE h == <<"login_timer", "ok">>
    <2>1. h \in Handlers /\ h[1] = "login_timer" /\ x # "login_timer"
      BY <1>0 DEF Handlers, Codes
    <2>2. loop' = Append(loop, h) /\ wait' = wait
      BY <1>10 DEF login_timer_expires
    <2> HIDE DEF h
    <2>3. <<h>> \in Seq(Handlers) /\ Count(x, <<h>>) = 0
      BY <2>1, CountOne
    <2>4. loop' = loop \o <<h>>
      BY <1>a, <2>1, <2>2, AppendConcat
    <2>5. Count(x, loop') = Count(x, loop) + Count(x, <<h>>)
      BY <1>a, <2>3, <2>4, CountConcat
    <2> QED BY <1>b, <2>2, <2>3, <2>5 DEF Total
  <1>11. ASSUME \E y \in Ops, c \in Codes : Complete(y, c)
         PROVE  Total(x, wait', loop') <= Total(x, wait, loop)
    BY <1>11, <1>b, OthersCompleted
  <1>12. CASE fetch_timer_expires \/ Succeeds \/ Breaks
    BY <1>0, <1>11, <1>12 DEF fetch_timer_expires, Succeeds, Breaks
  <1>13. CASE Serves \/ GoesMute
    BY <1>1, <1>13 DEF Serves, GoesMute, loopVars
  <1>14. CASE Signal
    BY <1>0, <1>1, <1>11, <1>14 DEF Signal
  <1> QED BY <1>3, <1>4, <1>5, <1>6, <1>7, <1>8, <1>9, <1>10, <1>12, <1>13, <1>14 DEF ConnNext, Handle

\* LOGOUT has been answered.  Then there is nothing left to parse.
Final == outcome = "post_login" /\ pending = {}
FinalInv == Final => input = <<>>

\* What has led to a shutdown: the first signal, and LOGOUT's answer.
Causes == (IF signaled THEN 1 ELSE 0) + (IF Final THEN 1 ELSE 0)

\* No more shutdowns have been started than there were causes; signals are waited
\* for once.
OthersInv ==
    /\ FinalInv
    /\ Total("signal", wait, loop) <= 1
    /\ Total("shutdown", wait, loop) <= Causes

\* LOGOUT's answer is the last thing that the server has sent.
LEMMA FinalStep == DialogueInv /\ FinalInv /\ [Next]_lvars => FinalInv'
  <1> SUFFICES ASSUME DialogueInv, FinalInv, [Next]_lvars, Final' PROVE input' = <<>>
    BY DEF FinalInv
  <1>1. CASE \E t \in Tags : TaggedOK(t)
    BY <1>1, TaggedIsLast
  <1>2. CASE Final /\ input = <<>>
    <2>1. requests = <<>> /\ timer = "done" /\ ~inList
      BY <1>2 DEF Final, DialogueInv, TypeOK
    <2>2. ~ServerAnswers /\ ~TimerExpires /\ ~do_pre_login
      BY <2>1 DEF ServerAnswers, TimerExpires, do_pre_login
    <2>3. \A t : ~TaggedOK(t)
      BY <1>2 DEF TaggedOK
    <2>4. /\ ~capability_begin /\ ~capability_end /\ ~untagged_end /\ ~code_begin
          /\ ~imap_tagged_status_failed /\ \A c : ~imap_capability(c)
      BY <1>2, <2>1 DEF capability_begin, capability_end, untagged_end, code_begin,
         imap_tagged_status_failed, imap_capability
    <2>5. UNCHANGED lvars
      BY <2>2, <2>3, <2>4 DEF Next, capabilities_received, logged_in, capabilities_received_again,
         next_command, logged_out
    <2> QED BY <1>2, <2>5 DEF lvars
  <1>3. CASE ~(\E t \in Tags : TaggedOK(t)) /\ ~Final
    <2>0. LoginTags \subseteq Tags /\ TaskTags \subseteq Tags /\ "logout" \in Tags
          /\ {"capability_1", "login", "capability_2"} = LoginTags
      BY DEF Tags, LoginTags, TaskTags
    <2>1. /\ ~capabilities_received /\ ~logged_in /\ ~capabilities_received_again /\ ~logged_out
          /\ \A t, u \in TaskTags : ~next_command(t, u)
      BY <1>3, <2>0 DEF capabilities_received, logged_in, capabilities_received_again, logged_out,
         next_command
    <2>2. CASE do_pre_login
      <3>1. outcome # "post_login" /\ outcome' \in {outcome, "thrown"}
        BY <2>2 DEF do_pre_login, DialogueInv, async_login, Send
      <3> QED BY <3>1 DEF Final
    <2>3. CASE \/ TimerExpires \/ capability_begin \/ (\E c \in Caps : imap_capability(c))
               \/ capability_end \/ untagged_end \/ code_begin \/ imap_tagged_status_failed
               \/ ServerAnswers \/ UNCHANGED lvars
      <3>1. UNCHANGED pending /\ outcome' \in {outcome, "thrown"}
        BY <2>3 DEF TimerExpires, capability_begin, imap_capability, capability_end, untagged_end,
           code_begin, imap_tagged_status_failed, ServerAnswers, lvars
      <3> QED BY <1>3, <3>1 DEF Final
    <2> QED BY <2>1, <2>2, <2>3 DEF Next
  <1> QED BY <1>1, <1>2, <1>3 DEF FinalInv

\* After that the dialogue is over.
LEMMA FinalStays ==
  ASSUME DialogueInv, LoopInv, FinalInv, Final, [ConnNext]_vars
  PROVE  Final' /\ ~finished
  <1>1. input = <<>> /\ requests = <<>> /\ timer = "done"
    BY DEF FinalInv, Final, DialogueInv
  <1>2. fresh \in 0 .. Len(input) /\ Len(input) = 0
    BY <1>1 DEF LoopInv, LoopTypeOK
  <1>3. ~InChunk
    BY <1>2 DEF InChunk
  <1>4. ~login_timer /\ ~login_timer_expires /\ ~Serves
    BY <1>1 DEF login_timer, do_pre_login, login_timer_expires, TimerExpires, Serves
  <1>5. ~login_callback /\ ~task_command /\ ~finished
    BY <1>3 DEF login_callback, task_command, finished
  <1>6. UNCHANGED lvars
    BY <1>4, <1>5 DEF ConnNext, Handle, vars, async_connect, async_handshake, handshaken,
       operation_failed, do_read, read_failed, written, fetch_timer, do_signal, do_signal_again,
       signal_cancelled, async_shutdown, run_returns, fetch_timer_expires, Succeeds, Breaks,
       GoesMute, Signal
  <1> QED BY <1>5, <1>6 DEF Final, lvars

\* A signal starts one shutdown, and LOGOUT's answer another.
LEMMA OthersInvStep ==
  ASSUME DialogueInv, LoopInv, OthersInv, [ConnNext]_vars
  PROVE  OthersInv'
  <1>0. /\ loop \in Seq(Handlers) /\ wait \in SUBSET Ops
        /\ signaled \in BOOLEAN /\ "signal" \in Others /\ "shutdown" \in Others
        /\ "signal" \in Ops
    BY DEF LoopInv, LoopTypeOK, Others, Ops
  <1>a. /\ Total("signal", wait, loop) \in Nat /\ Total("shutdown", wait, loop) \in Nat
        /\ Total("signal", wait, loop) <= 1
        /\ Total("shutdown", wait, loop) <= Causes /\ Causes \in Nat
    BY <1>0, TotalType DEF OthersInv, Causes
  <1>1. FinalInv'
    BY FinalStep, ConnStepIsLoginStep DEF OthersInv
  <1>2. LoopInv'
    BY LoopStep
  <1>3. /\ Total("signal", wait', loop') \in Nat /\ Total("shutdown", wait', loop') \in Nat
    <2>1. loop' \in Seq(Handlers)
      BY <1>2 DEF LoopInv, LoopTypeOK
    <2> QED BY <2>1, TotalType
  <1>4. Final => Final' /\ ~finished
    BY FinalStays DEF OthersInv
  <1>5. CASE finished
    <2> DEFINE L == << <<"read", "parsed">> >> \o Tail(loop)
    <2>1. InChunk /\ logged_out /\ do_quit(wait, L) /\ UNCHANGED signaled
      BY <1>5 DEF finished
    <2>2. /\ L \in Seq(Handlers) /\ Count("signal", L) = Count("signal", loop)
          /\ Count("shutdown", L) = Count("shutdown", loop)
      BY <1>0, <2>1, CountParsed
    <2> HIDE DEF L
    <2>3. /\ Total("shutdown", wait', loop') <= Total("shutdown", wait, L) + 1
          /\ Total("signal", wait', loop') = Total("signal", wait, L)
      BY <1>0, <2>1, <2>2, OthersQuit
    <2>4. /\ Total("shutdown", wait, L) = Total("shutdown", wait, loop)
          /\ Total("signal", wait, L) = Total("signal", wait, loop)
      BY <2>2 DEF Total
    <2>5. ~Final /\ Final'
      <3>1. pending = {"logout"} /\ pending' = {} /\ outcome' = outcome
        BY <2>1, TaggedIsLast DEF logged_out, Tags, TaskTags
      <3>2. outcome = "post_login"
        BY <2>1, <3>1 DEF logged_out, TaggedOK, Running, DialogueInv, TypeOK, LoginTags
      <3> QED BY <1>4, <1>5, <3>1, <3>2 DEF Final
    <2>6. Causes' = Causes + 1
      BY <1>0, <2>1, <2>5 DEF Causes
    <2> QED BY <1>1, <1>3, <1>a, <2>3, <2>4, <2>6 DEF OthersInv
  <1>6. CASE do_signal
    <2> DEFINE P == Tail(loop)
    <2>1. /\ loop # <<>> /\ loop[1][1] = "signal" /\ signaled = FALSE /\ signaled' = TRUE
          /\ UNCHANGED lvars
      BY <1>0, <1>6, TurnFacts DEF do_signal
    <2>2. /\ P \in Seq(Handlers)
          /\ Count("signal", loop) = Count("signal", P) + 1
          /\ Count("shutdown", loop) = Count("shutdown", P) + 0
      BY <1>0, <2>1, CountPop
    <2>3. /\ Count("signal", P) \in Nat /\ Count("shutdown", P) \in Nat
      BY <2>2, CountType
    <2>4. "signal" \notin wait /\ Count("signal", P) = 0
      BY <1>a, <2>2, <2>3 DEF Total
    <2>5. Causes' = Causes + 1
      BY <2>1 DEF Causes, Final, lvars
    <2>6. ASSUME NEW W \in SUBSET Ops, NEW L \in Seq(Handlers), do_quit(W, L),
                 Total("signal", W, L) <= 1,
                 Total("shutdown", W, L) = Total("shutdown", wait, loop)
          PROVE  OthersInv'
      <3>1. /\ Total("shutdown", wait', loop') <= Total("shutdown", W, L) + 1
            /\ Total("signal", wait', loop') = Total("signal", W, L)
        BY <2>6, OthersQuit
      <3> QED BY <1>1, <1>3, <1>a, <2>5, <2>6, <3>1 DEF OthersInv
    <2>7. CASE caught > 0
      <3> DEFINE h == <<"signal", "ok">>
                 L == Append(P, h)
      <3>1. do_quit(wait, L)
        BY <1>6, <2>7 DEF do_signal
      <3>2. h \in Handlers /\ h[1] = "signal"
        BY <1>0 DEF Handlers, Codes
      <3> HIDE DEF h, P
      <3>3. L = P \o <<h>> /\ <<h>> \in Seq(Handlers)
        BY <2>2, <3>2, AppendConcat
      <3>4. Count("signal", <<h>>) = 1 /\ Count("shutdown", <<h>>) = 0
        BY <3>2, CountOne
      <3> HIDE DEF L
      <3>5. L \in Seq(Handlers) /\ \A x : Count(x, L) = Count(x, P) + Count(x, <<h>>)
        <4>1. \A x : Count(x, P \o <<h>>) = Count(x, P) + Count(x, <<h>>)
          BY <2>2, <3>3, CountConcat
        <4>2. P \o <<h>> \in Seq(Handlers)
          BY <2>2, <3>3, ConcatFacts
        <4> QED BY <3>3, <4>1, <4>2
      <3>6. Total("signal", wait, L) <= 1
        BY <2>4, <3>4, <3>5 DEF Total
      <3>7. Total("shutdown", wait, L) = Total("shutdown", wait, loop)
        BY <2>2, <2>3, <3>4, <3>5 DEF Total
      <3> QED BY <1>0, <2>6, <3>1, <3>5, <3>6, <3>7
    <2>8. CASE ~(caught > 0)
      <3> DEFINE W == wait \cup {"signal"}
      <3>1. do_quit(W, P)
        BY <1>6, <2>8 DEF do_signal
      <3> HIDE DEF P
      <3>2. W \in SUBSET Ops
        BY <1>0
      <3>3. Total("signal", W, P) <= 1
        BY <2>4 DEF Total
      <3>4. Total("shutdown", W, P) = Total("shutdown", wait, loop)
        BY <2>2, <2>3 DEF Total
      <3> QED BY <2>2, <2>6, <3>1, <3>2, <3>3, <3>4
    <2> QED BY <2>7, <2>8
  <1>7. CASE ConnNext /\ ~finished /\ ~do_signal
    <2>1. /\ Total("signal", wait', loop') <= Total("signal", wait, loop)
          /\ Total("shutdown", wait', loop') <= Total("shutdown", wait, loop)
      BY <1>0, <1>7, OthersStep
    <2>2. signaled' = signaled
      BY <1>7 DEF ConnNext, Handle, async_connect, async_handshake, handshaken, operation_failed,
         login_callback, task_command, do_read, read_failed, written, login_timer, fetch_timer,
         do_signal_again, signal_cancelled, async_shutdown, run_returns, login_timer_expires,
         fetch_timer_expires, Succeeds, Breaks, Serves, GoesMute, Signal, handlerVars
    <2>3. Causes' >= Causes /\ Causes' \in Nat
      BY <1>0, <1>4, <2>2 DEF Causes
    <2> QED BY <1>1, <1>3, <1>a, <2>1, <2>3 DEF OthersInv
  <1>8. CASE UNCHANGED vars
    BY <1>1, <1>8 DEF OthersInv, Causes, Final, vars, lvars, cvars
  <1> QED BY <1>5, <1>6, <1>7, <1>8

\* At the start a signal is waited for, and nothing is queued.
LEMMA OthersInit == ConnInit => OthersInv
  <1> SUFFICES ASSUME ConnInit PROVE OthersInv
    OBVIOUS
  <1>1. wait = {"resolve", "signal"} /\ loop = <<>> /\ outcome = "open"
    BY DEF ConnInit, Init
  <1>2. {i \in DOMAIN loop : loop[i][1] = "signal"} = {} /\ {i \in DOMAIN loop : loop[i][1] = "shutdown"} = {}
    BY <1>1
  <1>3. Count("signal", loop) = 0 /\ Count("shutdown", loop) = 0
    BY <1>2, FS_EmptySet DEF Count
  <1>4. "signal" \in wait /\ "shutdown" \notin wait
    BY <1>1
  <1>5. Total("signal", wait, loop) = 1 /\ Total("shutdown", wait, loop) = 0
    BY <1>3, <1>4 DEF Total
  <1>6. 0 <= Causes
    BY DEF Causes
  <1> QED BY <1>1, <1>5, <1>6 DEF OthersInv, FinalInv, Final

\* No operation is started while the same one is outstanding or queued, except for the
\* TLS shutdown: a signal starts it once and LOGOUT's answer once, whatever of the
\* other is still under way.
THEOREM OneOfEachAlways == ConnSpec => []OneOfEach
  <1>1. ASSUME DialogueInv, LoopInv PROVE ConnTypeOK
    <2>1. queue \in Seq(Tags) /\ Len(queue) <= 1 /\ loop \in Seq(Handlers)
      BY <1>1 DEF LoopInv, LoopTypeOK
    <2>2. Len(queue) \in Nat /\ DOMAIN queue = 1 .. Len(queue)
      BY <2>1
    <2>3. IsInjective(queue)
      BY <2>1, <2>2 DEF IsInjective
    <2>4. ToSet(queue) \subseteq Tags
      BY <2>1 DEF ToSet
    <2>5. \A i \in DOMAIN loop : loop[i] \in (Ops \cup {"login_timer"}) \X Codes
      BY <2>1 DEF Handlers
    <2>6. caught \in 0 .. MaxSignals
      BY <1>1, ConnectionAssumption DEF LoopInv, LoopTypeOK
    <2> QED BY <1>1, <2>3, <2>4, <2>5, <2>6
        DEF ConnTypeOK, LoopInv, LoopTypeOK, DialogueInv
  <1>2. ASSUME LoopInv, NEW x \in Ops \ Others
        PROVE  Started(x) <= 1
    <2> DEFINE S == {i \in DOMAIN loop : loop[i][1] = x}
    <2>1. x \in Once /\ Single(Once, wait, loop)
      BY <1>2 DEF Ops, SocketOps, Once, Opening, LoopInv, Others
    <2>2. CASE S = {}
      <3>1. Cardinality(S) = 0
        BY <2>2, FS_EmptySet
      <3> QED BY <3>1 DEF Started
    <2>3. CASE S # {}
      <3>1. PICK i \in S : TRUE
        BY <2>3
      <3>2. S = {i} /\ x \notin wait
        BY <2>1, <3>1 DEF Single
      <3>3. Cardinality(S) = 1
        BY <3>2, FS_Singleton
      <3> QED BY <3>2, <3>3 DEF Started
    <2> QED BY <2>2, <2>3
  <1>3. ASSUME OthersInv
        PROVE  Started("signal") <= 1 /\ Started("shutdown") <= Causes
    BY <1>3 DEF OthersInv, Started, Total, Count
  <1>4. DialogueInv /\ LoopInv /\ OthersInv => OneOfEach
    BY <1>1, <1>2, <1>3 DEF OneOfEach, Others, Causes, Final
  <1>5. (DialogueInv /\ LoopInv) /\ OthersInv /\ [ConnNext]_vars => OthersInv'
    BY OthersInvStep
  <1> QED BY <1>4, <1>5, OthersInit, LoopInvariant, PTL DEF ConnSpec
-----------------------------------------------------------------------------
\* What may be queued if nobody disturbs.
LEMMA CalmTurn ==
  ASSUME LoopInv, Calm, NEW x, NEW c, Turn(x, c)
  PROVE  <<x, c>> \in CalmHandlers
  <1>1. loop \in Seq(Handlers) /\ loop # <<>> /\ loop[1] = <<x, c>>
    BY TurnFacts
  <1>2. loop[1] \in ToSet(loop)
    <2>1. 1 \in DOMAIN loop
      BY <1>1
    <2> QED BY <2>1 DEF ToSet
  <1> QED BY <1>1, <1>2 DEF Calm

\* The error codes of these handlers.
LEMMA CalmCodes ==
  ASSUME NEW x, NEW c, <<x, c>> \in CalmHandlers
  PROVE  \/ c = "ok" /\ x \in Once \cup {"shutdown"}
         \/ c = "aborted" /\ x \in {"signal", "fetch_timer", "login_timer"}
         \/ c = "parsed" /\ x = "read"
         \/ c = "eof" /\ x = "shutdown"
  <1>1. CASE \E y \in Once \cup {"shutdown"} : <<x, c>> = <<y, "ok">>
    BY <1>1
  <1>2. CASE \E y \in {"signal", "fetch_timer", "login_timer"} : <<x, c>> = <<y, "aborted">>
    BY <1>2
  <1>3. CASE <<x, c>> = <<"read", "parsed">> \/ <<x, c>> = <<"shutdown", "eof">>
    BY <1>3
  <1> QED BY <1>1, <1>2, <1>3 DEF CalmHandlers

\* A step that keeps the socket as it is.
LEMMA CalmSame ==
  ASSUME Calm, LoopInv, LoopInv', conn' = conn, UNCHANGED <<established, loggedOut>>,
         established' \/ \A x : x \in Active(Once, wait', loop') => x \in Active(Once, wait, loop),
         \A h \in ToSet(loop') : h \in CalmHandlers, Single(Farewell, wait', loop'),
         \A x : x \in Active(Farewell, wait', loop') => x \in Active(Farewell, wait, loop),
         loggedOut => /\ pending' = {} /\ outcome' = "post_login"
                      /\ \A x \in wait' : x \in SocketOps => x \in wait
  PROVE  Calm'
  <1>1. \A x \in Opening : x \in UnderWay' => x \in UnderWay
    <2>1. CASE established'
      BY <2>1 DEF LoopInv
    <2>2. CASE ~established'
      BY <2>2 DEF UnderWay
    <2> QED BY <2>1, <2>2
  <1>2. /\ "resolve" \in UnderWay' => conn' = "resolving"
        /\ "connect" \in UnderWay' => conn' = "connecting"
        /\ "handshake" \in UnderWay' => conn' = "handshaking"
    BY <1>1 DEF Calm, Opening
  <1>3. ~loggedOut' => /\ established' => conn' = "open"
                       /\ \A x : x \notin Active(Farewell, wait', loop')
    BY DEF Calm
  <1>4. loggedOut' => /\ established' /\ pending' = {} /\ outcome' = "post_login"
                      /\ \A x \in wait' : x \in SocketOps => x = "shutdown"
    BY DEF Calm
  <1> QED BY <1>2, <1>3, <1>4 DEF Calm

\* A handler is done, and has started S.
LEMMA CalmHandled ==
  ASSUME LoopInv, Calm, NEW x, NEW c, Turn(x, c), NEW S \in SUBSET Ops, "shutdown" \notin S,
         Handled(S, <<>>)
  PROVE  /\ \A h \in ToSet(loop') : h \in CalmHandlers
         /\ Single(Farewell, wait', loop')
         /\ \A y : y \in Active(Farewell, wait', loop') <=>
               y \in Active(Farewell, wait, loop) /\ y # x
         /\ \A y : y \in wait' <=> y \in wait \/ y \in S
  <1> DEFINE N == {}
             Q == <<>>
  <1>1. /\ wait \in SUBSET Ops /\ loop \in Seq(Handlers) /\ loop # <<>> /\ loop[1][1] = x
        /\ Single(Farewell, wait, loop)
    BY TurnFacts DEF Calm
  <1>2. Begun(Farewell, S, Q, N) /\ \A y : y \notin N
    BY DEF Begun, Farewell
  <1>3. ToSet(Q) = {} /\ Handled(S, Q)
    BY DEF ToSet
  <1> HIDE DEF N, Q
  <1>4. \A y \in N : y \in Active(Farewell, wait, loop) => y = loop[1][1]
    BY <1>2
  <1>5. /\ Single(Farewell, wait', loop')
        /\ \A y : y \in Active(Farewell, wait', loop') <=>
              (y \in Active(Farewell, wait, loop) /\ y # loop[1][1]) \/ y \in N
        /\ \A h \in ToSet(loop') : h \in ToSet(loop) \/ h \in ToSet(Q)
    BY <1>1, <1>2, <1>3, <1>4, HandledFacts
  <1> QED BY <1>1, <1>2, <1>3, <1>5 DEF Calm, Handled

\* The chunk is parsed on; S is started, Q queued.
LEMMA CalmParsed ==
  ASSUME LoopInv, Calm, InChunk, NEW S \in SUBSET Ops, "shutdown" \notin S, NEW Q, Parsed(S, Q),
         Q = <<>> \/ (S = {} /\ Q = << <<"login_timer", "aborted">> >>)
  PROVE  /\ \A h \in ToSet(loop') : h \in CalmHandlers
         /\ Single(Farewell, wait', loop')
         /\ \A y : y \in Active(Farewell, wait', loop') <=> y \in Active(Farewell, wait, loop)
         /\ \A y : y \in wait' <=> y \in wait \/ y \in S
  <1> DEFINE N == {}
  <1>1. /\ wait \in SUBSET Ops /\ loop \in Seq(Handlers) /\ loop # <<>> /\ loop[1][1] = "read"
        /\ Single(Farewell, wait, loop)
    BY ReadingFacts DEF Calm
  <1>2. Begun(Farewell, S, Q, N) /\ \A y : y \notin N
    <2>1. CASE Q = <<>>
      BY <2>1 DEF Begun, Farewell
    <2>2. CASE S = {} /\ Q = << <<"login_timer", "aborted">> >>
      <3> DEFINE h == <<"login_timer", "aborted">>
      <3>1. h \in Handlers /\ h[1] = "login_timer" /\ h[1] \notin Farewell /\ Q = <<h>>
        BY <2>2 DEF Handlers, Codes, Farewell
      <3> HIDE DEF h
      <3> QED BY <2>2, <3>1 DEF Begun
    <2> QED BY <2>1, <2>2
  <1>3. \A h \in ToSet(Q) : h = <<"login_timer", "aborted">>
    BY DEF ToSet
  <1> HIDE DEF N
  <1>4. \A y \in N : y \notin Active(Farewell, wait, loop)
    BY <1>2
  <1>5. /\ Single(Farewell, wait', loop')
        /\ \A y : y \in Active(Farewell, wait', loop') <=>
              y \in Active(Farewell, wait, loop) \/ y \in N
        /\ \A h \in ToSet(loop') :
              h \in ToSet(loop) \/ h \in ToSet(Q) \/ h = <<"read", "parsed">>
    BY <1>1, <1>2, <1>4, ParsedFacts
  <1>6. <<"read", "parsed">> \in CalmHandlers /\ <<"login_timer", "aborted">> \in CalmHandlers
    BY DEF CalmHandlers
  <1>7. \A h \in ToSet(loop') : h \in CalmHandlers
    BY <1>3, <1>5, <1>6 DEF Calm
  <1> QED BY <1>2, <1>5, <1>7 DEF Parsed

\* On an open socket nothing fails at once.
LEMMA OpenFacts ==
  ASSUME NEW x \in Ops, conn \in {"open", "connecting", "handshaking"}, x = "write" => conn = "open"
  PROVE  Waits(x, conn) = {x} /\ Fails(x, conn) = <<>>
  BY DEF Waits, Fails, FailsAtOnce

\* The socket's state follows the handlers that open it.
LEMMA CalmOpening ==
  ASSUME LoopInv, LoopInv', Calm, async_connect \/ async_handshake \/ handshaken
  PROVE  Calm'
  <1>0. /\ "resolve" \in Opening /\ "connect" \in Opening /\ "handshake" \in Opening
        /\ Opening \subseteq Once
        /\ "connect" \in Ops /\ "handshake" \in Ops /\ "read" \in Ops
    BY DEF Opening, Once, Ops, SocketOps
  <1>1. ASSUME NEW x \in Opening, NEW c, Turn(x, c), NEW z \in Ops, z # "shutdown", Handled({z}, <<>>),
               UNCHANGED loggedOut,
               \/ z = "connect" /\ conn' = "connecting" /\ UNCHANGED established
               \/ z = "handshake" /\ conn' = "handshaking" /\ UNCHANGED established
               \/ conn' = "open" /\ established' = TRUE
        PROVE  Calm'
    <2>1. established = FALSE /\ \A y : y \in Active(Once, wait, loop) <=> y = x
      BY <1>1, OpeningFacts
    <2>2. ~loggedOut /\ \A y : y \notin Active(Farewell, wait, loop)
      BY <2>1 DEF Calm
    <2> DEFINE S == {z}
    <2>3. S \in SUBSET Ops /\ "shutdown" \notin S /\ Handled(S, <<>>) /\ \A y : y \in S <=> y = z
      BY <1>1
    <2> HIDE DEF S
    <2>4. /\ \A h \in ToSet(loop') : h \in CalmHandlers
          /\ Single(Farewell, wait', loop')
          /\ \A y : y \in Active(Farewell, wait', loop') <=>
                y \in Active(Farewell, wait, loop) /\ y # x
          /\ \A y : y \in wait' <=> y \in wait \/ y \in S
      BY <1>1, <2>3, CalmHandled
    <2>5. CASE conn' = "open" /\ established' = TRUE
      <3>1. \A y \in UnderWay' : y \notin Opening
        BY <2>5 DEF LoopInv
      <3> QED BY <1>0, <1>1, <2>2, <2>4, <2>5, <3>1 DEF Calm
    <2>6. CASE z \in Opening /\ established' = FALSE
      <3>1. z \in UnderWay'
        BY <1>0, <2>3, <2>4, <2>6 DEF UnderWay, Active
      <3>2. \A y \in UnderWay' : y = z
        BY <2>6, <3>1 DEF LoopInv
      <3> QED BY <1>0, <1>1, <2>2, <2>4, <2>6, <3>2 DEF Calm
    <2> QED BY <1>0, <1>1, <2>1, <2>5, <2>6
  <1>2. \A x \in Opening : \A c : Turn(x, c) => x \in UnderWay
    BY <1>0, TurnFacts
  <1>3. CASE async_connect
    BY <1>0, <1>1, <1>3 DEF async_connect, handlerVars
  <1>4. CASE async_handshake
    <2>1. conn = "connecting" /\ Turn("connect", "ok") /\ UNCHANGED loggedOut
      BY <1>0, <1>2, <1>4 DEF async_handshake, Calm
    <2>2. CASE tls
      <3>1. Handled(Waits("handshake", conn), Fails("handshake", conn))
            /\ conn' = "handshaking" /\ UNCHANGED established
        BY <1>4, <2>1, <2>2 DEF async_handshake
      <3>2. Handled({"handshake"}, <<>>)
        BY <1>0, <2>1, <3>1, OpenFacts
      <3> QED BY <1>0, <1>1, <2>1, <3>1, <3>2
    <2>3. CASE ~tls
      <3>1. /\ Handled(Waits("read", conn), Fails("read", conn))
            /\ conn' = "open" /\ established' = TRUE
        BY <1>4, <2>1, <2>3 DEF async_handshake, Start
      <3>2. Handled({"read"}, <<>>)
        BY <1>0, <2>1, <3>1, OpenFacts
      <3> QED BY <1>0, <1>1, <2>1, <3>1, <3>2
    <2> QED BY <2>2, <2>3
  <1>5. CASE handshaken
    <2>1. conn = "handshaking" /\ Turn("handshake", "ok") /\ UNCHANGED loggedOut
      BY <1>0, <1>2, <1>5 DEF handshaken, Calm
    <2>2. /\ Handled(Waits("read", conn), Fails("read", conn))
          /\ conn' = "open" /\ established' = TRUE
      BY <1>5, <2>1 DEF handshaken, Start
    <2>3. Handled({"read"}, <<>>)
      BY <1>0, <2>1, <2>2, OpenFacts
    <2> QED BY <1>0, <1>1, <2>1, <2>2, <2>3
  <1> QED BY <1>3, <1>4, <1>5
\* The callbacks of the dialogue.
LEMMA CalmLoginCallback ==
  ASSUME DialogueInv, LoopInv, LoopInv', Calm, login_callback, ended' = ended
  PROVE  Calm' \/ outcome' = "thrown"
  <1>0. "write" \in Ops /\ "shutdown" # "write" /\ ended # "thrown"
    BY DEF Ops, SocketOps, login_callback, InChunk, Turn, Alive
  <1>1. InChunk /\ LoginCallback /\ established = TRUE
    BY ReadingFacts DEF login_callback
  <1>2. UNCHANGED <<conn, established, loggedOut>>
    BY DEF login_callback, handlerVars
  <1>3. ASSUME NEW S \in SUBSET Ops, "shutdown" \notin S, NEW Q, Parsed(S, Q),
               Q = <<>> \/ (S = {} /\ Q = << <<"login_timer", "aborted">> >>),
               loggedOut => S = {} /\ pending' = {} /\ outcome' = "post_login"
        PROVE  Calm'
    <2>1. /\ \A h \in ToSet(loop') : h \in CalmHandlers
          /\ Single(Farewell, wait', loop')
          /\ \A y : y \in Active(Farewell, wait', loop') <=> y \in Active(Farewell, wait, loop)
          /\ \A y : y \in wait' <=> y \in wait \/ y \in S
      BY <1>1, <1>3, CalmParsed
    <2>2. loggedOut => /\ pending' = {} /\ outcome' = "post_login"
                       /\ \A x \in wait' : x \in SocketOps => x \in wait
      BY <1>3, <2>1
    <2> QED BY <1>1, <1>2, <2>1, <2>2, CalmSame
  <1>4. CASE Len(requests') > Len(requests)
    <2>1. queue = <<>> /\ pending # {} /\ requests = <<>>
      <3>1. \/ queue = <<>> /\ requests = <<>> /\ input' = <<>> /\ outcome = "open"
            \/ UNCHANGED requests
        BY <1>1, LoginCallbackFacts
      <3>2. ~UNCHANGED requests
        <4>1. Len(requests) \in Nat
          BY DEF DialogueInv, TypeOK
        <4> QED BY <1>4, <4>1
      <3>3. pending # {}
        BY <1>1, <3>2 DEF LoginCallback, capability_begin, imap_capability, capability_end,
           code_begin, untagged_end, imap_tagged_status_failed, capabilities_received, logged_in,
           capabilities_received_again, TaggedOK
      <3> QED BY <3>1, <3>2, <3>3
    <2>2. ~loggedOut /\ conn = "open"
      BY <1>1, <2>1 DEF Calm
    <2> DEFINE S == {"write"}
               Q == <<>>
    <2>3. WriteWaits = S /\ WriteFails = Q
      BY <1>0, <2>1, <2>2, OpenFacts DEF WriteWaits, WriteFails
    <2>4. Parsed(S, Q)
      BY <1>4, <2>3 DEF login_callback
    <2>5. S \in SUBSET Ops /\ "shutdown" \notin S /\ Q = <<>>
      BY <1>0
    <2> HIDE DEF S, Q
    <2> QED BY <1>3, <2>2, <2>4, <2>5
  <1>5. CASE ~(Len(requests') > Len(requests)) /\ outcome' # "thrown"
    <2> DEFINE S == {}
               Q == IF timer = "armed" /\ timer' = "queued"
                    THEN << <<"login_timer", "aborted">> >> ELSE <<>>
    <2>1. Parsed(S, Q)
      BY <1>5 DEF login_callback
    <2>2. /\ S \in SUBSET Ops /\ "shutdown" \notin S /\ S = {}
          /\ Q = <<>> \/ Q = << <<"login_timer", "aborted">> >>
      OBVIOUS
    <2>3. loggedOut => pending' = {} /\ outcome' = "post_login"
      <3> SUFFICES ASSUME loggedOut PROVE pending' = {} /\ outcome' = "post_login"
        OBVIOUS
      <3>1. pending = {} /\ outcome = "post_login"
        BY DEF Calm
      <3>2. UNCHANGED <<requests, pending>> /\ outcome' \in {outcome, "thrown"}
        BY <1>1, <3>1, LoginCallbackFacts
      <3> QED BY <1>5, <3>1, <3>2
    <2> HIDE DEF S, Q
    <2> QED BY <1>3, <2>1, <2>2, <2>3
  <1> QED BY <1>4, <1>5

\* The next command is written to an open socket.
LEMMA CalmTaskCommand ==
  ASSUME DialogueInv, LoopInv, LoopInv', Calm, task_command
  PROVE  Calm'
  <1>0. TaskTags \subseteq Tags /\ "write" \in Ops /\ "fetch_timer" \in Ops
    BY DEF Tags, Ops, SocketOps
  <1> DEFINE stops(t) == t = "fetch" /\ "fetch_timer" \in wait
             B(t) == {x \in {"fetch_timer"} : stops(t)}
             L == << <<"read", "parsed">> >> \o Tail(loop)
  <1>1. PICK t \in TaskTags, s \in TaskTags :
          /\ next_command(t, s)
          /\ wait' = (IF stops(t) THEN wait \ {"fetch_timer"} ELSE wait) \cup WriteWaits
                        \cup (IF s = "fetch" THEN {"fetch_timer"} ELSE {})
          /\ loop' = L \o Aborted(B(t)) \o WriteFails
    BY DEF task_command
  <1>2. InChunk /\ TaggedOK(t) /\ UNCHANGED <<conn, established, loggedOut>>
    BY <1>1 DEF next_command, task_command
  <1>3. /\ wait \in SUBSET Ops /\ loop \in Seq(Handlers) /\ loop # <<>> /\ loop[1][1] = "read"
        /\ established = TRUE /\ Single(Farewell, wait, loop)
    BY <1>2, ReadingFacts DEF Calm
  <1>4. queue = <<>> /\ pending = {t}
    BY <1>0, <1>2, AnsweredFacts
  <1>5. /\ ~loggedOut /\ conn = "open"
        /\ \A x : x \notin Active(Farewell, wait, loop)
    BY <1>3, <1>4 DEF Calm
  <1>6. WriteWaits = {"write"} /\ WriteFails = <<>>
    BY <1>0, <1>4, <1>5, OpenFacts DEF WriteWaits, WriteFails
  <1>7. /\ L \in Seq(Handlers) /\ DOMAIN L = DOMAIN loop
        /\ \A i \in DOMAIN loop : L[i] = IF i = 1 THEN <<"read", "parsed">> ELSE loop[i]
    BY <1>3, ParsedActive
  <1> DEFINE A == Aborted(B(t))
  <1>8. A \in Seq(Handlers) /\ \A i \in DOMAIN A : A[i] = <<"fetch_timer", "aborted">>
    <2> DEFINE C == B(t)
    <2>1. C \in SUBSET Ops /\ \A x \in C : x = "fetch_timer"
      BY <1>0
    <2> HIDE DEF C
    <2>2. /\ Aborted(C) \in Seq(Handlers)
          /\ \A i \in DOMAIN Aborted(C) : \E x \in C : Aborted(C)[i] = <<x, "aborted">>
      BY <2>1, AbortedFacts
    <2>3. A = Aborted(C)
      BY DEF C
    <2> HIDE DEF A
    <2> QED BY <2>1, <2>2, <2>3
  <1>9. loop' = L \o A
    <2>1. loop' = (L \o A) \o <<>>
      BY <1>1, <1>6
    <2> HIDE DEF L, A
    <2>2. L \o A \in Seq(Handlers)
      BY <1>7, <1>8
    <2> QED BY <2>1, <2>2
  <1>10. \A x \in wait' : x \in wait \/ x = "write" \/ x = "fetch_timer"
    BY <1>1, <1>6
  <1> HIDE DEF L, A, B
  <1>11. \A i \in DOMAIN loop' : \/ i \in DOMAIN loop /\ loop'[i] \in {loop[i], <<"read", "parsed">>}
                                 \/ loop'[i] = <<"fetch_timer", "aborted">>
    BY <1>7, <1>8, <1>9, ConcatFacts
  <1>12. \A h \in ToSet(loop') : h \in ToSet(loop) \/ h = <<"read", "parsed">>
                                   \/ h = <<"fetch_timer", "aborted">>
    BY <1>11 DEF ToSet
  <1>13. <<"read", "parsed">> \in CalmHandlers /\ <<"fetch_timer", "aborted">> \in CalmHandlers
    BY DEF CalmHandlers
  <1>14. \A h \in ToSet(loop') : h \in CalmHandlers
    BY <1>12, <1>13 DEF Calm
  <1>15. "shutdown" \notin wait /\ \A i \in DOMAIN loop : loop[i][1] # "shutdown"
    BY <1>5 DEF Active, Farewell
  <1>16. "shutdown" \notin wait' /\ \A i \in DOMAIN loop' : loop'[i][1] # "shutdown"
    BY <1>10, <1>11, <1>15
  <1>17. Single(Farewell, wait', loop') /\ \A x : x \notin Active(Farewell, wait', loop')
    BY <1>16 DEF Single, Active, Farewell
  <1> QED BY <1>2, <1>3, <1>5, <1>14, <1>17, CalmSame

\* do_quit() finds the socket open, and nothing outstanding on it.
LEMMA CalmFinished ==
  ASSUME DialogueInv, LoopInv, LoopInv', Calm, finished
  PROVE  Calm' /\ ended' = ended
  <1> DEFINE L == << <<"read", "parsed">> >> \o Tail(loop)
  <1>0. "logout" \in Tags /\ "logout" \in TaskTags /\ "logout" \notin LoginTags
    BY DEF Tags, TaskTags, LoginTags
  <1>1. /\ InChunk /\ logged_out /\ do_quit(wait, L) /\ UNCHANGED established
        /\ TaggedOK("logout")
    BY DEF finished, logged_out
  <1>2. /\ wait \in SUBSET Ops /\ loop \in Seq(Handlers) /\ Single(Once, wait, loop)
        /\ loop # <<>> /\ loop[1][1] = "read"
        /\ established = TRUE /\ \A x \in UnderWay : x \notin Opening
    BY <1>1, ReadingFacts
  <1>3. pending = {"logout"} /\ "write" \notin UnderWay
    BY <1>0, <1>1, AnsweredFacts
  <1>4. outcome = "post_login" /\ outcome' = "post_login" /\ pending' = {}
    BY <1>0, <1>1, <1>3 DEF logged_out, TaggedOK, Running, DialogueInv, TypeOK
  <1>5. /\ ~loggedOut /\ conn = "open"
        /\ \A x : x \notin Active(Farewell, wait, loop)
    BY <1>2, <1>3 DEF Calm
  <1>6. "shutdown" \notin wait /\ \A i \in DOMAIN loop : loop[i][1] # "shutdown"
    BY <1>5 DEF Active, Farewell
  <1>7. \A x \in wait : x \notin SocketOps
    <2>1. "read" \notin wait
      <3>1. 1 \in DOMAIN loop /\ "read" \in Once
        BY <1>2, TailFacts DEF Once
      <3> QED BY <1>2, <3>1 DEF Single
    <2>2. "write" \notin wait /\ "connect" \notin wait /\ "handshake" \notin wait
      BY <1>2, <1>3 DEF UnderWay, Active, Once, Opening
    <2> QED BY <1>6, <2>1, <2>2 DEF SocketOps
  <1>8. /\ L \in Seq(Handlers) /\ DOMAIN L = DOMAIN loop
        /\ \A i \in DOMAIN loop : L[i] = IF i = 1 THEN <<"read", "parsed">> ELSE loop[i]
    BY <1>2, ParsedActive
  <1>9. ASSUME NEW C \in SUBSET Ops, \A x \in C : x = "signal", loop' = L \o Aborted(C)
        PROVE  /\ \A h \in ToSet(loop') : h \in CalmHandlers
               /\ \A i \in DOMAIN loop' : loop'[i][1] # "shutdown"
    <2> DEFINE A == Aborted(C)
    <2>1. /\ A \in Seq(Handlers)
          /\ \A i \in DOMAIN A : \E x \in C : A[i] = <<x, "aborted">>
      BY AbortedFacts
    <2>2. loop' = L \o A
      BY <1>9
    <2> HIDE DEF A, L
    <2>3. \A i \in DOMAIN A : A[i] = <<"signal", "aborted">>
      BY <1>9, <2>1
    <2>4. \A i \in DOMAIN loop' : \/ i \in DOMAIN loop /\ loop'[i] \in {loop[i], <<"read", "parsed">>}
                                  \/ loop'[i] = <<"signal", "aborted">>
      BY <1>8, <2>1, <2>2, <2>3, ConcatFacts
    <2>5. \A h \in ToSet(loop') : h \in ToSet(loop) \/ h = <<"read", "parsed">>
                                     \/ h = <<"signal", "aborted">>
      BY <2>4 DEF ToSet
    <2>6. <<"read", "parsed">> \in CalmHandlers /\ <<"signal", "aborted">> \in CalmHandlers
      BY DEF CalmHandlers
    <2> QED BY <1>6, <2>4, <2>5, <2>6 DEF Calm
  <1>10. ASSUME \A h \in ToSet(loop') : h \in CalmHandlers,
                \A i \in DOMAIN loop' : loop'[i][1] # "shutdown",
                \A x \in wait' : x \in SocketOps => x = "shutdown", loggedOut' = TRUE
         PROVE  Calm'
    <2>1. Single(Farewell, wait', loop')
      BY <1>10 DEF Single, Farewell
    <2>2. established' = TRUE
      BY <1>1, <1>2
    <2>3. \A x \in UnderWay' : x \notin Opening
      BY <2>2 DEF LoopInv
    <2> QED BY <1>4, <1>10, <2>1, <2>2, <2>3 DEF Calm, Opening
  <1>11. CASE tls
    <2> DEFINE C == wait \cap SocketOps
    <2>1. /\ loggedOut' = TRUE /\ wait' = (wait \ SocketOps) \cup {"shutdown"}
          /\ loop' = L \o Aborted(C) /\ UNCHANGED ended
      BY <1>1, <1>5, <1>11 DEF do_quit
    <2>2. C \in SUBSET Ops /\ \A x \in C : x = "signal"
      BY <1>2, <1>7
    <2>3. \A x \in wait' : x \in SocketOps => x = "shutdown"
      BY <2>1
    <2> HIDE DEF C, L
    <2> QED BY <1>9, <1>10, <2>1, <2>2, <2>3
  <1>12. CASE ~tls
    <2> DEFINE C == wait \cap (SocketOps \cup {"signal"})
    <2>1. /\ loggedOut' = TRUE /\ wait' = wait \ (SocketOps \cup {"signal"})
          /\ loop' = L \o Aborted(C) /\ UNCHANGED ended
      BY <1>1, <1>5, <1>12 DEF do_quit, Close
    <2>2. C \in SUBSET Ops /\ \A x \in C : x = "signal"
      BY <1>2, <1>7
    <2>3. \A x \in wait' : x \in SocketOps => x = "shutdown"
      BY <2>1
    <2> HIDE DEF C, L
    <2> QED BY <1>9, <1>10, <2>1, <2>2, <2>3
  <1> QED BY <1>11, <1>12
\* The other handlers.
LEMMA CalmHandler ==
  ASSUME LoopInv, LoopInv', Calm, NEW x, NEW c, Turn(x, c), NEW S \in SUBSET Ops, "shutdown" \notin S,
         Handled(S, <<>>), UNCHANGED <<conn, established, loggedOut>>, established \/ S = {},
         loggedOut => /\ pending' = {} /\ outcome' = "post_login"
                      /\ \A y \in S : y \notin SocketOps
  PROVE  Calm'
  <1>1. /\ \A h \in ToSet(loop') : h \in CalmHandlers
        /\ Single(Farewell, wait', loop')
        /\ \A y : y \in Active(Farewell, wait', loop') <=>
              y \in Active(Farewell, wait, loop) /\ y # x
        /\ \A y : y \in wait' <=> y \in wait \/ y \in S
    BY CalmHandled
  <1>2. established' \/ \A y : y \in Active(Once, wait', loop') => y \in Active(Once, wait, loop)
    <2>1. CASE established
      BY <2>1
    <2>2. CASE S = {}
      <3> DEFINE N == {}
      <3>1. Begun(Once, S, <<>>, N) /\ \A y : y \notin N
        BY <2>2, BegunNothing
      <3> HIDE DEF N
      <3>2. /\ wait \in SUBSET Ops /\ loop \in Seq(Handlers) /\ Single(Once, wait, loop) /\ loop # <<>>
        BY TurnFacts
      <3>3. \A y \in N : y \in Active(Once, wait, loop) => y = loop[1][1]
        BY <3>1
      <3>4. \A y : y \in Active(Once, wait', loop') <=>
               (y \in Active(Once, wait, loop) /\ y # loop[1][1]) \/ y \in N
        BY <3>1, <3>2, <3>3, HandledFacts
      <3> QED BY <3>1, <3>4
    <2> QED BY <2>1, <2>2
  <1>3. loggedOut => /\ pending' = {} /\ outcome' = "post_login"
                     /\ \A y \in wait' : y \in SocketOps => y \in wait
    BY <1>1
  <1> QED BY <1>1, <1>2, <1>3, CalmSame

\* A handler of Once other than one that opens the connection.
LEMMA EstablishedFacts ==
  ASSUME LoopInv, NEW x \in {"read", "write", "login_timer", "fetch_timer"}, NEW c, Turn(x, c)
  PROVE  established = TRUE
  <1>1. x \in UnderWay /\ x \notin Opening
    BY TurnFacts DEF Once, Opening
  <1>2. established \in BOOLEAN
    BY DEF LoopInv, LoopTypeOK
  <1> QED BY <1>1, <1>2 DEF LoopInv

\* Reads and writes on the open socket, and the timers.
LEMMA CalmOthers ==
  ASSUME DialogueInv, LoopInv, LoopInv', Calm,
         do_read \/ written \/ login_timer \/ fetch_timer \/ signal_cancelled
  PROVE  Calm' \/ (outcome' = "thrown" /\ ended' = "thrown")
  <1>0. /\ {"read"} \in SUBSET Ops /\ {"write"} \in SUBSET Ops /\ {"fetch_timer"} \in SUBSET Ops
        /\ {} \in SUBSET Ops /\ "read" \in Ops /\ "write" \in Ops
        /\ "fetch_timer" \notin SocketOps
    BY DEF Ops, SocketOps
  <1>a. /\ "shutdown" \notin {} /\ "shutdown" \notin {"read"} /\ "shutdown" \notin {"write"}
        /\ "shutdown" \notin {"fetch_timer"}
    OBVIOUS
  <1>1. ASSUME UNCHANGED <<pending, outcome>>
        PROVE  loggedOut => pending' = {} /\ outcome' = "post_login"
    BY <1>1 DEF Calm
  <1>2. CASE do_read
    <2>1. /\ Turn("read", "parsed") /\ UNCHANGED <<conn, established, loggedOut, pending, outcome>>
      BY <1>2 DEF do_read, handlerVars, lvars
    <2>2. established = TRUE
      BY <2>1, EstablishedFacts
    <2>3. CASE loggedOut
      <3>1. Handled({}, <<>>)
        BY <1>2, <2>3 DEF do_read
      <3> QED BY <1>0, <1>a, <1>1, <2>1, <3>1, CalmHandler
    <2>4. CASE ~loggedOut
      <3>1. conn = "open"
        BY <2>2, <2>4 DEF Calm
      <3>2. Handled({"read"}, <<>>)
        BY <1>0, <1>2, <2>4, <3>1, OpenFacts DEF do_read
      <3> QED BY <1>0, <1>a, <2>1, <2>2, <2>4, <3>2, CalmHandler
    <2> QED BY <2>3, <2>4
  <1>3. CASE written
    <2>1. /\ Turn("write", "ok") /\ UNCHANGED <<conn, established, loggedOut, pending, outcome>>
          /\ Handled({}, <<>>)
      BY <1>3 DEF written, handlerVars, lvars
    <2> QED BY <1>0, <1>a, <1>1, <2>1, CalmHandler
  <1>4. CASE login_timer
    <2>1. PICK c : Turn("login_timer", c)
      BY <1>4 DEF login_timer
    <2>2. /\ UNCHANGED <<conn, established, loggedOut>> /\ timer = "queued"
          /\ ended' = IF outcome' = "thrown" THEN "thrown" ELSE ended
      BY <1>4 DEF login_timer, handlerVars, do_pre_login
    <2>3. established = TRUE
      BY <2>1, EstablishedFacts
    <2>4. ~loggedOut /\ conn = "open"
      BY <2>2, <2>3 DEF Calm, DialogueInv
    <2>5. queue = <<>>
      BY <2>2 DEF DialogueInv, LoopInv
    <2>6. WriteWaits = {"write"} /\ WriteFails = <<>>
      BY <1>0, <2>4, <2>5, OpenFacts DEF WriteWaits, WriteFails
    <2>7. PICK S \in {{}, {"write"}} : Handled(S, <<>>)
      BY <1>4, <2>6 DEF login_timer
    <2>8. S \in SUBSET Ops /\ "shutdown" \notin S
      BY <1>0, <1>a, <2>7
    <2> QED BY <2>1, <2>2, <2>3, <2>4, <2>7, <2>8, CalmHandler
  <1>5. CASE fetch_timer
    <2>1. UNCHANGED <<conn, established, loggedOut, pending, outcome>>
      BY <1>5 DEF fetch_timer, handlerVars, lvars
    <2>2. PICK c \in {"ok", "aborted"}, S \in {{}, {"fetch_timer"}} :
             Turn("fetch_timer", c) /\ Handled(S, <<>>)
      BY <1>5 DEF fetch_timer
    <2>3. S \in SUBSET Ops /\ "shutdown" \notin S /\ \A y \in S : y \notin SocketOps
      BY <1>0, <1>a, <2>2
    <2>4. established = TRUE
      BY <2>2, EstablishedFacts
    <2> QED BY <1>1, <2>1, <2>2, <2>3, <2>4, CalmHandler
  <1>6. CASE signal_cancelled
    <2>1. /\ Turn("signal", "aborted") /\ UNCHANGED <<conn, established, loggedOut, pending, outcome>>
          /\ Handled({}, <<>>)
      BY <1>6 DEF signal_cancelled, handlerVars, lvars
    <2> QED BY <1>0, <1>a, <1>1, <2>1, CalmHandler
  <1> QED BY <1>2, <1>3, <1>4, <1>5, <1>6

\* After the exchange of close_notify only the wait for signals is left to be aborted.
LEMMA CalmShutdown ==
  ASSUME LoopInv, LoopInv', Calm, async_shutdown
  PROVE  Calm' /\ ended' = ended
  <1> DEFINE P == Tail(loop)
             C == wait \cap (SocketOps \cup {"signal"})
  <1>1. PICK c : Turn("shutdown", c) /\ c \in {"ok", "eof", "aborted", "error"}
    BY DEF async_shutdown
  <1>2. c \in {"ok", "eof"}
    BY <1>1, CalmTurn, CalmCodes
  <1>3. /\ wait \in SUBSET Ops /\ loop \in Seq(Handlers) /\ loop # <<>>
        /\ loop[1] = <<"shutdown", c>> /\ loop[1][1] = "shutdown"
    BY <1>1, TurnFacts
  <1>4. Close(wait, P) /\ UNCHANGED <<established, loggedOut, pending, outcome>>
    <2>1. ~Turn("shutdown", "aborted") /\ ~Turn("shutdown", "error")
      BY <1>1, <1>2 DEF Turn
    <2> QED BY <2>1 DEF async_shutdown, handlerVars, lvars
  <1>5. Single(Farewell, wait, loop) /\ "shutdown" \in Farewell
    BY DEF Calm, Farewell
  <1>6. /\ 1 \in DOMAIN loop /\ P \in Seq(Handlers)
        /\ \A i \in DOMAIN P : i + 1 \in DOMAIN loop /\ P[i] = loop[i + 1] /\ i + 1 # 1
    BY <1>3, TailFacts
  <1>7. "shutdown" \notin wait /\ "shutdown" \in Active(Farewell, wait, loop)
    BY <1>3, <1>5, <1>6 DEF Single, Active
  <1>8. \A i \in DOMAIN P : P[i][1] # "shutdown"
    <2> SUFFICES ASSUME NEW i \in DOMAIN P, P[i][1] = "shutdown" PROVE FALSE
      OBVIOUS
    <2>1. loop[i + 1][1] = loop[1][1] /\ i + 1 \in DOMAIN loop /\ i + 1 # 1
      BY <1>3, <1>6
    <2> QED BY <1>3, <1>5, <1>6, <2>1 DEF Single
  <1>9. loggedOut
    BY <1>7 DEF Calm
  <1>10. C \in SUBSET Ops /\ \A x \in C : x = "signal"
    BY <1>3, <1>7, <1>9 DEF Calm
  <1>11. /\ ended' = ended /\ loop' = P \o Aborted(C)
         /\ \A x \in wait' : x \notin SocketOps
    BY <1>4 DEF Close
  <1> DEFINE A == Aborted(C)
  <1> HIDE DEF C, P
  <1>12. A \in Seq(Handlers) /\ \A i \in DOMAIN A : A[i] = <<"signal", "aborted">>
    <2>1. /\ A \in Seq(Handlers)
          /\ \A i \in DOMAIN A : \E x \in C : A[i] = <<x, "aborted">>
      BY <1>10, AbortedFacts
    <2> HIDE DEF A
    <2> QED BY <1>10, <2>1
  <1>13. loop' = P \o A
    BY <1>11
  <1> HIDE DEF A
  <1>14. \A i \in DOMAIN loop' : (i \in DOMAIN P /\ loop'[i] = P[i]) \/ loop'[i] = <<"signal", "aborted">>
    BY <1>6, <1>12, <1>13, ConcatFacts
  <1>15. \A h \in ToSet(loop') : h \in CalmHandlers
    <2>1. \A h \in ToSet(loop') : h \in ToSet(loop) \/ h = <<"signal", "aborted">>
      BY <1>6, <1>14 DEF ToSet
    <2>2. <<"signal", "aborted">> \in CalmHandlers
      BY DEF CalmHandlers
    <2> QED BY <2>1, <2>2 DEF Calm
  <1>16. \A i \in DOMAIN loop' : loop'[i][1] # "shutdown"
    BY <1>8, <1>14
  <1>17. Single(Farewell, wait', loop')
    BY <1>16 DEF Single, Farewell
  <1>18. established' /\ loggedOut' /\ pending' = {} /\ outcome' = "post_login"
    BY <1>4, <1>9 DEF Calm
  <1>19. \A x \in UnderWay' : x \notin Opening
    BY <1>18 DEF LoopInv
  <1> QED BY <1>11, <1>15, <1>17, <1>18, <1>19 DEF Calm, Opening

\* Nothing but what the environment does to the program can make a handler throw.
LEMMA CalmNeverThrows ==
  ASSUME LoopInv, Calm, operation_failed \/ read_failed \/ do_signal \/ do_signal_again
  PROVE  FALSE
  <1>1. PICK x, c : /\ Turn(x, c)
                    /\ \/ /\ x \in {"resolve", "connect", "handshake", "write", "read"}
                          /\ c \in {"eof", "aborted", "error"}
                       \/ x = "signal" /\ c = "ok"
    BY DEF operation_failed, read_failed, do_signal, do_signal_again
  <1>2. <<x, c>> \in CalmHandlers
    BY <1>1, CalmTurn
  <1> QED BY <1>1, <1>2, CalmCodes DEF Once, Opening

\* An environment that lets nothing fail and sends no signal.
LEMMA CalmEnvironment ==
  ASSUME DialogueInv, LoopInv, LoopInv', Calm, ~failed', signals' = 0,
         \/ login_timer_expires \/ fetch_timer_expires
         \/ Succeeds \/ Breaks \/ Serves \/ GoesMute \/ Signal
  PROVE  Calm'
  <1>0. wait \in SUBSET Ops /\ loop \in Seq(Handlers) /\ Single(Farewell, wait, loop)
        /\ signals \in Nat
    BY ConnectionAssumption DEF LoopInv, LoopTypeOK, Calm
  <1>1. ASSUME NEW x \in Ops, NEW c \in Codes, Complete(x, c), <<x, c>> \in CalmHandlers,
               UNCHANGED <<conn, established, loggedOut, pending, outcome>>
        PROVE  Calm'
    <2>1. \A y : y \in Active(Once, wait', loop') <=> y \in Active(Once, wait, loop)
      BY <1>1, CompleteFacts
    <2> DEFINE h == <<x, c>>
               V == wait'
               M == loop'
    <2>2. h \in Handlers /\ h[1] = x
      BY DEF Handlers
    <2>3. /\ x \in wait /\ M = Append(loop, h)
          /\ \A y : y \in V <=> y \in wait /\ y # x
      BY <1>1 DEF Complete
    <2>4. h \in CalmHandlers /\ \A g \in ToSet(<<h>>) : g = h
      BY <1>1 DEF ToSet
    <2> HIDE DEF h, V, M
    <2>5. Grown(Farewell, wait, loop, V, M, {}, <<h>>)
      BY <1>0, <2>2, <2>3, CompleteActive
    <2>6. \A g \in ToSet(M) : g \in CalmHandlers
      BY <2>4, <2>5 DEF Grown, Calm
    <2>7. /\ Single(Farewell, wait', loop')
          /\ \A y : y \in Active(Farewell, wait', loop') => y \in Active(Farewell, wait, loop)
          /\ \A g \in ToSet(loop') : g \in CalmHandlers
          /\ \A y \in wait' : y \in wait
      BY <2>3, <2>5, <2>6 DEF Grown, V, M
    <2>8. loggedOut => pending' = {} /\ outcome' = "post_login"
      BY <1>1 DEF Calm
    <2> QED BY <1>1, <2>1, <2>7, <2>8, CalmSame
  <1>2. ASSUME wait' = wait, loop' = loop, UNCHANGED <<conn, established, loggedOut, pending, outcome>>
        PROVE  Calm'
    BY <1>2 DEF Calm, UnderWay
  <1>3. CASE login_timer_expires
    <2> DEFINE h == <<"login_timer", "ok">>
    <2>1. /\ established /\ wait' = wait /\ loop' = Append(loop, h)
          /\ UNCHANGED <<conn, established, loggedOut, pending, outcome>>
      BY <1>3 DEF login_timer_expires, TimerExpires, handlerVars
    <2>2. h \in Handlers /\ h[1] # "shutdown" /\ h \in CalmHandlers
      BY DEF Handlers, Codes, CalmHandlers, Once
    <2> HIDE DEF h
    <2>3. h[1] \notin Active(Farewell, wait, loop) /\ h[1] \notin Farewell
      BY <2>2 DEF Active, Farewell
    <2>4. /\ loop' = loop \o <<h>>
          /\ Single(Farewell, wait, loop \o <<h>>)
          /\ Active(Farewell, wait, loop \o <<h>>) = Active(Farewell, wait, loop) \cup ({h[1]} \cap Farewell)
      BY <1>0, <2>1, <2>2, <2>3, QueueActive
    <2>5. Single(Farewell, wait', loop')
      BY <2>1, <2>4
    <2>6. Active(Farewell, wait', loop') = Active(Farewell, wait, loop) \cup ({h[1]} \cap Farewell)
      BY <2>1, <2>4
    <2>7. \A y : y \in Active(Farewell, wait', loop') => y \in Active(Farewell, wait, loop)
      BY <2>3, <2>6
    <2>8. \A g \in ToSet(loop') : g \in ToSet(loop) \/ g = h
      BY <1>0, <2>1, <2>2 DEF ToSet
    <2>9. \A g \in ToSet(loop') : g \in CalmHandlers
      BY <2>2, <2>8 DEF Calm
    <2>10. loggedOut => /\ pending' = {} /\ outcome' = "post_login"
                        /\ \A y \in wait' : y \in SocketOps => y \in wait
      BY <2>1 DEF Calm
    <2> QED BY <2>1, <2>5, <2>7, <2>9, <2>10, CalmSame
  <1>4. /\ \A x \in SocketOps \cup {"resolve", "fetch_timer"} : <<x, "ok">> \in CalmHandlers /\ x \in Ops
        /\ <<"shutdown", "eof">> \in CalmHandlers /\ "shutdown" \in Ops
        /\ "ok" \in Codes /\ "eof" \in Codes
    BY DEF CalmHandlers, Once, Opening, SocketOps, Ops, Codes
  <1>5. CASE fetch_timer_expires
    BY <1>1, <1>4, <1>5 DEF fetch_timer_expires, lvars, handlerVars
  <1>6. CASE Succeeds
    BY <1>1, <1>4, <1>6 DEF Succeeds, lvars, handlerVars
  <1>7. CASE Breaks
    BY <1>1, <1>4, <1>7 DEF Breaks, lvars, handlerVars
  <1>8. CASE Serves
    <2>1. UNCHANGED <<conn, established, loggedOut, pending, outcome, wait, loop>>
      BY <1>8 DEF Serves, ServerAnswers, handlerVars, loopVars
    <2> QED BY <1>2, <2>1
  <1>9. CASE GoesMute
    BY <1>2, <1>9 DEF GoesMute, lvars, handlerVars, loopVars
  <1>10. CASE Signal
    BY <1>0, <1>10 DEF Signal
  <1> QED BY <1>3, <1>5, <1>6, <1>7, <1>8, <1>9, <1>10

\* Every step keeps CalmInv.
LEMMA CalmStep == DialogueInv /\ LoopInv /\ LoopInv' /\ CalmInv /\ [ConnNext]_vars => CalmInv'
  <1> SUFFICES ASSUME DialogueInv, LoopInv, LoopInv', CalmInv, [ConnNext]_vars PROVE CalmInv'
    OBVIOUS
  <1>1. CASE UNCHANGED vars
    BY <1>1, SMTT(30) DEF vars, lvars, cvars, CalmInv, Undisturbed, UndisturbedReturns, Alive, Calm, UnderWay
  <1>2. ASSUME ConnNext PROVE Alive
    BY <1>2 DEF ConnNext, Handle, async_connect, async_handshake, handshaken, operation_failed,
       login_callback, task_command, finished, InChunk, do_read, read_failed, written,
       login_timer, fetch_timer, do_signal, do_signal_again, signal_cancelled, async_shutdown,
       run_returns, Turn, login_timer_expires, fetch_timer_expires, Succeeds, Breaks, Complete,
       Serves, GoesMute, Signal
  <1>3. ASSUME ConnNext, signals' = 0, ~failed' PROVE signals = 0 /\ ~failed
    <2>1. signals \in Nat /\ failed \in BOOLEAN
      BY ConnectionAssumption DEF LoopInv, LoopTypeOK
    <2>2. CASE UNCHANGED <<signals, failed>>
      BY <1>3, <2>2
    <2>3. CASE Breaks
      BY <1>3, <2>1, <2>3 DEF Breaks
    <2>4. CASE Signal
      BY <1>3, <2>1, <2>4 DEF Signal
    <2>5. CASE ~Breaks /\ ~Signal
      <3>1. UNCHANGED <<signals, failed>>
        BY <1>3, <2>5 DEF ConnNext, Handle, async_connect, async_handshake, handshaken,
           operation_failed, login_callback, task_command, finished, do_read, read_failed,
           written, login_timer, fetch_timer, do_signal, do_signal_again, signal_cancelled,
           async_shutdown, run_returns, login_timer_expires, fetch_timer_expires, Succeeds,
           Serves, GoesMute, envVars
      <3> QED BY <2>2, <3>1
    <2> QED BY <2>3, <2>4, <2>5
  <1>4. CASE ConnNext /\ ~(signals' = 0 /\ ~failed')
    <2>1. signals' \in Nat
      BY ConnectionAssumption DEF LoopInv, LoopTypeOK
    <2> QED BY <1>4, <2>1 DEF CalmInv, Undisturbed, UndisturbedReturns
  <1>5. CASE ConnNext /\ signals' = 0 /\ ~failed'
    <2>1. Calm /\ ended = "running"
      BY <1>2, <1>3, <1>5 DEF CalmInv, Undisturbed, Alive
    <2>2. SUFFICES \/ Calm' /\ ended' = ended
                   \/ ended' = "returned"
                   \/ ended' = "thrown" /\ outcome' = "thrown"
      BY <2>1 DEF CalmInv, Undisturbed, UndisturbedReturns, Alive
    <2>3. CASE async_connect \/ async_handshake \/ handshaken
      BY <2>1, <2>3, CalmOpening DEF async_connect, async_handshake, handshaken
    <2>4. CASE login_callback
      <3>1. ended' = IF outcome' = "thrown" THEN "thrown" ELSE ended
        BY <2>4 DEF login_callback
      <3> QED BY <2>1, <2>4, <3>1, CalmLoginCallback
    <2>5. CASE task_command
      BY <2>1, <2>5, CalmTaskCommand DEF task_command
    <2>6. CASE finished
      BY <2>1, <2>6, CalmFinished
    <2>7. CASE do_read \/ written \/ login_timer \/ fetch_timer \/ signal_cancelled
      <3>1. Calm' \/ (outcome' = "thrown" /\ ended' = "thrown")
        BY <2>1, <2>7, CalmOthers
      <3>2. ended' = ended \/ (ended' = "thrown" /\ outcome' = "thrown")
        BY <2>7 DEF do_read, written, login_timer, fetch_timer, signal_cancelled
      <3> QED BY <3>1, <3>2
    <2>8. CASE async_shutdown
      BY <2>1, <2>8, CalmShutdown
    <2>9. CASE operation_failed \/ read_failed \/ do_signal \/ do_signal_again
      BY <2>1, <2>9, CalmNeverThrows
    <2>10. CASE run_returns
      BY <2>10 DEF run_returns
    <2>11. CASE \/ login_timer_expires \/ fetch_timer_expires
                \/ Succeeds \/ Breaks \/ Serves \/ GoesMute \/ Signal
      <3>1. Calm'
        BY <1>5, <2>1, <2>11, CalmEnvironment
      <3>2. ended' = ended
        BY <2>11 DEF login_timer_expires, fetch_timer_expires, Succeeds, Breaks, Serves,
           GoesMute, Signal
      <3> QED BY <3>1, <3>2
    <2> QED BY <1>5, <2>3, <2>4, <2>5, <2>6, <2>7, <2>8, <2>9, <2>10, <2>11 DEF ConnNext, Handle
  <1> QED BY <1>1, <1>4, <1>5

\* A run without a signal, a failure of the network or an error of the dialogue does
\* not end by an exception: do_quit() finds nothing that it would have to abort.
THEOREM UndisturbedReturnsAlways == ConnSpec => []UndisturbedReturns
  <1>1. ConnInit => CalmInv
    <2> SUFFICES ASSUME ConnInit PROVE CalmInv
      OBVIOUS
    <2>1. /\ wait = {"resolve", "signal"} /\ loop = <<>> /\ conn = "resolving"
          /\ loggedOut = FALSE /\ established = FALSE /\ ended = "running"
      BY DEF ConnInit
    <2>2. DOMAIN loop = {} /\ \A h : h \notin ToSet(loop)
      BY <2>1 DEF ToSet
    <2>3. Single(Farewell, wait, loop) /\ Active(Farewell, wait, loop) = {}
      BY <2>1, <2>2 DEF Single, Active, Farewell
    <2>4. "connect" \notin UnderWay /\ "handshake" \notin UnderWay
      BY <2>1, <2>2 DEF UnderWay, Active
    <2> QED BY <2>1, <2>2, <2>3, <2>4 DEF CalmInv, Calm, UndisturbedReturns
  <1>2. DialogueInv /\ LoopInv /\ CalmInv /\ [ConnNext]_vars => CalmInv'
    BY LoopStep, CalmStep
  <1>3. CalmInv => UndisturbedReturns
    BY DEF CalmInv
  <1> QED BY <1>1, <1>2, <1>3, LoopInvariant, PTL DEF ConnSpec
=============================================================================
