--------------------------- MODULE CommandsProofs ---------------------------
(***************************************************************************)
(* Commands, for every number of commands and UIDs: the bookkeeping of     *)
(* tags, the exactness of the set of UIDs, which messages a server takes a *)
(* written set to name, that every line is permitted where it arrives, and *)
(* that continuations are called in order.                                 *)
(***************************************************************************)
EXTENDS Commands, SequenceSetProofs, SequenceTheorems

\* BookkeepingAgrees, of given records.
Agrees(M, C, F, v, o) ==
    /\ F \subseteq DOMAIN M
    /\ o = "open" => F = DOMAIN M
    /\ DOMAIN M \subseteq 0 .. v - 1
    /\ C = {M[t] : t \in DOMAIN M}
    /\ \A t, u \in DOMAIN M : M[t] = M[u] => t = u

Records(M, C, F) ==
    /\ DOMAIN M \subseteq Nat /\ \A t \in DOMAIN M : M[t] \in CommandNames
    /\ C \in SUBSET CommandNames
    /\ F \in SUBSET Nat

LEMMA CallNames == \A call \in Calls : call.cmd \in CommandNames
<1> SUFFICES ASSUME NEW call \in Calls PROVE call.cmd \in CommandNames
  OBVIOUS
<1>1. PICK c \in CommandNames :
        call \in [cmd : {c}, args : Arguments(c), set : Fetched(c)]
  BY DEF Calls
<1> QED BY <1>1

\* Tag::next() and the registration of the continuation keep the records in
\* agreement, whether the call succeeds or throws.
LEMMA IssueKeepsRecords ==
    ASSUME NEW call \in Calls, NEW M, NEW C, NEW F, value \in Nat,
           Records(M, C, F), Agrees(M, C, F, value, "open"), outcome = "open",
           Issue(call, M, C, F)
    PROVE  /\ value' \in Nat /\ outcome' \in {"open", "thrown"}
           /\ Records(map', command_set', fns')
           /\ Agrees(map', command_set', fns', value', outcome')
<1>0. call.cmd \in CommandNames
  BY CallNames
<1>1. CASE /\ Throw /\ command_set' = C /\ map' = M /\ fns' = F
           /\ UNCHANGED value
  BY <1>1 DEF Throw, Agrees, Records
<1>2. CASE /\ call.cmd \notin C
           /\ command_set' = C \cup {call.cmd}
           /\ map' = [t \in DOMAIN M \cup {value} |->
                        IF t = value THEN call.cmd ELSE M[t]]
           /\ value' = value + 1
           /\ \/ fns' = F \cup {value} /\ outcome' = "open"
              \/ fns' = F /\ outcome' = "thrown"
  <2>1. DOMAIN map' = DOMAIN M \cup {value}
    BY <1>2
  <2>2. value \notin DOMAIN M
    BY DEF Agrees
  <2>3. \A t \in DOMAIN M : map'[t] = M[t]
    BY <1>2, <2>2
  <2>4. map'[value] = call.cmd
    BY <1>2
  <2>5. Records(map', command_set', fns') /\ value' \in Nat
    <3>1. \A t \in DOMAIN map' : map'[t] \in CommandNames
      BY <1>0, <2>1, <2>3, <2>4 DEF Records
    <3>2. DOMAIN map' \subseteq Nat
      BY <2>1 DEF Records
    <3>3. command_set' \in SUBSET CommandNames /\ fns' \in SUBSET Nat
      BY <1>0, <1>2 DEF Records
    <3> QED BY <1>2, <3>1, <3>2, <3>3 DEF Records
  <2>6. \A t \in DOMAIN M : M[t] # call.cmd
    BY <1>2 DEF Agrees
  <2>7. \A t, u \in DOMAIN map' : map'[t] = map'[u] => t = u
    BY <2>1, <2>3, <2>4, <2>6 DEF Agrees
  <2>8. command_set' = {map'[t] : t \in DOMAIN map'}
    <3>1. C = {M[t] : t \in DOMAIN M}
      BY DEF Agrees
    <3>2. command_set' = {M[t] : t \in DOMAIN M} \cup {map'[value]}
      BY <1>2, <3>1, <2>4
    <3> QED BY <3>2, <2>1, <2>3, Zenon
  <2>9. DOMAIN map' \subseteq 0 .. value' - 1
    BY <1>2, <2>1 DEF Agrees
  <2>10. fns' \subseteq DOMAIN map' /\ (outcome' = "open" => fns' = DOMAIN map')
    BY <1>2, <2>1 DEF Agrees
  <2> QED BY <1>2, <2>5, <2>7, <2>8, <2>9, <2>10 DEF Agrees
<1>3. value \notin DOMAIN M
  BY DEF Agrees
<1> QED BY <1>1, <1>2, <1>3 DEF Issue, Throw

\* Tag::pop() and the removal of the continuation do, too.
LEMMA PopKeepsRecords ==
    ASSUME NEW t \in fns, Records(map, command_set, fns), value \in Nat,
           Agrees(map, command_set, fns, value, "open")
    PROVE  LET M == [u \in DOMAIN map \ {t} |-> map[u]]
               C == command_set \ {map[t]}
               F == fns \ {t}
           IN  Records(M, C, F) /\ Agrees(M, C, F, value, "open")
<1> DEFINE M == [u \in DOMAIN map \ {t} |-> map[u]]
           C == command_set \ {map[t]}
           F == fns \ {t}
<1>1. DOMAIN M = DOMAIN map \ {t} /\ \A u \in DOMAIN M : M[u] = map[u]
  OBVIOUS
<1>2. t \in DOMAIN map
  BY DEF Agrees
<1>3. \A u \in DOMAIN map : map[u] = map[t] => u = t
  BY <1>2 DEF Agrees
<1>4. command_set = {map[u] : u \in DOMAIN map}
  BY DEF Agrees
<1> HIDE DEF M
<1>5. C = {M[u] : u \in DOMAIN M}
  BY <1>1, <1>2, <1>3, <1>4, Zenon
<1>6. Records(M, C, F)
  BY <1>1 DEF Records
<1>7. \A u, v \in DOMAIN M : M[u] = M[v] => u = v
  BY <1>1 DEF Agrees
<1>8. F \subseteq DOMAIN M /\ F = DOMAIN M /\ DOMAIN M \subseteq 0 .. value - 1
  BY <1>1, <1>2 DEF Agrees
<1>9. Records(M, C, F) /\ Agrees(M, C, F, value, "open")
  BY <1>5, <1>6, <1>7, <1>8 DEF Agrees
<1> QED BY <1>9 DEF M

Book ==
    /\ value \in Nat /\ outcome \in {"open", "thrown"}
    /\ Records(map, command_set, fns)
    /\ Agrees(map, command_set, fns, value, outcome)

LEMMA BookStep == Book /\ [Next]_cvars => Book'
<1> SUFFICES ASSUME Book, [Next]_cvars PROVE Book'
  OBVIOUS
<1>1. CASE Call
  <2>1. outcome = "open" /\ \E call \in Calls : Issue(call, map, command_set, fns)
    BY <1>1 DEF Call
  <2>2. PICK call \in Calls : Issue(call, map, command_set, fns)
    BY <2>1
  <2> QED BY <2>1, <2>2, IssueKeepsRecords DEF Book
<1>2. CASE imap_tagged_status_end
  <2>0. outcome = "open"
    BY <1>2 DEF imap_tagged_status_end
  <2>1. CASE Head(answers).status = "OK" /\ Head(answers).tag \in fns
    <3> DEFINE t == Head(answers).tag
               M == [u \in DOMAIN map \ {t} |-> map[u]]
               C == command_set \ {map[t]}
               F == fns \ {t}
    <3>1. Completes(t)
      BY <1>2, <2>1 DEF imap_tagged_status_end
    <3>2. Records(M, C, F) /\ Agrees(M, C, F, value, "open")
      BY <2>0, <2>1, PopKeepsRecords DEF Book
    <3>3. \/ /\ map' = M /\ command_set' = C /\ fns' = F
             /\ UNCHANGED <<value, verifier, wire, outcome>>
          \/ \E call \in Calls : Issue(call, M, C, F)
      BY <3>1 DEF Completes
    <3> HIDE DEF t, M, C, F
    <3>4. CASE /\ map' = M /\ command_set' = C /\ fns' = F
               /\ UNCHANGED <<value, verifier, wire, outcome>>
      BY <2>0, <3>2, <3>4 DEF Book
    <3>5. CASE \E call \in Calls : Issue(call, M, C, F)
      BY <2>0, <3>2, <3>5, IssueKeepsRecords DEF Book
    <3> QED BY <3>3, <3>4, <3>5
  <2>2. CASE ~(Head(answers).status = "OK" /\ Head(answers).tag \in fns)
    <3>1. Throw /\ UNCHANGED tagVars
      BY <1>2, <2>2 DEF imap_tagged_status_end
    <3> QED BY <3>1 DEF Throw, tagVars, Book, Agrees, Records
  <2> QED BY <2>1, <2>2
<1>3. CASE UNCHANGED <<tagVars, outcome>>
  BY <1>3 DEF tagVars, Book, Agrees, Records
<1>4. CASE Push
  BY <1>3, <1>4 DEF Push
<1>5. CASE Clear
  BY <1>3, <1>5 DEF Clear
<1>6. CASE ServerExecutes
  BY <1>3, <1>6 DEF ServerExecutes, clientVars
<1>7. CASE ServerRepeats
  BY <1>3, <1>7 DEF ServerRepeats, clientVars
<1>8. CASE OtherExpunges
  BY <1>3, <1>8 DEF OtherExpunges, clientVars
<1>9. CASE UNCHANGED cvars
  BY <1>3, <1>9 DEF cvars, clientVars
<1> QED BY <1>1, <1>2, <1>4, <1>5, <1>6, <1>7, <1>8, <1>9 DEF Next

\* Tag's tags and commands and Base's continuations agree in every state of
\* every session, so Tag::next() never meets a tag it has already given out,
\* and Tag::pop() always finds the command.
THEOREM BookkeepingCorrect == Spec => []BookkeepingAgrees
<1>1. Init => Book
  BY DEF Init, Book, Agrees, Records
<1>2. Book => BookkeepingAgrees
  BY DEF Book, Agrees, BookkeepingAgrees
<1> QED BY <1>1, <1>2, BookStep, PTL DEF Spec
-----------------------------------------------------------------------------
\* The set of UIDs.
Exact(U, N) == /\ U \in SUBSET Intervals /\ Canonical(U)
               /\ Numbers(U) = N /\ N \in SUBSET (0 .. MaxUid)

LEMMA ExactEnds ==
    ASSUME NEW U, NEW N, Exact(U, N), NEW i \in U
    PROVE  i[1] \in N /\ i[2] \in N /\ i[1] \in 0 .. MaxUid /\ i[2] \in 0 .. MaxUid
           /\ i[1] <= i[2]
<1>1. i[1] \in Int /\ i[2] \in Int /\ i[1] <= i[2]
  BY DEF Exact, Intervals, Canonical
<1>2. i[1] \in i[1] .. i[2] /\ i[2] \in i[1] .. i[2]
  BY <1>1
<1>3. i[1] .. i[2] \subseteq Numbers(U)
  BY Zenon DEF Numbers
<1> QED BY <1>1, <1>2, <1>3 DEF Exact

LEMMA ExactInsert ==
    ASSUME NEW U, NEW N, Exact(U, N),
           NEW a \in 0 .. MaxUid, NEW b \in 0 .. MaxUid
    PROVE  Exact(insert(U, a, b), N \cup (a .. b))
<1>1. MaxUid \in Nat /\ a \in Int /\ b \in Int
  BY CommandsAssumption
<1>2. a .. b \subseteq 0 .. MaxUid
  BY <1>1
<1>3. Numbers(insert(U, a, b)) = Numbers(U) \cup (a .. b)
  BY <1>1, InsertAddsExactly DEF Exact
<1>4. insert(U, a, b) \in SUBSET Intervals /\ Canonical(insert(U, a, b))
  BY <1>1, InsertKeepsCanonical DEF Exact
<1> QED BY <1>2, <1>3, <1>4 DEF Exact

LEMMA ExactClear == Exact(clear, {})
BY DEF Exact, clear, Canonical, Numbers, Intervals

\* A line about UIDs has been written from an exact set without zero.
GoodLines ==
    {l \in Lines : l.cmd \in UidCommands =>
        \E U : /\ Exact(U, l.meant) /\ U # {} /\ 0 \notin l.meant
               /\ l.set = write_sequence_set(U)}

\* What a server makes of a written set.
LEMMA NamedExactly ==
    ASSUME NEW U, NEW N, Exact(U, N), 0 \notin N,
           NEW S \in SUBSET (1 .. MaxUid), MaxUid \in N => MaxUid \in S
    PROVE  Named(write_sequence_set(U), S) = N \cap S
<1>0. MaxUid \in Nat /\ MaxUid # 0
  BY CommandsAssumption
<1>1. MaxUid \in S => Highest(S) = MaxUid
  <2> SUFFICES ASSUME MaxUid \in S PROVE Highest(S) = MaxUid
    OBVIOUS
  <2>1. \A n \in S : n \in Int /\ n <= MaxUid
    BY <1>0
  <2>2. \E m \in S : \A n \in S : n <= m
    BY <2>1
  <2>3. Highest(S) \in S /\ \A n \in S : n <= Highest(S)
    BY <2>2 DEF Highest
  <2>4. Highest(S) \in Int /\ Highest(S) <= MaxUid /\ MaxUid <= Highest(S)
    BY <2>1, <2>3
  <2> QED BY <1>0, <2>4
<1>2. \A n \in N : End(write_sequence_nr(n), S) = n
  BY <1>0, <1>1 DEF End, write_sequence_nr, Star
<1>3. ASSUME NEW u \in S
      PROVE  u \in Named(write_sequence_set(U), S) <=> \E i \in U : i[1] <= u /\ u <= i[2]
  <2>1. ASSUME NEW i \in U, NEW w, w = <<write_sequence_nr(i[1]), write_sequence_nr(i[2])>>
        PROVE  Between(u, End(w[1], S), End(w[2], S)) <=> i[1] <= u /\ u <= i[2]
    <3>1. i[1] \in N /\ i[2] \in N /\ i[1] \in Int /\ i[2] \in Int /\ i[1] <= i[2]
      BY ExactEnds, <1>0
    <3>2. End(w[1], S) = i[1] /\ End(w[2], S) = i[2]
      BY <1>2, <2>1, <3>1
    <3> QED BY <1>0, <3>1, <3>2 DEF Between
  <2>2. \A w : w \in write_sequence_set(U)
          <=> \E i \in U : w = <<write_sequence_nr(i[1]), write_sequence_nr(i[2])>>
    BY Zenon DEF write_sequence_set
  <2>3. u \in Named(write_sequence_set(U), S)
          <=> \E w \in write_sequence_set(U) :
                 Between(u, End(w[1], S), End(w[2], S))
    BY Zenon DEF Named
  <2> QED BY <2>1, <2>2, <2>3, Zenon
<1>4. ASSUME NEW u \in S
      PROVE  u \in N <=> \E i \in U : i[1] <= u /\ u <= i[2]
  <2>1. u \in Int
    BY <1>0
  <2>2. u \in Numbers(U) <=> \E i \in U : u \in i[1] .. i[2]
    BY Zenon DEF Numbers
  <2>3. \A i \in U : i[1] \in Int /\ i[2] \in Int
    BY DEF Exact, Intervals
  <2> QED BY <2>1, <2>2, <2>3 DEF Exact
<1>5. Named(write_sequence_set(U), S) \subseteq S
  BY DEF Named
<1> QED BY <1>3, <1>4, <1>5

Answers == [tag : Nat, status : {"OK", "NO", "BAD"}]

Typed ==
    /\ verifier \in Sessions /\ server \in Sessions
    /\ Exact(uids, meant)
    /\ wire \in Seq(GoodLines)
    /\ mailbox \in SUBSET (1 .. MaxUid)
    /\ refused \in BOOLEAN
    /\ executed \in Seq(Nat) /\ called \in Seq(Nat)
    /\ answers \in Seq(Answers)

LEMMA EntersTyped ==
    ASSUME NEW s \in Sessions, NEW cmd PROVE Enters(s, cmd) \in Sessions
BY DEF Enters, InState, Sessions, SessionStates

LEMMA IssueTyped ==
    ASSUME NEW call \in Calls, NEW M, NEW C, NEW F, value \in Nat, Typed,
           Issue(call, M, C, F)
    PROVE  verifier' \in Sessions /\ wire' \in Seq(GoodLines)
<1>1. CASE UNCHANGED <<verifier, wire>>
  BY <1>1 DEF Typed
<1>2. CASE /\ verifier' = Enters(verifier, call.cmd)
           /\ call.cmd \in UidCommands => Writable(uids)
           /\ wire' = Append(wire,
                [tag |-> value, cmd |-> call.cmd,
                 set |-> IF call.cmd \in UidCommands
                         THEN write_sequence_set(uids) ELSE {},
                 meant |-> IF call.cmd \in UidCommands THEN meant ELSE {}])
  <2> DEFINE set == IF call.cmd \in UidCommands THEN write_sequence_set(uids) ELSE {}
             N == IF call.cmd \in UidCommands THEN meant ELSE {}
             line == [tag |-> value, cmd |-> call.cmd, set |-> set, meant |-> N]
  <2>0. MaxUid \in Nat
    BY CommandsAssumption
  <2>1. N \in SUBSET (0 .. MaxUid)
    BY DEF Typed, Exact
  <2>2. set \in SUBSET (Nat \X Nat)
    <3>1. \A i \in uids : i[1] \in Nat /\ i[2] \in Nat
      BY <2>0, ExactEnds DEF Typed
    <3>2. \A n \in Nat : write_sequence_nr(n) \in Nat
      BY DEF write_sequence_nr, Star
    <3> QED BY <3>1, <3>2 DEF write_sequence_set
  <2>3. line \in Lines
    BY <2>1, <2>2, CallNames DEF Lines
  <2>4. ASSUME call.cmd \in UidCommands
        PROVE  /\ Exact(uids, N) /\ uids # {} /\ 0 \notin N
               /\ set = write_sequence_set(uids)
    <3>1. uids # {} /\ \A i \in uids : i[1] # 0
      BY <1>2, <2>4 DEF Writable
    <3>2. \A i \in uids : i[1] \in 0 .. MaxUid /\ i[2] \in 0 .. MaxUid
      BY ExactEnds DEF Typed
    <3>3. 0 \notin Numbers(uids)
      <4>1. \A i \in uids : 0 \notin i[1] .. i[2]
        BY <2>0, <3>1, <3>2
      <4> QED BY <4>1, Zenon DEF Numbers
    <3> QED BY <2>4, <3>1, <3>3 DEF Typed, Exact
  <2> HIDE DEF set, N
  <2>5. line.cmd = call.cmd /\ line.meant = N /\ line.set = set
    OBVIOUS
  <2> HIDE DEF line
  <2>6. line \in GoodLines
    BY <2>3, <2>4, <2>5, Zenon DEF GoodLines
  <2>7. wire' = Append(wire, line)
    BY <1>2 DEF line, set, N
  <2> QED BY <1>2, <2>6, <2>7, EntersTyped DEF Typed
<1> QED BY <1>1, <1>2 DEF Issue, SetWritable

LEMMA TypedStep == Book /\ Typed /\ [Next]_cvars => Typed'
<1> SUFFICES ASSUME Book, Typed, [Next]_cvars PROVE Typed'
  OBVIOUS
<1>1. CASE Call
  <2>1. /\ \E call \in Calls : Issue(call, map, command_set, fns)
        /\ UNCHANGED <<uids, meant, serverVars, answers, called>>
    BY <1>1 DEF Call
  <2>2. verifier' \in Sessions /\ wire' \in Seq(GoodLines)
    BY <2>1, IssueTyped DEF Book
  <2> QED BY <2>1, <2>2 DEF Typed, serverVars
<1>2. CASE imap_tagged_status_end
  <2>1. /\ UNCHANGED <<uids, meant, serverVars>>
        /\ answers # <<>> /\ answers' = Tail(answers)
    BY <1>2 DEF imap_tagged_status_end
  <2>2. answers' \in Seq(Answers)
        /\ Head(answers) \in Answers
    BY <2>1 DEF Typed
  <2>3. Head(answers).tag \in Nat
    BY <2>2 DEF Answers
  <2>4. CASE Completes(Head(answers).tag)
    <3> DEFINE t == Head(answers).tag
               M == [u \in DOMAIN map \ {t} |-> map[u]]
               C == command_set \ {map[t]}
               F == fns \ {t}
    <3>1. /\ called' = Append(called, t)
          /\ \/ UNCHANGED <<value, verifier, wire, outcome>>
             \/ \E call \in Calls : Issue(call, M, C, F)
      BY <2>4 DEF Completes
    <3> HIDE DEF M, C, F
    <3>2. called' \in Seq(Nat)
      BY <2>3, <3>1 DEF Typed
    <3>3. verifier' \in Sessions /\ wire' \in Seq(GoodLines)
      BY <3>1, IssueTyped DEF Book, Typed
    <3> QED BY <2>1, <2>2, <3>2, <3>3 DEF Typed, serverVars
  <2>5. CASE UNCHANGED <<tagVars, verifier, wire, called>>
    BY <2>1, <2>2, <2>5 DEF Typed, serverVars
  <2> QED BY <1>2, <2>4, <2>5 DEF imap_tagged_status_end
<1>3. CASE Push
  <2>1. PICK id \in 1 .. MaxUid : uids' = insert(uids, id, id) /\ meant' = meant \cup {id}
    BY <1>3 DEF Push, push
  <2>2. MaxUid \in Nat /\ id \in 0 .. MaxUid /\ id .. id = {id}
    BY CommandsAssumption
  <2>3. Exact(uids, meant)'
    <3>1. Exact(insert(uids, id, id), meant \cup (id .. id))
      BY <2>2, ExactInsert DEF Typed
    <3> QED BY <2>1, <2>2, <3>1 DEF Exact
  <2> QED BY <1>3, <2>3 DEF Push, Typed, serverVars
<1>4. CASE Clear
  <2>1. Exact(uids, meant)'
    BY <1>4, ExactClear DEF Clear, Exact
  <2> QED BY <1>4, <2>1 DEF Clear, Typed, serverVars
<1>5. CASE ServerExecutes
  <2>1. wire # <<>> /\ wire' = Tail(wire) /\ UNCHANGED <<clientVars, mailbox, called>>
    BY <1>5 DEF ServerExecutes
  <2>2. wire' \in Seq(GoodLines) /\ Head(wire) \in Lines
    BY <2>1 DEF Typed, GoodLines
  <2>3. Head(wire).tag \in Nat
    BY <2>2 DEF Lines
  <2>4. /\ server' \in Sessions /\ refused' \in BOOLEAN /\ executed' \in Seq(Nat)
        /\ answers' \in Seq(Answers)
    <3> DEFINE line == Head(wire)
    <3>1. \A s \in {"OK", "NO", "BAD"} : [tag |-> line.tag, status |-> s] \in Answers
      BY <2>3 DEF Answers
    <3>2. InState(server, "AUTHENTICATED") \in Sessions /\ server \in Sessions
          /\ After(server, line.cmd) \in Sessions
      BY DEF Typed, After, InState, Sessions, SessionStates
    <3>3. \/ /\ server' = After(server, line.cmd)
             /\ executed' = Append(executed, line.tag)
             /\ answers' = Append(answers, [tag |-> line.tag, status |-> "OK"])
             /\ UNCHANGED refused
          \/ /\ refused' = TRUE
             /\ server' \in {server, InState(server, "AUTHENTICATED")}
             /\ \E s \in {"NO", "BAD"} :
                  answers' = Append(answers, [tag |-> line.tag, status |-> s])
             /\ UNCHANGED executed
      BY <1>5 DEF ServerExecutes
    <3>4. executed' \in Seq(Nat)
      <4>1. executed \in Seq(Nat) /\ line.tag \in Nat
        BY <2>3 DEF Typed
      <4>2. executed' = executed \/ executed' = Append(executed, line.tag)
        BY <3>3
      <4> QED BY <4>1, <4>2
    <3>5. answers' \in Seq(Answers)
      <4>1. PICK s \in {"OK", "NO", "BAD"} :
                   answers' = Append(answers, [tag |-> line.tag, status |-> s])
        BY <3>3
      <4>2. answers \in Seq(Answers) /\ [tag |-> line.tag, status |-> s] \in Answers
        BY <3>1 DEF Typed
      <4> QED BY <4>1, <4>2
    <3>6. server' \in Sessions /\ refused' \in BOOLEAN
      <4>1. \/ server' = After(server, line.cmd) /\ refused' = refused
            \/ server' \in {server, InState(server, "AUTHENTICATED")} /\ refused' = TRUE
        BY <3>3
      <4> QED BY <3>2, <4>1, Zenon DEF Typed
    <3> QED BY <3>4, <3>5, <3>6
  <2> QED BY <2>1, <2>2, <2>4 DEF Typed, clientVars, Exact
<1>6. CASE ServerRepeats
  <2>1. \A i \in DOMAIN executed : executed[i] \in Nat
    BY DEF Typed
  <2>2. answers' \in Seq(Answers)
    BY <1>6, <2>1 DEF ServerRepeats, Answers
  <2> QED BY <1>6, <2>2 DEF ServerRepeats, Typed, clientVars, serverVars, Exact
<1>7. CASE OtherExpunges
  BY <1>7 DEF OtherExpunges, Typed, clientVars, Exact
<1>8. CASE UNCHANGED cvars
  BY <1>8 DEF cvars, Typed, clientVars, serverVars, Exact
<1> QED BY <1>1, <1>2, <1>3, <1>4, <1>5, <1>6, <1>7, <1>8 DEF Next

LEMMA TypedInit == Init => Book /\ Typed
<1> SUFFICES ASSUME Init PROVE Book /\ Typed
  OBVIOUS
<1>1. Book
  BY DEF Init, Book, Agrees, Records
<1>2. Exact(uids, meant)
  <2>1. CASE uids = clear /\ meant = {}
    BY <2>1, ExactClear
  <2>2. CASE \E a, b \in 0 .. MaxUid : uids = insert(clear, a, b) /\ meant = a .. b
    <3>1. PICK a \in 0 .. MaxUid, b \in 0 .. MaxUid :
                 uids = insert(clear, a, b) /\ meant = a .. b
      BY <2>2
    <3>2. Exact(insert(clear, a, b), {} \cup (a .. b))
      BY ExactClear, ExactInsert
    <3> QED BY <3>1, <3>2
  <2> QED BY <2>1, <2>2 DEF Init
<1>3. verifier \in Sessions /\ server \in Sessions
  BY DEF Init, Fresh, Sessions, SessionStates
<1>4. mailbox \in SUBSET (1 .. MaxUid) /\ refused \in BOOLEAN
  BY DEF Init
<1>5. wire \in Seq(GoodLines) /\ executed \in Seq(Nat) /\ called \in Seq(Nat)
      /\ answers \in Seq(Answers)
  BY DEF Init
<1> QED BY <1>1, <1>2, <1>3, <1>4, <1>5 DEF Typed

\* Every variable of Commands keeps its type, and a line about UIDs is never
\* empty, however many commands are issued.
THEOREM CommandsTyped == Spec => []TypeOK
<1>1. Book /\ Typed => TypeOK
  <2> SUFFICES ASSUME Book, Typed PROVE TypeOK
    OBVIOUS
  <2>0. MaxUid \in Nat
    BY CommandsAssumption
  <2>1. uids \in SUBSET (Nat \X Nat)
    <3>1. \A i \in uids : i \in Int \X Int /\ i[1] \in Nat /\ i[2] \in Nat
      <4>1. ASSUME NEW i \in uids PROVE i[1] \in Nat /\ i[2] \in Nat
        BY <2>0, ExactEnds DEF Typed
      <4> QED BY <4>1 DEF Typed, Exact, Intervals
    <3> QED BY <3>1
  <2>2. wire \in Seq(Lines)
    BY DEF Typed, GoodLines
  <2>3. \A i \in DOMAIN wire : wire[i].cmd \in UidCommands => wire[i].set # {}
    <3> SUFFICES ASSUME NEW i \in DOMAIN wire, wire[i].cmd \in UidCommands
                 PROVE  wire[i].set # {}
      OBVIOUS
    <3>1. wire[i] \in GoodLines
      BY DEF Typed
    <3>2. PICK U : U # {} /\ wire[i].set = write_sequence_set(U)
      BY <3>1 DEF GoodLines
    <3> QED BY <3>2 DEF write_sequence_set
  <2> QED BY <2>1, <2>2, <2>3 DEF Book, Records, Typed, Exact, TypeOK, Answers
<1> QED BY <1>1, TypedInit, BookStep, TypedStep, PTL DEF Spec

\* The set of UIDs never stands for a message that was not put into it, and
\* never misses one.
THEOREM SetExact == Spec => []SetIsExact
<1>1. Typed => SetIsExact
  BY DEF Typed, Exact, SetIsExact
<1> QED BY <1>1, TypedInit, BookStep, TypedStep, PTL DEF Spec

\* A server that reads a written set, at whatever time and whatever has been
\* expunged by then, acts on the messages that were meant, as long as '*' is
\* not needed for one that is gone.
THEOREM NamesExactlyAlways == Spec => []NamesExactly
<1>1. Typed => NamesExactly
  <2> SUFFICES ASSUME Typed, NEW i \in DOMAIN wire, wire[i].cmd \in UidCommands,
                      MaxUid \in wire[i].meant => MaxUid \in mailbox
               PROVE  Named(wire[i].set, mailbox) = wire[i].meant \cap mailbox
    BY DEF NamesExactly
  <2>1. wire[i] \in GoodLines
    BY DEF Typed
  <2>2. PICK U : /\ Exact(U, wire[i].meant) /\ 0 \notin wire[i].meant
                 /\ wire[i].set = write_sequence_set(U)
    BY <2>1 DEF GoodLines
  <2> QED BY <2>2, NamedExactly DEF Typed
<1> QED BY <1>1, TypedInit, BookStep, TypedStep, PTL DEF Spec
-----------------------------------------------------------------------------
\* What a call does to the writer and the wire: it throws and leaves them alone,
\* or the verifier has accepted the line that is written.
LEMMA IssueEffect ==
    ASSUME NEW call \in Calls, NEW M, NEW C, NEW F, outcome = "open",
           Issue(call, M, C, F)
    PROVE  \/ /\ outcome' = "thrown"
              /\ UNCHANGED <<verifier, wire>>
              /\ value' = value \/ value' = value + 1
           \/ /\ outcome' = "open"
              /\ fns' = F \cup {value} /\ value' = value + 1
              /\ call.cmd \in Permitted(verifier)
              /\ ~(call.cmd \in Writes /\ verifier.read_only)
              /\ verifier' = Enters(verifier, call.cmd)
              /\ \E line : /\ line.tag = value /\ line.cmd = call.cmd
                           /\ wire' = Append(wire, line)
<1>1. CASE Throw /\ UNCHANGED <<value, verifier, wire>>
  BY <1>1 DEF Throw
<1>2. CASE Throw /\ UNCHANGED <<verifier, wire>> /\ value' = value + 1
  BY <1>2 DEF Throw
<1>3. CASE /\ Accepts(verifier, call.cmd, Text(call))
           /\ verifier' = Enters(verifier, call.cmd)
           /\ fns' = F \cup {value} /\ value' = value + 1
           /\ wire' = Append(wire,
                [tag |-> value, cmd |-> call.cmd,
                 set |-> IF call.cmd \in UidCommands
                         THEN write_sequence_set(uids) ELSE {},
                 meant |-> IF call.cmd \in UidCommands THEN meant ELSE {}])
           /\ UNCHANGED outcome
  BY <1>3 DEF Accepts
<1> QED BY <1>1, <1>2, <1>3 DEF Issue

\* The verifier's state agrees with a server's, up to the read-only flag that
\* CLOSE leaves behind and nobody looks at before the next SELECT.
Like(v, s) ==
    v.state = s.state /\ (v.state = "SELECTED" => v.read_only = s.read_only)

\* What the verifier lets through a server in the same state carries out, and
\* both get to the same state.
LEMMA VerifierIsRight ==
    ASSUME NEW v \in Sessions, NEW s \in Sessions, NEW cmd \in CommandNames,
           Like(v, s), cmd \in Permitted(v), ~(cmd \in Writes /\ v.read_only)
    PROVE  Carries(s, cmd) /\ Like(Enters(v, cmd), After(s, cmd))
<1>1. v.state \in SessionStates /\ s.state = v.state
  BY DEF Sessions, Like
<1>2. s.state \in ValidIn(cmd)
  BY <1>1 DEF Permitted, SessionStates, ValidIn, Everywhere, CommandNames, Nullary,
     UidCommands, command_any, command_nonauth, command_auth, command_select
<1>3. ASSUME s.read_only, cmd \in {"UID STORE", "EXPUNGE", "UID EXPUNGE"}
      PROVE  FALSE
  <2>1. v.state = "SELECTED"
    BY <1>1, <1>3 DEF Permitted, SessionStates, UidCommands, command_any,
       command_nonauth, command_auth, command_select
  <2> QED BY <1>3, <2>1 DEF Like, Writes
<1>4. Like(Enters(v, cmd), After(s, cmd))
  <2>1. Enters(v, cmd).state = After(s, cmd).state
    BY <1>1 DEF Enters, After, InState
  <2>2. ASSUME Enters(v, cmd).state = "SELECTED"
        PROVE  Enters(v, cmd).read_only = After(s, cmd).read_only
    <3>1. CASE cmd \in {"SELECT", "EXAMINE"}
      BY <3>1 DEF Enters, After
    <3>2. CASE cmd \notin {"SELECT", "EXAMINE"}
      <4>1. cmd \notin {"LOGIN", "LOGOUT", "CLOSE"} /\ Enters(v, cmd) = v
        BY <2>2, <3>2 DEF Enters, InState
      <4>2. v.read_only = s.read_only
        BY <2>2, <4>1 DEF Like
      <4>3. s.read_only = After(s, cmd).read_only
        BY <3>2, <4>1 DEF After, Sessions
      <4> QED BY <4>1, <4>2, <4>3
    <3> QED BY <3>1, <3>2
  <2> QED BY <2>1, <2>2 DEF Like
<1> QED BY <1>2, <1>3, <1>4 DEF Carries

LEMMA AfterTyped ==
    ASSUME NEW s \in Sessions, NEW cmd PROVE After(s, cmd) \in Sessions
BY DEF After, Sessions, SessionStates

\* The states that a server goes through when it carries out the lines under
\* way lead to the state the verifier is in.
Path(S) ==
    /\ S \in [1 .. Len(wire) + 1 -> Sessions]
    /\ S[1] = server
    /\ \A i \in 1 .. Len(wire) : /\ Carries(S[i], wire[i].cmd)
                                 /\ S[i + 1] = After(S[i], wire[i].cmd)
    /\ Like(verifier, S[Len(wire) + 1])
PathInv == ~refused => \E S : Path(S)

\* A call adds a state at the end of the path.
LEMMA PathGrows ==
    ASSUME Typed, NEW S, Path(S), NEW call \in Calls, UNCHANGED server,
           call.cmd \in Permitted(verifier),
           ~(call.cmd \in Writes /\ verifier.read_only),
           verifier' = Enters(verifier, call.cmd),
           NEW line, line.cmd = call.cmd, wire' = Append(wire, line)
    PROVE  \E T : Path(T)'
<1> DEFINE n == Len(wire)
           T == [i \in 1 .. n + 2 |-> IF i <= n + 1 THEN S[i]
                                      ELSE After(S[n + 1], call.cmd)]
<1>1. n \in Nat /\ S \in [1 .. n + 1 -> Sessions] /\ S[1] = server
      /\ wire \in Seq(GoodLines) /\ verifier \in Sessions
  BY DEF Typed, Path
<1>2. call.cmd \in CommandNames
  BY CallNames
<1>3. Carries(S[n + 1], call.cmd) /\ Like(verifier', After(S[n + 1], call.cmd))
  BY <1>1, <1>2, VerifierIsRight DEF Path
<1>4. Len(wire') = n + 1 /\ wire'[n + 1] = line
      /\ \A i \in 1 .. n : wire'[i] = wire[i]
  BY <1>1
<1>5. T \in [1 .. n + 2 -> Sessions]
  BY <1>1, AfterTyped
<1>6. \A i \in 1 .. n + 1 : T[i] = S[i]
  BY <1>1
<1>7. T[n + 2] = After(S[n + 1], call.cmd)
  BY <1>1
<1> HIDE DEF T
<1>8. ASSUME NEW i \in 1 .. n + 1
      PROVE  Carries(T[i], wire'[i].cmd) /\ T[i + 1] = After(T[i], wire'[i].cmd)
  <2>1. CASE i = n + 1
    BY <1>1, <1>3, <1>4, <1>6, <1>7, <2>1
  <2>2. CASE i \in 1 .. n
    BY <1>1, <1>4, <1>6, <2>2 DEF Path
  <2> QED BY <1>1, <2>1, <2>2
<1>9. T[1] = server'
  BY <1>1, <1>6
<1> HIDE DEF n
<1>10. Len(wire') + 1 = n + 2
  BY <1>1, <1>4
<1> QED BY <1>3, <1>4, <1>5, <1>7, <1>8, <1>9, <1>10 DEF Path

\* The server, when it carries out the first line, takes the first step of it.
LEMMA PathShrinks ==
    ASSUME Typed, NEW S, Path(S), wire # <<>>, wire' = Tail(wire), UNCHANGED verifier,
           server' = After(server, Head(wire).cmd)
    PROVE  \E T : Path(T)'
<1> DEFINE n == Len(wire)
           T == [i \in 1 .. n |-> S[i + 1]]
<1>1. n \in Nat /\ n > 0 /\ S \in [1 .. n + 1 -> Sessions] /\ wire \in Seq(GoodLines)
  BY DEF Typed, Path
<1>2. Len(wire') = n - 1 /\ \A i \in 1 .. n - 1 : wire'[i] = wire[i + 1]
  BY <1>1
<1>3. T \in [1 .. n -> Sessions] /\ \A i \in 1 .. n : T[i] = S[i + 1]
  BY <1>1
<1> HIDE DEF T
<1>4. T[1] = server'
  BY <1>1, <1>3 DEF Path
<1>5. \A i \in 1 .. n - 1 : /\ Carries(T[i], wire'[i].cmd)
                            /\ T[i + 1] = After(T[i], wire'[i].cmd)
  BY <1>1, <1>2, <1>3 DEF Path
<1>6. Like(verifier', T[n])
  BY <1>1, <1>3 DEF Path
<1> HIDE DEF n
<1>7. Len(wire') + 1 = n
  BY <1>1, <1>2
<1> QED BY <1>2, <1>3, <1>4, <1>5, <1>6, <1>7 DEF Path

LEMMA PathStep == Book /\ Typed /\ PathInv /\ [Next]_cvars => PathInv'
<1> SUFFICES ASSUME Book, Typed, PathInv, [Next]_cvars, ~refused'
             PROVE  \E T : Path(T)'
  BY DEF PathInv
<1>1. CASE UNCHANGED <<verifier, wire, server, refused>>
  BY <1>1 DEF PathInv, Path
<1>2. ASSUME NEW call \in Calls, NEW M, NEW C, NEW F, Issue(call, M, C, F),
             outcome = "open", UNCHANGED serverVars
      PROVE  \E T : Path(T)'
  <2>1. CASE UNCHANGED <<verifier, wire>>
    BY <1>1, <1>2, <2>1 DEF serverVars
  <2>2. CASE ~UNCHANGED <<verifier, wire>>
    <3>1. /\ call.cmd \in Permitted(verifier)
          /\ ~(call.cmd \in Writes /\ verifier.read_only)
          /\ verifier' = Enters(verifier, call.cmd)
          /\ \E line : line.cmd = call.cmd /\ wire' = Append(wire, line)
      BY <1>2, <2>2, IssueEffect
    <3>2. PICK S : Path(S)
      BY <1>2 DEF PathInv, serverVars
    <3>3. PICK line : line.cmd = call.cmd /\ wire' = Append(wire, line)
      BY <3>1
    <3>4. UNCHANGED server
      BY <1>2 DEF serverVars
    <3> QED BY <3>1, <3>2, <3>3, <3>4, PathGrows
  <2> QED BY <2>1, <2>2
<1>3. CASE Call
  BY <1>2, <1>3 DEF Call
<1>4. CASE imap_tagged_status_end
  <2>1. outcome = "open" /\ UNCHANGED serverVars
    BY <1>4 DEF imap_tagged_status_end
  <2>2. CASE UNCHANGED <<verifier, wire>>
    BY <1>1, <2>1, <2>2 DEF serverVars
  <2>3. CASE Completes(Head(answers).tag)
    <3>1. \/ UNCHANGED <<verifier, wire>>
          \/ \E call \in Calls : \E M, C, F : Issue(call, M, C, F)
      BY <2>3 DEF Completes
    <3> QED BY <1>2, <2>1, <2>2, <3>1
  <2> QED BY <1>4, <2>2, <2>3 DEF imap_tagged_status_end
<1>5. CASE ServerExecutes
  <2>1. /\ wire # <<>> /\ wire' = Tail(wire) /\ UNCHANGED <<verifier, refused>>
        /\ server' = After(server, Head(wire).cmd)
    BY <1>5 DEF ServerExecutes, clientVars
  <2>2. PICK S : Path(S)
    BY <2>1 DEF PathInv
  <2> QED BY <2>1, <2>2, PathShrinks
<1>6. CASE Push \/ Clear \/ ServerRepeats \/ OtherExpunges \/ UNCHANGED cvars
  BY <1>1, <1>6 DEF Push, Clear, ServerRepeats, OtherExpunges, cvars, clientVars, serverVars
<1> QED BY <1>3, <1>4, <1>5, <1>6 DEF Next

\* As long as the server has refused nothing, every line is permitted when it
\* gets there: the verifying parser is one step ahead for each line under way,
\* and those steps are the ones the server is going to take.
THEOREM OnlyPermittedAlways == Spec => []OnlyPermitted
<1>1. Init => PathInv
  <2> SUFFICES ASSUME Init PROVE \E S : Path(S)
    BY DEF PathInv
  <2>1. Path([i \in 1 .. 1 |-> server])
    BY TypedInit DEF Init, Path, Like, Typed
  <2> QED BY <2>1
<1>2. Typed /\ PathInv => OnlyPermitted
  <2> SUFFICES ASSUME Typed, PathInv, ~refused, wire # <<>>
               PROVE  Carries(server, Head(wire).cmd)
    BY DEF OnlyPermitted
  <2>1. wire \in Seq(GoodLines) /\ Len(wire) \in Nat /\ Len(wire) > 0
    BY DEF Typed
  <2> QED BY <2>1 DEF PathInv, Path
<1> QED BY <1>1, <1>2, TypedInit, BookStep, TypedStep, PathStep, PTL DEF Spec
-----------------------------------------------------------------------------
\* The continuations c have been called, the answers A are on their way and F has
\* the tags with a continuation.  The first answer that is not a good one ends
\* the run; those before it are about the commands that have been carried out and
\* not been answered yet.
Good(a, F) == a.status = "OK" /\ a.tag \in F
GoodUpTo(i, A, F) == \A j \in 1 .. i : Good(A[j], F)

InOrder(c, A, F) ==
    /\ \A i \in 1 .. Len(c) : c[i] \notin F
    /\ \A i \in 1 .. Len(A) : GoodUpTo(i, A, F) =>
          /\ Len(c) + i <= Len(executed)
          /\ A[i].tag = executed[Len(c) + i]
    /\ GoodUpTo(Len(A), A, F) => Len(c) + Len(A) = Len(executed)

OrderInv ==
    /\ Len(called) <= Len(executed)
    /\ \A i \in 1 .. Len(called) : called[i] = executed[i]
    /\ \A i \in 1 .. Len(executed) : executed[i] < value
    /\ \A i \in 1 .. Len(wire) : wire[i].tag < value
    /\ \A i \in 1 .. Len(answers) : answers[i].tag < value
    /\ outcome = "open" => InOrder(called, answers, fns)

\* A new tag is none that has been answered.
LEMMA NewTagKeepsOrder ==
    ASSUME NEW c \in Seq(Nat), NEW A \in Seq(Answers), NEW F, value \in Nat,
           \A i \in 1 .. Len(c) : c[i] < value,
           \A i \in 1 .. Len(A) : A[i].tag < value,
           InOrder(c, A, F)
    PROVE  InOrder(c, A, F \cup {value})
<1> DEFINE G == F \cup {value}
<1>1. \A j \in 1 .. Len(A) : Good(A[j], G) <=> Good(A[j], F)
  BY DEF Good
<1>2. Len(A) \in Nat
  OBVIOUS
<1>3. ASSUME NEW i \in 0 .. Len(A) PROVE GoodUpTo(i, A, G) <=> GoodUpTo(i, A, F)
  <2>1. \A j \in 1 .. i : j \in 1 .. Len(A)
    BY <1>2
  <2> QED BY <1>1, <2>1 DEF GoodUpTo
<1>4. \A i \in 1 .. Len(c) : c[i] \notin G
  BY DEF InOrder
<1>5. \A i \in 1 .. Len(A) : i \in 0 .. Len(A)
  BY <1>2
<1>6. Len(A) \in 0 .. Len(A)
  BY <1>2
<1> HIDE DEF G
<1>7. InOrder(c, A, G)
  BY <1>3, <1>4, <1>5, <1>6 DEF InOrder
<1> QED BY <1>7 DEF G

\* Base::imap_tagged_status_end() takes the first answer and its continuation.
LEMMA PopKeepsOrder ==
    ASSUME Typed, InOrder(called, answers, fns), answers # <<>>,
           Good(Head(answers), fns)
    PROVE  LET t == Head(answers).tag
           IN  /\ InOrder(Append(called, t), Tail(answers), fns \ {t})
               /\ Len(called) + 1 <= Len(executed)
               /\ executed[Len(called) + 1] = t
<1> DEFINE t == Head(answers).tag
           c == Append(called, t)
           A == Tail(answers)
           F == fns \ {t}
<1>1. /\ called \in Seq(Nat) /\ answers \in Seq(Answers) /\ Len(answers) \in Nat
      /\ Len(answers) > 0 /\ executed \in Seq(Nat) /\ Len(called) \in Nat
  BY DEF Typed
<1>2. GoodUpTo(1, answers, fns)
  BY <1>1 DEF GoodUpTo
<1>3. Len(called) + 1 <= Len(executed) /\ executed[Len(called) + 1] = t
  BY <1>1, <1>2 DEF InOrder
<1>4. Len(A) = Len(answers) - 1 /\ \A i \in 1 .. Len(A) : A[i] = answers[i + 1]
  BY <1>1
<1>5. t \in Nat
  <2>1. Head(answers) \in Answers
    BY <1>1
  <2> QED BY <2>1 DEF Answers
<1>6. /\ Len(c) = Len(called) + 1 /\ c[Len(c)] = t
      /\ \A i \in 1 .. Len(called) : c[i] = called[i]
  BY <1>1, <1>5
<1>7. \A i \in 1 .. Len(c) : c[i] \notin F
  BY <1>1, <1>6 DEF InOrder
<1>8. ASSUME NEW i \in 0 .. Len(A), GoodUpTo(i, A, F) PROVE GoodUpTo(i + 1, answers, fns)
  <2> SUFFICES ASSUME NEW j \in 1 .. i + 1 PROVE Good(answers[j], fns)
    BY DEF GoodUpTo
  <2>1. CASE j = 1
    BY <1>1, <2>1
  <2>2. CASE j \in 2 .. i + 1
    <3>1. j - 1 \in 1 .. i /\ j - 1 \in 1 .. Len(A)
      BY <1>1, <1>4, <2>2
    <3>2. Good(A[j - 1], F)
      BY <1>8, <3>1 DEF GoodUpTo
    <3>3. A[j - 1] = answers[j]
      BY <1>4, <3>1
    <3> QED BY <3>2, <3>3 DEF Good
  <2> QED BY <1>1, <1>4, <2>1, <2>2
<1> HIDE DEF c, A, F
<1>9. \A i \in 1 .. Len(A) : GoodUpTo(i, A, F) =>
          Len(c) + i <= Len(executed) /\ A[i].tag = executed[Len(c) + i]
  <2> SUFFICES ASSUME NEW i \in 1 .. Len(A), GoodUpTo(i, A, F)
               PROVE  Len(c) + i <= Len(executed) /\ A[i].tag = executed[Len(c) + i]
    OBVIOUS
  <2>1. i + 1 \in 1 .. Len(answers) /\ GoodUpTo(i + 1, answers, fns)
    BY <1>1, <1>4, <1>8
  <2>2. /\ Len(called) + (i + 1) <= Len(executed)
        /\ answers[i + 1].tag = executed[Len(called) + (i + 1)]
    BY <2>1 DEF InOrder
  <2>3. Len(called) + (i + 1) = Len(c) + i
    BY <1>1, <1>4, <1>6
  <2> QED BY <1>4, <2>2, <2>3
<1>10. GoodUpTo(Len(A), A, F) => Len(c) + Len(A) = Len(executed)
  <2> SUFFICES ASSUME GoodUpTo(Len(A), A, F) PROVE Len(c) + Len(A) = Len(executed)
    OBVIOUS
  <2>1. Len(A) \in 0 .. Len(A) /\ Len(A) + 1 = Len(answers)
    BY <1>1, <1>4
  <2>2. GoodUpTo(Len(answers), answers, fns)
    BY <1>8, <2>1
  <2>3. Len(called) + Len(answers) = Len(executed)
    BY <2>2 DEF InOrder
  <2>4. Len(c) = Len(called) + 1 /\ Len(A) = Len(answers) - 1
    BY <1>4, <1>6
  <2>5. Len(called) \in Nat /\ Len(answers) \in Nat
    BY <1>1
  <2> QED BY <2>3, <2>4, <2>5
<1> QED BY <1>3, <1>7, <1>9, <1>10 DEF InOrder, c, A, F

\* The server adds an answer: to a command it has carried out, or a bad one.
LEMMA AnswerKeepsOrder ==
    ASSUME Typed, InOrder(called, answers, fns), NEW a \in Answers,
           answers' = Append(answers, a), UNCHANGED <<called, fns>>,
           \/ a.status = "OK" /\ executed' = Append(executed, a.tag)
           \/ a.status # "OK" /\ executed' = executed
    PROVE  InOrder(called, answers, fns)'
<1> DEFINE n == Len(answers)
           k == Len(called)
<1>1. /\ n \in Nat /\ k \in Nat /\ executed \in Seq(Nat) /\ answers \in Seq(Answers)
      /\ a.tag \in Nat
  BY DEF Typed, Answers
<1>2. Len(answers') = n + 1 /\ answers'[n + 1] = a /\ \A i \in 1 .. n : answers'[i] = answers[i]
  BY <1>1
<1>3. /\ Len(executed) <= Len(executed')
      /\ \A i \in 1 .. Len(executed) : executed'[i] = executed[i]
  <2>1. CASE executed' = executed
    BY <1>1, <2>1
  <2>2. CASE executed' = Append(executed, a.tag)
    BY <1>1, <2>2
  <2> QED BY <2>1, <2>2
<1>4. ASSUME NEW i \in 0 .. n, GoodUpTo(i, answers', fns') PROVE GoodUpTo(i, answers, fns)
  BY <1>1, <1>2, <1>4 DEF GoodUpTo
<1>5. ASSUME NEW i \in 1 .. n, GoodUpTo(i, answers', fns')
      PROVE  k + i <= Len(executed') /\ answers'[i].tag = executed'[k + i]
  <2>1. GoodUpTo(i, answers, fns)
    BY <1>1, <1>4, <1>5
  <2>2. k + i <= Len(executed) /\ answers[i].tag = executed[k + i]
    BY <2>1 DEF InOrder
  <2>3. k + i \in 1 .. Len(executed)
    BY <1>1, <2>2
  <2> QED BY <1>1, <1>2, <1>3, <2>2, <2>3
<1>6. ASSUME GoodUpTo(n + 1, answers', fns')
      PROVE  k + n + 1 = Len(executed') /\ a.tag = executed'[k + n + 1]
  <2>1. a.status = "OK"
    BY <1>1, <1>2, <1>6 DEF GoodUpTo, Good
  <2>2. GoodUpTo(n, answers', fns')
    BY <1>1, <1>6 DEF GoodUpTo
  <2>3. k + n = Len(executed)
    BY <1>1, <1>4, <2>2 DEF InOrder
  <2> QED BY <1>1, <2>1, <2>3
<1>7. \A i \in 1 .. Len(called') : called'[i] \notin fns'
  BY DEF InOrder
<1>8. \A i \in 1 .. n + 1 : GoodUpTo(i, answers', fns') =>
         k + i <= Len(executed') /\ answers'[i].tag = executed'[k + i]
  <2> SUFFICES ASSUME NEW i \in 1 .. n + 1, GoodUpTo(i, answers', fns')
               PROVE  k + i <= Len(executed') /\ answers'[i].tag = executed'[k + i]
    OBVIOUS
  <2>1. CASE i = n + 1
    BY <1>1, <1>2, <1>6, <2>1
  <2>2. CASE i \in 1 .. n
    BY <1>5, <2>2
  <2> QED BY <1>1, <2>1, <2>2
<1> QED BY <1>1, <1>2, <1>6, <1>7, <1>8, SMTT(30) DEF InOrder

LEMMA OrderStep == Book /\ Typed /\ OrderInv /\ [Next]_cvars => OrderInv'
<1> SUFFICES ASSUME Book, Typed, OrderInv, [Next]_cvars PROVE OrderInv'
  OBVIOUS
<1>0. /\ value \in Nat /\ wire \in Seq(GoodLines) /\ answers \in Seq(Answers)
      /\ executed \in Seq(Nat) /\ called \in Seq(Nat)
  BY DEF Book, Typed
<1>1. CASE UNCHANGED <<value, fns, wire, executed, answers, called, outcome>>
  BY <1>1 DEF OrderInv, InOrder, GoodUpTo, Good
<1>2. ASSUME NEW call \in Calls, NEW M, NEW C, NEW F, Issue(call, M, C, F),
             outcome = "open", UNCHANGED executed,
             answers' \in Seq(Answers), called' \in Seq(Nat),
             Len(called') <= Len(executed),
             \A i \in 1 .. Len(called') : called'[i] = executed[i],
             \A i \in 1 .. Len(answers') : answers'[i].tag < value,
             InOrder(called', answers', F)
      PROVE  OrderInv'
  <2>1. CASE outcome' = "thrown"
    <3>1. UNCHANGED wire /\ (value' = value \/ value' = value + 1)
      BY <1>2, <2>1, IssueEffect
    <3>2. \A i \in 1 .. Len(answers') : answers'[i].tag < value'
      <4>1. \A i \in 1 .. Len(answers') : answers'[i] \in Answers
        BY <1>2
      <4> QED BY <1>0, <1>2, <3>1, <4>1 DEF Answers
    <3>3. \A i \in 1 .. Len(executed) : executed[i] < value'
      BY <1>0, <3>1 DEF OrderInv
    <3>4. \A i \in 1 .. Len(wire) : wire[i].tag < value'
      BY <1>0, <3>1 DEF OrderInv, GoodLines, Lines
    <3> QED BY <1>2, <2>1, <3>1, <3>2, <3>3, <3>4 DEF OrderInv
  <2>2. CASE outcome' = "open"
    <3>1. PICK line : line.tag = value /\ wire' = Append(wire, line)
      BY <1>2, <2>2, IssueEffect
    <3>2. value' = value + 1 /\ fns' = F \cup {value}
      BY <1>2, <2>2, IssueEffect
    <3>3. \A i \in 1 .. Len(called') : called'[i] < value
      <4>1. Len(called') \in Nat /\ Len(executed) \in Nat
        BY <1>0, <1>2
      <4>2. \A i \in 1 .. Len(called') : i \in 1 .. Len(executed)
        BY <1>2, <4>1
      <4> QED BY <1>2, <4>2 DEF OrderInv
    <3>4. InOrder(called', answers', fns')
      BY <1>0, <1>2, <3>2, <3>3, NewTagKeepsOrder
    <3>5. InOrder(called, answers, fns)'
      BY <1>2, <3>4 DEF InOrder
    <3>6. \A i \in 1 .. Len(answers') : answers'[i].tag < value'
      <4>1. \A i \in 1 .. Len(answers') : answers'[i] \in Answers
        BY <1>2
      <4> QED BY <1>0, <1>2, <3>2, <4>1 DEF Answers
    <3>7. \A i \in 1 .. Len(executed) : executed[i] < value'
      BY <1>0, <3>2 DEF OrderInv
    <3>8. \A i \in 1 .. Len(wire') : wire'[i].tag < value'
      <4> SUFFICES ASSUME NEW i \in 1 .. Len(wire') PROVE wire'[i].tag < value'
        OBVIOUS
      <4>1. CASE i = Len(wire) + 1
        BY <1>0, <3>1, <3>2, <4>1
      <4>2. CASE i \in 1 .. Len(wire)
        <5>1. wire'[i] = wire[i]
          BY <1>0, <3>1, <4>2
        <5>2. wire[i].tag < value /\ wire[i].tag \in Nat
          BY <1>0, <4>2, SMTT(30) DEF OrderInv, GoodLines, Lines
        <5> QED BY <1>0, <3>2, <5>1, <5>2
      <4> QED BY <1>0, <3>1, <4>1, <4>2
    <3> QED BY <1>2, <3>5, <3>6, <3>7, <3>8 DEF OrderInv
  <2> QED BY <1>2, <2>1, <2>2, IssueEffect
<1>3. CASE Call
  <2>1. /\ outcome = "open" /\ UNCHANGED <<executed, answers, called>>
        /\ \E call \in Calls : Issue(call, map, command_set, fns)
    BY <1>3 DEF Call, serverVars
  <2> QED BY <1>0, <1>2, <2>1 DEF OrderInv
<1>4. CASE imap_tagged_status_end
  <2>1. outcome = "open" /\ answers # <<>> /\ answers' = Tail(answers) /\ UNCHANGED executed
    BY <1>4 DEF imap_tagged_status_end, serverVars
  <2>2. answers' \in Seq(Answers) /\ \A i \in 1 .. Len(answers') : answers'[i].tag < value
    BY <1>0, <2>1 DEF OrderInv
  <2>3. CASE Throw /\ UNCHANGED <<tagVars, wire, called>>
    BY <2>1, <2>2, <2>3 DEF OrderInv, Throw, tagVars
  <2>4. CASE Good(Head(answers), fns) /\ Completes(Head(answers).tag)
    <3> DEFINE t == Head(answers).tag
               M == [u \in DOMAIN map \ {t} |-> map[u]]
               C == command_set \ {map[t]}
               F == fns \ {t}
    <3>1. /\ called' = Append(called, t)
          /\ \/ fns' = F /\ UNCHANGED <<value, wire, outcome>>
             \/ \E call \in Calls : Issue(call, M, C, F)
      BY <2>4 DEF Completes
    <3>2. /\ InOrder(Append(called, t), Tail(answers), F)
          /\ Len(called) + 1 <= Len(executed) /\ executed[Len(called) + 1] = t
      BY <2>1, <2>4, PopKeepsOrder DEF OrderInv
    <3>3. t \in Nat
      <4>1. Head(answers) \in Answers
        BY <1>0, <2>1
      <4> QED BY <4>1 DEF Answers
    <3> HIDE DEF t, M, C, F
    <3>4. called' \in Seq(Nat) /\ Len(called') = Len(called) + 1
      BY <1>0, <3>1, <3>3
    <3>5. \A i \in 1 .. Len(called') : called'[i] = executed[i]
      <4> SUFFICES ASSUME NEW i \in 1 .. Len(called') PROVE called'[i] = executed[i]
        OBVIOUS
      <4>1. CASE i = Len(called) + 1
        BY <1>0, <3>1, <3>2, <3>3, <4>1
      <4>2. CASE i \in 1 .. Len(called)
        <5>1. called'[i] = called[i]
          BY <1>0, <3>1, <3>3, <4>2
        <5> QED BY <4>2, <5>1 DEF OrderInv
      <4>3. Len(called) \in Nat
        BY <1>0
      <4> QED BY <3>4, <4>1, <4>2, <4>3
    <3>6. InOrder(called', answers', F)
      BY <2>1, <3>1, <3>2
    <3>7. CASE fns' = F /\ UNCHANGED <<value, wire, outcome>>
      <4>1. InOrder(called, answers, fns)'
        BY <2>1, <3>6, <3>7 DEF InOrder
      <4> QED BY <2>1, <2>2, <3>2, <3>4, <3>5, <3>7, <4>1 DEF OrderInv
    <3>8. CASE \E call \in Calls : Issue(call, M, C, F)
      BY <1>2, <2>1, <2>2, <3>2, <3>4, <3>5, <3>6, <3>8
    <3> QED BY <3>1, <3>7, <3>8
  <2> QED BY <1>4, <2>3, <2>4 DEF imap_tagged_status_end, Good
<1>5. CASE ServerExecutes
  <2> DEFINE line == Head(wire)
  <2>1. /\ wire # <<>> /\ wire' = Tail(wire) /\ outcome = "open"
        /\ UNCHANGED <<value, fns, called, outcome>>
    BY <1>5 DEF ServerExecutes, clientVars, tagVars, Running
  <2>2. line \in GoodLines /\ line.tag < value
    BY <1>0, <2>1 DEF OrderInv
  <2>3. line.tag \in Nat
    BY <2>2 DEF GoodLines, Lines
  <2>4. PICK a \in Answers : /\ a.tag = line.tag /\ answers' = Append(answers, a)
                             /\ \/ a.status = "OK" /\ executed' = Append(executed, a.tag)
                                \/ a.status # "OK" /\ executed' = executed
    <3>1. \A s \in {"OK", "NO", "BAD"} : [tag |-> line.tag, status |-> s] \in Answers
      BY <2>3 DEF Answers
    <3>2. \/ /\ executed' = Append(executed, line.tag)
             /\ answers' = Append(answers, [tag |-> line.tag, status |-> "OK"])
          \/ /\ UNCHANGED executed
             /\ \E s \in {"NO", "BAD"} :
                  answers' = Append(answers, [tag |-> line.tag, status |-> s])
      BY <1>5 DEF ServerExecutes
    <3> HIDE DEF line
    <3> QED BY <3>1, <3>2
  <2> HIDE DEF line
  <2>5. InOrder(called, answers, fns)'
    BY <2>1, <2>4, AnswerKeepsOrder DEF OrderInv
  <2>6. \A i \in 1 .. Len(answers') : answers'[i].tag < value
    BY <1>0, <2>2, <2>4 DEF OrderInv
  <2>7. \A i \in 1 .. Len(wire') : wire'[i].tag < value
    BY <1>0, <2>1 DEF OrderInv
  <2>8. /\ \A i \in 1 .. Len(executed') : executed'[i] < value
        /\ Len(executed) <= Len(executed')
        /\ \A i \in 1 .. Len(executed) : executed'[i] = executed[i]
    <3>1. CASE executed' = executed
      BY <1>0, <3>1 DEF OrderInv
    <3>2. CASE executed' = Append(executed, a.tag)
      BY <1>0, <2>2, <2>3, <2>4, <3>2 DEF OrderInv
    <3> QED BY <2>4, <3>1, <3>2
  <2>9. Len(called) <= Len(executed') /\ \A i \in 1 .. Len(called) : called[i] = executed'[i]
    <3>1. Len(called) \in Nat /\ Len(executed) \in Nat /\ Len(executed') \in Nat
      BY <1>0, <2>3, <2>4
    <3>2. Len(called) <= Len(executed) /\ \A i \in 1 .. Len(called) : called[i] = executed[i]
      BY DEF OrderInv
    <3>3. \A i \in 1 .. Len(called) : i \in 1 .. Len(executed)
      BY <3>1, <3>2
    <3>4. Len(called) <= Len(executed')
      BY <2>8, <3>1, <3>2
    <3> QED BY <2>8, <3>2, <3>3, <3>4
  <2> QED BY <2>1, <2>5, <2>6, <2>7, <2>8, <2>9 DEF OrderInv
<1>6. CASE ServerRepeats
  <2>1. /\ outcome = "open" /\ answers = <<>>
        /\ UNCHANGED <<value, fns, wire, executed, called, outcome>>
    BY <1>6 DEF ServerRepeats, clientVars, tagVars, serverVars, Running
  <2>2. PICK i \in DOMAIN executed : answers' = <<[tag |-> executed[i], status |-> "OK"]>>
    BY <1>6 DEF ServerRepeats
  <2>3. InOrder(called, answers, fns) /\ GoodUpTo(0, answers, fns)
    BY <2>1 DEF OrderInv, GoodUpTo
  <2>4. Len(called) = Len(executed)
    BY <1>0, <2>1, <2>3 DEF InOrder
  <2>5. executed[i] \notin fns
    <3>1. i \in 1 .. Len(called)
      BY <1>0, <2>4
    <3>2. called[i] \notin fns
      BY <2>3, <3>1 DEF InOrder
    <3> QED BY <3>1, <3>2 DEF OrderInv
  <2>6. Len(answers') = 1 /\ answers'[1].tag = executed[i]
    BY <2>2
  <2>7. ~GoodUpTo(1, answers', fns')
    BY <2>1, <2>5, <2>6 DEF GoodUpTo, Good
  <2>8. InOrder(called, answers, fns)'
    BY <2>1, <2>3, <2>6, <2>7 DEF InOrder
  <2>9. \A j \in 1 .. Len(answers') : answers'[j].tag < value
    BY <1>0, <2>6 DEF OrderInv
  <2> QED BY <2>1, <2>8, <2>9 DEF OrderInv
<1>7. CASE Push \/ Clear \/ OtherExpunges \/ UNCHANGED cvars
  BY <1>1, <1>7 DEF Push, Clear, OtherExpunges, cvars, clientVars, tagVars, serverVars
<1> QED BY <1>3, <1>4, <1>5, <1>6, <1>7 DEF Next

\* Continuations are called in the order in which the server has carried out
\* their commands, each once, whichever answers are repeated, and for any number
\* of commands under way.
THEOREM CalledInOrderAlways == Spec => []CalledInOrder
<1>1. Init => OrderInv
  BY DEF Init, OrderInv, InOrder, GoodUpTo
<1>2. Typed /\ OrderInv => CalledInOrder
  <2> SUFFICES ASSUME Typed, OrderInv PROVE CalledInOrder
    OBVIOUS
  <2>1. called \in Seq(Nat) /\ executed \in Seq(Nat) /\ Len(called) \in Nat
    BY DEF Typed
  <2>2. SubSeq(called, 1, Len(called)) = SubSeq(executed, 1, Len(called))
    BY <2>1 DEF OrderInv
  <2> QED BY <2>2 DEF CalledInOrder, IsPrefix, OrderInv
<1> QED BY <1>1, <1>2, TypedInit, BookStep, TypedStep, OrderStep, PTL DEF Spec
=============================================================================
