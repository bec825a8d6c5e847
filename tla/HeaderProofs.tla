---------------------------- MODULE HeaderProofs ----------------------------
(***************************************************************************)
(* Proofs about Header, for all fields, encoded words and numbers of       *)
(* messages: the body that is handed over is the text of the field, and no *)
(* control character of an encoded word is in it.                          *)
(***************************************************************************)
EXTENDS Header, SequenceTheorems, FiniteSetTheorems, WellFoundedInduction, TLAPS
-----------------------------------------------------------------------------
\* Sequences of sequences, put together.

\* Induction over the natural numbers, for a set of numbers.
LEMMA NatSetInduction ==
  ASSUME NEW S, 0 \in S, \A n \in Nat : n \in S => n + 1 \in S
  PROVE  Nat \subseteq S
  <1> DEFINE T == Nat \ S
             R == OpToRel(<, Nat)
  <1> SUFFICES ASSUME T # {} PROVE FALSE
    OBVIOUS
  <1>1. IsWellFoundedOn(R, Nat)
    BY NatLessThanWellFounded
  <1>2. T \subseteq Nat
    OBVIOUS
  <1>3. PICK x \in T : \A y \in T : ~(<<y, x>> \in R)
    <2> HIDE DEF T, R
    <2> QED BY <1>1, <1>2, WFMin
  <1>4. x \in Nat /\ x # 0
    OBVIOUS
  <1>5. x - 1 \in Nat /\ x - 1 < x
    BY <1>4
  <1>6. <<x - 1, x>> \in R
    BY <1>4, <1>5 DEF OpToRel
  <1>7. x - 1 \notin T
    BY <1>3, <1>6
  <1>8. x \in S
    <2>1. x - 1 \in S
      BY <1>5, <1>7
    <2>2. (x - 1) + 1 \in S
      BY <1>5, <2>1
    <2> QED BY <1>4, <2>2
  <1> QED BY <1>8

\* f is the table of the partial concatenations of s.
IsFlat(f, s) == f = [i \in 1 .. Len(s) |-> IF i = 1 THEN s[i] ELSE f[i - 1] \o s[i]]

\* FlattenSeq of a sequence that is not empty is the last of them.
LEMMA FlatDef ==
  ASSUME NEW S, NEW s \in Seq(Seq(S)), Len(s) # 0, NEW g, IsFlat(g, s)
  PROVE  FlattenSeq(s) = g[Len(s)]
  <1> DEFINE h == CHOOSE f : IsFlat(f, s)
             n == Len(s)
  <1>1. IsFlat(h, s)
    BY Zenon
  <1>2. FlattenSeq(s) = h[n]
    BY DEF FlattenSeq, IsFlat
  <1> HIDE DEF h
  <1> DEFINE T == {k \in Nat : k + 1 \in 1 .. n => h[k + 1] = g[k + 1]}
  <1>3. 0 \in T
    BY <1>1 DEF IsFlat
  <1>4. ASSUME NEW k \in Nat, k \in T PROVE k + 1 \in T
    <2> SUFFICES ASSUME k + 2 \in 1 .. n PROVE h[k + 2] = g[k + 2]
      OBVIOUS
    <2>1. h[k + 1] = g[k + 1] /\ k + 1 \in 1 .. n
      BY <1>4
    <2>2. k + 2 # 1 /\ (k + 2) - 1 = k + 1 /\ (k + 1) + 1 = k + 2
      OBVIOUS
    <2>3. h[k + 2] = h[k + 1] \o s[k + 2]
      <3>1. h[k + 2] = h[(k + 2) - 1] \o s[k + 2]
        BY <1>1, <2>2, Zenon DEF IsFlat
      <3> QED BY <2>2, <3>1
    <2>4. g[k + 2] = g[k + 1] \o s[k + 2]
      <3>1. g[k + 2] = g[(k + 2) - 1] \o s[k + 2]
        BY <2>2, Zenon DEF IsFlat
      <3> QED BY <2>2, <3>1
    <2> QED BY <2>1, <2>3, <2>4
  <1>5. Nat \subseteq T
    <2> HIDE DEF T
    <2> QED BY <1>3, <1>4, NatSetInduction
  <1>6. n - 1 \in Nat /\ (n - 1) + 1 = n /\ n \in 1 .. n
    OBVIOUS
  <1> QED BY <1>2, <1>5, <1>6

\* Such a table exists, and has sequences in it.
LEMMA FlatTable ==
  ASSUME NEW S, NEW s \in Seq(Seq(S))
  PROVE  \E f \in [1 .. Len(s) -> Seq(S)] : IsFlat(f, s)
  <1> DEFINE n == Len(s)
             Tab(f, k) == f = [i \in 1 .. k |-> IF i = 1 THEN s[i] ELSE f[i - 1] \o s[i]]
             P(k) == \E f \in [1 .. k -> Seq(S)] : Tab(f, k)
             T == {k \in Nat : k <= n => P(k)}
  <1>1. 0 \in T
    <2> DEFINE f == [i \in 1 .. 0 |-> <<>>]
    <2>1. f \in [1 .. 0 -> Seq(S)] /\ Tab(f, 0)
      OBVIOUS
    <2> QED BY <2>1
  <1>2. ASSUME NEW k \in Nat, k \in T PROVE k + 1 \in T
    <2> SUFFICES ASSUME k + 1 <= n PROVE P(k + 1)
      <3> HIDE DEF P
      <3> QED OBVIOUS
    <2>0. P(k)
      <3> HIDE DEF P
      <3> QED BY <1>2
    <2>1. PICK f \in [1 .. k -> Seq(S)] : Tab(f, k)
      BY <2>0
    <2> DEFINE e == IF k = 0 THEN s[1] ELSE f[k] \o s[k + 1]
               g == [i \in 1 .. k + 1 |-> IF i = k + 1 THEN e ELSE f[i]]
    <2>2. s[k + 1] \in Seq(S) /\ (k = 0 => s[1] \in Seq(S))
      OBVIOUS
    <2>3. e \in Seq(S)
      BY <2>1, <2>2, ConcatProperties
    <2>4. \A i \in 1 .. k : f[i] = IF i = 1 THEN s[i] ELSE f[i - 1] \o s[i]
      BY <2>1
    <2>5. g \in [1 .. k + 1 -> Seq(S)]
      BY <2>3
    <2>6. ASSUME NEW i \in 1 .. k + 1 PROVE g[i] = IF i = 1 THEN s[i] ELSE g[i - 1] \o s[i]
      <3>1. CASE i = k + 1
        BY <3>1
      <3>2. CASE i # k + 1
        <4>1. i \in 1 .. k /\ (i = 1 \/ i - 1 \in 1 .. k) /\ i - 1 # k + 1 /\ g[i] = f[i]
          BY <3>2
        <4>2. i = 1 \/ g[i - 1] = f[i - 1]
          BY <4>1
        <4> QED BY <2>4, <4>1, <4>2
      <3> QED BY <3>1, <3>2
    <2>7. Tab(g, k + 1)
      BY <2>6
    <2> QED BY <2>5, <2>7
  <1>3. Nat \subseteq T
    <2> HIDE DEF T
    <2> QED BY <1>1, <1>2, NatSetInduction
  <1>4. n \in Nat
    OBVIOUS
  <1>5. P(n)
    <2> HIDE DEF P
    <2> QED BY <1>3, <1>4
  <1> QED BY <1>5 DEF IsFlat

\* Nothing put together is nothing.
LEMMA FlatEmpty == FlattenSeq(<<>>) = <<>>
  BY DEF FlattenSeq

\* What is put together from sequences of S is one.
LEMMA FlatType ==
  ASSUME NEW S, NEW s \in Seq(Seq(S))
  PROVE  FlattenSeq(s) \in Seq(S)
  <1>1. CASE Len(s) = 0
    BY <1>1, FlatEmpty, EmptySeq
  <1>2. CASE Len(s) # 0
    <2>1. PICK f \in [1 .. Len(s) -> Seq(S)] : IsFlat(f, s)
      BY FlatTable
    <2>2. FlattenSeq(s) = f[Len(s)]
      BY <1>2, <2>1, FlatDef
    <2> QED BY <1>2, <2>2, SMTT(30)
  <1> QED BY <1>1, <1>2

\* One sequence more comes last.
LEMMA FlatAppend ==
  ASSUME NEW S, NEW s \in Seq(Seq(S)), NEW e \in Seq(S)
  PROVE  FlattenSeq(Append(s, e)) = FlattenSeq(s) \o e
  <1> DEFINE t == Append(s, e)
             n == Len(s)
  <1>1. t \in Seq(Seq(S)) /\ Len(t) = n + 1 /\ t[n + 1] = e /\ \A i \in 1 .. n : t[i] = s[i]
    BY AppendProperties
  <1>2. PICK f \in [1 .. Len(t) -> Seq(S)] : IsFlat(f, t)
    BY <1>1, FlatTable
  <1>3. FlattenSeq(t) = f[n + 1]
    <2> HIDE DEF t
    <2>1. Len(t) # 0
      BY <1>1
    <2>2. FlattenSeq(t) = f[Len(t)]
      BY <1>1, <1>2, <2>1, FlatDef
    <2> QED BY <1>1, <2>2
  <1>4. CASE n = 0
    <2>1. f[1] = e
      BY <1>1, <1>2, <1>4 DEF IsFlat
    <2>2. s = <<>>
      BY <1>4, EmptySeq
    <2>3. <<>> \o e = e
      BY ConcatEmptySeq
    <2> QED BY <1>3, <1>4, <2>1, <2>2, <2>3, FlatEmpty
  <1>5. CASE n # 0
    <2> DEFINE g == [i \in 1 .. n |-> f[i]]
    <2> HIDE DEF t
    <2>0. \A i \in 1 .. n + 1 : f[i] = IF i = 1 THEN t[i] ELSE f[i - 1] \o t[i]
      BY <1>1, <1>2 DEF IsFlat
    <2>1. ASSUME NEW i \in 1 .. n PROVE g[i] = IF i = 1 THEN s[i] ELSE g[i - 1] \o s[i]
      <3>1. i \in 1 .. n + 1 /\ g[i] = f[i] /\ (i = 1 \/ g[i - 1] = f[i - 1])
        OBVIOUS
      <3> QED BY <1>1, <2>0, <3>1
    <2>2. IsFlat(g, s)
      BY <2>1 DEF IsFlat
    <2>3. FlattenSeq(s) = f[n]
      BY <1>5, <2>2, FlatDef, SMTT(30)
    <2>4. f[n + 1] = f[n] \o e
      <3>1. n + 1 \in 1 .. n + 1 /\ n + 1 # 1 /\ (n + 1) - 1 = n
        BY <1>5
      <3> HIDE DEF n
      <3>2. f[n + 1] = f[(n + 1) - 1] \o t[n + 1]
        BY <2>0, <3>1
      <3> QED BY <1>1, <3>1, <3>2
    <2> QED BY <1>3, <2>3, <2>4 DEF t
  <1> QED BY <1>4, <1>5

\* A table with one more entry.
LEMMA TableMore ==
  ASSUME NEW S, NEW n \in Nat, NEW f \in [1 .. n + 1 -> Seq(S)], NEW g \in [1 .. n -> Seq(S)],
         \A i \in 1 .. n : f[i] = g[i]
  PROVE  FlattenSeq(f) = FlattenSeq(g) \o f[n + 1]
  <1>1. f \in Seq(Seq(S)) /\ g \in Seq(Seq(S)) /\ Len(f) = n + 1 /\ Len(g) = n
    OBVIOUS
  <1>2. f = Append(g, f[n + 1])
    <2>1. Append(g, f[n + 1]) \in Seq(Seq(S)) /\ Len(Append(g, f[n + 1])) = n + 1
      BY <1>1, AppendProperties
    <2>2. \A i \in 1 .. n + 1 : Append(g, f[n + 1])[i] = f[i]
      BY <1>1, AppendProperties
    <2> QED BY <1>1, <2>1, <2>2, SeqEqual
  <1>3. FlattenSeq(Append(g, f[n + 1])) = FlattenSeq(g) \o f[n + 1]
    BY <1>1, FlatAppend
  <1> QED BY <1>2, <1>3

-----------------------------------------------------------------------------
\* What a token does, by the table of the automaton.

\* b holds these three buffers.
Holds(b, bu, sp, wh) ==
    /\ {"buffer", "space", "white", "thrown"} = DOMAIN b
    /\ b.buffer = bu /\ b.space = sp /\ b.white = wh
Spaces(n) == [i \in 1 .. n |-> Code.SP]

\* What each action makes of them.
LEMMA DoActions ==
  ASSUME NEW b, NEW bu, NEW sp, NEW wh, NEW t, Holds(b, bu, sp, wh)
  PROVE  /\ Holds(Do(b, "buffer_cont", t), Append(bu, Code[t]), sp, wh)
         /\ Holds(Do(b, "buffer_eq", t), Append(bu, 61), sp, wh)
         /\ Holds(Do(b, "space_start", t), bu, 0, 1)
         /\ Holds(Do(b, "space_more", t), bu, sp, wh + 1)
         /\ Holds(Do(b, "space_finish", t), bu, wh, wh)
         /\ Holds(Do(b, "ins_trail_space", t), bu \o Spaces(sp), 0, wh)
         /\ Holds(Do(b, "check_cr", t), bu, sp, wh)
         /\ Holds(Do(b, "check_lf", t), bu, sp, wh)
         /\ Holds(Do(b, "cb_header", t), bu, sp, wh)
  BY DEF Do, Holds, Spaces, Code

\* The recursive function of Run, for the lists of actions that occur.
IsRun(f, a, t) ==
    f = [i \in 0 .. Len(a) |-> IF i = 0 THEN Buffers ELSE Do(f[i - 1], a[i], t)]

\* Run is the last entry of its table, if there is one.
LEMMA RunDef ==
  ASSUME NEW a, NEW t, Len(a) \in 0 .. 3, NEW g, IsRun(g, a, t)
  PROVE  LET h == CHOOSE f : IsRun(f, a, t) IN
         Run(a, t) = h[Len(a)] /\ IsRun(h, a, t)
  <1> DEFINE h == CHOOSE f : IsRun(f, a, t)
  <1>1. IsRun(h, a, t)
    BY Zenon
  <1>2. Run(a, t) = h[Len(a)]
    BY DEF Run, IsRun
  <1> QED BY <1>1, <1>2

\* No action.
LEMMA RunZero == ASSUME NEW t PROVE Run(<<>>, t) = Buffers
  <1> DEFINE g == [i \in 0 .. 0 |-> Buffers]
             h == CHOOSE f : IsRun(f, <<>>, t)
  <1>1. IsRun(g, <<>>, t)
    BY DEF IsRun
  <1>2. Run(<<>>, t) = h[0] /\ IsRun(h, <<>>, t)
    BY <1>1, RunDef
  <1> HIDE DEF h
  <1> QED BY <1>2 DEF IsRun

\* One action.
LEMMA RunOne == ASSUME NEW t, NEW x PROVE Run(<<x>>, t) = Do(Buffers, x, t)
  <1> DEFINE a == <<x>>
             g == [i \in 0 .. 1 |-> IF i = 0 THEN Buffers ELSE Do(Buffers, x, t)]
             h == CHOOSE f : IsRun(f, a, t)
  <1>0. Len(a) = 1 /\ a[1] = x
    OBVIOUS
  <1>1. IsRun(g, a, t)
    <2>1. \A i \in 0 .. 1 : g[i] = IF i = 0 THEN Buffers ELSE Do(g[i - 1], a[i], t)
      OBVIOUS
    <2> QED BY <1>0, <2>1 DEF IsRun
  <1>2. Run(a, t) = h[1] /\ IsRun(h, a, t)
    BY <1>0, <1>1, RunDef
  <1> HIDE DEF h
  <1>3. h[1] = Do(h[0], x, t) /\ h[0] = Buffers
    BY <1>0, <1>2 DEF IsRun
  <1> QED BY <1>2, <1>3

\* Two actions, in their order.
LEMMA RunTwo ==
  ASSUME NEW t, NEW x, NEW y PROVE Run(<<x, y>>, t) = Do(Do(Buffers, x, t), y, t)
  <1> DEFINE a == <<x, y>>
             d1 == Do(Buffers, x, t)
             d2 == Do(d1, y, t)
             g == [i \in 0 .. 2 |-> IF i = 0 THEN Buffers ELSE IF i = 1 THEN d1 ELSE d2]
             h == CHOOSE f : IsRun(f, a, t)
  <1>0. Len(a) = 2 /\ a[1] = x /\ a[2] = y
    OBVIOUS
  <1>1. IsRun(g, a, t)
    <2>1. \A i \in 0 .. 2 : i = 0 \/ i = 1 \/ i = 2
      OBVIOUS
    <2>2. \A i \in 0 .. 2 : g[i] = IF i = 0 THEN Buffers ELSE Do(g[i - 1], a[i], t)
      BY <2>1
    <2> QED BY <1>0, <2>2 DEF IsRun
  <1>2. Run(a, t) = h[2] /\ IsRun(h, a, t)
    BY <1>0, <1>1, RunDef
  <1> HIDE DEF h
  <1>3. h[2] = Do(h[1], y, t) /\ h[1] = Do(h[0], x, t) /\ h[0] = Buffers
    BY <1>0, <1>2 DEF IsRun
  <1> QED BY <1>2, <1>3

\* Three actions.
LEMMA RunThree ==
  ASSUME NEW t, NEW x, NEW y, NEW z
  PROVE  Run(<<x, y, z>>, t) = Do(Do(Do(Buffers, x, t), y, t), z, t)
  <1> DEFINE a == <<x, y, z>>
             d1 == Do(Buffers, x, t)
             d2 == Do(d1, y, t)
             d3 == Do(d2, z, t)
             g == [i \in 0 .. 3 |-> IF i = 0 THEN Buffers ELSE IF i = 1 THEN d1
                                    ELSE IF i = 2 THEN d2 ELSE d3]
             h == CHOOSE f : IsRun(f, a, t)
  <1>0. Len(a) = 3 /\ a[1] = x /\ a[2] = y /\ a[3] = z
    OBVIOUS
  <1>1. IsRun(g, a, t)
    <2>1. \A i \in 0 .. 3 : i = 0 \/ i = 1 \/ i = 2 \/ i = 3
      OBVIOUS
    <2>2. \A i \in 0 .. 3 : g[i] = IF i = 0 THEN Buffers ELSE Do(g[i - 1], a[i], t)
      BY <2>1
    <2> QED BY <1>0, <2>2 DEF IsRun
  <1>2. Run(a, t) = h[3] /\ IsRun(h, a, t)
    BY <1>0, <1>1, RunDef
  <1> HIDE DEF h
  <1>3. h[3] = Do(h[2], z, t) /\ h[2] = Do(h[1], y, t) /\ h[1] = Do(h[0], x, t) /\ h[0] = Buffers
    BY <1>0, <1>2 DEF IsRun
  <1> QED BY <1>2, <1>3

\* Front and Last undo Append.
LEMMA FrontLast ==
  ASSUME NEW S, NEW s \in Seq(S), NEW e \in S
  PROVE  Front(Append(s, e)) = s /\ Last(Append(s, e)) = e
  <1> DEFINE a == Append(s, e)
             n == Len(s)
  <1>1. a \in Seq(S) /\ Len(a) = n + 1 /\ a[n + 1] = e /\ \A i \in 1 .. n : a[i] = s[i]
    BY AppendProperties
  <1>2. n \in Nat /\ (n + 1) - 1 = n
    OBVIOUS
  <1> HIDE DEF a
  <1>3. /\ SubSeq(a, 1, n) \in Seq(S) /\ Len(SubSeq(a, 1, n)) = n
        /\ \A i \in 1 .. n : SubSeq(a, 1, n)[i] = a[i]
    BY <1>1, <1>2
  <1>4. SubSeq(a, 1, n) = s
    BY <1>1, <1>3, SeqEqual
  <1> QED BY <1>1, <1>2, <1>4 DEF Front, Last, a

\* The same for lists of up to four elements.
LEMMA List1 == ASSUME NEW x PROVE Front(<<x>>) = <<>> /\ Last(<<x>>) = x
  <1>1. <<x>> = Append(<<>>, x) /\ <<>> \in Seq({x}) /\ x \in {x}
    OBVIOUS
  <1> QED BY <1>1, FrontLast

\* The state a table entry ends with, and the actions before it: one of them,
LEMMA List2 == ASSUME NEW x, NEW y PROVE Front(<<x, y>>) = <<x>> /\ Last(<<x, y>>) = y
  <1>1. <<x, y>> = Append(<<x>>, y) /\ <<x>> \in Seq({x, y}) /\ y \in {x, y}
    OBVIOUS
  <1> QED BY <1>1, FrontLast

\* ... two,
LEMMA List3 ==
  ASSUME NEW x, NEW y, NEW z PROVE Front(<<x, y, z>>) = <<x, y>> /\ Last(<<x, y, z>>) = z
  <1>1. <<x, y, z>> = Append(<<x, y>>, z) /\ <<x, y>> \in Seq({x, y, z}) /\ z \in {x, y, z}
    OBVIOUS
  <1> QED BY <1>1, FrontLast

\* ... three.
LEMMA List4 ==
  ASSUME NEW x, NEW y, NEW z, NEW u
  PROVE  Front(<<x, y, z, u>>) = <<x, y, z>> /\ Last(<<x, y, z, u>>) = u
  <1>1. <<x, y, z, u>> = Append(<<x, y, z>>, u) /\ <<x, y, z>> \in Seq({x, y, z, u})
    OBVIOUS
  <1>2. u \in {x, y, z, u}
    OBVIOUS
  <1> QED BY <1>1, <1>2, FrontLast

\* What a token read outside of encoded words does.
TokenText(t) == IF t \in DOMAIN Code THEN <<Code[t]>> ELSE <<>>
Effect(to, bu, sp, wh) == cs' = to /\ buffer' = bu /\ space' = sp /\ white' = wh
ReadEffect(t) ==
    \/ /\ cs \in {"fb_start", "w", "ew_tail"} /\ t = "SP"
       /\ Effect(IF cs = "ew_tail" THEN "after_ew_ws" ELSE "ws", buffer, 0, 1)
    \/ /\ cs \in {"fb_start", "w", "ew_tail"} /\ t = "fa"
       /\ Effect("w", Append(buffer, 119), space, white)
    \/ /\ cs \in {"fb_start", "w", "ew_tail", "after_ew_ws", "foldmark"} /\ t = "EQ"
       /\ Effect("ew", buffer, space, white)
    \/ /\ cs \in {"fb_start", "w", "ew_tail", "after_ew_ws"} /\ t \in {"CR", "LF"}
       /\ Effect(IF t = "CR" THEN "cr" ELSE "lf", buffer, space, white)
    \/ cs = "cr" /\ t = "LF" /\ Effect("lf", buffer, space, white)
    \/ cs \in {"ws", "after_ew_ws", "foldmark"} /\ t = "SP" /\ Effect(cs, buffer, space, white + 1)
    \/ cs = "ws" /\ t = "EQ" /\ Effect("ew", buffer \o Spaces(white), 0, white)
    \/ /\ cs \in {"ws", "after_ew_ws", "foldmark"} /\ t = "fa"
       /\ Effect("w", Append(buffer \o Spaces(white), 119), 0, white)
    \/ /\ cs = "ws" /\ t \in {"CR", "LF"}
       /\ Effect(IF t = "CR" THEN "cr" ELSE "lf", buffer, white, white)
    \/ cs = "ew" /\ t = "fa" /\ Effect("w", Append(Append(buffer, 61), 119), space, white)
    \/ cs = "ew" /\ t = "SP" /\ Effect("ws", Append(buffer, 61), 0, 1)
    \/ /\ cs = "ew" /\ t \in {"CR", "LF"}
       /\ Effect(IF t = "CR" THEN "cr" ELSE "lf", Append(buffer, 61), space, white)
    \/ cs = "lf" /\ t = "SP" /\ Effect("foldmark", buffer \o Spaces(space), 0, 1)
    \/ cs = "lf" /\ t \in {"NUL", "LF"} /\ Effect("final", buffer \o Spaces(space), 0, white)

RunsTo(steps, t, to, bu, sp, wh) ==
    Last(steps) = to /\ Holds(Run(Front(steps), t), bu, sp, wh)

\* What the entries of the table do with the buffers.
LEMMA Steps ==
  ASSUME NEW t, NEW to
  PROVE  /\ RunsTo(<<to>>, t, to, buffer, space, white)
         /\ RunsTo(<<"buffer_cont", to>>, t, to, Append(buffer, Code[t]), space, white)
         /\ RunsTo(<<"check_cr", to>>, t, to, buffer, space, white)
         /\ RunsTo(<<"check_lf", to>>, t, to, buffer, space, white)
         /\ RunsTo(<<"space_more", to>>, t, to, buffer, space, white + 1)
         /\ RunsTo(<<"space_start", to>>, t, to, buffer, 0, 1)
         /\ RunsTo(<<"buffer_eq", "buffer_cont", to>>, t, to,
                   Append(Append(buffer, 61), Code[t]), space, white)
         /\ RunsTo(<<"buffer_eq", "space_start", to>>, t, to, Append(buffer, 61), 0, 1)
         /\ RunsTo(<<"check_cr", "buffer_eq", to>>, t, to, Append(buffer, 61), space, white)
         /\ RunsTo(<<"check_lf", "buffer_eq", to>>, t, to, Append(buffer, 61), space, white)
         /\ RunsTo(<<"check_cr", "space_finish", to>>, t, to, buffer, white, white)
         /\ RunsTo(<<"check_lf", "space_finish", to>>, t, to, buffer, white, white)
         /\ RunsTo(<<"ins_trail_space", "cb_header", to>>, t, to, buffer \o Spaces(space), 0, white)
         /\ RunsTo(<<"ins_trail_space", "space_start", to>>, t, to, buffer \o Spaces(space), 0, 1)
         /\ RunsTo(<<"space_finish", "ins_trail_space", to>>, t, to,
                   buffer \o Spaces(white), 0, white)
         /\ RunsTo(<<"space_finish", "ins_trail_space", "buffer_cont", to>>, t, to,
                   Append(buffer \o Spaces(white), Code[t]), 0, white)
  <1>0. Holds(Buffers, buffer, space, white)
    BY DEF Buffers, Holds
  <1>2. RunsTo(<<to>>, t, to, buffer, space, white)
    BY <1>0, List1, RunZero DEF RunsTo
  <1>3. /\ RunsTo(<<"buffer_cont", to>>, t, to, Append(buffer, Code[t]), space, white)
        /\ RunsTo(<<"check_cr", to>>, t, to, buffer, space, white)
        /\ RunsTo(<<"check_lf", to>>, t, to, buffer, space, white)
    BY <1>0, List2, RunOne, DoActions DEF RunsTo
  <1>4. /\ RunsTo(<<"space_more", to>>, t, to, buffer, space, white + 1)
        /\ RunsTo(<<"space_start", to>>, t, to, buffer, 0, 1)
    BY <1>0, List2, RunOne, DoActions DEF RunsTo
  <1>5. /\ RunsTo(<<"buffer_eq", "buffer_cont", to>>, t, to,
                  Append(Append(buffer, 61), Code[t]), space, white)
        /\ RunsTo(<<"buffer_eq", "space_start", to>>, t, to, Append(buffer, 61), 0, 1)
    <2>1. Holds(Do(Buffers, "buffer_eq", t), Append(buffer, 61), space, white)
      BY <1>0, DoActions
    <2> QED BY <2>1, List3, RunTwo, DoActions DEF RunsTo
  <1>6. /\ RunsTo(<<"check_cr", "buffer_eq", to>>, t, to, Append(buffer, 61), space, white)
        /\ RunsTo(<<"check_cr", "space_finish", to>>, t, to, buffer, white, white)
    <2>1. Holds(Do(Buffers, "check_cr", t), buffer, space, white)
      BY <1>0, DoActions
    <2> QED BY <2>1, List3, RunTwo, DoActions DEF RunsTo
  <1>7. /\ RunsTo(<<"check_lf", "buffer_eq", to>>, t, to, Append(buffer, 61), space, white)
        /\ RunsTo(<<"check_lf", "space_finish", to>>, t, to, buffer, white, white)
    <2>1. Holds(Do(Buffers, "check_lf", t), buffer, space, white)
      BY <1>0, DoActions
    <2> QED BY <2>1, List3, RunTwo, DoActions DEF RunsTo
  <1>8. /\ RunsTo(<<"ins_trail_space", "cb_header", to>>, t, to, buffer \o Spaces(space), 0, white)
        /\ RunsTo(<<"ins_trail_space", "space_start", to>>, t, to, buffer \o Spaces(space), 0, 1)
    <2>1. Holds(Do(Buffers, "ins_trail_space", t), buffer \o Spaces(space), 0, white)
      BY <1>0, DoActions
    <2> QED BY <2>1, List3, RunTwo, DoActions DEF RunsTo
  <1>9. /\ RunsTo(<<"space_finish", "ins_trail_space", to>>, t, to,
                  buffer \o Spaces(white), 0, white)
        /\ RunsTo(<<"space_finish", "ins_trail_space", "buffer_cont", to>>, t, to,
                  Append(buffer \o Spaces(white), Code[t]), 0, white)
    <2>1. Holds(Do(Buffers, "space_finish", t), buffer, white, white)
      BY <1>0, DoActions
    <2>2. Holds(Do(Do(Buffers, "space_finish", t), "ins_trail_space", t),
                buffer \o Spaces(white), 0, white)
      BY <2>1, DoActions
    <2>3. Holds(Do(Do(Do(Buffers, "space_finish", t), "ins_trail_space", t), "buffer_cont", t),
                Append(buffer \o Spaces(white), Code[t]), 0, white)
      BY <2>2, DoActions
    <2>4. RunsTo(<<"space_finish", "ins_trail_space", to>>, t, to,
                 buffer \o Spaces(white), 0, white)
      BY <2>2, List3, RunTwo DEF RunsTo
    <2> QED BY <2>3, <2>4, List4, RunThree DEF RunsTo
  <1> QED BY <1>2, <1>3, <1>4, <1>5, <1>6, <1>7, <1>8, <1>9

\* Reading a token does one of these things.
LEMMA ReadEffects ==
  ASSUME NEW t \in Tokens, Read(t)
  PROVE  ReadEffect(t)
  <1> DEFINE steps == header[cs][t]
  <1>0. ASSUME NEW to, NEW bu, NEW sp, NEW wh, RunsTo(steps, t, to, bu, sp, wh)
        PROVE  Effect(to, bu, sp, wh)
    BY <1>0 DEF Read, RunsTo, Effect, Holds
  <1>1. t = "fa" => Code[t] = 119
    BY DEF Code
  <1>2. cs \in {"fb_start", "ws", "w", "ew", "ew_tail", "after_ew_ws", "cr", "lf", "foldmark"}
    BY DEF Read, header
  <1>3. CASE cs \in {"fb_start", "w"}
    <2>1. /\ t \in {"SP", "fa", "EQ", "CR", "LF"}
          /\ t = "SP" => steps = <<"space_start", "ws">>
          /\ t = "fa" => steps = <<"buffer_cont", "w">>
          /\ t = "EQ" => steps = <<"ew">>
          /\ t = "CR" => steps = <<"check_cr", "cr">>
          /\ t = "LF" => steps = <<"check_lf", "lf">>
      BY <1>3 DEF Read, header
    <2> HIDE DEF steps
    <2>2. t = "SP" => Effect("ws", buffer, 0, 1)
      BY <1>0, <2>1, Steps
    <2>3. t = "fa" => Effect("w", Append(buffer, 119), space, white)
      <3>1. t = "fa" => RunsTo(steps, t, "w", Append(buffer, Code[t]), space, white)
        BY <2>1, Steps
      <3>2. t = "fa" => Effect("w", Append(buffer, Code[t]), space, white)
        BY <1>0, <3>1
      <3> QED BY <1>1, <3>2
    <2>4. t = "EQ" => Effect("ew", buffer, space, white)
      BY <1>0, <2>1, Steps
    <2>5. t = "CR" => Effect("cr", buffer, space, white)
      BY <1>0, <2>1, Steps
    <2>6. t = "LF" => Effect("lf", buffer, space, white)
      BY <1>0, <2>1, Steps
    <2> QED BY <1>3, <2>1, <2>2, <2>3, <2>4, <2>5, <2>6 DEF ReadEffect
  <1>4. CASE cs = "ws"
    <2>1. /\ t \in {"SP", "fa", "EQ", "CR", "LF"}
          /\ t = "SP" => steps = <<"space_more", "ws">>
          /\ t = "fa" => steps = <<"space_finish", "ins_trail_space", "buffer_cont", "w">>
          /\ t = "EQ" => steps = <<"space_finish", "ins_trail_space", "ew">>
          /\ t = "CR" => steps = <<"check_cr", "space_finish", "cr">>
          /\ t = "LF" => steps = <<"check_lf", "space_finish", "lf">>
      BY <1>4 DEF Read, header
    <2> HIDE DEF steps
    <2>2. t = "SP" => Effect("ws", buffer, space, white + 1)
      BY <1>0, <2>1, Steps
    <2>3. t = "fa" => Effect("w", Append(buffer \o Spaces(white), 119), 0, white)
      <3>1. t = "fa" => RunsTo(steps, t, "w", Append(buffer \o Spaces(white), Code[t]), 0, white)
        BY <2>1, Steps
      <3>2. t = "fa" => Effect("w", Append(buffer \o Spaces(white), Code[t]), 0, white)
        BY <1>0, <3>1
      <3> QED BY <1>1, <3>2
    <2>4. t = "EQ" => Effect("ew", buffer \o Spaces(white), 0, white)
      BY <1>0, <2>1, Steps
    <2>5. t = "CR" => Effect("cr", buffer, white, white)
      BY <1>0, <2>1, Steps
    <2>6. t = "LF" => Effect("lf", buffer, white, white)
      BY <1>0, <2>1, Steps
    <2> QED BY <1>4, <2>1, <2>2, <2>3, <2>4, <2>5, <2>6 DEF ReadEffect
  <1>5. CASE cs = "ew"
    <2>1. /\ t \in {"SP", "fa", "CR", "LF"}
          /\ t = "SP" => steps = <<"buffer_eq", "space_start", "ws">>
          /\ t = "fa" => steps = <<"buffer_eq", "buffer_cont", "w">>
          /\ t = "CR" => steps = <<"check_cr", "buffer_eq", "cr">>
          /\ t = "LF" => steps = <<"check_lf", "buffer_eq", "lf">>
      BY <1>5 DEF Read, header
    <2> HIDE DEF steps
    <2>2. t = "SP" => Effect("ws", Append(buffer, 61), 0, 1)
      BY <1>0, <2>1, Steps
    <2>3. t = "fa" => Effect("w", Append(Append(buffer, 61), 119), space, white)
      <3>1. t = "fa" => RunsTo(steps, t, "w", Append(Append(buffer, 61), Code[t]), space, white)
        BY <2>1, Steps
      <3>2. t = "fa" => Effect("w", Append(Append(buffer, 61), Code[t]), space, white)
        BY <1>0, <3>1
      <3> QED BY <1>1, <3>2
    <2>4. t = "CR" => Effect("cr", Append(buffer, 61), space, white)
      BY <1>0, <2>1, Steps
    <2>5. t = "LF" => Effect("lf", Append(buffer, 61), space, white)
      BY <1>0, <2>1, Steps
    <2> QED BY <1>5, <2>1, <2>2, <2>3, <2>4, <2>5 DEF ReadEffect
  <1>6. CASE cs = "ew_tail"
    <2>1. /\ t \in {"SP", "fa", "EQ", "CR", "LF"}
          /\ t = "SP" => steps = <<"space_start", "after_ew_ws">>
          /\ t = "fa" => steps = <<"buffer_cont", "w">>
          /\ t = "EQ" => steps = <<"ew">>
          /\ t = "CR" => steps = <<"check_cr", "cr">>
          /\ t = "LF" => steps = <<"check_lf", "lf">>
      BY <1>6 DEF Read, header
    <2> HIDE DEF steps
    <2>2. t = "SP" => Effect("after_ew_ws", buffer, 0, 1)
      BY <1>0, <2>1, Steps
    <2>3. t = "fa" => Effect("w", Append(buffer, 119), space, white)
      <3>1. t = "fa" => RunsTo(steps, t, "w", Append(buffer, Code[t]), space, white)
        BY <2>1, Steps
      <3>2. t = "fa" => Effect("w", Append(buffer, Code[t]), space, white)
        BY <1>0, <3>1
      <3> QED BY <1>1, <3>2
    <2>4. t = "EQ" => Effect("ew", buffer, space, white)
      BY <1>0, <2>1, Steps
    <2>5. t = "CR" => Effect("cr", buffer, space, white)
      BY <1>0, <2>1, Steps
    <2>6. t = "LF" => Effect("lf", buffer, space, white)
      BY <1>0, <2>1, Steps
    <2> QED BY <1>6, <2>1, <2>2, <2>3, <2>4, <2>5, <2>6 DEF ReadEffect
  <1>7. CASE cs = "after_ew_ws"
    <2>1. /\ t \in {"SP", "fa", "EQ", "CR", "LF"}
          /\ t = "SP" => steps = <<"space_more", "after_ew_ws">>
          /\ t = "fa" => steps = <<"space_finish", "ins_trail_space", "buffer_cont", "w">>
          /\ t = "EQ" => steps = <<"ew">>
          /\ t = "CR" => steps = <<"check_cr", "cr">>
          /\ t = "LF" => steps = <<"check_lf", "lf">>
      BY <1>7 DEF Read, header
    <2> HIDE DEF steps
    <2>2. t = "SP" => Effect("after_ew_ws", buffer, space, white + 1)
      BY <1>0, <2>1, Steps
    <2>3. t = "fa" => Effect("w", Append(buffer \o Spaces(white), 119), 0, white)
      <3>1. t = "fa" => RunsTo(steps, t, "w", Append(buffer \o Spaces(white), Code[t]), 0, white)
        BY <2>1, Steps
      <3>2. t = "fa" => Effect("w", Append(buffer \o Spaces(white), Code[t]), 0, white)
        BY <1>0, <3>1
      <3> QED BY <1>1, <3>2
    <2>4. t = "EQ" => Effect("ew", buffer, space, white)
      BY <1>0, <2>1, Steps
    <2>5. t = "CR" => Effect("cr", buffer, space, white)
      BY <1>0, <2>1, Steps
    <2>6. t = "LF" => Effect("lf", buffer, space, white)
      BY <1>0, <2>1, Steps
    <2> QED BY <1>7, <2>1, <2>2, <2>3, <2>4, <2>5, <2>6 DEF ReadEffect
  <1>8. CASE cs = "cr"
    <2>1. t = "LF" /\ steps = <<"lf">>
      BY <1>8 DEF Read, header
    <2> HIDE DEF steps
    <2> QED BY <1>0, <1>8, <2>1, Steps DEF ReadEffect
  <1>9. CASE cs = "lf"
    <2>1. /\ t \in {"SP", "NUL", "LF"}
          /\ t = "SP" => steps = <<"ins_trail_space", "space_start", "foldmark">>
          /\ t # "SP" => steps = <<"ins_trail_space", "cb_header", "final">>
      BY <1>9 DEF Read, header
    <2> HIDE DEF steps
    <2> QED BY <1>0, <1>9, <2>1, Steps, ZenonT(30) DEF ReadEffect
  <1>10. CASE cs = "foldmark"
    <2>1. /\ t \in {"SP", "fa", "EQ"}
          /\ t = "SP" => steps = <<"space_more", "foldmark">>
          /\ t = "fa" => steps = <<"space_finish", "ins_trail_space", "buffer_cont", "w">>
          /\ t = "EQ" => steps = <<"ew">>
      BY <1>10 DEF Read, header
    <2> HIDE DEF steps
    <2>2. t = "SP" => Effect("foldmark", buffer, space, white + 1)
      BY <1>0, <2>1, Steps
    <2>3. t = "fa" => Effect("w", Append(buffer \o Spaces(white), 119), 0, white)
      <3>1. t = "fa" => RunsTo(steps, t, "w", Append(buffer \o Spaces(white), Code[t]), 0, white)
        BY <2>1, Steps
      <3>2. t = "fa" => Effect("w", Append(buffer \o Spaces(white), Code[t]), 0, white)
        BY <1>0, <3>1
      <3> QED BY <1>1, <3>2
    <2>4. t = "EQ" => Effect("ew", buffer, space, white)
      BY <1>0, <2>1, Steps
    <2> QED BY <1>10, <2>1, <2>2, <2>3, <2>4 DEF ReadEffect
  <1> QED BY <1>2, <1>3, <1>4, <1>5, <1>6, <1>7, <1>8, <1>9, <1>10

-----------------------------------------------------------------------------
\* The bits of base64.

\* The powers of two that occur.
LEMMA Powers == /\ 2^0 = 1 /\ 2^1 = 2 /\ 2^2 = 4 /\ 2^3 = 8 /\ 2^4 = 16 /\ 2^5 = 32
                /\ 2^8 = 256 /\ 2^16 = 65536 /\ 2^24 = 16777216
  BY SMT

\* A bit of a digit that is there is not changed by one more digit.
LEMMA OctetAppend ==
  ASSUME NEW s \in Seq(Int), NEW e \in Int, NEW o \in 1 .. (6 * Len(s)) \div 8
  PROVE  OctetAt(Append(s, e), o) = OctetAt(s, o)
  <1>1. ASSUME NEW k \in 0 .. 7 PROVE Bit(Append(s, e), 8 * (o - 1) + k) = Bit(s, 8 * (o - 1) + k)
    <2> DEFINE m == 8 * (o - 1) + k
    <2>1. m \div 6 + 1 \in 1 .. Len(s)
      OBVIOUS
    <2>2. Append(s, e)[m \div 6 + 1] = s[m \div 6 + 1]
      BY <2>1, AppendProperties
    <2> QED BY <2>2 DEF Bit
  <1> QED BY <1>1 DEF OctetAt

\* Bits are bits, octets are octets.
LEMMA BitType ==
  ASSUME NEW s \in Seq(Int), NEW m \in Nat, m \div 6 + 1 \in 1 .. Len(s)
  PROVE  Bit(s, m) \in 0 .. 1
  <1>1. s[m \div 6 + 1] \in Int
    OBVIOUS
  <1>2. 5 - (m % 6) \in 0 .. 5
    OBVIOUS
  <1>3. 2^(5 - (m % 6)) \in {1, 2, 4, 8, 16, 32}
    <2> DEFINE x == 5 - (m % 6)
    <2>1. x = 0 \/ x = 1 \/ x = 2 \/ x = 3 \/ x = 4 \/ x = 5
      BY <1>2
    <2> HIDE DEF x
    <2>2. 2^x \in {1, 2, 4, 8, 16, 32}
      <3>1. CASE x = 0
        BY SMT, <3>1, Powers
      <3>2. CASE x = 1
        BY SMT, <3>2, Powers
      <3>3. CASE x = 2
        BY SMT, <3>3, Powers
      <3>4. CASE x = 3
        BY SMT, <3>4, Powers
      <3>5. CASE x = 4
        BY SMT, <3>5, Powers
      <3>6. CASE x = 5
        BY SMT, <3>6, Powers
      <3> QED BY <2>1, <3>1, <3>2, <3>3, <3>4, <3>5, <3>6
    <2> QED BY <2>2 DEF x
  <1> DEFINE y == s[m \div 6 + 1]
             p == 2^(5 - (m % 6))
  <1>4. Bit(s, m) = (y \div p) % 2
    BY DEF Bit
  <1>5. y \in Int /\ p \in {1, 2, 4, 8, 16, 32}
    BY <1>1, <1>3
  <1> HIDE DEF y, p
  <1>6. y \div p \in Int
    BY <1>5
  <1> QED BY <1>4, <1>6

Byte(a, b, c, d, e, f, g, h) ==
    128 * a + 64 * b + 32 * c + 16 * d + 8 * e + 4 * f + 2 * g + h

\* Eight bits are an octet.
LEMMA EightBits ==
  ASSUME NEW a \in 0 .. 1, NEW b \in 0 .. 1, NEW c \in 0 .. 1, NEW d \in 0 .. 1,
         NEW e \in 0 .. 1, NEW f \in 0 .. 1, NEW g \in 0 .. 1, NEW h \in 0 .. 1
  PROVE  Byte(a, b, c, d, e, f, g, h) \in 0 .. 255
  BY DEF Byte

\* What is read off the digits is an octet.
LEMMA OctetType ==
  ASSUME NEW s \in Seq(Int), NEW o \in 1 .. (6 * Len(s)) \div 8
  PROVE  OctetAt(s, o) \in 0 .. 255
  <1>1. ASSUME NEW k \in 0 .. 7 PROVE Bit(s, 8 * (o - 1) + k) \in 0 .. 1
    <2>1. 8 * (o - 1) + k \in Nat /\ (8 * (o - 1) + k) \div 6 + 1 \in 1 .. Len(s)
      OBVIOUS
    <2> QED BY <2>1, BitType
  <1> DEFINE at(k) == Bit(s, 8 * (o - 1) + k)
  <1>2. /\ at(0) \in 0 .. 1 /\ at(1) \in 0 .. 1 /\ at(2) \in 0 .. 1 /\ at(3) \in 0 .. 1
        /\ at(4) \in 0 .. 1 /\ at(5) \in 0 .. 1 /\ at(6) \in 0 .. 1 /\ at(7) \in 0 .. 1
    BY <1>1
  <1>3. OctetAt(s, o) = Byte(at(0), at(1), at(2), at(3), at(4), at(5), at(6), at(7))
    BY DEF OctetAt, Byte
  <1> HIDE DEF at
  <1>4. Byte(at(0), at(1), at(2), at(3), at(4), at(5), at(6), at(7)) \in 0 .. 255
    BY <1>2, EightBits, Zenon
  <1> QED BY <1>3, <1>4

\* Four digits after q groups of four, as three octets.
LEMMA BitAt ==
  ASSUME NEW s, NEW q \in Nat, NEW k \in 0 .. 23
  PROVE  Bit(s, 24 * q + k) = (s[4 * q + (k \div 6) + 1] \div 2^(5 - (k % 6))) % 2
  <1>1. (24 * q + k) \div 6 = 4 * q + (k \div 6) /\ (24 * q + k) % 6 = k % 6
    OBVIOUS
  <1> QED BY <1>1 DEF Bit

\* The first octet of a group.
LEMMA Group ==
  ASSUME NEW s, NEW q \in Nat, NEW a \in 0 .. 63, NEW b \in 0 .. 63,
         s[4 * q + 1] = a, s[4 * q + 2] = b
  PROVE  OctetAt(s, 3 * q + 1) = 4 * a + (b \div 16)
  <1>1. 8 * ((3 * q + 1) - 1) = 24 * q
    OBVIOUS
  <1>2. /\ Bit(s, 24 * q + 0) = (a \div 32) % 2 /\ Bit(s, 24 * q + 1) = (a \div 16) % 2
        /\ Bit(s, 24 * q + 2) = (a \div 8) % 2 /\ Bit(s, 24 * q + 3) = (a \div 4) % 2
        /\ Bit(s, 24 * q + 4) = (a \div 2) % 2 /\ Bit(s, 24 * q + 5) = (a \div 1) % 2
        /\ Bit(s, 24 * q + 6) = (b \div 32) % 2 /\ Bit(s, 24 * q + 7) = (b \div 16) % 2
    BY SMT, BitAt, Powers
  <1>3. OctetAt(s, 3 * q + 1) = 128 * ((a \div 32) % 2) + 64 * ((a \div 16) % 2)
          + 32 * ((a \div 8) % 2) + 16 * ((a \div 4) % 2) + 8 * ((a \div 2) % 2)
          + 4 * ((a \div 1) % 2) + 2 * ((b \div 32) % 2) + ((b \div 16) % 2)
    BY <1>1, <1>2 DEF OctetAt
  <1> QED BY <1>3

Second(s, q) == OctetAt(s, 3 * q + 2)
Third(s, q) == OctetAt(s, 3 * q + 3)

\* Sums of neighbouring bits of a digit.
LEMMA BitSums ==
  ASSUME NEW b \in 0 .. 63
  PROVE  /\ 128 * ((b \div 8) % 2) + 64 * ((b \div 4) % 2) + 32 * ((b \div 2) % 2)
            + 16 * ((b \div 1) % 2) = 16 * (b % 16)
         /\ 8 * ((b \div 32) % 2) + 4 * ((b \div 16) % 2) + 2 * ((b \div 8) % 2)
            + ((b \div 4) % 2) = b \div 4
         /\ 128 * ((b \div 2) % 2) + 64 * ((b \div 1) % 2) = 64 * (b % 4)
         /\ 32 * ((b \div 32) % 2) + 16 * ((b \div 16) % 2) + 8 * ((b \div 8) % 2)
            + 4 * ((b \div 4) % 2) + 2 * ((b \div 2) % 2) + ((b \div 1) % 2) = b
  BY SMTT(60)

\* The second one.
LEMMA Group2 ==
  ASSUME NEW s, NEW q \in Nat, s[4 * q + 2] \in 0 .. 63, s[4 * q + 3] \in 0 .. 63
  PROVE  Second(s, q) = 16 * (s[4 * q + 2] % 16) + (s[4 * q + 3] \div 4)
  <1> DEFINE b == s[4 * q + 2]
             c == s[4 * q + 3]
  <1>0. b \in 0 .. 63 /\ c \in 0 .. 63 /\ s[4 * q + 2] = b /\ s[4 * q + 3] = c
    OBVIOUS
  <1> HIDE DEF b, c
  <1>1. \A k \in 0 .. 7 : 8 * ((3 * q + 2) - 1) + k = 24 * q + (8 + k)
    OBVIOUS
  <1>2. /\ Bit(s, 24 * q + 8) = (b \div 8) % 2 /\ Bit(s, 24 * q + 9) = (b \div 4) % 2
        /\ Bit(s, 24 * q + 10) = (b \div 2) % 2 /\ Bit(s, 24 * q + 11) = (b \div 1) % 2
        /\ Bit(s, 24 * q + 12) = (c \div 32) % 2 /\ Bit(s, 24 * q + 13) = (c \div 16) % 2
        /\ Bit(s, 24 * q + 14) = (c \div 8) % 2 /\ Bit(s, 24 * q + 15) = (c \div 4) % 2
    BY SMT, <1>0, BitAt, Powers
  <1>3. OctetAt(s, 3 * q + 2) = 128 * ((b \div 8) % 2) + 64 * ((b \div 4) % 2)
          + 32 * ((b \div 2) % 2) + 16 * ((b \div 1) % 2) + 8 * ((c \div 32) % 2)
          + 4 * ((c \div 16) % 2) + 2 * ((c \div 8) % 2) + ((c \div 4) % 2)
    BY <1>1, <1>2 DEF OctetAt
  <1> QED BY SMTT(60), <1>3, <1>0, BitSums DEF Second, b, c

\* The third one.
LEMMA Group3 ==
  ASSUME NEW s, NEW q \in Nat, s[4 * q + 3] \in 0 .. 63, s[4 * q + 4] \in 0 .. 63
  PROVE  Third(s, q) = 64 * (s[4 * q + 3] % 4) + s[4 * q + 4]
  <1> DEFINE c == s[4 * q + 3]
             d == s[4 * q + 4]
  <1>0. c \in 0 .. 63 /\ d \in 0 .. 63 /\ s[4 * q + 3] = c /\ s[4 * q + 4] = d
    OBVIOUS
  <1> HIDE DEF c, d
  <1>1. \A k \in 0 .. 7 : 8 * ((3 * q + 3) - 1) + k = 24 * q + (16 + k)
    OBVIOUS
  <1>2. /\ Bit(s, 24 * q + 16) = (c \div 2) % 2 /\ Bit(s, 24 * q + 17) = (c \div 1) % 2
        /\ Bit(s, 24 * q + 18) = (d \div 32) % 2 /\ Bit(s, 24 * q + 19) = (d \div 16) % 2
        /\ Bit(s, 24 * q + 20) = (d \div 8) % 2 /\ Bit(s, 24 * q + 21) = (d \div 4) % 2
        /\ Bit(s, 24 * q + 22) = (d \div 2) % 2 /\ Bit(s, 24 * q + 23) = (d \div 1) % 2
    BY SMT, <1>0, BitAt, Powers
  <1>3. OctetAt(s, 3 * q + 3) = 128 * ((c \div 2) % 2) + 64 * ((c \div 1) % 2)
          + 32 * ((d \div 32) % 2) + 16 * ((d \div 16) % 2) + 8 * ((d \div 8) % 2)
          + 4 * ((d \div 4) % 2) + 2 * ((d \div 2) % 2) + ((d \div 1) % 2)
    BY <1>1, <1>2 DEF OctetAt
  <1> QED BY SMTT(60), <1>3, <1>0, BitSums DEF Third, c, d

\* The unit: six bits more, and its octets.
LEMMA LowLimitIs == LowLimit = 16777216
  BY SMT, Powers DEF LowLimit

\* ... and it is a number.
LEMMA LowLimitNat == LowLimit \in Nat
  BY SMT, LowLimitIs
Units == [high : 0 .. 255, low : 0 .. LowLimit - 1]
Unit(h, l) == [high |-> h, low |-> l]

\* How to show that something is a unit,
LEMMA UnitsAre ==
  ASSUME NEW h \in 0 .. 255, NEW l \in Nat, l < 16777216
  PROVE  Unit(h, l) \in Units
  <1>1. l < LowLimit
    BY SMT, LowLimitIs
  <1> QED BY SMT, <1>1, LowLimitNat DEF Units, Unit

\* and what a unit consists of.
LEMMA UnitFields ==
  ASSUME NEW u \in Units
  PROVE  u.high \in 0 .. 255 /\ u.low \in Nat /\ u.low < 16777216
  <1>1. u.high \in 0 .. 255 /\ u.low \in Nat /\ u.low < LowLimit
    BY SMT, LowLimitNat DEF Units
  <1> QED BY SMT, <1>1, LowLimitIs

\* push_unit drops what runs over the 32 bits.
LEMMA PushType ==
  ASSUME unit \in Units, NEW v \in 0 .. 63
  PROVE  push_unit(v) \in Units /\ push_unit(v).low = (unit.low * 64 + v) % 16777216
  <1> DEFINE h == unit.high
             l == unit.low
             nh == (h * 64 + (l * 64 + v) \div 16777216) % 256
             nl == (l * 64 + v) % 16777216
  <1>1. l \in Nat /\ h \in 0 .. 255 /\ l < 16777216
    BY SMT, UnitFields
  <1>2. push_unit(v) = Unit(nh, nl) /\ Unit(nh, nl).low = nl
    BY SMT, LowLimitIs DEF push_unit, Unit
  <1>3. nh \in 0 .. 255 /\ nl \in Nat /\ nl < 16777216
    <2> HIDE DEF h, l
    <2> QED BY SMT, <1>1
  <1>4. nl = (unit.low * 64 + v) % 16777216
    BY SMT
  <1> HIDE DEF nh, nl
  <1>5. Unit(nh, nl) \in Units
    BY SMT, <1>3, UnitsAre
  <1> QED BY SMT, <1>2, <1>4, <1>5

\* What a finished group leaves is a unit.
LEMMA ShiftType ==
  ASSUME NEW u \in Units
  PROVE  shift_24(u) \in Units /\ shift_16(u) \in Units
  <1>1. u.high \in 0 .. 255 /\ u.low \in Nat /\ u.low < 16777216
    BY SMT, UnitFields
  <1>2. /\ u.high * 256 + u.low \div 65536 \in Nat
        /\ u.high * 256 + u.low \div 65536 < 16777216
    BY SMT, <1>1
  <1>3. u.high \in Nat /\ u.high < 16777216 /\ 0 \in 0 .. 255
    BY SMT, <1>1
  <1>4. shift_24(u) = Unit(0, u.high)
    BY DEF shift_24, Unit
  <1>5. shift_16(u) = Unit(0, u.high * 256 + u.low \div 65536)
    BY SMT, Powers DEF shift_16, Unit
  <1> DEFINE n == u.high * 256 + u.low \div 65536
  <1>6. n \in Nat /\ n < 16777216 /\ shift_16(u) = Unit(0, n)
    BY SMT, <1>2, <1>5
  <1> HIDE DEF n
  <1>7. shift_16(u) \in Units
    BY SMT, <1>3, <1>6, UnitsAre
  <1> QED BY SMT, <1>3, <1>4, <1>7, UnitsAre

\* The octets of a unit.
LEMMA OctetsOf ==
  ASSUME NEW u \in Units
  PROVE  /\ Octet(u, 2) = (u.low \div 65536) % 256 /\ Octet(u, 2) \in 0 .. 255
         /\ Octet(u, 1) = (u.low \div 256) % 256 /\ Octet(u, 1) \in 0 .. 255
         /\ Octet(u, 0) = u.low % 256 /\ Octet(u, 0) \in 0 .. 255
  <1>1. u.low \in Nat
    BY SMT, UnitFields
  <1>2. 8 * 2 = 16 /\ 8 * 1 = 8 /\ 8 * 0 = 0
    BY SMT
  <1>3. /\ Octet(u, 2) = (u.low \div 65536) % 256
        /\ Octet(u, 1) = (u.low \div 256) % 256
        /\ Octet(u, 0) = (u.low \div 1) % 256
    BY SMT, <1>2, Powers DEF Octet
  <1> QED BY SMT, <1>1, <1>3

-----------------------------------------------------------------------------
\* Octets: what the sanitizer makes of them, and those of a base64 word.

Safe == (0 .. 255) \ CTL
Sextet == 0 .. 63
Octs == 0 .. 255

\* What leaves the sanitizer has no control characters.
LEMMA EscapeOne ==
  ASSUME NEW c \in 0 .. 255
  PROVE  (IF c \in CTL THEN push_ctl(c) ELSE <<c>>) \in Seq(Safe)
  <1>1. CASE c \in CTL
    <2>1. c \in 0 .. 127
      BY <1>1 DEF CTL
    <2>2. c \div 16 \in 0 .. 7 /\ c % 16 \in 0 .. 15
      BY <2>1
    <2>3. HexDigit(c \div 16) \in 48 .. 55 /\ HexDigit(c % 16) \in 48 .. 70
      BY <2>2 DEF HexDigit
    <2>4. \A x \in 48 .. 126 : x \in Safe
      BY DEF Safe, CTL
    <2>5. HexDigit(c \div 16) \in Safe /\ HexDigit(c % 16) \in Safe /\ 92 \in Safe /\ 120 \in Safe
      BY <2>3, <2>4
    <2>6. push_ctl(c) \in Seq(Safe)
      BY <2>5 DEF push_ctl
    <2> QED BY <1>1, <2>6
  <1>2. CASE c \notin CTL
    <2>1. c \in Safe
      BY <1>2 DEF Safe
    <2> QED BY <1>2, <2>1
  <1> QED BY <1>1, <1>2

\* ... of any length.
LEMMA EscapeType ==
  ASSUME NEW s \in Seq(0 .. 255)
  PROVE  escape_controls(s) \in Seq(Safe)
  <1> DEFINE t == [i \in 1 .. Len(s) |-> IF s[i] \in CTL THEN push_ctl(s[i]) ELSE <<s[i]>>]
  <1>1. \A i \in 1 .. Len(s) : s[i] \in 0 .. 255
    BY ElementOfSeq
  <1>2. \A i \in 1 .. Len(s) : (IF s[i] \in CTL THEN push_ctl(s[i]) ELSE <<s[i]>>) \in Seq(Safe)
    BY <1>1, EscapeOne
  <1>3. t \in Seq(Seq(Safe))
    BY <1>2
  <1>4. FlattenSeq(t) \in Seq(Safe)
    BY <1>3, FlatType
  <1> QED BY <1>4 DEF escape_controls

\* The bits of the digits that are pending in unit_.
Low6(x) == x % 64
Low12(x) == x % 4096
Low18(x) == x % 262144

\* push_unit, for digits.
LEMMA PushUnits ==
  ASSUME unit \in Units, NEW v \in Sextet
  PROVE  push_unit(v) \in Units
  BY SMT, PushType DEF Sextet

\* The pending bits after one digit more.
LEMMA PushLow ==
  ASSUME unit \in Units, NEW v \in Sextet, NEW a \in Nat
  PROVE  /\ Low6(push_unit(v).low) = v
         /\ Low6(unit.low) = a => Low12(push_unit(v).low) = 64 * a + v
         /\ Low12(unit.low) = a => Low18(push_unit(v).low) = 64 * a + v
         /\ Low18(unit.low) = a => push_unit(v).low = 64 * a + v
  <1> DEFINE l == unit.low
             p == push_unit(v).low
  <1>1. l \in Nat /\ p = (l * 64 + v) % 16777216
    BY SMT, UnitFields, PushType DEF Sextet
  <1> HIDE DEF l, p
  <1>2. v \in 0 .. 63
    BY DEF Sextet
  <1>3. /\ p % 64 = v
        /\ l % 64 = a => p % 4096 = 64 * a + v
        /\ l % 4096 = a => p % 262144 = 64 * a + v
        /\ l % 262144 = a => p = 64 * a + v
    BY SMTT(60), <1>1, <1>2
  <1> QED BY SMT, <1>3 DEF Low6, Low12, Low18, l, p

\* The unit holds these four digits.
Starts(s, q, a, b) == s[4 * q + 1] = a /\ s[4 * q + 2] = b
Digits4(u, a, b, c, d) == u.low = 64 * (64 * (64 * a + b) + c) + d

\* The octets of the unit are those of the last four digits.
LEMMA UnitOctets ==
  ASSUME NEW s, NEW q \in Nat, NEW u \in Units,
         NEW a \in Sextet, NEW b \in Sextet, NEW c \in Sextet, NEW d \in Sextet,
         Starts(s, q, a, b), Digits4(u, a, b, c, d)
  PROVE  /\ Octet(u, 2) = OctetAt(s, 3 * q + 1)
         /\ s[4 * q + 3] = c => Octet(u, 1) = OctetAt(s, 3 * q + 2)
         /\ s[4 * q + 3] = c /\ s[4 * q + 4] = d => Octet(u, 0) = OctetAt(s, 3 * q + 3)
  <1>0. a \in 0 .. 63 /\ b \in 0 .. 63 /\ c \in 0 .. 63 /\ d \in 0 .. 63
    BY DEF Sextet
  <1>00. s[4 * q + 1] = a /\ s[4 * q + 2] = b
    BY DEF Starts
  <1>1. /\ Octet(u, 2) = 4 * a + (b \div 16)
        /\ Octet(u, 1) = 16 * (b % 16) + (c \div 4)
        /\ Octet(u, 0) = 64 * (c % 4) + d
    <2> DEFINE x == u.low
    <2>1. x = 64 * (64 * (64 * a + b) + c) + d
      BY SMT DEF Digits4
    <2> HIDE DEF x
    <2>2. /\ (x \div 65536) % 256 = 4 * a + (b \div 16)
          /\ (x \div 256) % 256 = 16 * (b % 16) + (c \div 4)
          /\ x % 256 = 64 * (c % 4) + d
      BY SMTT(60), <1>0, <2>1
    <2> QED BY SMT, <2>2, OctetsOf DEF x
  <1>2. OctetAt(s, 3 * q + 1) = 4 * a + (b \div 16)
    BY <1>0, <1>00, Group
  <1>3. ASSUME s[4 * q + 3] = c PROVE Second(s, q) = 16 * (b % 16) + (c \div 4)
    BY <1>0, <1>00, <1>3, Group2
  <1>4. ASSUME s[4 * q + 3] = c, s[4 * q + 4] = d PROVE Third(s, q) = 64 * (c % 4) + d
    BY <1>0, <1>4, Group3
  <1> QED BY <1>1, <1>2, <1>3, <1>4 DEF Second, Third

\* OctetType again, with the name of the set.
LEMMA OctetOcts ==
  ASSUME NEW s \in Seq(Int), NEW o \in 1 .. (6 * Len(s)) \div 8
  PROVE  OctetAt(s, o) \in Octs
  BY OctetType DEF Octs

\* The first n octets.
Octets(s, n) == [o \in 1 .. n |-> OctetAt(s, o)]

\* One digit more does not change them.
LEMMA OctetsAppend ==
  ASSUME NEW s \in Seq(Int), NEW e \in Int, NEW n \in Nat, n <= (6 * Len(s)) \div 8
  PROVE  Octets(Append(s, e), n) = Octets(s, n)
  <1>1. ASSUME NEW o \in 1 .. n PROVE OctetAt(Append(s, e), o) = OctetAt(s, o)
    <2>1. o \in 1 .. (6 * Len(s)) \div 8
      OBVIOUS
    <2> QED BY <2>1, OctetAppend
  <1> QED BY <1>1 DEF Octets

\* They are octets.
LEMMA OctetsType ==
  ASSUME NEW s \in Seq(Int), NEW n \in Nat, n <= (6 * Len(s)) \div 8
  PROVE  Octets(s, n) \in Seq(Octs) /\ Len(Octets(s, n)) = n
  <1>1. ASSUME NEW o \in 1 .. n PROVE OctetAt(s, o) \in Octs
    <2>1. o \in 1 .. (6 * Len(s)) \div 8
      OBVIOUS
    <2> QED BY <2>1, OctetOcts
  <1> QED BY <1>1 DEF Octets

\* To append one element, two or three of them.
LEMMA Concat1 ==
  ASSUME NEW S, NEW t \in Seq(S), NEW a \in S
  PROVE  t \o <<a>> = Append(t, a)
  BY AppendIsConcat

\* (Two.)
LEMMA Concat2 ==
  ASSUME NEW S, NEW t \in Seq(S), NEW a \in S, NEW b \in S
  PROVE  t \o <<a, b>> = Append(Append(t, a), b)
  <1>1. <<a>> \in Seq(S) /\ <<b>> \in Seq(S) /\ <<a, b>> = Append(<<a>>, b)
    OBVIOUS
  <1>2. <<a, b>> = <<a>> \o <<b>>
    BY <1>1, Concat1
  <1>3. t \o <<a, b>> = (t \o <<a>>) \o <<b>>
    BY <1>1, <1>2, ConcatAssociative
  <1>4. Append(t, a) \in Seq(S)
    BY AppendProperties
  <1> QED BY <1>3, <1>4, Concat1

\* (Three.)
LEMMA Concat3 ==
  ASSUME NEW S, NEW t \in Seq(S), NEW a \in S, NEW b \in S, NEW c \in S
  PROVE  t \o <<a, b, c>> = Append(t \o <<a, b>>, c)
  <1>1. <<a, b>> \in Seq(S) /\ <<c>> \in Seq(S) /\ <<a, b, c>> = Append(<<a, b>>, c)
    OBVIOUS
  <1>2. <<a, b, c>> = <<a, b>> \o <<c>>
    BY <1>1, Concat1
  <1>3. t \o <<a, b, c>> = (t \o <<a, b>>) \o <<c>>
    BY <1>1, <1>2, ConcatAssociative, SMTT(30)
  <1>4. t \o <<a, b>> \in Seq(S)
    BY <1>1, ConcatProperties
  <1> QED BY <1>3, <1>4, Concat1

\* One octet more.
LEMMA OctetsMore ==
  ASSUME NEW s \in Seq(Int), NEW n \in Nat, n + 1 <= (6 * Len(s)) \div 8
  PROVE  Append(Octets(s, n), OctetAt(s, n + 1)) = Octets(s, n + 1)
  <1> DEFINE t == Octets(s, n)
             e == OctetAt(s, n + 1)
             g == Octets(s, n + 1)
  <1>1. t \in Seq(Octs) /\ Len(t) = n /\ g \in Seq(Octs) /\ Len(g) = n + 1
    BY OctetsType
  <1>2. n + 1 \in 1 .. (6 * Len(s)) \div 8
    OBVIOUS
  <1>3. e \in Octs
    BY <1>2, OctetOcts
  <1>4. \A o \in 1 .. n : t[o] = g[o]
    BY DEF Octets
  <1>5. g[n + 1] = e
    BY DEF Octets
  <1> HIDE DEF t, e, g
  <1>6. Append(t, e) \in Seq(Octs) /\ Len(Append(t, e)) = n + 1
    BY <1>1, <1>3, AppendProperties
  <1>7. \A o \in 1 .. n + 1 : Append(t, e)[o] = g[o]
    BY <1>1, <1>3, <1>4, <1>5, AppendProperties
  <1>8. Append(t, e) = g
    BY <1>1, <1>6, <1>7, SeqEqual
  <1> QED BY <1>8 DEF t, e, g

\* How many digits there are before the padding.
LEMMA DigitsType ==
  ASSUME NEW s \in Seq(Int)
  PROVE  Digits(s) \in Nat /\ Digits(s) <= Len(s)
  <1>1. IsFiniteSet(1 .. Len(s)) /\ Cardinality(1 .. Len(s)) = Len(s)
    <2> DEFINE n == Len(s)
    <2>1. n \in Nat
      OBVIOUS
    <2> HIDE DEF n
    <2>2. IsFiniteSet(1 .. n) /\ Cardinality(1 .. n) = n
      BY <2>1, FS_Interval
    <2> QED BY <2>2 DEF n
  <1>2. {i \in 1 .. Len(s) : s[i] # Pad} \subseteq 1 .. Len(s)
    OBVIOUS
  <1>3. /\ IsFiniteSet({i \in 1 .. Len(s) : s[i] # Pad})
        /\ Cardinality({i \in 1 .. Len(s) : s[i] # Pad}) <= Len(s)
    BY <1>1, <1>2, FS_Subset
  <1> QED BY <1>3, FS_CardinalityType DEF Digits

\* They come first, the padding after them.
LEMMA DigitsCount ==
  ASSUME NEW s \in Seq(Int), NEW n \in 0 .. Len(s),
         \A i \in 1 .. n : s[i] \in Sextet, \A i \in n + 1 .. Len(s) : s[i] = Pad
  PROVE  Digits(s) = n
  <1>1. {i \in 1 .. Len(s) : s[i] # Pad} = 1 .. n
    <2>0. \A x \in Sextet : x # Pad
      BY DEF Sextet, Pad
    <2>1. \A i \in 1 .. n : s[i] # Pad /\ i \in 1 .. Len(s)
      BY <2>0
    <2>2. \A i \in 1 .. Len(s) : i \in 1 .. n \/ i \in n + 1 .. Len(s)
      OBVIOUS
    <2> QED BY <2>1, <2>2
  <1>2. Cardinality(1 .. n) = n
    BY FS_Interval
  <1> QED BY <1>1, <1>2 DEF Digits

\* The text of a base64 word, as its first octets.
LEMMA Base64Type ==
  ASSUME NEW s \in Seq(Int)
  PROVE  Base64Text(s) \in Seq(Octs) /\ Base64Text(s) = Octets(s, (6 * Digits(s)) \div 8)
  <1>1. (6 * Digits(s)) \div 8 \in Nat /\ (6 * Digits(s)) \div 8 <= (6 * Len(s)) \div 8
    BY DigitsType
  <1>2. Octets(s, (6 * Digits(s)) \div 8) \in Seq(Octs)
    <2> DEFINE n == (6 * Digits(s)) \div 8
    <2> HIDE DEF n
    <2> QED BY <1>1, OctetsType DEF n
  <1>3. Base64Text(s) = Octets(s, (6 * Digits(s)) \div 8)
    BY DEF Base64Text, Octets
  <1> QED BY <1>2, <1>3

-----------------------------------------------------------------------------
\* Q words.

\* What a symbol of a Q word adds to its text, and when that is an octet.
QAt(s, i) ==
    CASE s[i] = Plain -> <<120>>
      [] s[i] = Underscore -> <<32>>
      [] s[i] >= 0 /\ i > 2 /\ s[i - 2] = Equals -> <<16 * s[i - 1] + s[i]>>
      [] OTHER -> <<>>
QForm(s) ==
    \A i \in 1 .. Len(s) : s[i] >= 0 /\ i > 2 /\ s[i - 2] = Equals
                           => s[i] \in 0 .. 15 /\ s[i - 1] \in 0 .. 15

\* The text of a Q word, symbol by symbol, consists of octets.
LEMMA QTypes ==
  ASSUME NEW s \in Seq(Int), QForm(s)
  PROVE  /\ [i \in 1 .. Len(s) |-> QAt(s, i)] \in Seq(Seq(Octs))
         /\ QText(s) = FlattenSeq([i \in 1 .. Len(s) |-> QAt(s, i)])
         /\ QText(s) \in Seq(Octs)
  <1>1. ASSUME NEW i \in 1 .. Len(s) PROVE QAt(s, i) \in Seq(Octs)
    <2>0. s[i] \in Int
      OBVIOUS
    <2>1. 120 \in Octs /\ 32 \in Octs
      BY DEF Octs
    <2>2. CASE s[i] >= 0 /\ i > 2 /\ s[i - 2] = Equals
      <3>1. s[i] \in 0 .. 15 /\ s[i - 1] \in 0 .. 15
        BY <2>2 DEF QForm
      <3>2. 16 * s[i - 1] + s[i] \in Octs
        <4> DEFINE y == s[i - 1]
                   z == s[i]
        <4>1. y \in 0 .. 15 /\ z \in 0 .. 15
          BY <3>1
        <4> HIDE DEF y, z
        <4>2. 16 * y + z \in Octs
          BY <4>1 DEF Octs
        <4> QED BY <4>2 DEF y, z
      <3>3. QAt(s, i) = <<16 * s[i - 1] + s[i]>>
        BY <2>2 DEF QAt, Plain, Underscore
      <3> DEFINE x == 16 * s[i - 1] + s[i]
      <3> HIDE DEF x
      <3>4. x \in Octs /\ QAt(s, i) = <<x>>
        BY <3>2, <3>3 DEF x
      <3> QED BY <3>4
    <2>3. CASE ~(s[i] >= 0 /\ i > 2 /\ s[i - 2] = Equals)
      <3>1. QAt(s, i) \in {<<120>>, <<32>>, <<>>}
        BY <2>3 DEF QAt
      <3>2. <<120>> \in Seq(Octs) /\ <<32>> \in Seq(Octs) /\ <<>> \in Seq(Octs)
        BY <2>1
      <3> QED BY <3>1, <3>2
    <2> QED BY <2>2, <2>3
  <1>2. [i \in 1 .. Len(s) |-> QAt(s, i)] \in Seq(Seq(Octs))
    BY <1>1
  <1>3. QText(s) = FlattenSeq([i \in 1 .. Len(s) |-> QAt(s, i)])
    BY DEF QText, QAt
  <1>4. FlattenSeq([i \in 1 .. Len(s) |-> QAt(s, i)]) \in Seq(Octs)
    BY <1>2, FlatType
  <1> QED BY <1>2, <1>3, <1>4

\* One symbol more.
LEMMA QMore ==
  ASSUME NEW s \in Seq(Int), NEW e \in Int, QForm(s), QForm(Append(s, e))
  PROVE  QText(Append(s, e)) = QText(s) \o QAt(Append(s, e), Len(s) + 1)
  <1> DEFINE t == Append(s, e)
             n == Len(s)
             f == [i \in 1 .. n + 1 |-> QAt(t, i)]
             g == [i \in 1 .. n |-> QAt(s, i)]
  <1>1. n \in Nat /\ t \in Seq(Int) /\ Len(t) = n + 1 /\ \A i \in 1 .. n : t[i] = s[i]
    BY AppendProperties
  <1>2. f \in Seq(Seq(Octs)) /\ QText(t) = FlattenSeq(f)
    BY <1>1, QTypes
  <1>3. g \in Seq(Seq(Octs)) /\ QText(s) = FlattenSeq(g)
    BY <1>1, QTypes
  <1>4. f \in [1 .. n + 1 -> Seq(Octs)] /\ g \in [1 .. n -> Seq(Octs)]
    BY <1>1, <1>2, <1>3
  <1>5. ASSUME NEW i \in 1 .. n PROVE f[i] = g[i]
    <2>1. i \in 1 .. n + 1 /\ t[i] = s[i] /\ (i > 2 => t[i - 1] = s[i - 1] /\ t[i - 2] = s[i - 2])
      BY <1>1
    <2>2. QAt(t, i) = QAt(s, i)
      BY <2>1 DEF QAt
    <2> QED BY <2>1, <2>2
  <1>6. f[n + 1] = QAt(t, n + 1)
    BY <1>1
  <1> HIDE DEF t, n, f, g
  <1>7. FlattenSeq(f) = FlattenSeq(g) \o f[n + 1]
    BY <1>1, <1>4, <1>5, TableMore
  <1> QED BY <1>2, <1>3, <1>6, <1>7 DEF t, n

\* The state of a Q word.
QWord ==
    /\ QForm(symbols) /\ conv = QText(symbols)
    /\ cs = "q" => Len(symbols) > 0 /\ symbols[Len(symbols)] # Equals
    /\ cs = "hex1" => /\ Len(symbols) > 0 /\ symbols[Len(symbols)] = Equals
                      /\ Len(symbols) > 1 => symbols[Len(symbols) - 1] # Equals
    /\ cs = "hex2" => /\ Len(symbols) > 1 /\ symbols[Len(symbols) - 1] = Equals
                      /\ symbols[Len(symbols)] \in 0 .. 15
QStates == {"q", "hex1", "hex2"}

\* No symbol.
LEMMA QEmpty == QForm(<<>>) /\ QText(<<>>) = <<>>
  <1>1. QForm(<<>>)
    BY DEF QForm
  <1>2. <<>> \in Seq(Int) /\ [i \in 1 .. Len(<<>>) |-> QAt(<<>>, i)] = <<>>
    OBVIOUS
  <1> QED BY <1>1, <1>2, QTypes, FlatEmpty

\* A symbol keeps it.
LEMMA QPlainStep ==
  ASSUME symbols \in Seq(Int), cs = "q_first" => symbols = <<>>, cs \in QStates => QWord,
         NEW c \in {Plain, Underscore}, q_plain(c)
  PROVE  QWord'
  <1> DEFINE n == Len(symbols)
             t == Append(symbols, c)
  <1>0. c \in Int /\ c < 0 /\ c # Equals
    BY DEF Plain, Underscore, Equals
  <1>1. /\ n \in Nat /\ t \in Seq(Int) /\ Len(t) = n + 1 /\ t[n + 1] = c
        /\ \A i \in 1 .. n : t[i] = symbols[i]
    BY <1>0, AppendProperties
  <1>2. QForm(symbols) /\ Begun = QText(symbols)
    BY QEmpty DEF q_plain, Begun, QWord, QStates
  <1>3. QForm(t)
    <2>1. ASSUME NEW i \in 1 .. n + 1, t[i] >= 0, i > 2, t[i - 2] = Equals
          PROVE  t[i] \in 0 .. 15 /\ t[i - 1] \in 0 .. 15
      <3>1. /\ i \in 1 .. n /\ t[i] = symbols[i]
            /\ t[i - 1] = symbols[i - 1] /\ t[i - 2] = symbols[i - 2]
        BY <1>0, <1>1, <2>1
      <3> QED BY <1>2, <2>1, <3>1 DEF QForm
    <2> QED BY <1>1, <2>1 DEF QForm
  <1>4. QAt(t, n + 1) = <<IF c = Underscore THEN 32 ELSE 120>>
    BY <1>1 DEF QAt, Plain, Underscore
  <1>5. QText(t) = QText(symbols) \o <<IF c = Underscore THEN 32 ELSE 120>>
    BY <1>0, <1>2, <1>3, <1>4, QMore
  <1>6. symbols' = t /\ cs' = "q" /\ conv' = Append(Begun, IF c = Underscore THEN 32 ELSE 120)
    BY DEF q_plain, Symbol
  <1>7. conv' = QText(t)
    <2> DEFINE x == IF c = Underscore THEN 32 ELSE 120
    <2>0. x \in Octs
      BY DEF Octs
    <2>1. x \in Octs /\ QText(symbols) \in Seq(Octs)
      BY <1>2, <2>0, QTypes
    <2>2. Append(QText(symbols), x) = QText(symbols) \o <<x>>
      <3> HIDE DEF x
      <3> QED BY <2>1, AppendIsConcat
    <2> QED BY <1>2, <1>5, <1>6, <2>2
  <1> HIDE DEF t, n
  <1> QED BY <1>0, <1>1, <1>3, <1>6, <1>7 DEF QWord

\* '=': nothing yet.
LEMMA QEqualsStep ==
  ASSUME symbols \in Seq(Int), cs = "q_first" => symbols = <<>>, cs \in QStates => QWord,
         clear_hex
  PROVE  QWord'
  <1> DEFINE n == Len(symbols)
             t == Append(symbols, Equals)
  <1>0. Equals \in Int /\ Equals < 0 /\ Equals # Plain /\ Equals # Underscore
    BY DEF Plain, Underscore, Equals
  <1>1. /\ n \in Nat /\ t \in Seq(Int) /\ Len(t) = n + 1 /\ t[n + 1] = Equals
        /\ \A i \in 1 .. n : t[i] = symbols[i]
    BY <1>0, AppendProperties
  <1>2. QForm(symbols) /\ Begun = QText(symbols)
    BY QEmpty DEF clear_hex, Begun, QWord, QStates
  <1>3. QForm(t)
    <2>1. ASSUME NEW i \in 1 .. n + 1, t[i] >= 0, i > 2, t[i - 2] = Equals
          PROVE  t[i] \in 0 .. 15 /\ t[i - 1] \in 0 .. 15
      <3>1. /\ i \in 1 .. n /\ t[i] = symbols[i]
            /\ t[i - 1] = symbols[i - 1] /\ t[i - 2] = symbols[i - 2]
        BY <1>0, <1>1, <2>1
      <3> QED BY <1>2, <2>1, <3>1 DEF QForm
    <2> QED BY <1>1, <2>1 DEF QForm
  <1>4. QAt(t, n + 1) = <<>>
    BY <1>0, <1>1 DEF QAt
  <1>5. QText(t) = QText(symbols)
    <2>1. QText(symbols) \in Seq(Octs) /\ QText(t) = QText(symbols) \o <<>>
      BY <1>0, <1>2, <1>3, <1>4, QMore, QTypes
    <2> QED BY <2>1, ConcatEmptySeq
  <1>6. symbols' = t /\ cs' = "hex1" /\ conv' = Begun
    BY DEF clear_hex, Symbol
  <1>7. n + 1 > 1 => t[(n + 1) - 1] # Equals
    <2> SUFFICES ASSUME n > 0 PROVE symbols[n] # Equals
      BY <1>1
    <2>1. cs = "q"
      BY <1>1 DEF clear_hex
    <2> QED BY <2>1 DEF QWord, QStates
  <1> HIDE DEF t, n
  <1> QED BY <1>1, <1>2, <1>3, <1>5, <1>6, <1>7 DEF QWord

\* A hexadecimal digit.
LEMMA QHexStep ==
  ASSUME symbols \in Seq(Int), cs \in QStates => QWord, NEW d \in 0 .. 15, q_hex(d)
  PROVE  QWord'
  <1> DEFINE n == Len(symbols)
             t == Append(symbols, d)
  <1>0. d \in Int /\ d >= 0 /\ d # Plain /\ d # Underscore /\ d # Equals
    BY DEF Plain, Underscore, Equals
  <1>1. /\ n \in Nat /\ t \in Seq(Int) /\ Len(t) = n + 1 /\ t[n + 1] = d
        /\ \A i \in 1 .. n : t[i] = symbols[i]
    BY <1>0, AppendProperties
  <1>2. cs \in {"hex1", "hex2"} /\ QWord /\ QForm(symbols) /\ conv = QText(symbols) /\ n > 0
    BY <1>1 DEF q_hex, QWord, QStates
  <1>3. n > 1 /\ t[n - 1] = Equals => cs = "hex2" /\ symbols[n] \in 0 .. 15
    <2>1. n > 1 => t[n - 1] = symbols[n - 1]
      BY <1>1
    <2> QED BY <1>2, <2>1 DEF QWord
  <1>4. QForm(t)
    <2>1. ASSUME NEW i \in 1 .. n + 1, t[i] >= 0, i > 2, t[i - 2] = Equals
          PROVE  t[i] \in 0 .. 15 /\ t[i - 1] \in 0 .. 15
      <3>1. CASE i \in 1 .. n
        <4>1. t[i] = symbols[i] /\ t[i - 1] = symbols[i - 1] /\ t[i - 2] = symbols[i - 2]
          BY <1>1, <2>1, <3>1
        <4> QED BY <1>2, <2>1, <3>1, <4>1 DEF QForm
      <3>2. CASE i = n + 1
        <4>1. n > 1 /\ i - 2 = n - 1 /\ i - 1 = n /\ t[n] = symbols[n]
          BY <1>1, <2>1, <3>2
        <4> QED BY <1>1, <1>3, <2>1, <3>2, <4>1
      <3>3. i \in 1 .. n \/ i = n + 1
        BY <1>1
      <3> QED BY <3>1, <3>2, <3>3
    <2> QED BY <1>1, <2>1 DEF QForm
  <1>5. symbols' = t
    BY DEF q_hex, Symbol
  <1>6. CASE cs = "hex1"
    <2>1. ~(n > 1 /\ t[n - 1] = Equals)
      BY <1>3, <1>6
    <2>2. QAt(t, n + 1) = <<>>
      <3>1. (n + 1) - 2 = n - 1 /\ (n + 1 > 2 <=> n > 1)
        BY <1>1
      <3> QED BY <1>0, <1>1, <2>1, <3>1 DEF QAt
    <2>3. QText(symbols) \in Seq(Octs) /\ QText(t) = QText(symbols) \o <<>>
      BY <1>0, <1>2, <1>4, <2>2, QMore, QTypes
    <2>4. QText(t) = conv
      BY <1>2, <2>3, ConcatEmptySeq
    <2>5. cs' = "hex2" /\ conv' = conv
      BY <1>6 DEF q_hex, Symbol
    <2>6. n + 1 > 1 /\ t[(n + 1) - 1] = Equals
      BY <1>1, <1>2, <1>6 DEF QWord
    <2> HIDE DEF t, n
    <2> QED BY <1>1, <1>4, <1>5, <2>4, <2>5, <2>6 DEF QWord
  <1>7. CASE cs = "hex2"
    <2>0. n > 1 /\ symbols[n - 1] = Equals /\ symbols[n] \in 0 .. 15
      BY <1>2, <1>7 DEF QWord
    <2>1. t[n - 1] = Equals /\ t[n] = symbols[n]
      BY <1>1, <2>0
    <2> DEFINE x == 16 * symbols[n] + d
    <2>2. QAt(t, n + 1) = <<x>>
      <3>1. (n + 1) - 2 = n - 1 /\ (n + 1) - 1 = n /\ n + 1 > 2
        BY <1>1, <2>0
      <3> QED BY <1>0, <1>1, <2>1, <3>1 DEF QAt
    <2>3. x \in Octs
      <3> DEFINE y == symbols[n]
      <3>1. y \in 0 .. 15
        BY <2>0
      <3> HIDE DEF y
      <3>2. 16 * y + d \in Octs
        BY <3>1 DEF Octs
      <3> QED BY <3>2 DEF y
    <2>4. cs' = "q" /\ conv' = Append(conv, x)
      BY <1>7 DEF q_hex, Symbol, push_hex, Last
    <2> HIDE DEF x
    <2>5. QText(symbols) \in Seq(Octs) /\ QText(t) = QText(symbols) \o <<x>>
      BY <1>0, <1>2, <1>4, <2>2, QMore, QTypes
    <2>6. conv' = QText(t)
      BY <1>2, <2>3, <2>4, <2>5, AppendIsConcat
    <2> HIDE DEF t, n
    <2> QED BY <1>0, <1>1, <1>4, <1>5, <2>4, <2>6 DEF QWord
  <1> QED BY <1>2, <1>6, <1>7

-----------------------------------------------------------------------------
\* Base64 words, group by group.

\* The state of a base64 word: q groups of four digits are decoded, and up to
\* three digits are pending in the low bits of unit_.
Decoded(q) == ~spoiled => conv = Octets(symbols, 3 * q)
Pending0(q) == symbols \in Seq(Sextet) /\ Len(symbols) = 4 * q /\ Decoded(q)
Pending1(q) ==
    /\ symbols \in Seq(Sextet) /\ Len(symbols) = 4 * q + 1 /\ Decoded(q)
    /\ Low6(unit.low) = symbols[4 * q + 1]
Pending2(q) ==
    /\ symbols \in Seq(Sextet) /\ Len(symbols) = 4 * q + 2 /\ Decoded(q)
    /\ Low12(unit.low) = 64 * symbols[4 * q + 1] + symbols[4 * q + 2]
Pending3(q) ==
    /\ symbols \in Seq(Sextet) /\ Len(symbols) = 4 * q + 3 /\ Decoded(q)
    /\ Low18(unit.low) = 64 * (64 * symbols[4 * q + 1] + symbols[4 * q + 2]) + symbols[4 * q + 3]
PaddedOnce(q) ==
    /\ symbols \in Seq(Int) /\ Len(symbols) = 4 * q + 3 /\ Decoded(q)
    /\ \A i \in 1 .. 4 * q + 2 : symbols[i] \in Sextet
    /\ symbols[4 * q + 3] = Pad
    /\ Low18(unit.low) = 64 * (64 * symbols[4 * q + 1] + symbols[4 * q + 2])

\* One symbol more.
LEMMA SymbolMore ==
  ASSUME NEW q \in Nat, NEW k \in 0 .. 3, symbols \in Seq(Int), Len(symbols) = 4 * q + k,
         NEW e \in Int
  PROVE  /\ Append(symbols, e) \in Seq(Int) /\ Len(Append(symbols, e)) = 4 * q + k + 1
         /\ Append(symbols, e)[4 * q + k + 1] = e
         /\ \A i \in 1 .. 4 * q + k : Append(symbols, e)[i] = symbols[i]
         /\ symbols \in Seq(Sextet) /\ e \in Sextet => Append(symbols, e) \in Seq(Sextet)
         /\ Octets(Append(symbols, e), 3 * q) = Octets(symbols, 3 * q)
         /\ Octets(symbols, 3 * q) \in Seq(Octs)
  <1>1. 3 * q \in Nat /\ 3 * q <= (6 * Len(symbols)) \div 8
    OBVIOUS
  <1>2. Octets(Append(symbols, e), 3 * q) = Octets(symbols, 3 * q)
    <2> DEFINE m == 3 * q
    <2> HIDE DEF m
    <2> QED BY <1>1, OctetsAppend DEF m
  <1>3. Octets(symbols, 3 * q) \in Seq(Octs)
    <2> DEFINE m == 3 * q
    <2> HIDE DEF m
    <2> QED BY <1>1, OctetsType DEF m
  <1> QED BY <1>2, <1>3, AppendProperties

\* Digits are numbers.
LEMMA SextetInt ==
  /\ \A s \in Seq(Sextet) : s \in Seq(Int)
  /\ \A x \in Sextet : x \in Int /\ x \in Nat
  /\ 0 \in Sextet
  <1>1. \A x \in Sextet : x \in Int /\ x \in Nat
    BY DEF Sextet
  <1>2. Sextet \subseteq Int /\ 0 \in Sextet
    BY DEF Sextet
  <1>3. Seq(Sextet) \subseteq Seq(Int)
    BY <1>2, SeqMonotonic
  <1> QED BY <1>1, <1>2, <1>3

\* A digit, in each of the four places of a group.
LEMMA Digit1 ==
  ASSUME NEW q \in Nat, Pending0(q), unit \in Units, NEW v \in Sextet,
         symbols' = Append(symbols, v), unit' = push_unit(v), UNCHANGED <<conv, spoiled>>
  PROVE  Pending1(q)'
  <1>1. symbols \in Seq(Int) /\ v \in Int /\ 0 \in 0 .. 3 /\ 4 * q + 0 = 4 * q /\ 0 \in Nat
    BY SextetInt DEF Pending0
  <1>2. /\ symbols' \in Seq(Sextet) /\ Len(symbols') = 4 * q + 1
        /\ symbols'[4 * q + 1] = v
        /\ Octets(symbols', 3 * q) = Octets(symbols, 3 * q)
    BY <1>1, SymbolMore DEF Pending0
  <1>3. Low6(unit'.low) = v
    BY <1>1, PushLow
  <1> QED BY <1>2, <1>3 DEF Pending0, Pending1, Decoded

\* ... the second,
LEMMA Digit2 ==
  ASSUME NEW q \in Nat, Pending1(q), unit \in Units, NEW v \in Sextet,
         symbols' = Append(symbols, v), unit' = push_unit(v), UNCHANGED <<conv, spoiled>>
  PROVE  Pending2(q)'
  <1>1. symbols \in Seq(Int) /\ v \in Int /\ 1 \in 0 .. 3 /\ 4 * q + 1 \in 1 .. Len(symbols)
    BY SextetInt DEF Pending1
  <1>2. symbols[4 * q + 1] \in Sextet /\ symbols[4 * q + 1] \in Nat
    BY <1>1, SextetInt DEF Pending1
  <1>3. /\ symbols' \in Seq(Sextet) /\ Len(symbols') = 4 * q + 2
        /\ symbols'[4 * q + 2] = v /\ symbols'[4 * q + 1] = symbols[4 * q + 1]
        /\ Octets(symbols', 3 * q) = Octets(symbols, 3 * q)
    BY <1>1, SymbolMore DEF Pending1
  <1>4. Low12(unit'.low) = 64 * symbols[4 * q + 1] + v
    BY <1>2, PushLow DEF Pending1
  <1> QED BY <1>3, <1>4 DEF Pending1, Pending2, Decoded

\* ... the third,
LEMMA Digit3 ==
  ASSUME NEW q \in Nat, Pending2(q), unit \in Units, NEW v \in Sextet,
         symbols' = Append(symbols, v), unit' = push_unit(v), UNCHANGED <<conv, spoiled>>
  PROVE  Pending3(q)'
  <1>1. /\ symbols \in Seq(Int) /\ v \in Int /\ 2 \in 0 .. 3
        /\ 4 * q + 1 \in 1 .. Len(symbols) /\ 4 * q + 2 \in 1 .. Len(symbols)
    BY SextetInt DEF Pending2
  <1>2. symbols[4 * q + 1] \in Nat /\ symbols[4 * q + 2] \in Nat
    BY <1>1, SextetInt DEF Pending2
  <1>3. /\ symbols' \in Seq(Sextet) /\ Len(symbols') = 4 * q + 3
        /\ symbols'[4 * q + 3] = v /\ symbols'[4 * q + 1] = symbols[4 * q + 1]
        /\ symbols'[4 * q + 2] = symbols[4 * q + 2]
        /\ Octets(symbols', 3 * q) = Octets(symbols, 3 * q)
    BY <1>1, SymbolMore DEF Pending2
  <1> DEFINE a == 64 * symbols[4 * q + 1] + symbols[4 * q + 2]
  <1>4. a \in Nat /\ Low12(unit.low) = a
    BY <1>2 DEF Pending2
  <1>5. Low18(unit'.low) = 64 * a + v
    <2> HIDE DEF a
    <2> QED BY <1>4, PushLow
  <1> QED BY <1>3, <1>5 DEF Pending2, Pending3, Decoded

\* ... the '=' in the third place.
LEMMA Pad3 ==
  ASSUME NEW q \in Nat, Pending2(q), unit \in Units,
         symbols' = Append(symbols, Pad), unit' = push_unit(0), UNCHANGED <<conv, spoiled>>
  PROVE  PaddedOnce(q)'
  <1>1. /\ symbols \in Seq(Int) /\ Pad \in Int /\ 2 \in 0 .. 3
        /\ 4 * q + 1 \in 1 .. Len(symbols) /\ 4 * q + 2 \in 1 .. Len(symbols)
    BY SextetInt DEF Pending2, Pad
  <1>2. /\ symbols[4 * q + 1] \in Nat /\ symbols[4 * q + 2] \in Nat
        /\ \A i \in 1 .. 4 * q + 2 : symbols[i] \in Sextet
    BY <1>1, SextetInt DEF Pending2
  <1>3. /\ symbols' \in Seq(Int) /\ Len(symbols') = 4 * q + 3
        /\ symbols'[4 * q + 3] = Pad /\ symbols'[4 * q + 1] = symbols[4 * q + 1]
        /\ symbols'[4 * q + 2] = symbols[4 * q + 2]
        /\ \A i \in 1 .. 4 * q + 2 : symbols'[i] = symbols[i]
        /\ Octets(symbols', 3 * q) = Octets(symbols, 3 * q)
    BY <1>1, SymbolMore DEF Pending2
  <1> DEFINE a == 64 * symbols[4 * q + 1] + symbols[4 * q + 2]
  <1>4. a \in Nat /\ Low12(unit.low) = a
    BY <1>2 DEF Pending2
  <1>5. Low18(unit'.low) = 64 * a + 0
    <2> HIDE DEF a
    <2> QED BY <1>4, PushLow, SextetInt
  <1>6. Low18(unit'.low) = 64 * a
    <2> HIDE DEF a
    <2> QED BY <1>4, <1>5
  <1> QED BY <1>2, <1>3, <1>6 DEF Pending2, PaddedOnce, Decoded

\* The octets that the last symbol of a group completes.
LEMMA ThreeMore ==
  ASSUME NEW s \in Seq(Int), NEW q \in Nat
  PROVE  /\ Len(s) >= 4 * q + 2 =>
              Octets(s, 3 * q) \o <<OctetAt(s, 3 * q + 1)>> = Octets(s, 3 * q + 1)
         /\ Len(s) >= 4 * q + 3 =>
              Octets(s, 3 * q) \o <<OctetAt(s, 3 * q + 1), OctetAt(s, 3 * q + 2)>>
                = Octets(s, 3 * q + 2)
         /\ Len(s) >= 4 * q + 4 =>
              Octets(s, 3 * q) \o <<OctetAt(s, 3 * q + 1), OctetAt(s, 3 * q + 2),
                                    OctetAt(s, 3 * q + 3)>>
                = Octets(s, 3 * q + 3)
  <1> DEFINE m == 3 * q
             l == (6 * Len(s)) \div 8
  <1>0. m \in Nat /\ l \in Nat
    OBVIOUS
  <1>1. /\ Len(s) >= 4 * q + 2 => m + 1 <= l
        /\ Len(s) >= 4 * q + 3 => m + 2 <= l
        /\ Len(s) >= 4 * q + 4 => m + 3 <= l
    OBVIOUS
  <1>2. ASSUME NEW n \in Nat, n + 1 <= l
        PROVE  Append(Octets(s, n), OctetAt(s, n + 1)) = Octets(s, n + 1) /\ OctetAt(s, n + 1) \in Octs
    <2>1. n + 1 \in 1 .. l
      BY <1>0, <1>2
    <2> QED BY <1>2, <2>1, OctetsMore, OctetOcts
  <1>3. m <= l => Octets(s, m) \in Seq(Octs)
    BY <1>0, OctetsType
  <1> HIDE DEF m, l
  <1>4. ASSUME m + 1 <= l
        PROVE  /\ Octets(s, m) \o <<OctetAt(s, m + 1)>> = Octets(s, m + 1)
               /\ OctetAt(s, m + 1) \in Octs /\ Octets(s, m) \in Seq(Octs)
    <2>1. Octets(s, m) \in Seq(Octs)
      BY <1>0, <1>3, <1>4
    <2>2. Append(Octets(s, m), OctetAt(s, m + 1)) = Octets(s, m + 1) /\ OctetAt(s, m + 1) \in Octs
      BY <1>0, <1>2, <1>4
    <2> QED BY <2>1, <2>2, Concat1
  <1>5. ASSUME m + 2 <= l
        PROVE  /\ Octets(s, m) \o <<OctetAt(s, m + 1), OctetAt(s, m + 2)>> = Octets(s, m + 2)
               /\ OctetAt(s, m + 2) \in Octs
    <2>1. m + 1 <= l /\ (m + 1) + 1 = m + 2 /\ (m + 1) + 1 <= l /\ m + 1 \in Nat
      BY <1>0, <1>5
    <2>2. /\ Octets(s, m) \in Seq(Octs) /\ OctetAt(s, m + 1) \in Octs
          /\ Append(Octets(s, m), OctetAt(s, m + 1)) = Octets(s, m + 1)
      BY <1>0, <1>2, <1>4, <2>1
    <2>3. Append(Octets(s, m + 1), OctetAt(s, (m + 1) + 1)) = Octets(s, (m + 1) + 1)
          /\ OctetAt(s, (m + 1) + 1) \in Octs
      BY <1>2, <2>1
    <2>4. Append(Octets(s, m + 1), OctetAt(s, m + 2)) = Octets(s, m + 2) /\ OctetAt(s, m + 2) \in Octs
      BY <2>1, <2>3
    <2> DEFINE t == Octets(s, m)
               e == OctetAt(s, m + 1)
               f == OctetAt(s, m + 2)
    <2>5. t \in Seq(Octs) /\ e \in Octs /\ f \in Octs
      BY <2>2, <2>4
    <2>6. Append(Append(t, e), f) = Octets(s, m + 2)
      BY <2>2, <2>4
    <2>7. t \o <<e, f>> = Append(Append(t, e), f)
      <3> HIDE DEF t, e, f
      <3> QED BY <2>5, Concat2
    <2> QED BY <2>4, <2>6, <2>7
  <1>6. ASSUME m + 3 <= l
        PROVE  Octets(s, m) \o <<OctetAt(s, m + 1), OctetAt(s, m + 2), OctetAt(s, m + 3)>>
                 = Octets(s, m + 3)
    <2>1. m + 1 <= l /\ m + 2 <= l /\ (m + 2) + 1 = m + 3 /\ (m + 2) + 1 <= l /\ m + 2 \in Nat
      BY <1>0, <1>6
    <2>2. /\ Octets(s, m) \in Seq(Octs) /\ OctetAt(s, m + 1) \in Octs /\ OctetAt(s, m + 2) \in Octs
          /\ Octets(s, m) \o <<OctetAt(s, m + 1), OctetAt(s, m + 2)>> = Octets(s, m + 2)
      BY <1>4, <1>5, <2>1
    <2>3. Append(Octets(s, m + 2), OctetAt(s, (m + 2) + 1)) = Octets(s, (m + 2) + 1)
          /\ OctetAt(s, (m + 2) + 1) \in Octs
      BY <1>2, <2>1
    <2>4. Append(Octets(s, m + 2), OctetAt(s, m + 3)) = Octets(s, m + 3) /\ OctetAt(s, m + 3) \in Octs
      BY <2>1, <2>3
    <2> DEFINE t == Octets(s, m)
               e == OctetAt(s, m + 1)
               f == OctetAt(s, m + 2)
               g == OctetAt(s, m + 3)
    <2>5. t \in Seq(Octs) /\ e \in Octs /\ f \in Octs /\ g \in Octs
      BY <2>2, <2>4
    <2>6. t \o <<e, f, g>> = Append(t \o <<e, f>>, g)
      <3> HIDE DEF t, e, f, g
      <3> QED BY <2>5, Concat3
    <2> QED BY <2>2, <2>4, <2>6
  <1> QED BY <1>1, <1>4, <1>5, <1>6 DEF m

\* ... the fourth: the group is complete.
LEMMA Digit4 ==
  ASSUME NEW q \in Nat, Pending3(q), unit \in Units, NEW v \in Sextet,
         symbols' = Append(symbols, v), conv' = conv \o finish_unit(push_unit(v)),
         UNCHANGED spoiled
  PROVE  Pending0(q + 1)'
  <1> DEFINE a == symbols[4 * q + 1]
             b == symbols[4 * q + 2]
             c == symbols[4 * q + 3]
             u == push_unit(v)
             t == Append(symbols, v)
  <1>1. /\ symbols \in Seq(Int) /\ v \in Int /\ 3 \in 0 .. 3
        /\ 4 * q + 1 \in 1 .. Len(symbols) /\ 4 * q + 2 \in 1 .. Len(symbols)
        /\ 4 * q + 3 \in 1 .. Len(symbols)
    BY SextetInt DEF Pending3
  <1>2. a \in Sextet /\ b \in Sextet /\ c \in Sextet /\ a \in Nat /\ b \in Nat /\ c \in Nat
    BY <1>1, SextetInt, SMTT(30) DEF Pending3
  <1>3. /\ t \in Seq(Sextet) /\ t \in Seq(Int) /\ Len(t) = 4 * q + 4
        /\ t[4 * q + 1] = a /\ t[4 * q + 2] = b /\ t[4 * q + 3] = c /\ t[4 * q + 4] = v
        /\ Octets(t, 3 * q) = Octets(symbols, 3 * q)
    BY <1>1, SymbolMore, SMTT(30) DEF Pending3
  <1> DEFINE x == 64 * (64 * a + b) + c
  <1>4. x \in Nat /\ Low18(unit.low) = x
    BY <1>2 DEF Pending3
  <1>5. u \in Units /\ u.low = 64 * x + v
    <2> HIDE DEF x
    <2>1. push_unit(v).low = 64 * x + v
      BY <1>4, PushLow
    <2>2. push_unit(v) \in Units
      BY PushUnits
    <2> QED BY <2>1, <2>2
  <1> HIDE DEF a, b, c, u, t
  <1>6. /\ Octet(u, 2) = OctetAt(t, 3 * q + 1) /\ Octet(u, 1) = OctetAt(t, 3 * q + 2)
        /\ Octet(u, 0) = OctetAt(t, 3 * q + 3)
    <2>1. Digits4(u, a, b, c, v)
      BY <1>5 DEF Digits4
    <2>2. Starts(t, q, a, b)
      BY <1>3 DEF Starts
    <2>3. u \in Units /\ t[4 * q + 3] = c /\ t[4 * q + 4] = v
      BY <1>3, <1>5
    <2> QED BY <1>2, <2>1, <2>2, <2>3, UnitOctets, ZenonT(30)
  <1>7. 3 * (q + 1) = 3 * q + 3 /\ 4 * (q + 1) = 4 * q + 4 /\ Len(t) >= 4 * q + 4 /\ q + 1 \in Nat
    BY <1>3
  <1>8. Octets(t, 3 * q) \o finish_unit(u) = Octets(t, 3 * (q + 1))
    BY <1>3, <1>6, <1>7, ThreeMore DEF finish_unit
  <1>9. ~spoiled' => conv' = Octets(t, 3 * (q + 1))
    BY <1>3, <1>8 DEF Pending3, Decoded, u
  <1>10. symbols' = t
    BY DEF t
  <1> QED BY <1>3, <1>7, <1>9, <1>10 DEF Pending0, Decoded

\* ... '=' in the fourth place, after three digits or after another '='.
LEMMA Pad4 ==
  ASSUME NEW q \in Nat, Pending3(q), unit \in Units,
         symbols' = Append(symbols, Pad), conv' = conv \o finish_pad1(push_unit(0)),
         UNCHANGED spoiled
  PROVE  symbols' \in Seq(Int) /\ (~spoiled' => conv' = Base64Text(symbols'))
  <1> DEFINE a == symbols[4 * q + 1]
             b == symbols[4 * q + 2]
             c == symbols[4 * q + 3]
             u == push_unit(0)
             t == Append(symbols, Pad)
  <1>1. /\ symbols \in Seq(Int) /\ Pad \in Int /\ 3 \in 0 .. 3
        /\ 4 * q + 1 \in 1 .. Len(symbols) /\ 4 * q + 2 \in 1 .. Len(symbols)
        /\ 4 * q + 3 \in 1 .. Len(symbols)
    BY SextetInt DEF Pending3, Pad
  <1>2. a \in Sextet /\ b \in Sextet /\ c \in Sextet /\ a \in Nat /\ b \in Nat /\ c \in Nat
    BY <1>1, SextetInt DEF Pending3
  <1>31. /\ t \in Seq(Int) /\ Len(t) = 4 * q + 4 /\ t[4 * q + 4] = Pad
         /\ \A i \in 1 .. 4 * q + 3 : t[i] = symbols[i]
         /\ Octets(t, 3 * q) = Octets(symbols, 3 * q)
    <2>1. Len(symbols) = 4 * q + 3 /\ 4 * q + 3 + 1 = 4 * q + 4
      BY DEF Pending3
    <2>2. /\ t \in Seq(Int) /\ Len(t) = 4 * q + 3 + 1 /\ t[4 * q + 3 + 1] = Pad
          /\ \A i \in 1 .. 4 * q + 3 : t[i] = symbols[i]
          /\ Octets(t, 3 * q) = Octets(symbols, 3 * q)
      BY <1>1, <2>1, SymbolMore
    <2> QED BY <2>1, <2>2
  <1>3. /\ t \in Seq(Int) /\ Len(t) = 4 * q + 4
        /\ t[4 * q + 1] = a /\ t[4 * q + 2] = b /\ t[4 * q + 3] = c /\ t[4 * q + 4] = Pad
        /\ Octets(t, 3 * q) = Octets(symbols, 3 * q)
    <2>1. 4 * q + 1 \in 1 .. 4 * q + 3 /\ 4 * q + 2 \in 1 .. 4 * q + 3 /\ 4 * q + 3 \in 1 .. 4 * q + 3
      OBVIOUS
    <2> HIDE DEF t
    <2> QED BY <1>31, <2>1
  <1>30. \A i \in 1 .. 4 * q + 3 : symbols[i] \in Sextet
    BY DEF Pending3
  <1> DEFINE x == 64 * (64 * a + b) + c
  <1>4. x \in Nat /\ Low18(unit.low) = x
    BY <1>2 DEF Pending3
  <1>5. u \in Units /\ u.low = 64 * x + 0
    <2> HIDE DEF x
    <2>1. push_unit(0).low = 64 * x + 0
      BY <1>4, PushLow, SextetInt
    <2>2. push_unit(0) \in Units
      BY PushUnits, SextetInt
    <2> QED BY <2>1, <2>2
  <1> HIDE DEF a, b, c, u, t
  <1>6. Octet(u, 2) = OctetAt(t, 3 * q + 1) /\ Octet(u, 1) = OctetAt(t, 3 * q + 2)
    <2>1. Digits4(u, a, b, c, 0)
      BY <1>5 DEF Digits4
    <2>2. Starts(t, q, a, b)
      BY <1>3 DEF Starts
    <2>3. u \in Units /\ t[4 * q + 3] = c
      BY <1>3, <1>5
    <2> QED BY <1>2, <2>1, <2>2, <2>3, UnitOctets, SextetInt
  <1>7. Octets(t, 3 * q) \o finish_pad1(u) = Octets(t, 3 * q + 2)
    <2>1. Len(t) >= 4 * q + 3
      BY <1>3
    <2> QED BY <1>3, <1>6, <2>1, ThreeMore DEF finish_pad1
  <1>8. Digits(t) = 4 * q + 3
    <2> DEFINE n == 4 * q + 3
    <2>0. n \in 0 .. Len(t) /\ \A i \in n + 1 .. Len(t) : i = 4 * q + 4
      BY <1>3
    <2>1. \A i \in 1 .. n : t[i] \in Sextet
      BY <1>30, <1>31
    <2>2. \A i \in n + 1 .. Len(t) : t[i] = Pad
      BY <1>3, <2>0
    <2> HIDE DEF n
    <2>3. Digits(t) = n
      BY <1>3, <2>0, <2>1, <2>2, DigitsCount
    <2> QED BY <2>3 DEF n
  <1>9. (6 * Digits(t)) \div 8 = 3 * q + 2
    BY <1>8
  <1>10. Base64Text(t) = Octets(t, 3 * q + 2)
    BY <1>3, <1>9, Base64Type
  <1>11. ~spoiled' => conv' = Base64Text(t)
    BY <1>3, <1>7, <1>10 DEF Pending3, Decoded, u
  <1> QED BY <1>3, <1>11 DEF t

\* ... after another one.
LEMMA PadTwice ==
  ASSUME NEW q \in Nat, PaddedOnce(q), unit \in Units,
         symbols' = Append(symbols, Pad), conv' = conv \o finish_pad2(push_unit(0)),
         UNCHANGED spoiled
  PROVE  symbols' \in Seq(Int) /\ (~spoiled' => conv' = Base64Text(symbols'))
  <1> DEFINE a == symbols[4 * q + 1]
             b == symbols[4 * q + 2]
             u == push_unit(0)
             t == Append(symbols, Pad)
  <1>1. /\ symbols \in Seq(Int) /\ Pad \in Int /\ 3 \in 0 .. 3
        /\ 4 * q + 1 \in 1 .. 4 * q + 2 /\ 4 * q + 2 \in 1 .. 4 * q + 2
    BY DEF PaddedOnce, Pad
  <1>2. a \in Sextet /\ b \in Sextet /\ a \in Nat /\ b \in Nat
    BY <1>1, SextetInt DEF PaddedOnce
  <1>3. /\ t \in Seq(Int) /\ Len(t) = 4 * q + 4
        /\ t[4 * q + 3] = Pad /\ t[4 * q + 4] = Pad
        /\ \A i \in 1 .. 4 * q + 2 : t[i] = symbols[i] /\ symbols[i] \in Sextet
        /\ Octets(t, 3 * q) = Octets(symbols, 3 * q)
    BY <1>1, SymbolMore, SMTT(30) DEF PaddedOnce
  <1>4. t[4 * q + 1] = a /\ t[4 * q + 2] = b
    BY <1>1, <1>3
  <1> DEFINE x == 64 * (64 * a + b) + 0
  <1>5. x \in Nat /\ Low18(unit.low) = x
    <2> DEFINE y == 64 * (64 * a + b)
    <2>1. y \in Nat /\ Low18(unit.low) = y
      BY <1>2 DEF PaddedOnce
    <2>2. x = y + 0
      OBVIOUS
    <2> HIDE DEF y, x
    <2> QED BY <2>1, <2>2
  <1>6. u \in Units /\ u.low = 64 * x + 0
    <2> HIDE DEF x
    <2>1. push_unit(0).low = 64 * x + 0
      BY <1>5, PushLow, SextetInt
    <2>2. push_unit(0) \in Units
      BY PushUnits, SextetInt
    <2> QED BY <2>1, <2>2
  <1> HIDE DEF a, b, u, t
  <1>7. Octet(u, 2) = OctetAt(t, 3 * q + 1)
    <2>1. Digits4(u, a, b, 0, 0)
      BY <1>6 DEF Digits4
    <2>2. Starts(t, q, a, b)
      BY <1>4 DEF Starts
    <2> QED BY <1>2, <1>6, <2>1, <2>2, UnitOctets, SextetInt
  <1>8. Octets(t, 3 * q) \o finish_pad2(u) = Octets(t, 3 * q + 1)
    <2>1. Len(t) >= 4 * q + 2
      BY <1>3
    <2> QED BY <1>3, <1>7, <2>1, ThreeMore DEF finish_pad2
  <1>9. Digits(t) = 4 * q + 2
    <2> DEFINE n == 4 * q + 2
    <2>0. n \in 0 .. Len(t)
      BY <1>3
    <2>1. \A i \in 1 .. n : t[i] \in Sextet
      BY <1>3
    <2>2. \A i \in n + 1 .. Len(t) : i = 4 * q + 3 \/ i = 4 * q + 4
      BY <1>3
    <2>3. \A i \in n + 1 .. Len(t) : t[i] = Pad
      BY <1>3, <2>2
    <2> HIDE DEF n
    <2>4. Digits(t) = n
      BY <1>3, <2>0, <2>1, <2>3, DigitsCount
    <2> QED BY <2>4 DEF n
  <1>10. (6 * Digits(t)) \div 8 = 3 * q + 1
    BY <1>9
  <1>11. Base64Text(t) = Octets(t, 3 * q + 1)
    BY <1>3, <1>10, Base64Type
  <1>12. ~spoiled' => conv' = Base64Text(t)
    BY <1>3, <1>8, <1>11 DEF PaddedOnce, Decoded, u
  <1> QED BY <1>3, <1>12 DEF t

\* A word without padding.
LEMMA WholeGroups ==
  ASSUME NEW q \in Nat, Pending0(q), ~spoiled
  PROVE  conv = Base64Text(symbols)
  <1>1. symbols \in Seq(Int) /\ Len(symbols) = 4 * q
    BY SextetInt DEF Pending0
  <1>2. Digits(symbols) = 4 * q
    <2> DEFINE n == Len(symbols)
    <2>1. n \in 0 .. Len(symbols) /\ \A i \in 1 .. n : symbols[i] \in Sextet
      BY <1>1 DEF Pending0
    <2>2. \A i \in n + 1 .. Len(symbols) : symbols[i] = Pad
      BY <1>1
    <2>3. Digits(symbols) = n
      <3> HIDE DEF n
      <3> QED BY <1>1, <2>1, <2>2, DigitsCount
    <2> QED BY <1>1, <2>3
  <1>3. (6 * Digits(symbols)) \div 8 = 3 * q
    BY <1>2
  <1> QED BY <1>1, <1>3, Base64Type DEF Pending0, Decoded

-----------------------------------------------------------------------------
\* The text of a field, item by item.

Kinds == {"SP", "fa", "EQ", "CR", "LF", "NUL", "ew"}
Items == [kind : Kinds, text : Seq(Octs)]

InWord(r) == AfterWord(r, Len(r))
Plainly(r) ==
    FlattenSeq([i \in 1 .. Len(r) |->
        IF r[i].kind = "SP" /\ AfterWord(r, i) /\ BeforeWord(r, i) /\ ~Blanks(r, i, Len(r))
        THEN <<>> ELSE r[i].text])
TextAt(r, i) ==
    IF r[i].kind = "SP" /\ AfterWord(r, i) /\ BeforeWord(r, i) THEN <<>> ELSE r[i].text
PlainAt(r, i) ==
    IF r[i].kind = "SP" /\ AfterWord(r, i) /\ BeforeWord(r, i) /\ ~Blanks(r, i, Len(r))
    THEN <<>> ELSE r[i].text

\* s is r and one item more.
Ext(s, r, x) ==
    /\ s \in Seq(Items) /\ r \in Seq(Items) /\ x \in Items
    /\ Len(r) \in Nat /\ Len(s) = Len(r) + 1
    /\ s[Len(r) + 1] = x
    /\ \A i \in 1 .. Len(r) : s[i] = r[i] /\ r[i] \in Items

\* Append makes it so.
LEMMA AppendExt ==
  ASSUME NEW r \in Seq(Items), NEW x \in Items
  PROVE  Ext(Append(r, x), r, x)
  BY AppendProperties DEF Ext

\* White space, what is after a word and what is before one, in the longer one.
LEMMA BlanksMore ==
  ASSUME NEW s, NEW r, NEW x, Ext(s, r, x), NEW i \in Nat \ {0}
  PROVE  /\ \A j \in Int : j <= Len(r) => (Blanks(s, i, j) <=> Blanks(r, i, j))
         /\ i <= Len(r) + 1 =>
              (Blanks(s, i, Len(s)) <=> Blanks(r, i, Len(r)) /\ x.kind \in Blank)
  BY DEF Blanks, Ext

\* ... what comes after an encoded word,
LEMMA AfterMore ==
  ASSUME NEW s, NEW r, NEW x, Ext(s, r, x)
  PROVE  /\ \A i \in 1 .. Len(r) : AfterWord(s, i) <=> AfterWord(r, i)
         /\ x.kind \in Blank => (InWord(s) <=> InWord(r))
         /\ x.kind = "ew" => InWord(s)
         /\ x.kind \notin Blank \cup {"ew"} => ~InWord(s)
  <1> DEFINE n == Len(r)
  <1>0. n \in Nat /\ Len(s) = n + 1 /\ s[n + 1] = x /\ \A i \in 1 .. n : s[i] = r[i]
    BY DEF Ext
  <1>1. ASSUME NEW i \in 1 .. n PROVE AfterWord(s, i) <=> AfterWord(r, i)
    <2>1. \A j \in 1 .. i : Blanks(s, j + 1, i) <=> Blanks(r, j + 1, i)
      BY <1>0, BlanksMore
    <2> QED BY <1>0, <2>1 DEF AfterWord
  <1>2. ASSUME x.kind \in Blank PROVE InWord(s) <=> InWord(r)
    <2>1. \A j \in 1 .. n : Blanks(s, j + 1, n + 1) <=> Blanks(r, j + 1, n)
      BY <1>0, <1>2, BlanksMore
    <2>2. x.kind # "ew"
      BY <1>2 DEF Blank, Breaks
    <2>3. InWord(s) <=> \E j \in 1 .. n + 1 : s[j].kind = "ew" /\ Blanks(s, j + 1, n + 1)
      BY <1>0 DEF InWord, AfterWord
    <2>4. InWord(r) <=> \E j \in 1 .. n : r[j].kind = "ew" /\ Blanks(r, j + 1, n)
      BY DEF InWord, AfterWord
    <2>5. \A j \in 1 .. n + 1 : j \in 1 .. n \/ j = n + 1
      BY <1>0
    <2>6. \A j \in 1 .. n : j \in 1 .. n + 1
      BY <1>0
    <2> HIDE DEF n
    <2>7. InWord(s) => InWord(r)
      BY <1>0, <2>1, <2>2, <2>3, <2>4, <2>5
    <2>8. InWord(r) => InWord(s)
      BY <1>0, <2>1, <2>3, <2>4, <2>6
    <2> QED BY <2>7, <2>8
  <1>3. ASSUME x.kind = "ew" PROVE InWord(s)
    <2>1. Blanks(s, n + 2, n + 1)
      BY <1>0 DEF Blanks
    <2> QED BY <1>0, <1>3, <2>1 DEF InWord, AfterWord
  <1>4. ASSUME x.kind \notin Blank \cup {"ew"} PROVE ~InWord(s)
    <2>1. \A j \in 1 .. n : ~Blanks(s, j + 1, n + 1)
      BY <1>0, <1>4 DEF Blanks
    <2> QED BY <1>0, <1>4, <2>1 DEF InWord, AfterWord
  <1> QED BY <1>1, <1>2, <1>3, <1>4

\* ... and what comes before one.
LEMMA BeforeMore ==
  ASSUME NEW s, NEW r, NEW x, Ext(s, r, x), NEW i \in 1 .. Len(r)
  PROVE  /\ x.kind \in Blank \cup {"ew"} => (BeforeWord(s, i) <=> BeforeWord(r, i))
         /\ x.kind \notin Blank \cup {"ew"} =>
              (BeforeWord(s, i) <=> BeforeWord(r, i) /\ ~Blanks(r, i, Len(r)))
  <1> DEFINE n == Len(r)
  <1>0. n \in Nat /\ Len(s) = n + 1 /\ s[n + 1] = x /\ \A k \in 1 .. n : s[k] = r[k]
    BY DEF Ext
  <1>1. \A j \in i .. n : Blanks(s, i, j - 1) <=> Blanks(r, i, j - 1)
    BY <1>0, BlanksMore
  <1>2. Blanks(s, i, (n + 1) - 1) <=> Blanks(r, i, n)
    BY <1>0, BlanksMore
  <1>3. BeforeWord(s, i) <=> /\ BeforeWord(r, i)
                             /\ x.kind \notin Blank /\ Blanks(r, i, n) => x.kind = "ew"
    <2>1. BeforeWord(s, i) <=>
             \A j \in i .. n + 1 : s[j].kind \notin Blank /\ Blanks(s, i, j - 1) => s[j].kind = "ew"
      BY <1>0 DEF BeforeWord
    <2>2. BeforeWord(r, i) <=>
             \A j \in i .. n : r[j].kind \notin Blank /\ Blanks(r, i, j - 1) => r[j].kind = "ew"
      BY DEF BeforeWord
    <2>3. \A j \in i .. n + 1 : j \in i .. n \/ j = n + 1
      BY <1>0
    <2>4. /\ \A j \in i .. n : j \in i .. n + 1 /\ j \in 1 .. n
          /\ n + 1 \in i .. n + 1
      BY <1>0
    <2> HIDE DEF n
    <2>5. BeforeWord(s, i) => /\ BeforeWord(r, i)
                              /\ x.kind \notin Blank /\ Blanks(r, i, n) => x.kind = "ew"
      BY <1>0, <1>1, <1>2, <2>1, <2>2, <2>4
    <2>6. /\ BeforeWord(r, i)
          /\ x.kind \notin Blank /\ Blanks(r, i, n) => x.kind = "ew"
          => BeforeWord(s, i)
      BY <1>0, <1>1, <1>2, <2>1, <2>2, <2>3, <2>4
    <2> QED BY <2>5, <2>6
  <1> QED BY <1>3

\* The text, item by item.
LEMMA AtTypes ==
  ASSUME NEW r \in Seq(Items)
  PROVE  /\ [i \in 1 .. Len(r) |-> TextAt(r, i)] \in Seq(Seq(Octs))
         /\ [i \in 1 .. Len(r) |-> PlainAt(r, i)] \in Seq(Seq(Octs))
         /\ Text(r) = FlattenSeq([i \in 1 .. Len(r) |-> TextAt(r, i)])
         /\ Plainly(r) = FlattenSeq([i \in 1 .. Len(r) |-> PlainAt(r, i)])
  <1>1. ASSUME NEW i \in 1 .. Len(r) PROVE r[i].text \in Seq(Octs)
    <2>1. r[i] \in Items
      OBVIOUS
    <2> QED BY <2>1 DEF Items
  <1>2. <<>> \in Seq(Octs)
    OBVIOUS
  <1>3. \A i \in 1 .. Len(r) : TextAt(r, i) \in Seq(Octs) /\ PlainAt(r, i) \in Seq(Octs)
    BY <1>1, <1>2 DEF TextAt, PlainAt
  <1> QED BY <1>3 DEF Text, TextAt, Plainly, PlainAt

\* Text and Plainly of one item more.
LEMMA TextBlank ==
  ASSUME NEW s, NEW r, NEW x, Ext(s, r, x), x.kind \in Blank
  PROVE  /\ Text(s) = Text(r) \o (IF x.kind = "SP" /\ InWord(r) THEN <<>> ELSE x.text)
         /\ Plainly(s) = Plainly(r) \o x.text
  <1> DEFINE n == Len(r)
             tr == [i \in 1 .. n |-> TextAt(r, i)]
             ts == [i \in 1 .. n + 1 |-> TextAt(s, i)]
             pr == [i \in 1 .. n |-> PlainAt(r, i)]
             ps == [i \in 1 .. n + 1 |-> PlainAt(s, i)]
  <1>0. n \in Nat /\ Len(s) = n + 1 /\ s[n + 1] = x /\ \A k \in 1 .. n : s[k] = r[k]
    BY DEF Ext
  <1>1. r \in Seq(Items) /\ s \in Seq(Items)
    BY DEF Ext
  <1>2. /\ tr \in [1 .. n -> Seq(Octs)] /\ ts \in [1 .. n + 1 -> Seq(Octs)]
        /\ pr \in [1 .. n -> Seq(Octs)] /\ ps \in [1 .. n + 1 -> Seq(Octs)]
        /\ Text(r) = FlattenSeq(tr) /\ Text(s) = FlattenSeq(ts)
        /\ Plainly(r) = FlattenSeq(pr) /\ Plainly(s) = FlattenSeq(ps)
    BY <1>0, <1>1, AtTypes
  <1>3. ASSUME NEW i \in 1 .. n PROVE ts[i] = tr[i] /\ ps[i] = pr[i]
    <2>1. i \in 1 .. n + 1 /\ i \in Nat \ {0} /\ i <= n + 1
      BY <1>0
    <2>2. /\ AfterWord(s, i) <=> AfterWord(r, i)
          /\ BeforeWord(s, i) <=> BeforeWord(r, i)
          /\ Blanks(s, i, Len(s)) <=> Blanks(r, i, Len(r))
      BY <1>0, <2>1, AfterMore, BeforeMore, BlanksMore
    <2> QED BY <1>0, <2>1, <2>2 DEF TextAt, PlainAt
  <1>4. ts[n + 1] = IF x.kind = "SP" /\ InWord(r) THEN <<>> ELSE x.text
    <2>1. BeforeWord(s, n + 1)
      BY <1>0 DEF BeforeWord
    <2>2. AfterWord(s, n + 1) <=> InWord(r)
      BY <1>0, AfterMore DEF InWord
    <2> QED BY <1>0, <2>1, <2>2 DEF TextAt
  <1>5. ps[n + 1] = x.text
    <2>1. Blanks(s, n + 1, Len(s))
      BY <1>0 DEF Blanks
    <2> QED BY <1>0, <2>1 DEF PlainAt
  <1> HIDE DEF n, tr, ts, pr, ps
  <1>6. FlattenSeq(ts) = FlattenSeq(tr) \o ts[n + 1]
    BY <1>0, <1>2, <1>3, TableMore
  <1>7. FlattenSeq(ps) = FlattenSeq(pr) \o ps[n + 1]
    BY <1>0, <1>2, <1>3, TableMore
  <1> QED BY <1>2, <1>4, <1>5, <1>6, <1>7

\* ... if it is no white space: now it shows what the white space before it was.
LEMMA TextSolid ==
  ASSUME NEW s, NEW r, NEW x, Ext(s, r, x), x.kind \notin Blank
  PROVE  /\ Text(s) = (IF x.kind = "ew" THEN Text(r) ELSE Plainly(r)) \o x.text
         /\ Plainly(s) = Text(s)
  <1> DEFINE n == Len(r)
             tr == [i \in 1 .. n |-> TextAt(r, i)]
             ts == [i \in 1 .. n + 1 |-> TextAt(s, i)]
             pr == [i \in 1 .. n |-> PlainAt(r, i)]
             ps == [i \in 1 .. n + 1 |-> PlainAt(s, i)]
  <1>0. n \in Nat /\ Len(s) = n + 1 /\ s[n + 1] = x /\ \A k \in 1 .. n : s[k] = r[k]
    BY DEF Ext
  <1>1. r \in Seq(Items) /\ s \in Seq(Items)
    BY DEF Ext
  <1>2. /\ tr \in [1 .. n -> Seq(Octs)] /\ ts \in [1 .. n + 1 -> Seq(Octs)]
        /\ pr \in [1 .. n -> Seq(Octs)]
        /\ Text(r) = FlattenSeq(tr) /\ Text(s) = FlattenSeq(ts)
        /\ Plainly(r) = FlattenSeq(pr) /\ Plainly(s) = FlattenSeq(ps)
    BY <1>0, <1>1, AtTypes
  <1>3. ASSUME NEW i \in 1 .. n PROVE ts[i] = IF x.kind = "ew" THEN tr[i] ELSE pr[i]
    <2>1. i \in 1 .. n + 1
      BY <1>0
    <2>2. AfterWord(s, i) <=> AfterWord(r, i)
      BY <1>0, AfterMore
    <2>3. BeforeWord(s, i) <=>
            IF x.kind = "ew" THEN BeforeWord(r, i) ELSE BeforeWord(r, i) /\ ~Blanks(r, i, Len(r))
      BY <1>0, BeforeMore
    <2> QED BY <1>0, <2>1, <2>2, <2>3 DEF TextAt, PlainAt
  <1>4. ts[n + 1] = x.text
    BY <1>0 DEF TextAt, Blank
  <1>5. ts = ps
    <2>1. ASSUME NEW i \in 1 .. n + 1 PROVE ~Blanks(s, i, Len(s))
      BY <1>0 DEF Blanks
    <2>2. ASSUME NEW i \in 1 .. n + 1 PROVE TextAt(s, i) = PlainAt(s, i)
      BY <2>1 DEF TextAt, PlainAt
    <2> QED BY <2>2
  <1> HIDE DEF n, tr, ts, pr, ps
  <1>6. CASE x.kind = "ew"
    <2>1. FlattenSeq(ts) = FlattenSeq(tr) \o ts[n + 1]
      BY <1>0, <1>2, <1>3, <1>6, TableMore, ZenonT(30)
    <2> QED BY <1>2, <1>4, <1>5, <1>6, <2>1
  <1>7. CASE x.kind # "ew"
    <2>1. FlattenSeq(ts) = FlattenSeq(pr) \o ts[n + 1]
      BY <1>0, <1>2, <1>3, <1>7, TableMore, ZenonT(30)
    <2> QED BY <1>2, <1>4, <1>5, <1>7, <2>1
  <1> QED BY <1>6, <1>7

\* Without a word in front, there is one text only.
LEMMA NotInWord ==
  ASSUME NEW r \in Seq(Items), ~InWord(r)
  PROVE  Plainly(r) = Text(r)
  <1>1. ASSUME NEW i \in 1 .. Len(r), AfterWord(r, i), Blanks(r, i, Len(r)) PROVE FALSE
    <2>1. PICK j \in 1 .. i : r[j].kind = "ew" /\ Blanks(r, j + 1, i)
      BY <1>1 DEF AfterWord
    <2>2. Blanks(r, j + 1, Len(r))
      BY <1>1, <2>1 DEF Blanks
    <2> QED BY <2>1, <2>2 DEF InWord, AfterWord
  <1>2. \A i \in 1 .. Len(r) : TextAt(r, i) = PlainAt(r, i)
    BY <1>1 DEF TextAt, PlainAt
  <1>3. [i \in 1 .. Len(r) |-> TextAt(r, i)] = [i \in 1 .. Len(r) |-> PlainAt(r, i)]
    BY <1>2
  <1> QED BY <1>3, AtTypes

\* Texts consist of octets.
LEMMA TextTypes ==
  ASSUME NEW r \in Seq(Items)
  PROVE  Text(r) \in Seq(Octs) /\ Plainly(r) \in Seq(Octs)
  BY AtTypes, FlatType

\* An empty field.
LEMMA TextEmpty == Text(<<>>) = <<>> /\ ~InWord(<<>>)
  <1>1. [i \in 1 .. Len(<<>>) |-> TextAt(<<>>, i)] = <<>>
    OBVIOUS
  <1>2. <<>> \in Seq(Items)
    OBVIOUS
  <1>3. Text(<<>>) = <<>>
    BY <1>1, <1>2, AtTypes, FlatEmpty
  <1>4. ~InWord(<<>>)
    BY DEF InWord, AfterWord
  <1> QED BY <1>3, <1>4

\* Since a line end there has been white space only.
FromFold(r) == \E j \in 1 .. Len(r) : r[j].kind = "LF" /\ Blanks(r, j, Len(r))

\* White space between an encoded word and a fold, and nothing solid behind it.
Doomed(r) ==
    \E i \in 1 .. Len(r) - 1 :
        /\ r[i].kind = "SP" /\ AfterWord(r, i) /\ Blanks(r, i, Len(r))
        /\ r[i + 1].kind \in Breaks

\* The two ways to be forgotten.
Lost(r, i) ==
    \/ /\ r[i + 1].kind \in {"EQ", "ew"}
       /\ \E j \in 1 .. i : r[j].kind = "LF" /\ Blanks(r, j, i)
    \/ r[i + 1].kind \in {"EQ"} \cup Breaks /\ AfterWord(r, i)

\* Forgotten, in these words.
LEMMA ForgottenIs ==
  ASSUME NEW r
  PROVE  Forgotten(r) <=> \E i \in 1 .. Len(r) - 1 :
            r[i].kind = "SP" /\ ~(AfterWord(r, i) /\ BeforeWord(r, i)) /\ Lost(r, i)
  BY DEF Forgotten, Lost

\* What has been forgotten stays so.
LEMMA ForgottenMore ==
  ASSUME NEW s, NEW r, NEW x, Ext(s, r, x), Forgotten(r)
  PROVE  Forgotten(s)
  <1> DEFINE n == Len(r)
  <1>0. n \in Nat /\ Len(s) = n + 1 /\ \A k \in 1 .. n : s[k] = r[k]
    BY DEF Ext
  <1>1. PICK i \in 1 .. n - 1 :
           r[i].kind = "SP" /\ ~(AfterWord(r, i) /\ BeforeWord(r, i)) /\ Lost(r, i)
    BY ForgottenIs
  <1>2. i \in 1 .. n /\ i + 1 \in 1 .. n /\ i \in 1 .. Len(s) - 1
    BY <1>0, <1>1
  <1>3. AfterWord(s, i) <=> AfterWord(r, i)
    BY <1>2, AfterMore
  <1>4. BeforeWord(s, i) => BeforeWord(r, i)
    BY <1>2, BeforeMore
  <1>5. \A j \in 1 .. i : (Blanks(s, j, i) <=> Blanks(r, j, i)) /\ s[j] = r[j]
    BY <1>0, <1>2, BlanksMore
  <1>6. Lost(s, i)
    BY <1>0, <1>1, <1>2, <1>3, <1>5 DEF Lost
  <1>7. s[i].kind = "SP" /\ ~(AfterWord(s, i) /\ BeforeWord(s, i))
    BY <1>0, <1>1, <1>2, <1>3, <1>4
  <1> QED BY <1>2, <1>6, <1>7, ForgottenIs

\* What is forgotten when a solid item follows.
EndsInSpace(r) == r \in Seq(Items) /\ Len(r) > 0 /\ r[Len(r)].kind = "SP"

\* White space that ends the field so far, and what follows it.
LEMMA Forgets ==
  ASSUME NEW s, NEW r, NEW x, Ext(s, r, x), EndsInSpace(r)
  PROVE  /\ x.kind = "EQ" /\ (InWord(r) \/ FromFold(r)) => Forgotten(s)
         /\ x.kind = "ew" /\ ~InWord(r) /\ FromFold(r) => Forgotten(s)
         /\ x.kind \in Breaks /\ InWord(r) => Doomed(s)
  <1> DEFINE n == Len(r)
  <1>0. n \in Nat /\ Len(s) = n + 1 /\ s[n + 1] = x /\ \A k \in 1 .. n : s[k] = r[k]
    BY DEF Ext
  <1>1. n \in 1 .. n /\ n \in 1 .. Len(s) - 1 /\ s[n].kind = "SP"
    BY <1>0 DEF EndsInSpace
  <1>2. AfterWord(s, n) <=> InWord(r)
    BY <1>1, AfterMore DEF InWord
  <1>3. Blanks(s, n, n) /\ Blanks(r, n, n)
    BY <1>0, <1>1 DEF Blanks, Blank
  <1>4. x.kind = "EQ" => ~BeforeWord(s, n)
    BY <1>0, <1>1, <1>3, BeforeMore DEF Blank, Breaks
  <1>5. FromFold(r) => \E j \in 1 .. n : s[j].kind = "LF" /\ Blanks(s, j, n)
    BY <1>0, BlanksMore DEF FromFold
  <1>6. x.kind = "EQ" /\ (InWord(r) \/ FromFold(r)) => Lost(s, n)
    BY <1>0, <1>2, <1>5 DEF Lost
  <1>7. x.kind = "ew" /\ FromFold(r) => Lost(s, n)
    BY <1>0, <1>5 DEF Lost
  <1>8. x.kind \in Breaks => Blanks(s, n, Len(s))
    BY <1>0, <1>1 DEF Blanks, Blank
  <1>9. x.kind \in Breaks /\ InWord(r) => Doomed(s)
    BY <1>0, <1>1, <1>2, <1>8 DEF Doomed
  <1> QED BY <1>1, <1>2, <1>4, <1>6, <1>7, <1>9, ForgottenIs

\* Doomed white space stays so until it is forgotten.
LEMMA DoomedMore ==
  ASSUME NEW s, NEW r, NEW x, Ext(s, r, x), Doomed(r)
  PROVE  /\ x.kind \in Blank => Doomed(s)
         /\ x.kind \notin Blank \cup {"ew"} => Forgotten(s)
  <1> DEFINE n == Len(r)
  <1>0. n \in Nat /\ Len(s) = n + 1 /\ s[n + 1] = x /\ \A k \in 1 .. n : s[k] = r[k]
    BY DEF Ext
  <1>1. PICK i \in 1 .. n - 1 : /\ r[i].kind = "SP" /\ AfterWord(r, i) /\ Blanks(r, i, n)
                                /\ r[i + 1].kind \in Breaks
    BY DEF Doomed
  <1>2. /\ i \in 1 .. n /\ i + 1 \in 1 .. n /\ i \in 1 .. Len(s) - 1
        /\ s[i] = r[i] /\ s[i + 1] = r[i + 1]
    BY <1>0, <1>1
  <1>3. AfterWord(s, i)
    BY <1>1, <1>2, AfterMore
  <1>4. x.kind \in Blank => Blanks(s, i, Len(s))
    BY <1>1, <1>2, BlanksMore
  <1>5. x.kind \notin Blank \cup {"ew"} => ~BeforeWord(s, i)
    BY <1>1, <1>2, BeforeMore
  <1>6. Lost(s, i)
    BY <1>1, <1>2, <1>3 DEF Lost
  <1>7. x.kind \in Blank => Doomed(s)
    BY <1>1, <1>2, <1>3, <1>4 DEF Doomed
  <1> QED BY <1>1, <1>2, <1>5, <1>6, <1>7, ForgottenIs

\* A line end begins a fold, a blank continues it.
LEMMA FoldMore ==
  ASSUME NEW s, NEW r, NEW x, Ext(s, r, x)
  PROVE  /\ x.kind = "LF" => FromFold(s)
         /\ x.kind = "SP" /\ FromFold(r) => FromFold(s)
  <1> DEFINE n == Len(r)
  <1>0. n \in Nat /\ Len(s) = n + 1 /\ s[n + 1] = x /\ \A k \in 1 .. n : s[k] = r[k]
    BY DEF Ext
  <1>1. ASSUME x.kind = "LF" PROVE FromFold(s)
    <2>1. Blanks(s, n + 1, Len(s))
      BY <1>0, <1>1 DEF Blanks, Blank, Breaks
    <2> QED BY <1>0, <1>1, <2>1 DEF FromFold
  <1>2. ASSUME x.kind = "SP", FromFold(r) PROVE FromFold(s)
    <2>1. PICK j \in 1 .. n : r[j].kind = "LF" /\ Blanks(r, j, n)
      BY <1>2 DEF FromFold
    <2>2. j \in 1 .. Len(s) /\ j \in Nat \ {0} /\ j <= n + 1 /\ s[j].kind = "LF"
      BY <1>0, <2>1
    <2>3. x.kind \in Blank
      BY <1>2 DEF Blank
    <2>4. Blanks(s, j, Len(s))
      BY <2>1, <2>2, <2>3, BlanksMore
    <2> QED BY <2>2, <2>4 DEF FromFold
  <1> QED BY <1>1, <1>2

-----------------------------------------------------------------------------
\* The buffer and the text.

\* How much of the text the buffer has, in each of the automaton's states: r is
\* the field so far, b the buffer and n the white space that is put aside.
SpaceState(r, b, n) == ~InWord(r) /\ (~Forgotten(r) => b \o Spaces(n) = Text(r))
WordState(r, b, n) ==
    InWord(r) /\ (~Forgotten(r) => b = Text(r) /\ b \o Spaces(n) = Plainly(r))
BreakState(r, b, n) ==
    /\ ~Forgotten(r) => b \o Spaces(n) = Text(r)
    /\ InWord(r) => n = 0 /\ (Doomed(r) \/ Forgotten(r) \/ b = Plainly(r))
FoldState(r, b, n) ==
    /\ EndsInSpace(r) /\ FromFold(r)
    /\ ~InWord(r) /\ ~Forgotten(r) => b \o Spaces(n) = Text(r)
    /\ InWord(r) => /\ ~Forgotten(r) => b = Text(r)
                    /\ Doomed(r) \/ Forgotten(r) \/ b \o Spaces(n) = Plainly(r)
Gathered(r, b) ==
    /\ \A x \in Items : x.kind = "ew" /\ ~Forgotten(Append(r, x)) => b = Text(r)
    /\ \A x \in Items : x.kind = "EQ" /\ ~Forgotten(Append(r, x)) => b = Plainly(r)

\* White space, as a sequence.
LEMMA SpacesAre ==
  ASSUME NEW b \in Seq(Octs), NEW n \in Nat
  PROVE  /\ Spaces(n) \in Seq(Octs) /\ Spaces(n) \in Seq(Safe) /\ b \o Spaces(n) \in Seq(Octs)
         /\ b \o Spaces(0) = b
         /\ b \o Spaces(n + 1) = (b \o Spaces(n)) \o <<32>>
  <1>0. 32 \in Octs /\ 32 \in Safe /\ Code.SP = 32
    BY DEF Octs, Safe, CTL, Code
  <1>1. \A m \in Nat : /\ Spaces(m) \in Seq(Octs) /\ Spaces(m) \in Seq(Safe) /\ Len(Spaces(m)) = m
                       /\ \A i \in 1 .. m : Spaces(m)[i] = 32
    BY <1>0 DEF Spaces
  <1>2. b \o Spaces(n) \in Seq(Octs)
    BY <1>1, ConcatProperties
  <1>3. Spaces(0) = <<>>
    BY <1>1, EmptySeq
  <1>4. b \o Spaces(0) = b
    BY <1>3, ConcatEmptySeq
  <1>5. Spaces(n + 1) = Append(Spaces(n), 32)
    <2>1. n + 1 \in Nat /\ Spaces(n + 1) \in Seq(Octs) /\ Len(Spaces(n + 1)) = n + 1
      BY <1>1
    <2>2. Append(Spaces(n), 32) \in Seq(Octs) /\ Len(Append(Spaces(n), 32)) = n + 1
      BY <1>0, <1>1, AppendProperties
    <2>3. \A i \in 1 .. n + 1 : Append(Spaces(n), 32)[i] = 32
      BY <1>0, <1>1, AppendProperties
    <2>4. \A i \in 1 .. n + 1 : Spaces(n + 1)[i] = 32
      BY <1>1, <2>1
    <2> QED BY <2>1, <2>2, <2>3, <2>4, SeqEqual
  <1>6. Spaces(n + 1) = Spaces(n) \o <<32>>
    BY <1>0, <1>1, <1>5, Concat1
  <1>7. <<32>> \in Seq(Octs)
    BY <1>0
  <1>8. b \o (Spaces(n) \o <<32>>) = (b \o Spaces(n)) \o <<32>>
    <2> DEFINE c == Spaces(n)
               d == <<32>>
    <2>1. c \in Seq(Octs) /\ d \in Seq(Octs)
      BY <1>1, <1>7
    <2> HIDE DEF c, d
    <2>2. b \o (c \o d) = (b \o c) \o d
      BY <2>1, ConcatAssociative, SMTT(30)
    <2> QED BY <2>2 DEF c, d
  <1> QED BY <1>1, <1>2, <1>4, <1>6, <1>8

\* Kinds of items.
LEMMA KindsAre ==
  ASSUME NEW x \in Items
  PROVE  /\ x.text \in Seq(Octs)
         /\ x.kind = "SP" => x.kind \in Blank /\ x.kind # "ew"
         /\ x.kind \in Breaks => x.kind \in Blank /\ x.kind # "SP" /\ x.kind # "ew"
         /\ x.kind \in {"fa", "EQ"} => x.kind \notin Blank \cup {"ew"} /\ x.kind # "ew"
         /\ x.kind = "ew" => x.kind \notin Blank
  BY DEF Items, Blank, Breaks

\* The types that go with one item more.
LEMMA ExtTypes ==
  ASSUME NEW s, NEW r, NEW x, Ext(s, r, x)
  PROVE  /\ s \in Seq(Items) /\ r \in Seq(Items) /\ x \in Items
         /\ Text(r) \in Seq(Octs) /\ Plainly(r) \in Seq(Octs)
         /\ Text(s) \in Seq(Octs) /\ Plainly(s) \in Seq(Octs)
         /\ (Forgotten(r) => Forgotten(s))
  BY TextTypes, ForgottenMore DEF Ext

\* The text after a blank and after a line end.
LEMMA BlankTexts ==
  ASSUME NEW s, NEW r, NEW x, Ext(s, r, x), x.kind = "SP", x.text = << 32 >>
  PROVE  /\ InWord(r) => Text(s) = Text(r)
         /\ ~InWord(r) => Text(s) = Text(r) \o <<32>>
         /\ Plainly(s) = Plainly(r) \o <<32>>
  <1>1. x.kind \in Blank
    BY DEF Blank
  <1>2. /\ Text(s) = Text(r) \o (IF x.kind = "SP" /\ InWord(r) THEN <<>> ELSE x.text)
        /\ Plainly(s) = Plainly(r) \o x.text
    BY <1>1, TextBlank
  <1>3. Text(r) \o <<>> = Text(r)
    BY ExtTypes, ConcatEmptySeq
  <1>4. CASE InWord(r)
    BY <1>2, <1>3, <1>4
  <1>5. CASE ~InWord(r)
    BY <1>2, <1>5
  <1> QED BY <1>4, <1>5

\* ... and after a line end.
LEMMA BreakTexts ==
  ASSUME NEW s, NEW r, NEW x, Ext(s, r, x), x.kind \in Breaks, x.text = <<>>
  PROVE  Text(s) = Text(r) /\ Plainly(s) = Plainly(r)
  <1>1. x.kind \in Blank /\ x.kind # "SP"
    BY DEF Blank, Breaks
  <1>2. /\ Text(s) = Text(r) \o (IF x.kind = "SP" /\ InWord(r) THEN <<>> ELSE x.text)
        /\ Plainly(s) = Plainly(r) \o x.text
    BY <1>1, TextBlank
  <1>3. Text(r) \o <<>> = Text(r) /\ Plainly(r) \o <<>> = Plainly(r)
    BY ExtTypes, ConcatEmptySeq
  <1> QED BY <1>1, <1>2, <1>3

\* A blank, a character, a line end after text or white space.
LEMMA SpaceBlank ==
  ASSUME NEW s, NEW r, NEW x, Ext(s, r, x), NEW b \in Seq(Octs), NEW n \in Nat,
         SpaceState(r, b, n), x.kind = "SP", x.text = << 32 >>
  PROVE  SpaceState(s, b, n + 1)
  <1>1. ~InWord(r) /\ ~InWord(s)
    BY ExtTypes, KindsAre, AfterMore DEF SpaceState
  <1>2. Text(s) = Text(r) \o <<32>>
    BY <1>1, BlankTexts
  <1>3. b \o Spaces(n + 1) = (b \o Spaces(n)) \o <<32>>
    BY SpacesAre
  <1> QED BY <1>1, <1>2, <1>3, ExtTypes DEF SpaceState

\* (The character.)
LEMMA SpaceChar ==
  ASSUME NEW s, NEW r, NEW x, Ext(s, r, x), NEW b \in Seq(Octs), NEW n \in Nat, NEW c \in Octs,
         SpaceState(r, b, n), x.kind \in {"fa", "EQ"}, x.text = <<c>>
  PROVE  SpaceState(s, Append(b \o Spaces(n), c), 0)
  <1> DEFINE d == b \o Spaces(n)
  <1>0. d \in Seq(Octs)
    BY SpacesAre
  <1>1. ~InWord(r) /\ ~InWord(s)
    BY ExtTypes, KindsAre, AfterMore DEF SpaceState
  <1>2. Text(s) = Text(r) \o <<c>>
    <2>1. Plainly(r) = Text(r)
      BY <1>1, ExtTypes, NotInWord
    <2>2. Text(s) = Plainly(r) \o <<c>>
      BY ExtTypes, KindsAre, TextSolid
    <2> QED BY <2>1, <2>2
  <1>3. ~Forgotten(s) => d = Text(r)
    BY ExtTypes DEF SpaceState
  <1> HIDE DEF d
  <1>4. Append(d, c) = d \o <<c>> /\ Append(d, c) \in Seq(Octs)
    BY <1>0, Concat1, AppendProperties
  <1>5. Append(d, c) \o Spaces(0) = Append(d, c)
    BY <1>4, SpacesAre
  <1>6. SpaceState(s, Append(d, c), 0)
    BY <1>1, <1>2, <1>3, <1>4, <1>5 DEF SpaceState
  <1> QED BY <1>6 DEF d

\* (The line end.)
LEMMA SpaceBreak ==
  ASSUME NEW s, NEW r, NEW x, Ext(s, r, x), NEW b \in Seq(Octs), NEW n \in Nat,
         SpaceState(r, b, n), x.kind \in Breaks, x.text = <<>>
  PROVE  BreakState(s, b, n)
  <1>1. ~InWord(r) /\ ~InWord(s)
    BY ExtTypes, KindsAre, AfterMore DEF SpaceState
  <1>3. Text(s) = Text(r)
    BY BreakTexts
  <1> QED BY <1>1, <1>3, ExtTypes DEF SpaceState, BreakState

\* '=', an encoded word perhaps.
LEMMA SpaceEquals ==
  ASSUME NEW r \in Seq(Items), NEW b \in Seq(Octs), SpaceState(r, b, 0)
  PROVE  Gathered(r, b)
  <1>1. b \o Spaces(0) = b /\ Plainly(r) = Text(r)
    BY SpacesAre, NotInWord DEF SpaceState
  <1>2. \A x \in Items : Forgotten(r) => Forgotten(Append(r, x))
    BY AppendExt, ForgottenMore
  <1> QED BY <1>1, <1>2 DEF SpaceState, Gathered

\* The same after an encoded word.
LEMMA WordBlank ==
  ASSUME NEW s, NEW r, NEW x, Ext(s, r, x), NEW b \in Seq(Octs), NEW n \in Nat,
         WordState(r, b, n), x.kind = "SP", x.text = << 32 >>
  PROVE  WordState(s, b, n + 1) /\ EndsInSpace(s)
  <1>1. InWord(r) /\ InWord(s)
    BY ExtTypes, KindsAre, AfterMore DEF WordState
  <1>2. Text(s) = Text(r) /\ Plainly(s) = Plainly(r) \o <<32>>
    BY <1>1, BlankTexts
  <1>4. b \o Spaces(n + 1) = (b \o Spaces(n)) \o <<32>>
    BY SpacesAre
  <1>5. EndsInSpace(s)
    BY DEF EndsInSpace, Ext
  <1> QED BY <1>1, <1>2, <1>4, <1>5, ExtTypes DEF WordState

\* A character after an encoded word: the white space between them counts.
LEMMA WordChar ==
  ASSUME NEW s, NEW r, NEW x, Ext(s, r, x), NEW b \in Seq(Octs), NEW n \in Nat, NEW c \in Octs,
         WordState(r, b, n), x.kind \in {"fa", "EQ"}, x.text = <<c>>
  PROVE  SpaceState(s, Append(b \o Spaces(n), c), 0)
  <1> DEFINE d == b \o Spaces(n)
  <1>0. d \in Seq(Octs)
    BY SpacesAre
  <1>1. ~InWord(s)
    BY ExtTypes, KindsAre, AfterMore
  <1>2. Text(s) = Plainly(r) \o <<c>>
    BY ExtTypes, KindsAre, TextSolid
  <1>3. ~Forgotten(s) => d = Plainly(r)
    BY ExtTypes DEF WordState
  <1> HIDE DEF d
  <1>4. Append(d, c) = d \o <<c>> /\ Append(d, c) \in Seq(Octs)
    BY <1>0, Concat1, AppendProperties
  <1>5. Append(d, c) \o Spaces(0) = Append(d, c)
    BY <1>4, SpacesAre
  <1>6. SpaceState(s, Append(d, c), 0)
    BY <1>1, <1>2, <1>3, <1>4, <1>5 DEF SpaceState
  <1> QED BY <1>6 DEF d

\* A line end there: white space is doomed.
LEMMA WordBreak ==
  ASSUME NEW s, NEW r, NEW x, Ext(s, r, x), NEW b \in Seq(Octs), NEW n \in Nat,
         WordState(r, b, n), n = 0 \/ EndsInSpace(r), x.kind \in Breaks, x.text = <<>>
  PROVE  BreakState(s, b, 0)
  <1>1. InWord(r) /\ InWord(s)
    BY ExtTypes, KindsAre, AfterMore DEF WordState
  <1>3. Text(s) = Text(r) /\ Plainly(s) = Plainly(r)
    BY BreakTexts
  <1>4. b \o Spaces(0) = b
    BY SpacesAre
  <1>5. CASE n = 0
    BY <1>1, <1>3, <1>4, <1>5, ExtTypes DEF WordState, BreakState
  <1>6. CASE EndsInSpace(r)
    <2>1. Doomed(s)
      BY <1>1, <1>6, Forgets
    <2> QED BY <1>1, <1>3, <1>4, <2>1, ExtTypes DEF WordState, BreakState
  <1> QED BY <1>5, <1>6

\* '=' there: white space, if there is any, is dropped or forgotten.
LEMMA WordEquals ==
  ASSUME NEW r \in Seq(Items), NEW b \in Seq(Octs), NEW n \in Nat,
         WordState(r, b, n), n = 0 \/ EndsInSpace(r)
  PROVE  Gathered(r, b)
  <1>1. b \o Spaces(0) = b
    BY SpacesAre
  <1>2. \A x \in Items : Ext(Append(r, x), r, x) /\ (Forgotten(r) => Forgotten(Append(r, x)))
    BY AppendExt, ForgottenMore
  <1>3. EndsInSpace(r) => \A x \in Items : x.kind = "EQ" => Forgotten(Append(r, x))
    BY <1>2, Forgets DEF WordState
  <1> QED BY <1>1, <1>2, <1>3 DEF WordState, Gathered

\* After a line end.
LEMMA BreakBreak ==
  ASSUME NEW s, NEW r, NEW x, Ext(s, r, x), NEW b \in Seq(Octs), NEW n \in Nat,
         BreakState(r, b, n), x.kind \in Breaks, x.text = <<>>
  PROVE  BreakState(s, b, n)
  <1>1. InWord(s) <=> InWord(r)
    BY ExtTypes, KindsAre, AfterMore
  <1>3. Text(s) = Text(r) /\ Plainly(s) = Plainly(r)
    BY BreakTexts
  <1>4. Doomed(r) => Doomed(s)
    BY ExtTypes, KindsAre, DoomedMore
  <1> QED BY <1>1, <1>3, <1>4, ExtTypes DEF BreakState

\* A blank after a line end: a fold.
LEMMA BreakBlank ==
  ASSUME NEW s, NEW r, NEW x, Ext(s, r, x), NEW b \in Seq(Octs), NEW n \in Nat,
         BreakState(r, b, n), FromFold(r), x.kind = "SP", x.text = << 32 >>
  PROVE  FoldState(s, b \o Spaces(n), 1)
  <1> DEFINE d == b \o Spaces(n)
  <1>0. d \in Seq(Octs) /\ b \o Spaces(0) = b
    BY SpacesAre
  <1>1. InWord(s) <=> InWord(r)
    BY ExtTypes, KindsAre, AfterMore
  <1>2. /\ ~InWord(r) => Text(s) = Text(r) \o <<32>>
        /\ InWord(r) => Text(s) = Text(r)
        /\ Plainly(s) = Plainly(r) \o <<32>>
    BY BlankTexts
  <1>4. Doomed(r) => Doomed(s)
    BY ExtTypes, KindsAre, DoomedMore
  <1>5. EndsInSpace(s) /\ FromFold(s)
    BY FoldMore DEF EndsInSpace, Ext
  <1>6. d \o Spaces(1) = d \o <<32>>
    <2> HIDE DEF d
    <2>1. 0 \in Nat /\ 0 + 1 = 1
      OBVIOUS
    <2>2. d \o Spaces(0 + 1) = (d \o Spaces(0)) \o <<32>> /\ d \o Spaces(0) = d
      BY <1>0, <2>1, SpacesAre
    <2> QED BY <2>1, <2>2
  <1>7. ~Forgotten(s) => d = Text(r)
    BY ExtTypes DEF BreakState
  <1>8. InWord(r) => d = b /\ (Doomed(s) \/ Forgotten(s) \/ d = Plainly(r))
    BY <1>0, <1>4, ExtTypes DEF BreakState
  <1> HIDE DEF d
  <1>9. FoldState(s, d, 1)
    BY <1>1, <1>2, <1>5, <1>6, <1>7, <1>8 DEF FoldState
  <1> QED BY <1>9 DEF d

\* After a fold.
LEMMA FoldBlank ==
  ASSUME NEW s, NEW r, NEW x, Ext(s, r, x), NEW b \in Seq(Octs), NEW n \in Nat,
         FoldState(r, b, n), x.kind = "SP", x.text = << 32 >>
  PROVE  FoldState(s, b, n + 1)
  <1>1. InWord(s) <=> InWord(r)
    BY ExtTypes, KindsAre, AfterMore
  <1>2. /\ ~InWord(r) => Text(s) = Text(r) \o <<32>>
        /\ InWord(r) => Text(s) = Text(r)
        /\ Plainly(s) = Plainly(r) \o <<32>>
    BY BlankTexts
  <1>4. Doomed(r) => Doomed(s)
    BY ExtTypes, KindsAre, DoomedMore
  <1>5. EndsInSpace(s) /\ FromFold(s)
    <2>1. FromFold(r)
      BY DEF FoldState
    <2>2. FromFold(s)
      BY <2>1, FoldMore
    <2>3. EndsInSpace(s)
      BY DEF EndsInSpace, Ext
    <2> QED BY <2>2, <2>3
  <1>6. b \o Spaces(n + 1) = (b \o Spaces(n)) \o <<32>>
    BY SpacesAre
  <1> QED BY <1>1, <1>2, <1>4, <1>5, <1>6, ExtTypes DEF FoldState

\* A character after a fold.
LEMMA FoldChar ==
  ASSUME NEW s, NEW r, NEW x, Ext(s, r, x), NEW b \in Seq(Octs), NEW n \in Nat, NEW c \in Octs,
         FoldState(r, b, n), x.kind = "fa", x.text = <<c>>
  PROVE  SpaceState(s, Append(b \o Spaces(n), c), 0)
  <1> DEFINE d == b \o Spaces(n)
  <1>0. d \in Seq(Octs)
    BY SpacesAre
  <1>1. ~InWord(s)
    BY ExtTypes, KindsAre, AfterMore
  <1>2. Text(s) = Plainly(r) \o <<c>>
    BY ExtTypes, KindsAre, TextSolid
  <1>3. Doomed(r) => Forgotten(s)
    BY ExtTypes, KindsAre, DoomedMore
  <1>4. ~Forgotten(s) => d = Plainly(r)
    BY <1>3, ExtTypes, NotInWord DEF FoldState
  <1> HIDE DEF d
  <1>5. Append(d, c) = d \o <<c>> /\ Append(d, c) \in Seq(Octs)
    BY <1>0, Concat1, AppendProperties
  <1>6. Append(d, c) \o Spaces(0) = Append(d, c)
    BY <1>5, SpacesAre
  <1>7. SpaceState(s, Append(d, c), 0)
    BY <1>1, <1>2, <1>4, <1>5, <1>6 DEF SpaceState
  <1> QED BY <1>7 DEF d

\* '=' after a fold: the white space is dropped or forgotten.
LEMMA FoldEquals ==
  ASSUME NEW r \in Seq(Items), NEW b \in Seq(Octs), NEW n \in Nat, FoldState(r, b, n)
  PROVE  Gathered(r, b)
  <1>2. \A x \in Items : Ext(Append(r, x), r, x) /\ (Forgotten(r) => Forgotten(Append(r, x)))
    BY AppendExt, ForgottenMore
  <1>3. \A x \in Items : x.kind = "EQ" => Forgotten(Append(r, x))
    BY <1>2, Forgets DEF FoldState
  <1>4. ~InWord(r) => \A x \in Items : x.kind = "ew" => Forgotten(Append(r, x))
    BY <1>2, Forgets DEF FoldState
  <1> QED BY <1>2, <1>3, <1>4 DEF FoldState, Gathered

\* The '=' was a plain one; or it began an encoded word.
LEMMA GatheredEquals ==
  ASSUME NEW s, NEW r, NEW x, Ext(s, r, x), s = Append(r, x), NEW b \in Seq(Octs), NEW c \in Octs,
         Gathered(r, b), x.kind = "EQ", x.text = <<c>>
  PROVE  SpaceState(s, Append(b, c), 0)
  <1>1. ~InWord(s)
    BY ExtTypes, KindsAre, AfterMore
  <1>2. Text(s) = Plainly(r) \o <<c>>
    BY ExtTypes, KindsAre, TextSolid
  <1>3. ~Forgotten(s) => b = Plainly(r)
    BY ExtTypes DEF Gathered
  <1>4. Append(b, c) = b \o <<c>> /\ Append(b, c) \in Seq(Octs)
    BY Concat1, AppendProperties
  <1>5. Append(b, c) \o Spaces(0) = Append(b, c)
    BY <1>4, SpacesAre
  <1> QED BY <1>1, <1>2, <1>3, <1>4, <1>5 DEF SpaceState

\* ... the encoded word.
LEMMA GatheredWord ==
  ASSUME NEW s, NEW r, NEW x, Ext(s, r, x), s = Append(r, x), NEW b \in Seq(Octs),
         Gathered(r, b), x.kind = "ew"
  PROVE  WordState(s, b \o x.text, 0)
  <1>1. InWord(s)
    BY ExtTypes, KindsAre, AfterMore
  <1>2. Text(s) = Text(r) \o x.text /\ Plainly(s) = Text(s)
    BY ExtTypes, KindsAre, TextSolid
  <1>3. ~Forgotten(s) => b = Text(r)
    BY ExtTypes DEF Gathered
  <1>4. b \o x.text \in Seq(Octs)
    BY ExtTypes, KindsAre, ConcatProperties
  <1>5. (b \o x.text) \o Spaces(0) = b \o x.text
    BY <1>4, SpacesAre
  <1> QED BY <1>1, <1>2, <1>3, <1>5 DEF WordState

-----------------------------------------------------------------------------
\* The invariant.

WordStates == {"b_first", "b_start", "s2", "s3", "s4", "e4", "word_end", "q_first"} \cup QStates
Outside == {"start", "printed"}
Aside == {"ws", "after_ew_ws", "foldmark"}

\* Names and the number of messages.
NameInv ==
    /\ ending \in Endings /\ messages \in 1 .. MaxMessages /\ cs \in States
    /\ name \in FieldNames \cup {"none"} /\ (cs \notin Outside => name \in FieldNames)
    /\ fields \subseteq FieldNames /\ spoiled \in BOOLEAN

\* The items of the field, the white space put aside.
RawInv ==
    /\ raw \in Seq(Items) /\ Len(raw) <= MaxTokens
    /\ space \in 0 .. MaxTokens /\ white \in 0 .. MaxTokens
    /\ cs \in WordStates => Len(raw) < MaxTokens
    /\ cs = "ew" => Front(raw) \in Seq(Items) /\ raw = Append(Front(raw), Item("EQ", <<61>>))
    /\ cs \in Aside => white <= Len(raw)
    /\ cs \notin {"cr", "lf"} => space = 0

\* The octets.
OctetInv ==
    buffer \in Seq(Safe) /\ unit \in Units /\ conv \in Seq(Octs) /\ symbols \in Seq(Int)

\* The encoded word that is being read.
WordInv ==
    /\ cs \in {"b_first", "q_first"} => symbols = <<>>
    /\ cs \in {"b_first", "b_start"} => \E q \in Nat : Pending0(q)
    /\ cs = "s2" => \E q \in Nat : Pending1(q)
    /\ cs = "s3" => \E q \in Nat : Pending2(q)
    /\ cs = "s4" => \E q \in Nat : Pending3(q)
    /\ cs = "e4" => \E q \in Nat : PaddedOnce(q)
    /\ cs = "word_end" /\ ~spoiled => conv = Base64Text(symbols)
    /\ cs \in QStates => QWord
    /\ cs \notin WordStates /\ ~spoiled => conv = <<>>

\* The body.
BodyInv ==
    ~spoiled =>
    /\ cs \in {"fb_start", "w"} => SpaceState(raw, buffer, 0)
    /\ cs = "ws" => SpaceState(raw, buffer, white)
    /\ cs = "ew_tail" => WordState(raw, buffer, 0)
    /\ cs = "after_ew_ws" => WordState(raw, buffer, white) /\ EndsInSpace(raw)
    /\ cs \in {"cr", "lf"} => BreakState(raw, buffer, space)
    /\ cs = "lf" => FromFold(raw)
    /\ cs = "foldmark" => FoldState(raw, buffer, white)
    /\ cs = "ew" => Gathered(Front(raw), buffer)
    /\ cs \in WordStates => Gathered(raw, buffer)

Inv == NameInv /\ RawInv /\ OctetInv /\ WordInv /\ BodyInv

\* The states, one by one.
LEMMA StatesAre ==
  States = {"fb_start", "ws", "w", "ew", "ew_tail", "after_ew_ws", "cr", "lf", "foldmark",
            "start", "final", "printed"} \cup WordStates
  BY DEF States, header, WordStates, QStates

\* Initially all parts of the invariant hold.
LEMMA InitInv == Init => Inv
  <1> SUFFICES ASSUME Init PROVE Inv
    OBVIOUS
  <1>1. NameInv
    <2>1. cs \in States /\ cs \in Outside
      BY StatesAre DEF Init, Outside
    <2>2. messages \in 1 .. MaxMessages
      BY HeaderAssumption DEF Init
    <2>3. ending \in Endings /\ name \in FieldNames \cup {"none"} /\ fields \subseteq FieldNames
      BY DEF Init
    <2>4. spoiled \in BOOLEAN
      BY DEF Init
    <2> QED BY <2>1, <2>2, <2>3, <2>4 DEF NameInv
  <1>2. RawInv
    BY HeaderAssumption DEF Init, RawInv, WordStates, QStates, Aside
  <1>3. OctetInv
    <2>1. unit \in Units
      <3>1. Unit(0, 0) \in Units
        BY SMT, UnitsAre
      <3> QED BY <3>1 DEF Init, Unit
    <2> QED BY <2>1 DEF Init, OctetInv
  <1>4. WordInv
    BY DEF Init, WordInv, WordStates, QStates
  <1>5. BodyInv
    BY DEF Init, BodyInv, WordStates, QStates
  <1> QED BY <1>1, <1>2, <1>3, <1>4, <1>5 DEF Inv

\* A name begins a field: the buffers are empty, and so is the text.
LEMMA FieldNameInv == ASSUME Inv, NEW f \in FieldNames, FieldName(f) PROVE Inv'
  <1>1. NameInv'
    <2>1. cs = "lf" => name \in FieldNames
      BY DEF Inv, NameInv, Outside
    <2>2. fields' \subseteq FieldNames
      BY <2>1 DEF FieldName, callback, Inv, NameInv
    <2> QED BY <2>2, StatesAre DEF FieldName, Inv, NameInv, Outside
  <1>2. space' = 0
    <2>1. Holds(Run(<<"ins_trail_space">>, "fa"), buffer \o Spaces(space), 0, white)
      <3>1. Holds(Buffers, buffer, space, white)
        BY DEF Holds, Buffers
      <3> QED BY <3>1, RunOne, DoActions
    <2> QED BY <2>1 DEF FieldName, Holds, Inv, RawInv
  <1>3. RawInv'
    BY <1>2, HeaderAssumption DEF FieldName, Inv, RawInv, WordStates, QStates, Aside
  <1>4. OctetInv'
    BY DEF FieldName, Inv, OctetInv, wordVars
  <1>5. WordInv'
    <2>1. ~spoiled => conv = <<>>
      BY DEF FieldName, Inv, WordInv, WordStates, QStates
    <2> QED BY <2>1 DEF FieldName, WordInv, WordStates, QStates, wordVars
  <1>6. BodyInv'
    <2>1. SpaceState(<<>>, <<>>, 0)
      <3>1. <<>> \in Seq(Octs) /\ 0 \in Nat
        OBVIOUS
      <3>2. <<>> \o Spaces(0) = <<>>
        BY <3>1, SpacesAre
      <3> QED BY <3>2, TextEmpty DEF SpaceState
    <2> QED BY <2>1 DEF FieldName, BodyInv, WordStates, QStates
  <1> QED BY <1>1, <1>3, <1>4, <1>5, <1>6 DEF Inv

\* The next message begins in the same way.
LEMMA PrintInv == ASSUME Inv, print PROVE Inv'
  <1>1. NameInv'
    BY HeaderAssumption, StatesAre DEF print, Inv, NameInv, Outside
  <1>2. RawInv'
    BY HeaderAssumption DEF print, RawInv, WordStates, QStates, Aside
  <1>3. OctetInv'
    BY DEF print, Inv, OctetInv
  <1>4. WordInv'
    BY DEF print, WordInv, WordStates, QStates
  <1>5. BodyInv'
    BY DEF print, BodyInv, WordStates, QStates
  <1> QED BY <1>1, <1>2, <1>3, <1>4, <1>5 DEF Inv

\* An encoded word begins: its first group is empty.
LEMMA WordBeginsInv == ASSUME Inv, NEW t \in {"?B", "?Q"}, WordBegins(t) PROVE Inv'
  <1>1. NameInv'
    BY StatesAre DEF WordBegins, Inv, NameInv, Outside, WordStates
  <1>2. RawInv'
    <2>1. Front(raw) \in Seq(Items) /\ Len(raw) = Len(Front(raw)) + 1
      BY AppendProperties DEF WordBegins, Inv, RawInv, Item, Items, Kinds, Octs
    <2> QED BY <2>1, HeaderAssumption DEF WordBegins, Inv, RawInv, WordStates, QStates, Aside
  <1>3. OctetInv'
    BY DEF WordBegins, Inv, OctetInv
  <1>4. WordInv'
    <2>1. ~spoiled => conv = <<>>
      BY DEF WordBegins, Inv, WordInv, WordStates, QStates
    <2>2. Pending0(0)'
      BY <2>1 DEF WordBegins, Pending0, Decoded, Octets
    <2> QED BY <2>2 DEF WordBegins, WordInv, WordStates, QStates
  <1>5. BodyInv'
    <2>1. ~spoiled => Gathered(Front(raw), buffer)
      BY DEF WordBegins, Inv, BodyInv
    <2> QED BY <2>1 DEF WordBegins, BodyInv, WordStates, QStates
  <1> QED BY <1>1, <1>2, <1>3, <1>4, <1>5 DEF Inv

\* The symbols of encoded words: what they leave alone.
LEMMA SymbolFrame ==
  ASSUME Inv, NEW to \in WordStates, NEW e \in Int, cs \in WordStates, Symbol(to, e)
  PROVE  /\ NameInv' /\ RawInv' /\ BodyInv' /\ (buffer \in Seq(Safe))'
         /\ symbols' = Append(symbols, e) /\ symbols' \in Seq(Int) /\ cs' = to
         /\ UNCHANGED spoiled
  <1>1. NameInv'
    BY StatesAre DEF Symbol, Inv, NameInv, Outside, WordStates, QStates
  <1>2. RawInv'
    BY DEF Symbol, Inv, RawInv, WordStates, QStates, Aside, bufferVars
  <1>3. BodyInv'
    BY DEF Symbol, Inv, BodyInv, WordStates, QStates, bufferVars
  <1>4. buffer' \in Seq(Safe) /\ symbols' \in Seq(Int)
    BY DEF Symbol, Inv, OctetInv, bufferVars
  <1> QED BY <1>1, <1>2, <1>3, <1>4 DEF Symbol

\* The types of what a symbol makes of unit_ and conv_buffer_.
LEMMA ConvTypes ==
  ASSUME OctetInv, NEW v \in Sextet
  PROVE  /\ push_unit(v) \in Units /\ shift_24(push_unit(v)) \in Units
         /\ shift_16(push_unit(v)) \in Units
         /\ conv \o finish_unit(push_unit(v)) \in Seq(Octs)
         /\ conv \o finish_pad1(push_unit(v)) \in Seq(Octs)
         /\ conv \o finish_pad2(push_unit(v)) \in Seq(Octs)
  <1>1. push_unit(v) \in Units
    BY PushUnits DEF OctetInv
  <1> DEFINE u == push_unit(v)
  <1>2. shift_24(u) \in Units /\ shift_16(u) \in Units
    BY <1>1, ShiftType
  <1>3. Octet(u, 2) \in Octs /\ Octet(u, 1) \in Octs /\ Octet(u, 0) \in Octs
    BY <1>1, SMT, OctetsOf DEF Octs
  <1> HIDE DEF u
  <1>4. finish_unit(u) \in Seq(Octs) /\ finish_pad1(u) \in Seq(Octs) /\ finish_pad2(u) \in Seq(Octs)
    BY <1>3 DEF finish_unit, finish_pad1, finish_pad2
  <1>5. conv \in Seq(Octs)
    BY DEF OctetInv
  <1>6. /\ conv \o finish_unit(u) \in Seq(Octs) /\ conv \o finish_pad1(u) \in Seq(Octs)
        /\ conv \o finish_pad2(u) \in Seq(Octs)
    BY <1>4, <1>5, ConcatProperties
  <1> QED BY <1>1, <1>2, <1>6 DEF u

\* base64_alph keeps the invariant, in each place of a group,
LEMMA DigitInv == ASSUME Inv, NEW v \in Sextets, base64_alph(v) PROVE Inv'
  <1>0. v \in Sextet /\ v \in Int /\ OctetInv /\ unit \in Units
    BY HeaderAssumption DEF Sextet, Inv, OctetInv
  <1>1. PICK step \in {<<"b_first", "s2">>, <<"b_start", "s2">>, <<"s2", "s3">>,
                       <<"s3", "s4">>, <<"s4", "b_start">>} :
           /\ cs = step[1] /\ Symbol(step[2], v)
           /\ IF cs = "s4" THEN /\ conv' = conv \o finish_unit(push_unit(v))
                                /\ unit' = shift_24(push_unit(v))
                           ELSE unit' = push_unit(v) /\ UNCHANGED conv
    BY DEF base64_alph
  <1>11. /\ cs \in {"b_first", "b_start"} => step[2] = "s2"
         /\ cs = "s2" => step[2] = "s3"
         /\ cs = "s3" => step[2] = "s4"
         /\ cs = "s4" => step[2] = "b_start"
    <2>1. \A p \in {<<"b_first", "s2">>, <<"b_start", "s2">>, <<"s2", "s3">>,
                    <<"s3", "s4">>, <<"s4", "b_start">>} :
            /\ p[1] \in {"b_first", "b_start"} => p[2] = "s2"
            /\ p[1] = "s2" => p[2] = "s3"
            /\ p[1] = "s3" => p[2] = "s4"
            /\ p[1] = "s4" => p[2] = "b_start"
      OBVIOUS
    <2> QED BY <1>1, <2>1
  <1>2. cs \in WordStates /\ step[2] \in WordStates
    BY <1>1 DEF WordStates, QStates
  <1>3. /\ NameInv' /\ RawInv' /\ BodyInv' /\ buffer' \in Seq(Safe)
        /\ symbols' = Append(symbols, v) /\ symbols' \in Seq(Int) /\ cs' = step[2]
        /\ UNCHANGED spoiled
    BY <1>0, <1>1, <1>2, SymbolFrame
  <1>4. OctetInv'
    <2>1. unit' \in Units /\ conv' \in Seq(Octs)
      BY <1>0, <1>1, ConvTypes DEF OctetInv
    <2> QED BY <1>3, <2>1 DEF OctetInv
  <1>5. WordInv'
    <2>1. CASE cs \in {"b_first", "b_start"}
      <3>1. cs' = "s2" /\ unit' = push_unit(v) /\ UNCHANGED <<conv, spoiled>>
        BY <1>1, <1>11, <1>3, <2>1
      <3>2. PICK q \in Nat : Pending0(q)
        BY <2>1 DEF Inv, WordInv
      <3>3. Pending1(q)'
        BY <1>0, <1>3, <3>1, <3>2, Digit1
      <3> QED BY <3>1, <3>3 DEF WordInv, WordStates, QStates
    <2>2. CASE cs = "s2"
      <3>1. cs' = "s3" /\ unit' = push_unit(v) /\ UNCHANGED <<conv, spoiled>>
        BY <1>1, <1>11, <1>3, <2>2
      <3>2. PICK q \in Nat : Pending1(q)
        BY <2>2 DEF Inv, WordInv
      <3>3. Pending2(q)'
        BY <1>0, <1>3, <3>1, <3>2, Digit2
      <3> QED BY <3>1, <3>3 DEF WordInv, WordStates, QStates
    <2>3. CASE cs = "s3"
      <3>1. cs' = "s4" /\ unit' = push_unit(v) /\ UNCHANGED <<conv, spoiled>>
        BY <1>1, <1>11, <1>3, <2>3
      <3>2. PICK q \in Nat : Pending2(q)
        BY <2>3 DEF Inv, WordInv
      <3>3. Pending3(q)'
        BY <1>0, <1>3, <3>1, <3>2, Digit3
      <3> QED BY <3>1, <3>3 DEF WordInv, WordStates, QStates
    <2>4. CASE cs = "s4"
      <3>1. cs' = "b_start" /\ conv' = conv \o finish_unit(push_unit(v)) /\ UNCHANGED spoiled
        BY <1>1, <1>11, <1>3, <2>4
      <3>2. PICK q \in Nat : Pending3(q)
        BY <2>4 DEF Inv, WordInv
      <3>3. Pending0(q + 1)'
        BY <1>0, <1>3, <3>1, <3>2, Digit4
      <3>4. q + 1 \in Nat
        BY <3>2
      <3> QED BY <3>1, <3>3, <3>4 DEF WordInv, WordStates, QStates
    <2> QED BY <1>1, <2>1, <2>2, <2>3, <2>4
  <1> QED BY <1>3, <1>4, <1>5 DEF Inv

\* and so does the padding.
LEMMA PadInv == ASSUME Inv, pad PROVE Inv'
  <1>0. 0 \in Sextet /\ Pad \in Int /\ OctetInv /\ unit \in Units
    BY DEF Sextet, Pad, Inv, OctetInv
  <1>1. PICK to \in {"e4", "word_end"} : Symbol(to, Pad) /\ cs \in {"s3", "s4", "e4"}
    BY DEF pad
  <1>2. cs \in WordStates /\ to \in WordStates
    BY <1>1 DEF WordStates, QStates
  <1>3. /\ NameInv' /\ RawInv' /\ BodyInv' /\ buffer' \in Seq(Safe)
        /\ symbols' = Append(symbols, Pad) /\ symbols' \in Seq(Int) /\ cs' = to
        /\ UNCHANGED spoiled
    BY <1>0, <1>1, <1>2, SymbolFrame
  <1>4. OctetInv'
    <2>1. unit' \in Units /\ conv' \in Seq(Octs)
      BY <1>0, ConvTypes DEF pad, OctetInv
    <2> QED BY <1>3, <2>1 DEF OctetInv
  <1>5. WordInv'
    <2>1. CASE cs = "s3"
      <3>1. cs' = "e4" /\ unit' = push_unit(0) /\ UNCHANGED <<conv, spoiled>>
        BY <1>3, <2>1 DEF pad, Symbol
      <3>2. PICK q \in Nat : Pending2(q)
        BY <2>1 DEF Inv, WordInv
      <3>3. PaddedOnce(q)'
        BY <1>0, <1>3, <3>1, <3>2, Pad3
      <3> QED BY <3>1, <3>3 DEF WordInv, WordStates, QStates
    <2>2. CASE cs = "s4"
      <3>1. cs' = "word_end" /\ conv' = conv \o finish_pad1(push_unit(0)) /\ UNCHANGED spoiled
        BY <1>3, <2>2 DEF pad, Symbol
      <3>2. PICK q \in Nat : Pending3(q)
        BY <2>2 DEF Inv, WordInv
      <3>3. ~spoiled' => conv' = Base64Text(symbols')
        BY <1>0, <1>3, <3>1, <3>2, Pad4
      <3> QED BY <3>1, <3>3 DEF WordInv, WordStates, QStates
    <2>3. CASE cs = "e4"
      <3>1. cs' = "word_end" /\ conv' = conv \o finish_pad2(push_unit(0)) /\ UNCHANGED spoiled
        BY <1>3, <2>3 DEF pad, Symbol
      <3>2. PICK q \in Nat : PaddedOnce(q)
        BY <2>3 DEF Inv, WordInv
      <3>3. ~spoiled' => conv' = Base64Text(symbols')
        BY <1>0, <1>3, <3>1, <3>2, PadTwice
      <3> QED BY <3>1, <3>3 DEF WordInv, WordStates, QStates
    <2> QED BY <1>1, <2>1, <2>2, <2>3
  <1> QED BY <1>3, <1>4, <1>5 DEF Inv

\* The three steps of a Q word.
LEMMA QInv ==
  ASSUME Inv, NEW to \in QStates, NEW e \in Int, cs \in {"q_first"} \cup QStates,
         Symbol(to, e), QWord', UNCHANGED unit
  PROVE  Inv'
  <1>2. cs \in WordStates /\ to \in WordStates
    BY DEF WordStates, QStates
  <1>3. /\ NameInv' /\ RawInv' /\ BodyInv' /\ buffer' \in Seq(Safe)
        /\ symbols' \in Seq(Int) /\ cs' = to
    BY <1>2, SymbolFrame
  <1>4. OctetInv'
    <2>1. QForm(symbols') /\ conv' = QText(symbols')
      BY DEF QWord
    <2>2. conv' \in Seq(Octs)
      BY <1>3, <2>1, QTypes
    <2>3. unit' \in Units
      BY DEF Inv, OctetInv
    <2> QED BY <1>3, <2>2, <2>3 DEF OctetInv
  <1>5. WordInv'
    BY <1>3 DEF WordInv, WordStates, QStates
  <1> QED BY <1>3, <1>4, <1>5 DEF Inv

\* What the invariant says of a Q word.
LEMMA QFacts ==
  ASSUME Inv
  PROVE  symbols \in Seq(Int) /\ (cs = "q_first" => symbols = <<>>) /\ (cs \in QStates => QWord)
  BY DEF Inv, OctetInv, WordInv

\* A character or an underscore in a Q word.
LEMMA QPlainInv == ASSUME Inv, NEW c \in {Plain, Underscore}, q_plain(c) PROVE Inv'
  <1>1. QWord'
    BY QFacts, QPlainStep
  <1>2. /\ c \in Int /\ "q" \in QStates /\ Symbol("q", c)
        /\ cs \in {"q_first"} \cup QStates /\ UNCHANGED unit
    BY DEF q_plain, Plain, Underscore, QStates
  <1> QED BY <1>1, <1>2, QInv

\* '=' in a Q word.
LEMMA QEqualsInv == ASSUME Inv, clear_hex PROVE Inv'
  <1>1. QWord'
    BY QFacts, QEqualsStep
  <1>2. /\ Equals \in Int /\ "hex1" \in QStates /\ Symbol("hex1", Equals)
        /\ cs \in {"q_first"} \cup QStates /\ UNCHANGED unit
    BY DEF clear_hex, Equals, QStates
  <1> QED BY <1>1, <1>2, QInv

\* A hexadecimal digit in a Q word.
LEMMA QHexInv == ASSUME Inv, NEW d \in HexDigits, q_hex(d) PROVE Inv'
  <1>0. d \in 0 .. 15
    BY HeaderAssumption
  <1>1. QWord'
    BY <1>0, QFacts, QHexStep
  <1>2. PICK to \in QStates : Symbol(to, d) /\ cs \in {"q_first"} \cup QStates /\ UNCHANGED unit
    BY DEF q_hex, QStates
  <1> QED BY <1>0, <1>1, <1>2, QInv

\* The decoded word is appended: the buffer has the text again.
LEMMA WordEndsInv == ASSUME Inv, WordEnds PROVE Inv'
  <1> DEFINE text == IF cs = "q" THEN QText(symbols) ELSE Base64Text(symbols)
             x == Item("ew", escape_controls(text))
  <1>1. text \in Seq(Octs)
    <2>1. CASE cs = "q"
      BY <2>1, QFacts, QTypes DEF QWord, QStates
    <2>2. CASE cs # "q"
      BY <2>2, QFacts, Base64Type
    <2> QED BY <2>1, <2>2
  <1>2. ~spoiled => conv = text
    <2>1. CASE cs = "q"
      BY <2>1, QFacts DEF QWord, QStates
    <2>2. CASE cs = "b_start"
      BY <2>2, WholeGroups DEF Inv, WordInv
    <2>3. CASE cs = "word_end"
      BY <2>3 DEF Inv, WordInv
    <2> QED BY <2>1, <2>2, <2>3 DEF WordEnds
  <1> HIDE DEF text
  <1>3. escape_controls(text) \in Seq(Safe) /\ escape_controls(conv) \in Seq(Safe)
    BY <1>1, EscapeType DEF Octs, Inv, OctetInv
  <1>4. \A s \in Seq(Safe) : s \in Seq(Octs)
    BY DEF Safe, Octs
  <1>5. x \in Items /\ x.kind = "ew" /\ x.text = escape_controls(text)
    BY <1>3, <1>4 DEF Item, Items, Kinds
  <1>6. /\ raw' = Append(raw, x) /\ buffer' = buffer \o escape_controls(conv) /\ cs' = "ew_tail"
        /\ conv' = <<>> /\ symbols' = <<>>
        /\ UNCHANGED <<ending, messages, name, space, white, unit, read, fields, spoiled>>
    BY DEF WordEnds, text, to_utf
  <1>7. cs \in WordStates
    BY DEF WordEnds, WordStates, QStates
  <1> HIDE DEF x
  <1>8. raw \in Seq(Items) /\ Ext(raw', raw, x) /\ Len(raw') = Len(raw) + 1
    BY <1>5, <1>6, AppendExt, AppendProperties DEF Inv, RawInv
  <1>9. NameInv'
    BY <1>6, <1>7, StatesAre DEF Inv, NameInv, Outside, WordStates, QStates
  <1>10. RawInv'
    BY <1>5, <1>6, <1>7, <1>8, HeaderAssumption DEF Inv, RawInv, WordStates, QStates, Aside, Ext
  <1>11. OctetInv'
    <2>1. buffer' \in Seq(Safe)
      BY <1>3, <1>6, ConcatProperties DEF Inv, OctetInv
    <2> QED BY <1>6, <2>1 DEF Inv, OctetInv
  <1>12. WordInv'
    BY <1>6 DEF WordInv, WordStates, QStates
  <1>13. BodyInv'
    <2>1. ASSUME ~spoiled PROVE WordState(raw', buffer', 0)
      <3>1. Gathered(raw, buffer) /\ buffer \in Seq(Octs)
        BY <1>4, <1>7, <2>1 DEF Inv, BodyInv, OctetInv
      <3>2. buffer' = buffer \o x.text
        BY <1>2, <1>5, <1>6, <2>1
      <3>3. WordState(raw', buffer \o x.text, 0)
        BY <1>5, <1>6, <1>8, <3>1, GatheredWord
      <3> QED BY <3>2, <3>3
    <2> QED BY <1>6, <2>1 DEF BodyInv, WordStates, QStates
  <1> QED BY <1>9, <1>10, <1>11, <1>12, <1>13 DEF Inv

\* The item that a token adds.
LEMMA ReadItem ==
  ASSUME Inv, NEW t \in Tokens, Read(t), ReadEffect(t)
  PROVE  LET x == Item(t, TokenText(t)) IN
         /\ t \in {"SP", "fa", "EQ", "CR", "LF", "NUL"}
         /\ raw \in Seq(Items) /\ x \in Items /\ raw' = Append(raw, x) /\ Ext(raw', raw, x)
         /\ x.kind = t
         /\ t = "SP" => x.text = <<32>>
         /\ t = "fa" => x.text = <<119>>
         /\ t = "EQ" => x.text = <<61>>
         /\ t \in Breaks => x.text = <<>>
  <1> DEFINE x == Item(t, TokenText(t))
  <1>1. t \in {"SP", "fa", "EQ", "CR", "LF", "NUL"}
    BY DEF ReadEffect
  <1>2. /\ t = "SP" => TokenText(t) = <<32>>
        /\ t = "fa" => TokenText(t) = <<119>>
        /\ t = "EQ" => TokenText(t) = <<61>>
        /\ t \in Breaks => TokenText(t) = <<>>
    BY DEF TokenText, Code, Breaks
  <1>3. x.kind = t /\ x.text = TokenText(t)
    BY DEF Item
  <1>4. TokenText(t) \in Seq(Octs)
    <2>1. /\ <<32>> \in Seq(Octs) /\ <<119>> \in Seq(Octs)
          /\ <<61>> \in Seq(Octs) /\ <<>> \in Seq(Octs)
      BY DEF Octs
    <2> QED BY <1>1, <1>2, <2>1 DEF Breaks
  <1>5. x \in Items
    BY <1>1, <1>4 DEF Item, Items, Kinds
  <1>6. raw \in Seq(Items) /\ raw' = Append(raw, x)
    BY DEF Inv, RawInv, Read, TokenText
  <1> HIDE DEF x
  <1>7. Ext(raw', raw, x)
    BY <1>5, <1>6, AppendExt
  <1>8. /\ t \in {"SP", "fa", "EQ", "CR", "LF", "NUL"}
        /\ raw \in Seq(Items) /\ x \in Items /\ raw' = Append(raw, x) /\ Ext(raw', raw, x)
        /\ x.kind = t
        /\ t = "SP" => x.text = <<32>>
        /\ t = "fa" => x.text = <<119>>
        /\ t = "EQ" => x.text = <<61>>
        /\ t \in Breaks => x.text = <<>>
    BY <1>1, <1>2, <1>3, <1>5, <1>6, <1>7
  <1> QED BY <1>8 DEF x

\* The states that Read connects.
LEMMA ReadStates ==
  ASSUME NEW t, ReadEffect(t)
  PROVE  /\ cs' \in {"ws", "w", "ew", "after_ew_ws", "cr", "lf", "foldmark", "final"}
         /\ cs \in {"fb_start", "ws", "w", "ew", "ew_tail", "after_ew_ws", "cr", "lf", "foldmark"}
         /\ cs' = "ew" => t = "EQ"
         /\ cs' = "lf" => t = "LF"
  BY DEF ReadEffect, Effect

\* Read keeps the names,
LEMMA ReadNames == ASSUME Inv, NEW t \in Tokens, Read(t), ReadEffect(t) PROVE NameInv'
  <1>1. name \in FieldNames
    BY ReadStates DEF Inv, NameInv, Outside
  <1>2. fields' \subseteq FieldNames
    BY <1>1 DEF Read, callback, Inv, NameInv
  <1>3. cs' \in States /\ cs' \notin Outside
    BY ReadStates, StatesAre DEF Outside
  <1>4. UNCHANGED <<ending, messages, name, spoiled>>
    BY DEF Read
  <1> QED BY <1>1, <1>2, <1>3, <1>4 DEF Inv, NameInv

\* ... the items and the white space,
LEMMA ReadRaw == ASSUME Inv, NEW t \in Tokens, Read(t), ReadEffect(t) PROVE RawInv'
  <1> DEFINE x == Item(t, TokenText(t))
  <1>1. /\ raw \in Seq(Items) /\ x \in Items /\ raw' = Append(raw, x)
        /\ t = "EQ" => x = Item("EQ", <<61>>)
    BY ReadItem DEF Item
  <1> HIDE DEF x
  <1>2. Len(raw) \in Nat /\ raw' \in Seq(Items) /\ Len(raw') = Len(raw) + 1 /\ Front(raw') = raw
    BY <1>1, AppendProperties, FrontLast
  <1>3. Len(raw) < MaxTokens
    BY DEF Read
  <1>4. cs' = "ew" => Front(raw') \in Seq(Items) /\ raw' = Append(Front(raw'), Item("EQ", <<61>>))
    BY <1>1, <1>2, ReadStates
  <1>5. /\ space' \in 0 .. MaxTokens /\ white' \in 0 .. MaxTokens
        /\ cs' \in Aside => white' <= Len(raw) + 1
        /\ cs' \notin {"cr", "lf"} => space' = 0
    BY <1>2, <1>3, HeaderAssumption, SMTT(30) DEF Inv, RawInv, ReadEffect, Effect, Aside
  <1>6. cs' \notin WordStates
    BY ReadStates DEF WordStates, QStates
  <1> QED BY <1>2, <1>3, <1>4, <1>5, <1>6, HeaderAssumption DEF RawInv

\* ... the octets and, as there is none, the encoded word;
LEMMA ReadOctets ==
  ASSUME Inv, NEW t \in Tokens, Read(t), ReadEffect(t) PROVE OctetInv' /\ WordInv'
  <1>1. UNCHANGED <<unit, conv, symbols, spoiled>>
    BY DEF Read, wordVars
  <1>2. buffer \in Seq(Safe) /\ 61 \in Safe /\ 119 \in Safe /\ space \in Nat /\ white \in Nat
    BY HeaderAssumption DEF Inv, OctetInv, RawInv, Safe, CTL
  <1>3. /\ buffer \o Spaces(white) \in Seq(Safe) /\ buffer \o Spaces(space) \in Seq(Safe)
        /\ Append(buffer, 61) \in Seq(Safe)
    <2>1. \A n \in Nat : Spaces(n) \in Seq(Safe)
      <3>1. <<>> \in Seq(Octs)
        OBVIOUS
      <3> QED BY <3>1, SpacesAre
    <2> QED BY <1>2, <2>1, ConcatProperties, AppendProperties
  <1>4. /\ Append(buffer, 119) \in Seq(Safe) /\ Append(Append(buffer, 61), 119) \in Seq(Safe)
        /\ Append(buffer \o Spaces(white), 119) \in Seq(Safe)
    BY <1>2, <1>3, AppendProperties
  <1>5. buffer' \in Seq(Safe)
    BY <1>2, <1>3, <1>4, ZenonT(30) DEF ReadEffect, Effect
  <1>6. OctetInv'
    BY <1>1, <1>5 DEF Inv, OctetInv
  <1>7. cs \notin WordStates /\ cs' \notin WordStates
    BY ReadStates DEF WordStates, QStates
  <1>8. WordInv'
    BY <1>1, <1>7 DEF Inv, WordInv, WordStates
  <1> QED BY <1>6, <1>8

\* After a plain '=', the text has it.
LEMMA PlainEquals ==
  ASSUME Inv, cs = "ew", ~spoiled
  PROVE  SpaceState(raw, Append(buffer, 61), 0)
  <1> DEFINE x == Item("EQ", <<61>>)
             r == Front(raw)
  <1>1. r \in Seq(Items) /\ raw = Append(r, x) /\ Gathered(r, buffer)
    BY DEF Inv, RawInv, BodyInv
  <1>2. x \in Items /\ x.kind = "EQ" /\ x.text = <<61>>
    BY DEF Item, Items, Kinds, Octs
  <1>3. 61 \in Octs /\ buffer \in Seq(Octs)
    BY DEF Octs, Inv, OctetInv, Safe
  <1> HIDE DEF x, r
  <1>4. Ext(raw, r, x)
    BY <1>1, <1>2, AppendExt
  <1> QED BY <1>1, <1>2, <1>3, <1>4, GatheredEquals

\* ... and the buffer keeps up with the text, whatever the state and the token.
LEMMA ReadBody == ASSUME Inv, NEW t \in Tokens, Read(t), ReadEffect(t) PROVE BodyInv'
  <1> SUFFICES ASSUME ~spoiled PROVE BodyInv'
    BY DEF BodyInv, Read
  <1> DEFINE x == Item(t, TokenText(t))
  <1>1. /\ t \in {"SP", "fa", "EQ", "CR", "LF", "NUL"}
        /\ raw \in Seq(Items) /\ x \in Items /\ raw' = Append(raw, x) /\ Ext(raw', raw, x)
        /\ x.kind = t
        /\ t = "SP" => x.text = <<32>>
        /\ t = "fa" => x.text = <<119>>
        /\ t = "EQ" => x.text = <<61>>
        /\ t \in Breaks => x.text = <<>>
    BY ReadItem
  <1>2. Front(raw') = raw
    BY <1>1, FrontLast
  <1> HIDE DEF x
  <1>3. /\ 61 \in Octs /\ 119 \in Octs /\ buffer \in Seq(Octs) /\ Append(buffer, 61) \in Seq(Octs)
        /\ space \in Nat /\ white \in Nat /\ 0 \in Nat /\ 0 + 1 = 1
        /\ {"CR", "LF"} \subseteq Breaks
    BY HeaderAssumption DEF Octs, Inv, OctetInv, RawInv, Safe, Breaks
  <1>4. buffer \o Spaces(0) = buffer /\ buffer \o Spaces(white) \in Seq(Octs)
        /\ Append(buffer, 61) \o Spaces(0) = Append(buffer, 61)
    BY <1>3, SpacesAre
  <1>5. cs \notin {"cr", "lf"} => space = 0
    BY DEF Inv, RawInv
  \* What there is before.
  <1>6. /\ cs \in {"fb_start", "w"} => SpaceState(raw, buffer, 0)
        /\ cs = "ws" => SpaceState(raw, buffer, white)
        /\ cs = "ew_tail" => WordState(raw, buffer, 0)
        /\ cs = "after_ew_ws" => WordState(raw, buffer, white) /\ EndsInSpace(raw)
        /\ cs \in {"cr", "lf"} => BreakState(raw, buffer, space)
        /\ cs = "lf" => FromFold(raw)
        /\ cs = "foldmark" => FoldState(raw, buffer, white)
        /\ cs = "ew" => SpaceState(raw, Append(buffer, 61), 0)
    BY PlainEquals DEF Inv, BodyInv
  \* A blank.
  <1>7. CASE t = "SP"
    <2>0. x.kind = "SP" /\ x.text = <<32>>
      BY <1>1, <1>7
    <2>1. CASE cs \in {"fb_start", "w"}
      <3>1. cs' = "ws" /\ buffer' = buffer /\ white' = 0 + 1
        BY <1>7, <2>1 DEF ReadEffect, Effect
      <3>2. SpaceState(raw', buffer, 0 + 1)
        BY <1>1, <1>3, <1>6, <2>0, <2>1, SpaceBlank
      <3> QED BY <3>1, <3>2 DEF BodyInv, WordStates, QStates
    <2>2. CASE cs = "ws"
      <3>1. cs' = "ws" /\ buffer' = buffer /\ white' = white + 1
        BY <1>7, <2>2 DEF ReadEffect, Effect
      <3>2. SpaceState(raw', buffer, white + 1)
        BY <1>1, <1>3, <1>6, <2>0, <2>2, SpaceBlank
      <3> QED BY <3>1, <3>2 DEF BodyInv, WordStates, QStates
    <2>3. CASE cs = "ew_tail"
      <3>1. cs' = "after_ew_ws" /\ buffer' = buffer /\ white' = 0 + 1
        BY <1>7, <2>3 DEF ReadEffect, Effect
      <3>2. WordState(raw', buffer, 0 + 1) /\ EndsInSpace(raw')
        BY <1>1, <1>3, <1>6, <2>0, <2>3, WordBlank
      <3> QED BY <3>1, <3>2 DEF BodyInv, WordStates, QStates
    <2>4. CASE cs = "after_ew_ws"
      <3>1. cs' = "after_ew_ws" /\ buffer' = buffer /\ white' = white + 1
        BY <1>7, <2>4 DEF ReadEffect, Effect
      <3>2. WordState(raw', buffer, white + 1) /\ EndsInSpace(raw')
        BY <1>1, <1>3, <1>6, <2>0, <2>4, WordBlank
      <3> QED BY <3>1, <3>2 DEF BodyInv, WordStates, QStates
    <2>5. CASE cs = "foldmark"
      <3>1. cs' = "foldmark" /\ buffer' = buffer /\ white' = white + 1
        BY <1>7, <2>5 DEF ReadEffect, Effect
      <3>2. FoldState(raw', buffer, white + 1)
        BY <1>1, <1>3, <1>6, <2>0, <2>5, FoldBlank
      <3> QED BY <3>1, <3>2 DEF BodyInv, WordStates, QStates
    <2>6. CASE cs = "ew"
      <3>1. cs' = "ws" /\ buffer' = Append(buffer, 61) /\ white' = 0 + 1
        BY <1>7, <2>6 DEF ReadEffect, Effect
      <3>2. SpaceState(raw', Append(buffer, 61), 0 + 1)
        BY <1>1, <1>3, <1>6, <2>0, <2>6, SpaceBlank
      <3> QED BY <3>1, <3>2 DEF BodyInv, WordStates, QStates
    <2>7. CASE cs = "lf"
      <3>1. cs' = "foldmark" /\ buffer' = buffer \o Spaces(space) /\ white' = 1
        BY <1>7, <2>7 DEF ReadEffect, Effect
      <3>2. FoldState(raw', buffer \o Spaces(space), 1)
        BY <1>1, <1>3, <1>6, <2>0, <2>7, BreakBlank
      <3> QED BY <3>1, <3>2 DEF BodyInv, WordStates, QStates
    <2> QED BY <1>7, <2>1, <2>2, <2>3, <2>4, <2>5, <2>6, <2>7 DEF ReadEffect
  \* A character.
  <1>8. CASE t = "fa"
    <2>0. x.kind = "fa" /\ x.kind \in {"fa", "EQ"} /\ x.text = <<119>>
      BY <1>1, <1>8
    <2>9. ASSUME cs' = "w", SpaceState(raw', buffer', 0) PROVE BodyInv'
      BY <2>9 DEF BodyInv, WordStates, QStates
    <2>1. CASE cs \in {"fb_start", "w"}
      <3>1. cs' = "w" /\ buffer' = Append(buffer, 119)
        BY <1>8, <2>1 DEF ReadEffect, Effect
      <3>2. SpaceState(raw', Append(buffer \o Spaces(0), 119), 0)
        BY <1>1, <1>3, <1>6, <2>0, <2>1, SpaceChar
      <3> QED BY <1>4, <2>9, <3>1, <3>2
    <2>2. CASE cs = "ws"
      <3>1. cs' = "w" /\ buffer' = Append(buffer \o Spaces(white), 119)
        BY <1>8, <2>2 DEF ReadEffect, Effect
      <3>2. SpaceState(raw', Append(buffer \o Spaces(white), 119), 0)
        BY <1>1, <1>3, <1>6, <2>0, <2>2, SpaceChar
      <3> QED BY <2>9, <3>1, <3>2
    <2>3. CASE cs = "ew_tail"
      <3>1. cs' = "w" /\ buffer' = Append(buffer, 119)
        BY <1>8, <2>3 DEF ReadEffect, Effect
      <3>2. SpaceState(raw', Append(buffer \o Spaces(0), 119), 0)
        BY <1>1, <1>3, <1>6, <2>0, <2>3, WordChar
      <3> QED BY <1>4, <2>9, <3>1, <3>2
    <2>4. CASE cs = "after_ew_ws"
      <3>1. cs' = "w" /\ buffer' = Append(buffer \o Spaces(white), 119)
        BY <1>8, <2>4 DEF ReadEffect, Effect
      <3>2. SpaceState(raw', Append(buffer \o Spaces(white), 119), 0)
        BY <1>1, <1>3, <1>6, <2>0, <2>4, WordChar
      <3> QED BY <2>9, <3>1, <3>2
    <2>5. CASE cs = "foldmark"
      <3>1. cs' = "w" /\ buffer' = Append(buffer \o Spaces(white), 119)
        BY <1>8, <2>5 DEF ReadEffect, Effect
      <3>2. SpaceState(raw', Append(buffer \o Spaces(white), 119), 0)
        BY <1>1, <1>3, <1>6, <2>0, <2>5, FoldChar
      <3> QED BY <2>9, <3>1, <3>2
    <2>6. CASE cs = "ew"
      <3>1. cs' = "w" /\ buffer' = Append(Append(buffer, 61), 119)
        BY <1>8, <2>6 DEF ReadEffect, Effect
      <3>2. SpaceState(raw', Append(Append(buffer, 61) \o Spaces(0), 119), 0)
        BY <1>1, <1>3, <1>6, <2>0, <2>6, SpaceChar, ZenonT(30)
      <3> QED BY <1>4, <2>9, <3>1, <3>2
    <2> QED BY <1>8, <2>1, <2>2, <2>3, <2>4, <2>5, <2>6 DEF ReadEffect
  \* '='.
  <1>9. CASE t = "EQ"
    <2>9. ASSUME cs' = "ew", Gathered(raw, buffer') PROVE BodyInv'
      BY <1>2, <2>9 DEF BodyInv, WordStates, QStates
    <2>1. CASE cs \in {"fb_start", "w"}
      <3>1. cs' = "ew" /\ buffer' = buffer
        BY <1>9, <2>1 DEF ReadEffect, Effect
      <3>2. Gathered(raw, buffer)
        BY <1>1, <1>3, <1>6, <2>1, SpaceEquals
      <3> QED BY <2>9, <3>1, <3>2
    <2>2. CASE cs = "ws"
      <3>1. cs' = "ew" /\ buffer' = buffer \o Spaces(white)
        BY <1>9, <2>2 DEF ReadEffect, Effect
      <3>2. SpaceState(raw, buffer \o Spaces(white), 0)
        <4>1. (buffer \o Spaces(white)) \o Spaces(0) = buffer \o Spaces(white)
          BY <1>3, <1>4, SpacesAre
        <4> QED BY <1>6, <2>2, <4>1 DEF SpaceState
      <3>3. Gathered(raw, buffer \o Spaces(white))
        BY <1>1, <1>4, <3>2, SpaceEquals
      <3> QED BY <2>9, <3>1, <3>3
    <2>3. CASE cs = "ew_tail"
      <3>1. cs' = "ew" /\ buffer' = buffer
        BY <1>9, <2>3 DEF ReadEffect, Effect
      <3>2. Gathered(raw, buffer)
        BY <1>1, <1>3, <1>6, <2>3, WordEquals
      <3> QED BY <2>9, <3>1, <3>2
    <2>4. CASE cs = "after_ew_ws"
      <3>1. cs' = "ew" /\ buffer' = buffer
        BY <1>9, <2>4 DEF ReadEffect, Effect
      <3>2. Gathered(raw, buffer)
        BY <1>1, <1>3, <1>6, <2>4, WordEquals
      <3> QED BY <2>9, <3>1, <3>2
    <2>5. CASE cs = "foldmark"
      <3>1. cs' = "ew" /\ buffer' = buffer
        BY <1>9, <2>5 DEF ReadEffect, Effect
      <3>2. Gathered(raw, buffer)
        BY <1>1, <1>3, <1>6, <2>5, FoldEquals
      <3> QED BY <2>9, <3>1, <3>2
    <2> QED BY <1>9, <2>1, <2>2, <2>3, <2>4, <2>5 DEF ReadEffect
  \* A line end.
  <1>10. CASE t \in {"CR", "LF"} /\ cs # "lf"
    <2>0. x.kind \in Breaks /\ x.text = <<>>
      BY <1>1, <1>3, <1>10
    <2>9. ASSUME cs' \in {"cr", "lf"}, BreakState(raw', buffer', space') PROVE BodyInv'
      <3>1. cs' = "lf" => FromFold(raw')
        BY <1>1, ReadStates, FoldMore
      <3> QED BY <2>9, <3>1 DEF BodyInv, WordStates, QStates
    <2>1. CASE cs \in {"fb_start", "w"}
      <3>1. cs' \in {"cr", "lf"} /\ buffer' = buffer /\ space' = 0
        BY <1>5, <1>10, <2>1 DEF ReadEffect, Effect
      <3>2. BreakState(raw', buffer, 0)
        BY <1>1, <1>3, <1>6, <2>0, <2>1, SpaceBreak
      <3> QED BY <2>9, <3>1, <3>2
    <2>2. CASE cs = "ws"
      <3>1. cs' \in {"cr", "lf"} /\ buffer' = buffer /\ space' = white
        BY <1>10, <2>2 DEF ReadEffect, Effect
      <3>2. BreakState(raw', buffer, white)
        BY <1>1, <1>3, <1>6, <2>0, <2>2, SpaceBreak
      <3> QED BY <2>9, <3>1, <3>2
    <2>3. CASE cs = "ew_tail"
      <3>1. cs' \in {"cr", "lf"} /\ buffer' = buffer /\ space' = 0
        BY <1>5, <1>10, <2>3 DEF ReadEffect, Effect
      <3>2. BreakState(raw', buffer, 0)
        BY <1>1, <1>3, <1>6, <2>0, <2>3, WordBreak
      <3> QED BY <2>9, <3>1, <3>2
    <2>4. CASE cs = "after_ew_ws"
      <3>1. cs' \in {"cr", "lf"} /\ buffer' = buffer /\ space' = 0
        BY <1>5, <1>10, <2>4 DEF ReadEffect, Effect
      <3>2. BreakState(raw', buffer, 0)
        BY <1>1, <1>3, <1>6, <2>0, <2>4, WordBreak
      <3> QED BY <2>9, <3>1, <3>2
    <2>5. CASE cs = "ew"
      <3>1. cs' \in {"cr", "lf"} /\ buffer' = Append(buffer, 61) /\ space' = 0
        BY <1>5, <1>10, <2>5 DEF ReadEffect, Effect
      <3>2. BreakState(raw', Append(buffer, 61), 0)
        BY <1>1, <1>3, <1>6, <2>0, <2>5, SpaceBreak
      <3> QED BY <2>9, <3>1, <3>2
    <2>6. CASE cs = "cr"
      <3>1. cs' \in {"cr", "lf"} /\ buffer' = buffer /\ space' = space
        BY <1>10, <2>6 DEF ReadEffect, Effect
      <3>2. BreakState(raw', buffer, space)
        BY <1>1, <1>3, <1>6, <2>0, <2>6, BreakBreak
      <3> QED BY <2>9, <3>1, <3>2
    <2> QED BY <1>10, <2>1, <2>2, <2>3, <2>4, <2>5, <2>6 DEF ReadEffect
  \* The end of the header.
  <1>11. CASE t \in {"NUL", "LF"} /\ cs = "lf"
    <2>1. cs' = "final"
      BY <1>11 DEF ReadEffect, Effect
    <2> QED BY <2>1 DEF BodyInv, WordStates, QStates
  <1>12. t = "NUL" => cs = "lf"
    BY DEF ReadEffect
  <1>13. t = "CR" => cs # "lf"
    BY DEF ReadEffect
  <1> QED BY <1>1, <1>7, <1>8, <1>9, <1>10, <1>11, <1>12, <1>13

\* Read keeps the invariant.
LEMMA ReadInv == ASSUME Inv, NEW t \in Tokens, Read(t) PROVE Inv'
  <1>1. ReadEffect(t)
    BY ReadEffects
  <1>2. NameInv' /\ RawInv' /\ (OctetInv' /\ WordInv') /\ BodyInv'
    BY <1>1, ReadNames, ReadRaw, ReadOctets, ReadBody
  <1> QED BY <1>2 DEF Inv

\* Every step keeps it.
LEMMA NextInv == Inv /\ [Next]_hvars => Inv'
  <1> SUFFICES ASSUME Inv, [Next]_hvars PROVE Inv'
    OBVIOUS
  <1>1. CASE \E f \in FieldNames : FieldName(f)
    BY <1>1, FieldNameInv
  <1>2. CASE \E t \in Tokens : Read(t)
    BY <1>2, ReadInv
  <1>3. CASE \E t \in {"?B", "?Q"} : WordBegins(t)
    BY <1>3, WordBeginsInv
  <1>4. CASE \E v \in Sextets : base64_alph(v)
    BY <1>4, DigitInv
  <1>5. CASE pad
    BY <1>5, PadInv
  <1>6. CASE \E c \in {Plain, Underscore} : q_plain(c)
    BY <1>6, QPlainInv
  <1>7. CASE clear_hex
    BY <1>7, QEqualsInv
  <1>8. CASE \E d \in HexDigits : q_hex(d)
    BY <1>8, QHexInv
  <1>9. CASE WordEnds
    BY <1>9, WordEndsInv
  <1>10. CASE print
    BY <1>10, PrintInv
  <1>11. CASE UNCHANGED hvars
    <2>1. UNCHANGED <<ending, messages, cs, name, buffer, space, white, unit, conv, symbols,
                      fields, raw, spoiled>>
      BY <1>11 DEF hvars, bufferVars, wordVars
    <2>2. NameInv' /\ RawInv' /\ OctetInv'
      BY <2>1 DEF Inv, NameInv, RawInv, OctetInv
    <2>3. WordInv'
      BY <2>1 DEF Inv, WordInv, Pending0, Pending1, Pending2, Pending3, PaddedOnce, Decoded, QWord
    <2>4. BodyInv'
      BY <2>1 DEF Inv, BodyInv
    <2> QED BY <2>2, <2>3, <2>4 DEF Inv
  <1> QED BY <1>1, <1>2, <1>3, <1>4, <1>5, <1>6, <1>7, <1>8, <1>9, <1>10, <1>11 DEF Next

\* It always holds.
LEMMA AlwaysInv == Spec => []Inv
  <1>1. Init => Inv
    BY InitInv
  <1>2. Inv /\ [Next]_hvars => Inv'
    BY NextInv
  <1> QED BY <1>1, <1>2, PTL DEF Spec

\* No control character of an encoded word reaches the terminal, whatever the
\* headers, and the bits of unit_ never run over.
THEOREM NoControlsAlways == Spec => []NoControls
  <1>1. Inv => NoControls
    <2> SUFFICES ASSUME Inv PROVE NoControls
      OBVIOUS
    <2>1. buffer \in Seq(Safe)
      BY DEF Inv, OctetInv
    <2>2. \A i \in 1 .. Len(buffer) : buffer[i] \notin CTL
      BY <2>1 DEF Safe
    <2>3. buffer \in Seq(0 .. 255) /\ conv \in Seq(0 .. 255)
      BY <2>1 DEF Safe, Octs, Inv, OctetInv
    <2>4. unit \in [high : 0 .. 255, low : 0 .. LowLimit - 1]
      BY DEF Units, Inv, OctetInv
    <2>5. TypeOK
      BY <2>3, <2>4 DEF TypeOK, Inv, NameInv, RawInv
    <2> QED BY <2>2, <2>5 DEF NoControls
  <1> QED BY <1>1, AlwaysInv, PTL

\* What is handed over as the body of a field is its text, whatever the mixture
\* of folds, white space and encoded words, of any length.
THEOREM BodyIsTextAlways == Spec => []BodyIsText
  <1>1. Inv => BodyIsText
    BY DEF Inv, BodyInv, BreakState, BodyIsText, Spaces
  <1> QED BY <1>1, AlwaysInv, PTL
=============================================================================
