---------------------------- MODULE ReplayProofs ----------------------------
(***************************************************************************)
(* Proofs about Replay, for all traces, command lines and numbers of       *)
(* lines and signals.                                                      *)
(***************************************************************************)
EXTENDS Replay, FiniteSetTheorems, SequenceTheorems, TLAPS

\* The operations that open a connection, and those of which a replaying side has
\* one at a time: each is started by the handler of the one before it.
Opening == {"resolve", "connect", "accept", "handshake"}
Chain == Opening \cup {"timer", "read", "watch"}

\* Under way: outstanding, or with its handler queued.
Active(x, W, L) == x \in W \/ \E i \in DOMAIN L : L[i].op = x
\* Of the operations C one at most is under way, and once only.
One(C, W, L) ==
    /\ \A i, j \in DOMAIN L : L[i].op \in C /\ L[j].op \in C => i = j
    /\ \A i \in DOMAIN L, x \in W : x \in C => L[i].op \notin C
    /\ \A x, y \in W : x \in C /\ y \in C => x = y

\* Messages that side s may send and receive with the options o.
Own(o, s) == IF s = "client" /\ o.server = "echo" THEN Echoed ELSE Fits
Heard(o, s) == IF s = "server" /\ o.server = "echo" /\ o.ssl THEN Echoed ELSE Fits
Handlers(o, s) ==
    {h \in [op : Ops, code : Codes, octets : Heard(o, s)] :
        h.op = "stdin" /\ h.code = "ok" => h.octets \in Lines}

Conns == {"none", "connecting", "handshaking", "open", "shutdown", "closed"}
SessionStates == {"none", "live", "destroyed", "gone"}
Statuses == {"running", "returned", "mismatch", "limit", "cancel", "disconnect",
             "undefined"}
Buffers == {d \in Seq(Octet) : Len(d) = BufferSize}

Programs(o, s) ==
    [wait : SUBSET Ops, loop : Seq(Handlers(o, s)), conn : Conns,
     queue : Seq(Own(o, s)), pos : Nat, expected : Seq(Octet),
     echo : IF o.ssl THEN Echoed ELSE Fits, data : Buffers, signaled : BOOLEAN,
     log : Seq(Records(Fits)), session : SessionStates, status : Statuses]

\* The options: a trace that is replayed ends with END_OF_FILE.
OptsOK(o) ==
    /\ o \in ConfigsOf(Seq(Records(IF o.server = "echo" THEN Echoed ELSE Fits)))
    /\ "replay" \in {o.client, o.server} =>
          o.trace # <<>> /\ o.trace[Len(o.trace)].type = "END_OF_FILE"

\* One write at a time, with something in the queue.  A replaying side has one
\* operation of the chain at a time, and a timer or a read only at a record that
\* asks for it; the others never look at the trace.
SideInv(o, s, r) ==
    /\ r \in Programs(o, s)
    /\ One({"write"}, r.wait, r.loop)
    /\ Active("write", r.wait, r.loop) => r.queue # <<>>
    /\ s = "client" => r.echo = <<>>
    /\ o[s] = "replay" =>
          /\ One(Chain, r.wait, r.loop)
          /\ r.pos <= Len(o.trace)
          /\ \A x \in Opening : Active(x, r.wait, r.loop) => r.pos = 0
          /\ \A x \in {"timer", "read"} : Active(x, r.wait, r.loop) =>
                r.pos > 0 /\ o.trace[r.pos].type \in {"SENT", "RECEIVED"}
          /\ ~Active("echo", r.wait, r.loop)
    /\ o[s] # "replay" => r.pos = 0 /\ ~Active("timer", r.wait, r.loop)

\* What two programs and a network between them do not change.
ReplayInv ==
    /\ OptsOK(opts)
    /\ lines \in 0 .. opts.lines /\ signals \in 0 .. opts.signals
    /\ side \in [Sides -> Programs(opts, "client") \cup Programs(opts, "server")]
    /\ \A s \in Sides :
          /\ SideInv(opts, s, side[s])
          /\ side[s].session = "gone" => side[s].status # "running"
    /\ wire \in [Sides -> Seq(Seq(Octet))]
    /\ opts.ssl => \A s \in Sides : wire[s] \in Seq(Own(opts, s))
    /\ side["client"].session = "gone" /\ opts.log =>
          /\ side["client"].log # <<>>
          /\ side["client"].log[Len(side["client"].log)].type = "END_OF_FILE"
-----------------------------------------------------------------------------
Free(W, L) == \A x \in Chain : ~Active(x, W, L)

\* A program that has not ended.  It is free if its chain is interrupted, and ready
\* if there is a record to go on with.
Fit(k, s, r) ==
    /\ SideInv(opts, s, r)
    /\ r.session # "gone"
    /\ k \in {"free", "ready"} => opts[s] = "replay" /\ Free(r.wait, r.loop)
    /\ k = "ready" => r.pos < Len(opts.trace)

\* From r to q no operation of the chain and no write has begun.
Tame(r, q) ==
    /\ q.pos = r.pos /\ q.queue = r.queue /\ q.echo = r.echo
    /\ q.session = "gone" => r.session = "gone"
    /\ \A x \in Chain \cup {"write", "echo"} :
          Active(x, q.wait, q.loop) => Active(x, r.wait, r.loop)
    /\ One(Chain, r.wait, r.loop) => One(Chain, q.wait, q.loop)
    /\ One({"write"}, r.wait, r.loop) => One({"write"}, q.wait, q.loop)

\* A tame change keeps a program fit.
LEMMA TameFit ==
  ASSUME NEW k, NEW s, NEW r, NEW q \in Programs(opts, s), Fit(k, s, r), Tame(r, q)
  PROVE  Fit(k, s, q)
  <1>1. Opening \subseteq Chain /\ {"timer", "read"} \subseteq Chain
    BY DEF Chain, Opening
  <1>2. SideInv(opts, s, q)
    BY <1>1 DEF Fit, SideInv, Tame
  <1> QED BY <1>2 DEF Fit, Tame, Free

\* So does one of members that the invariant does not look at.
LEMMA SameFit ==
  ASSUME NEW k, NEW s, NEW r, NEW q \in Programs(opts, s), Fit(k, s, r),
         q.pos = r.pos, q.queue = r.queue, q.echo = r.echo, q.wait = r.wait,
         q.loop = r.loop, q.session = "gone" => r.session = "gone"
  PROVE  Fit(k, s, q)
  <1>1. Tame(r, q)
    BY DEF Tame
  <1> QED BY <1>1, TameFit

\* Handlers without octets.
LEMMA BlankHandler ==
  ASSUME NEW s, NEW x \in Ops, NEW c \in Codes, x # "stdin" \/ c # "ok"
  PROVE  Done(x, c, <<>>) \in Handlers(opts, s)
  <1>1. <<>> \in Echoed /\ <<>> \in Fits
    BY ReplayAssumption DEF Echoed, Fits
  <1> QED BY <1>1 DEF Handlers, Done, Heard

\* What happens to the loop: a handler is added, ...
LEMMA AppendLoop ==
  ASSUME NEW s, NEW L \in Seq(Handlers(opts, s)), NEW h \in Handlers(opts, s)
  PROVE  /\ Append(L, h) \in Seq(Handlers(opts, s))
         /\ DOMAIN Append(L, h) = DOMAIN L \cup {Len(L) + 1}
         /\ Len(L) + 1 \notin DOMAIN L
         /\ Append(L, h)[Len(L) + 1] = h
         /\ \A i \in DOMAIN L : Append(L, h)[i] = L[i]
  <1>1. Len(L) \in Nat /\ DOMAIN L = 1 .. Len(L)
    OBVIOUS
  <1> QED BY <1>1

\* ... so that its operation is under way as well ...
LEMMA AppendActive ==
  ASSUME NEW s, NEW W, NEW L \in Seq(Handlers(opts, s)), NEW h \in Handlers(opts, s)
  PROVE  \A x : Active(x, W, Append(L, h)) <=> Active(x, W, L) \/ x = h.op
  BY AppendLoop DEF Active

\* ... and one at most of C still is, unless another one was.
LEMMA AppendOne ==
  ASSUME NEW s, NEW W, NEW L \in Seq(Handlers(opts, s)), NEW h \in Handlers(opts, s),
         NEW C, One(C, W, L), h.op \in C => \A x \in C : ~Active(x, W, L)
  PROVE  One(C, W, Append(L, h))
  BY AppendLoop DEF Active, One

\* An operation is started.
LEMMA BeginCases ==
  ASSUME NEW s, NEW r \in Programs(opts, s), NEW x \in Ops
  PROVE  /\ Begin(x, r) \in Programs(opts, s)
         /\ Begin(x, r).pos = r.pos
         /\ Begin(x, r).queue = r.queue /\ Begin(x, r).echo = r.echo
         /\ Begin(x, r).session = r.session
         /\ Begin(x, r).status = r.status
         /\ Begin(x, r).conn = r.conn
         /\ Begin(x, r).log = r.log
         /\ Begin(x, r).data = r.data
         /\ Begin(x, r).expected = r.expected
         /\ \/ /\ Begin(x, r).wait = r.wait
               /\ \E h \in Handlers(opts, s) : /\ h.op = x
                                               /\ Begin(x, r).loop = Append(r.loop, h)
            \/ Begin(x, r).wait = r.wait \cup {x} /\ Begin(x, r).loop = r.loop
  <1>1. Done(x, "error", <<>>) \in Handlers(opts, s) /\ Done(x, "error", <<>>).op = x
    BY BlankHandler DEF Codes, Done
  <1>2. r.wait \in SUBSET Ops /\ r.loop \in Seq(Handlers(opts, s))
    BY DEF Programs
  <1>3. Append(r.loop, Done(x, "error", <<>>)) \in Seq(Handlers(opts, s))
    BY <1>1, <1>2, AppendLoop
  <1>4. r.wait \cup {x} \in SUBSET Ops
    BY <1>2
  <1>5. CASE Begin(x, r) = [r EXCEPT !.loop = Append(@, Done(x, "error", <<>>))]
    BY <1>1, <1>3, <1>5 DEF Programs
  <1>6. CASE Begin(x, r) = [r EXCEPT !.wait = @ \cup {x}]
    BY <1>4, <1>6 DEF Programs
  <1> QED BY <1>5, <1>6 DEF Begin

\* What is under way afterwards.
LEMMA BeginFacts ==
  ASSUME NEW s, NEW r \in Programs(opts, s), NEW x \in Ops
  PROVE  /\ \A y : Active(y, Begin(x, r).wait, Begin(x, r).loop)
                      <=> Active(y, r.wait, r.loop) \/ y = x
         /\ \A C : /\ One(C, r.wait, r.loop)
                   /\ x \in C => \A y \in C : ~Active(y, r.wait, r.loop)
                   => One(C, Begin(x, r).wait, Begin(x, r).loop)
  <1>1. r.wait \in SUBSET Ops /\ r.loop \in Seq(Handlers(opts, s))
    BY DEF Programs
  <1>2. CASE /\ Begin(x, r).wait = r.wait
             /\ \E h \in Handlers(opts, s) : /\ h.op = x
                                             /\ Begin(x, r).loop = Append(r.loop, h)
    <2>1. PICK h \in Handlers(opts, s) : h.op = x /\ Begin(x, r).loop = Append(r.loop, h)
      BY <1>2
    <2> QED BY <1>1, <1>2, <2>1, AppendActive, AppendOne
  <1>3. CASE Begin(x, r).wait = r.wait \cup {x} /\ Begin(x, r).loop = r.loop
    BY <1>1, <1>3 DEF Active, One
  <1> QED BY <1>2, <1>3, BeginCases

\* Other operations than those of the chain and writes.
LEMMA BeginFit ==
  ASSUME NEW k, NEW s, NEW r, Fit(k, s, r), NEW x \in Ops, x \notin Chain,
         x \notin {"write", "echo"}
  PROVE  Fit(k, s, Begin(x, r))
  <1>1. r \in Programs(opts, s)
    BY DEF Fit, SideInv
  <1>2. /\ \A y \in Chain \cup {"write", "echo"} :
              Active(y, Begin(x, r).wait, Begin(x, r).loop) => Active(y, r.wait, r.loop)
        /\ One(Chain, r.wait, r.loop) => One(Chain, Begin(x, r).wait, Begin(x, r).loop)
        /\ One({"write"}, r.wait, r.loop)
              => One({"write"}, Begin(x, r).wait, Begin(x, r).loop)
    BY <1>1, BeginFacts
  <1>3. Tame(r, Begin(x, r))
    BY <1>1, <1>2, BeginCases DEF Tame
  <1> QED BY <1>1, <1>3, BeginCases, TameFit

\* A write, if there is something to write and none is under way.
LEMMA BeginWrite ==
  ASSUME NEW k, NEW s, NEW r, Fit(k, s, r), r.queue # <<>>,
         ~Active("write", r.wait, r.loop)
  PROVE  Fit(k, s, Begin("write", r))
  <1> DEFINE q == Begin("write", r)
  <1>1. r \in Programs(opts, s) /\ "write" \in Ops
    BY DEF Fit, SideInv, Ops, SocketOps, Writes
  <1>2. "write" \notin Chain /\ "timer" # "write" /\ "timer" \in Chain
        /\ Opening \subseteq Chain /\ {"timer", "read"} \subseteq Chain
    BY DEF Chain, Opening
  <1>3. /\ q \in Programs(opts, s) /\ q.pos = r.pos /\ q.queue = r.queue
        /\ q.echo = r.echo /\ q.session = r.session
    BY <1>1, BeginCases
  <1>4. /\ \A y \in Chain \cup {"echo"} :
              Active(y, q.wait, q.loop) <=> Active(y, r.wait, r.loop)
        /\ One({"write"}, q.wait, q.loop)
        /\ One(Chain, r.wait, r.loop) => One(Chain, q.wait, q.loop)
    BY <1>1, <1>2, BeginFacts DEF Fit, SideInv
  <1> HIDE DEF q
  <1>5. SideInv(opts, s, q)
    BY <1>2, <1>3, <1>4 DEF Fit, SideInv
  <1> QED BY <1>3, <1>4, <1>5 DEF Fit, Free, q

\* An operation of the chain, by a replaying side that is free.
LEMMA BeginChain ==
  ASSUME NEW s, NEW r, Fit("free", s, r), NEW x \in Chain,
         x \in Opening => r.pos = 0,
         x \in {"timer", "read"} =>
            r.pos > 0 /\ opts.trace[r.pos].type \in {"SENT", "RECEIVED"}
  PROVE  Fit("live", s, Begin(x, r))
  <1> DEFINE q == Begin(x, r)
  <1>1. r \in Programs(opts, s) /\ x \in Ops /\ x \notin {"write", "echo"} /\ opts[s] = "replay"
    BY DEF Fit, SideInv, Ops, SocketOps, Chain, Opening, Reads
  <1>2. Opening \subseteq Chain /\ {"timer", "read"} \subseteq Chain
    BY DEF Chain, Opening
  <1>3. /\ q \in Programs(opts, s) /\ q.pos = r.pos /\ q.queue = r.queue
        /\ q.echo = r.echo /\ q.session = r.session
    BY <1>1, BeginCases
  <1>4. /\ \A y : Active(y, q.wait, q.loop) <=> Active(y, r.wait, r.loop) \/ y = x
        /\ One({"write"}, q.wait, q.loop)
        /\ One(Chain, q.wait, q.loop)
    BY <1>1, BeginFacts DEF Fit, SideInv, Free
  <1> HIDE DEF q
  <1>5. SideInv(opts, s, q)
    BY <1>1, <1>2, <1>3, <1>4 DEF Fit, SideInv, Free
  <1> QED BY <1>3, <1>5 DEF Fit, q

\* ... and by one that does not replay.
LEMMA BeginUnreplayed ==
  ASSUME NEW s, NEW r, Fit("live", s, r), opts[s] # "replay",
         NEW x \in (Chain \ {"timer"}) \cup {"echo"}
  PROVE  Fit("live", s, Begin(x, r))
  <1> DEFINE q == Begin(x, r)
  <1>1. r \in Programs(opts, s) /\ x \in Ops /\ x # "write" /\ x # "timer"
    BY DEF Fit, SideInv, Ops, SocketOps, Chain, Opening, Reads, Writes
  <1>3. /\ q \in Programs(opts, s) /\ q.pos = r.pos /\ q.queue = r.queue
        /\ q.echo = r.echo /\ q.session = r.session
    BY <1>1, BeginCases
  <1>4. /\ \A y : Active(y, q.wait, q.loop) <=> Active(y, r.wait, r.loop) \/ y = x
        /\ One({"write"}, q.wait, q.loop)
    BY <1>1, BeginFacts DEF Fit, SideInv
  <1> HIDE DEF q
  <1>5. SideInv(opts, s, q)
    BY <1>1, <1>3, <1>4 DEF Fit, SideInv
  <1> QED BY <1>3, <1>5 DEF Fit, q
-----------------------------------------------------------------------------
\* Finite sets: three elements, and all operations.
LEMMA ThreeFinite ==
  ASSUME NEW a, NEW b, NEW c PROVE IsFiniteSet({a, b, c})
  <1>1. IsFiniteSet({a})
    BY FS_Singleton
  <1>2. IsFiniteSet({a} \cup {b})
    BY <1>1, FS_AddElement
  <1>3. IsFiniteSet(({a} \cup {b}) \cup {c})
    BY <1>2, FS_AddElement
  <1>4. {a, b, c} = ({a} \cup {b}) \cup {c}
    OBVIOUS
  <1> QED BY <1>3, <1>4

\* The operations are finitely many.
LEMMA OpsFinite == IsFiniteSet(Ops)
  <1> DEFINE A == {"connect", "handshake", "shutdown"}
             B == {"read", "watch", "write"}
             C == {"echo", "last", "bye"}
             D == {"stdin", "signal", "timer"}
             E == {"limit", "accept", "main_signal"}
             F == {"resolve", "resolve", "resolve"}
  <1>1. Ops = ((A \cup B) \cup (C \cup D)) \cup (E \cup F)
    BY DEF Ops, SocketOps, Reads, Writes
  <1>2. IsFiniteSet(A) /\ IsFiniteSet(B) /\ IsFiniteSet(C) /\ IsFiniteSet(D)
        /\ IsFiniteSet(E) /\ IsFiniteSet(F)
    BY ThreeFinite
  <1> HIDE DEF A, B, C, D, E, F
  <1>3. IsFiniteSet(A \cup B) /\ IsFiniteSet(C \cup D) /\ IsFiniteSet(E \cup F)
    BY <1>2, FS_Union
  <1>4. IsFiniteSet((A \cup B) \cup (C \cup D))
    BY <1>3, FS_Union
  <1> QED BY <1>1, <1>3, <1>4, FS_Union

\* The handlers of several operations that end with the same code: each once.
Several(S, c) == SetToSeq({Done(x, c, <<>>) : x \in S})
Distinct(S, Q) ==
    /\ \A i \in DOMAIN Q : Q[i].op \in S
    /\ \A i, j \in DOMAIN Q : Q[i].op = Q[j].op => i = j

\* SetToSeq lists the handlers, and each of them once.
LEMMA SeveralFacts ==
  ASSUME NEW S \in SUBSET Ops, NEW c
  PROVE  /\ Several(S, c) \in Seq({Done(x, c, <<>>) : x \in S})
         /\ Distinct(S, Several(S, c))
  <1> DEFINE T == {Done(x, c, <<>>) : x \in S}
             n == Cardinality(T)
  <1>2. IsFiniteSet(S)
    BY OpsFinite, FS_Subset
  <1>3. IsFiniteSet(T)
    <2> DEFINE g == [x \in S |-> Done(x, c, <<>>)]
    <2>1. g \in Surjection(S, T)
      BY DEF Surjection
    <2> QED BY <1>2, <2>1, FS_Surjection
  <1>4. n \in Nat /\ ExistsBijection(1 .. n, T)
    BY <1>3, FS_CardinalityType
  <1>5. PICK f \in Bijection(1 .. n, T) : TRUE
    BY <1>4 DEF ExistsBijection
  <1>6. f \in [1 .. n -> T] /\ IsInjective(f)
    BY <1>5 DEF Bijection, Injection
  <1>7. SetToSeq(T) \in [1 .. n -> T] /\ IsInjective(SetToSeq(T))
    BY <1>6 DEF SetToSeq
  <1> HIDE DEF n
  <1>8. SetToSeq(T) \in Seq(T) /\ DOMAIN SetToSeq(T) = 1 .. n
    BY <1>4, <1>7
  <1>9. \A i \in 1 .. n : SetToSeq(T)[i] \in T
    BY <1>7
  <1>10. \A i, j \in 1 .. n : SetToSeq(T)[i] = SetToSeq(T)[j] => i = j
    BY <1>7, <1>8 DEF IsInjective
  <1>11. /\ \A h \in T : h.op \in S
         /\ \A g, h \in T : g.op = h.op => g = h
    BY DEF Done
  <1> HIDE DEF T
  <1>12. /\ \A i \in DOMAIN SetToSeq(T) : SetToSeq(T)[i].op \in S
         /\ \A i, j \in DOMAIN SetToSeq(T) : SetToSeq(T)[i].op = SetToSeq(T)[j].op => i = j
    BY <1>8, <1>9, <1>10, <1>11
  <1> QED BY <1>8, <1>12 DEF T, Several, Distinct

\* Where the elements of a concatenation come from.
LEMMA ConcatLoop ==
  ASSUME NEW H, NEW L \in Seq(H), NEW Q \in Seq(H)
  PROVE  /\ L \o Q \in Seq(H)
         /\ \A i \in DOMAIN L : i \in DOMAIN (L \o Q) /\ (L \o Q)[i] = L[i]
         /\ \A i \in DOMAIN (L \o Q) :
               \/ i \in DOMAIN L /\ (L \o Q)[i] = L[i]
               \/ \E j \in DOMAIN Q : i = Len(L) + j /\ (L \o Q)[i] = Q[j]
         /\ Len(L) \in Nat /\ \A j \in DOMAIN Q : j \in Nat
  <1>1. Len(L) \in Nat /\ Len(Q) \in Nat /\ DOMAIN L = 1 .. Len(L) /\ DOMAIN Q = 1 .. Len(Q)
        /\ DOMAIN (L \o Q) = 1 .. Len(L) + Len(Q)
    OBVIOUS
  <1>2. ASSUME NEW i \in DOMAIN (L \o Q), i \notin DOMAIN L
        PROVE  i - Len(L) \in DOMAIN Q /\ i = Len(L) + (i - Len(L))
               /\ (L \o Q)[i] = Q[i - Len(L)]
    BY <1>1, <1>2
  <1>3. ASSUME NEW i \in DOMAIN L PROVE i \in DOMAIN (L \o Q) /\ (L \o Q)[i] = L[i]
    BY <1>1
  <1>4. L \o Q \in Seq(H)
    OBVIOUS
  <1> QED BY <1>1, <1>2, <1>3, <1>4

\* Outstanding operations S of W complete together.
LEMMA Moved ==
  ASSUME NEW H, NEW W, NEW L \in Seq(H), NEW S \in SUBSET W, NEW V, V \subseteq W,
         V \cap S = {}, NEW Q \in Seq(H), Distinct(S, Q)
  PROVE  /\ L \o Q \in Seq(H)
         /\ \A x : Active(x, V, L \o Q) => Active(x, W, L)
         /\ \A C : One(C, W, L) => One(C, V, L \o Q)
  <1> DEFINE M == L \o Q
  <1>1. /\ M \in Seq(H)
        /\ \A i \in DOMAIN M :
              \/ i \in DOMAIN L /\ M[i] = L[i]
              \/ \E j \in DOMAIN Q : i = Len(L) + j /\ M[i] = Q[j]
    BY ConcatLoop
  <1>2. /\ \A i \in DOMAIN Q : Q[i].op \in S /\ Q[i].op \in W /\ Q[i].op \notin V
        /\ \A i, j \in DOMAIN Q : Q[i].op = Q[j].op => i = j
    BY DEF Distinct
  <1> HIDE DEF M
  <1>3. \A x : Active(x, V, M) => Active(x, W, L)
    BY <1>1, <1>2 DEF Active
  <1>4. ASSUME NEW C, One(C, W, L) PROVE One(C, V, M)
    <2>1. ASSUME NEW i \in DOMAIN M, NEW j \in DOMAIN M, M[i].op \in C, M[j].op \in C
          PROVE  i = j
      <3>1. CASE (i \in DOMAIN L /\ M[i] = L[i]) /\ (j \in DOMAIN L /\ M[j] = L[j])
        BY <1>4, <2>1, <3>1 DEF One
      <3>2. ASSUME NEW n \in DOMAIN Q, M[i] = Q[n] PROVE ~(j \in DOMAIN L /\ M[j] = L[j])
        BY <1>2, <1>4, <2>1, <3>2 DEF One
      <3>3. ASSUME NEW n \in DOMAIN Q, M[j] = Q[n] PROVE ~(i \in DOMAIN L /\ M[i] = L[i])
        BY <1>2, <1>4, <2>1, <3>3 DEF One
      <3>4. ASSUME NEW m \in DOMAIN Q, i = Len(L) + m, M[i] = Q[m],
                   NEW n \in DOMAIN Q, j = Len(L) + n, M[j] = Q[n]
            PROVE  i = j
        <4>1. Q[m].op = Q[n].op
          BY <1>2, <1>4, <2>1, <3>4 DEF One
        <4> QED BY <1>2, <3>4, <4>1
      <3> QED BY <1>1, <3>1, <3>2, <3>3, <3>4
    <2>2. ASSUME NEW i \in DOMAIN M, NEW x \in V, x \in C PROVE M[i].op \notin C
      BY <1>1, <1>2, <1>4, <2>2 DEF One
    <2> QED BY <1>4, <2>1, <2>2 DEF One
  <1> QED BY <1>1, <1>3, <1>4 DEF M

\* The outstanding ones of X complete with the code c.
LEMMA SeveralComplete ==
  ASSUME NEW k, NEW s, NEW r, Fit(k, s, r), NEW S \in SUBSET r.wait,
         NEW V, V \subseteq r.wait, V \cap S = {}, NEW c \in Codes,
         c # "ok" \/ "stdin" \notin S,
         NEW q, q = [r EXCEPT !.wait = V, !.loop = r.loop \o Several(S, c)]
  PROVE  Fit(k, s, q) /\ q \in Programs(opts, s)
  <1> DEFINE Q == Several(S, c)
  <1>1. r \in Programs(opts, s) /\ r.wait \in SUBSET Ops /\ r.loop \in Seq(Handlers(opts, s))
    BY DEF Fit, SideInv, Programs
  <1>2. {Done(x, c, <<>>) : x \in S} \subseteq Handlers(opts, s)
    BY <1>1, BlankHandler
  <1>3. Q \in Seq(Handlers(opts, s)) /\ Distinct(S, Q)
    <2>1. S \in SUBSET Ops
      BY <1>1
    <2>2. Q \in Seq({Done(x, c, <<>>) : x \in S}) /\ Distinct(S, Q)
      BY <2>1, SeveralFacts
    <2> HIDE DEF Q
    <2> QED BY <1>2, <2>2
  <1> HIDE DEF Q
  <1>4. /\ r.loop \o Q \in Seq(Handlers(opts, s))
        /\ \A x : Active(x, V, r.loop \o Q) => Active(x, r.wait, r.loop)
        /\ \A C : One(C, r.wait, r.loop) => One(C, V, r.loop \o Q)
    BY <1>1, <1>3, Moved
  <1>5. q = [r EXCEPT !.wait = V, !.loop = r.loop \o Q]
    BY DEF Q
  <1>6. /\ q \in Programs(opts, s) /\ q.wait = V /\ q.loop = r.loop \o Q
        /\ q.pos = r.pos /\ q.queue = r.queue /\ q.echo = r.echo /\ q.session = r.session
    BY <1>1, <1>4, <1>5 DEF Programs
  <1>7. Tame(r, q)
    BY <1>4, <1>6 DEF Tame
  <1> QED BY <1>6, <1>7, TameFit

\* Abort(): the operations are gone from wait, and their handlers are queued.
LEMMA AbortFit ==
  ASSUME NEW k, NEW s, NEW r, Fit(k, s, r), NEW X
  PROVE  Fit(k, s, Abort(X, r)) /\ Abort(X, r) \in Programs(opts, s)
  <1> DEFINE S == X \cap r.wait
  <1>1. Abort(X, r) = [r EXCEPT !.wait = r.wait \ X, !.loop = r.loop \o Several(S, "aborted")]
    BY DEF Abort, Several
  <1>2. S \in SUBSET r.wait /\ r.wait \ X \subseteq r.wait /\ (r.wait \ X) \cap S = {}
        /\ "aborted" \in Codes
    BY DEF Codes
  <1> HIDE DEF S
  <1> QED BY <1>1, <1>2, SeveralComplete
-----------------------------------------------------------------------------
\* The functions of the two programs.  Members that do not matter here change ...
LEMMA ConnFit ==
  ASSUME NEW k, NEW s, NEW r, Fit(k, s, r), NEW c \in Conns
  PROVE  Fit(k, s, [r EXCEPT !.conn = c])
  <1> DEFINE q == [r EXCEPT !.conn = c]
  <1>1. /\ q \in Programs(opts, s) /\ q.pos = r.pos /\ q.queue = r.queue
        /\ q.echo = r.echo /\ q.wait = r.wait /\ q.loop = r.loop
        /\ q.session = "gone" => r.session = "gone"
    BY DEF Fit, SideInv, Programs
  <1> QED BY <1>1, SameFit

\* ... signaled,
LEMMA SignaledFit ==
  ASSUME NEW k, NEW s, NEW r, Fit(k, s, r), NEW b \in BOOLEAN
  PROVE  Fit(k, s, [r EXCEPT !.signaled = b])
  <1> DEFINE q == [r EXCEPT !.signaled = b]
  <1>1. /\ q \in Programs(opts, s) /\ q.pos = r.pos /\ q.queue = r.queue
        /\ q.echo = r.echo /\ q.wait = r.wait /\ q.loop = r.loop
        /\ q.session = "gone" => r.session = "gone"
    BY DEF Fit, SideInv, Programs
  <1> QED BY <1>1, SameFit

\* ... expected,
LEMMA ExpectedFit ==
  ASSUME NEW k, NEW s, NEW r, Fit(k, s, r), NEW e \in Seq(Octet)
  PROVE  Fit(k, s, [r EXCEPT !.expected = e])
  <1> DEFINE q == [r EXCEPT !.expected = e]
  <1>1. /\ q \in Programs(opts, s) /\ q.pos = r.pos /\ q.queue = r.queue
        /\ q.echo = r.echo /\ q.wait = r.wait /\ q.loop = r.loop
        /\ q.session = "gone" => r.session = "gone"
    BY DEF Fit, SideInv, Programs
  <1> QED BY <1>1, SameFit

\* ... data,
LEMMA DataFit ==
  ASSUME NEW k, NEW s, NEW r, Fit(k, s, r), NEW d \in Buffers
  PROVE  Fit(k, s, [r EXCEPT !.data = d])
  <1> DEFINE q == [r EXCEPT !.data = d]
  <1>1. /\ q \in Programs(opts, s) /\ q.pos = r.pos /\ q.queue = r.queue
        /\ q.echo = r.echo /\ q.wait = r.wait /\ q.loop = r.loop
        /\ q.session = "gone" => r.session = "gone"
    BY DEF Fit, SideInv, Programs
  <1> QED BY <1>1, SameFit

\* ... log,
LEMMA LogFit ==
  ASSUME NEW k, NEW s, NEW r, Fit(k, s, r), NEW g \in Seq(Records(Fits))
  PROVE  Fit(k, s, [r EXCEPT !.log = g])
  <1> DEFINE q == [r EXCEPT !.log = g]
  <1>1. /\ q \in Programs(opts, s) /\ q.pos = r.pos /\ q.queue = r.queue
        /\ q.echo = r.echo /\ q.wait = r.wait /\ q.loop = r.loop
        /\ q.session = "gone" => r.session = "gone"
    BY DEF Fit, SideInv, Programs
  <1> QED BY <1>1, SameFit

\* ... status,
LEMMA StatusFit ==
  ASSUME NEW k, NEW s, NEW r, Fit(k, s, r), NEW v \in Statuses
  PROVE  Fit(k, s, [r EXCEPT !.status = v])
  <1> DEFINE q == [r EXCEPT !.status = v]
  <1>1. /\ q \in Programs(opts, s) /\ q.pos = r.pos /\ q.queue = r.queue
        /\ q.echo = r.echo /\ q.wait = r.wait /\ q.loop = r.loop
        /\ q.session = "gone" => r.session = "gone"
    BY DEF Fit, SideInv, Programs
  <1> QED BY <1>1, SameFit

\* ... and session, unless the program ends.
LEMMA SessionFit ==
  ASSUME NEW k, NEW s, NEW r, Fit(k, s, r), NEW w \in SessionStates \ {"gone"}
  PROVE  Fit(k, s, [r EXCEPT !.session = w])
  <1> DEFINE q == [r EXCEPT !.session = w]
  <1>1. /\ q \in Programs(opts, s) /\ q.pos = r.pos /\ q.queue = r.queue
        /\ q.echo = r.echo /\ q.wait = r.wait /\ q.loop = r.loop
        /\ q.session = "gone" => r.session = "gone"
    BY DEF Fit, SideInv, Programs
  <1> QED BY <1>1, SameFit


\* ... and the functions themselves.
LEMMA FitFacts ==
  ASSUME NEW k, NEW s, NEW r, Fit(k, s, r)
  PROVE  /\ r \in Programs(opts, s) /\ Fit("live", s, r)
         /\ k = "ready" => Fit("free", s, r)
  BY DEF Fit, SideInv

\* close() of a socket.
LEMMA CloseFit ==
  ASSUME NEW k, NEW s, NEW r, Fit(k, s, r) PROVE Fit(k, s, close(r))
  BY AbortFit, ConnFit DEF close, Conns

\* An exception leaves a handler.
LEMMA ThrowFit ==
  ASSUME NEW k, NEW s, NEW r, Fit(k, s, r), NEW why \in Statuses
  PROVE  Fit(k, s, Throw(why, r))
  BY StatusFit DEF Throw

\* cancel() of a socket.
LEMMA CancelFit ==
  ASSUME NEW k, NEW s, NEW r, Fit(k, s, r) PROVE Fit(k, s, cancel(r))
  BY AbortFit, ThrowFit DEF cancel, Statuses

\* Trace::Writer::push().
LEMMA PushFit ==
  ASSUME NEW k, NEW s, NEW r, Fit(k, s, r), NEW t \in Types, NEW m \in Fits
  PROVE  Fit(k, s, push(t, m, r))
  <1>1. r.log \in Seq(Records(Fits)) /\ Record(t, m) \in Records(Fits)
    BY DEF Fit, SideInv, Programs, Record, Records
  <1>2. Append(r.log, Record(t, m)) \in Seq(Records(Fits))
    BY <1>1
  <1> QED BY <1>2, LogFit DEF push

\* do_close() of the client.
LEMMA DoCloseFit ==
  ASSUME NEW k, NEW s, NEW r, Fit(k, s, r) PROVE Fit(k, s, do_close(r))
  BY CancelFit, CloseFit, AbortFit DEF do_close

\* do_shutdown() of the client.
LEMMA DoShutdownFit ==
  ASSUME NEW k, NEW s, NEW r, Fit(k, s, r) PROVE Fit(k, s, do_shutdown(r))
  <1> DEFINE b == Begin("shutdown", r)
             c == IF b.conn = "open" THEN "shutdown" ELSE b.conn
  <1>1. Fit(k, s, b)
    BY BeginFit DEF Ops, SocketOps, Chain, Opening
  <1>2. b \in Programs(opts, s)
    BY <1>1, FitFacts
  <1>3. c \in Conns
    BY <1>2 DEF Programs, Conns
  <1>4. Fit(k, s, [b EXCEPT !.conn = c])
    BY <1>1, <1>3, ConnFit
  <1> QED BY <1>4 DEF do_shutdown

\* What a side sends fits into the buffer of its peer.
LEMMA OwnFits ==
  ASSUME NEW o, NEW s PROVE Own(o, s) \subseteq Fits
  BY ReplayAssumption DEF Own, Echoed, Fits

\* do_write(), with something in the queue and no write under way.
LEMMA DoWriteFit ==
  ASSUME NEW k, NEW s, NEW r, Fit(k, s, r), r.queue # <<>>,
         ~Active("write", r.wait, r.loop)
  PROVE  Fit(k, s, do_write(s, r))
  <1>1. Head(r.queue) \in Fits
    BY OwnFits DEF Fit, SideInv, Programs
  <1> DEFINE p == IF s = "client" THEN push("SENT", Head(r.queue), r) ELSE r
  <1>2. Fit(k, s, p)
    BY <1>1, PushFit DEF Types
  <1>3. p.queue = r.queue /\ p.wait = r.wait /\ p.loop = r.loop
    BY DEF push, Fit, SideInv, Programs
  <1>4. Fit(k, s, Begin("write", p))
    BY <1>2, <1>3, BeginWrite
  <1> QED BY <1>4 DEF do_write

\* A message is queued: a write begins only if the queue was empty, thus none is under way.
LEMMA EnqueueFit ==
  ASSUME NEW k, NEW s, NEW r, Fit(k, s, r), NEW m \in Own(opts, s)
  PROVE  Fit(k, s, enqueue(s, m, r))
  <1> DEFINE q == [r EXCEPT !.queue = Append(r.queue, m)]
  <1>1. r \in Programs(opts, s) /\ r.queue \in Seq(Own(opts, s))
    BY DEF Fit, SideInv, Programs
  <1>2. Append(r.queue, m) \in Seq(Own(opts, s)) /\ Append(r.queue, m) # <<>>
    BY <1>1
  <1>3. /\ q \in Programs(opts, s) /\ q.pos = r.pos /\ q.queue = Append(r.queue, m)
        /\ q.echo = r.echo /\ q.wait = r.wait /\ q.loop = r.loop
        /\ q.session = r.session
    BY <1>1, <1>2 DEF Programs
  <1> HIDE DEF q
  <1>4. SideInv(opts, s, q)
    BY <1>2, <1>3 DEF Fit, SideInv
  <1>5. Fit(k, s, q)
    BY <1>3, <1>4 DEF Fit
  <1>6. r.queue = <<>> => ~Active("write", q.wait, q.loop)
    BY <1>3 DEF Fit, SideInv
  <1>7. r.queue = <<>> => Fit(k, s, do_write(s, q))
    BY <1>2, <1>3, <1>5, <1>6, DoWriteFit
  <1> QED BY <1>5, <1>7 DEF enqueue, q

\* The next record.
LEMMA TraceFacts ==
  ASSUME OptsOK(opts), NEW s \in Sides, opts[s] = "replay"
  PROVE  /\ opts.trace \in Seq(Records(Fits)) /\ Len(opts.trace) \in Nat
         /\ opts.trace \in Seq(Records(Own(opts, s)))
         /\ Len(opts.trace) > 0 /\ opts.trace[Len(opts.trace)].type = "END_OF_FILE"
         /\ DOMAIN opts.trace = 1 .. Len(opts.trace)
         /\ \A i \in 1 .. Len(opts.trace) :
               opts.trace[i].type \in Types /\ opts.trace[i].message \in Own(opts, s)
  <1>1. opts.trace \in Seq(Records(IF opts.server = "echo" THEN Echoed ELSE Fits))
    BY DEF OptsOK, ConfigsOf
  <1>2. Echoed \subseteq Fits
    BY ReplayAssumption DEF Echoed, Fits
  <1>3. Records(Echoed) \subseteq Records(Fits)
    BY <1>2 DEF Records
  <1>4. opts.trace \in Seq(Records(Fits))
    BY <1>1, <1>3
  <1>5. opts.trace \in Seq(Records(Own(opts, s)))
    BY <1>1, <1>4 DEF Own, Sides
  <1>6. \A i \in 1 .. Len(opts.trace) : opts.trace[i] \in Records(Own(opts, s))
    BY <1>5
  <1>7. opts.trace # <<>> /\ opts.trace[Len(opts.trace)].type = "END_OF_FILE"
    BY DEF OptsOK, Sides
  <1> QED BY <1>4, <1>5, <1>6, <1>7 DEF Records

\* do_replay() goes on with one operation at most.
LEMMA DoReplayFit ==
  ASSUME OptsOK(opts), NEW s \in Sides, NEW r, Fit("ready", s, r)
  PROVE  Fit("live", s, do_replay(s, r))
  <1> DEFINE n == [r EXCEPT !.pos = r.pos + 1]
             rec == opts.trace[r.pos + 1]
  <1>1. /\ r \in Programs(opts, s) /\ r.pos \in Nat /\ r.pos < Len(opts.trace)
        /\ opts[s] = "replay" /\ Free(r.wait, r.loop)
    BY DEF Fit, SideInv, Programs
  <1>2. r.pos + 1 \in 1 .. Len(opts.trace) /\ rec.type \in Types
    BY <1>1, TraceFacts
  <1>3. /\ n \in Programs(opts, s) /\ n.pos = r.pos + 1 /\ n.queue = r.queue
        /\ n.echo = r.echo /\ n.wait = r.wait /\ n.loop = r.loop
        /\ n.session = r.session
    <2>1. ASSUME NEW p \in Nat PROVE [r EXCEPT !.pos = p] \in Programs(opts, s)
      BY <1>1 DEF Programs
    <2>2. r.pos + 1 \in Nat
      BY <1>1
    <2>3. n \in Programs(opts, s)
      BY <2>1, <2>2
    <2> QED BY <1>1, <2>3 DEF Programs
  <1>4. Opening \subseteq Chain /\ {"timer", "read", "watch"} \subseteq Chain
    BY DEF Chain
  <1> HIDE DEF n
  <1>5. SideInv(opts, s, n)
    BY <1>1, <1>2, <1>3, <1>4, TraceFacts DEF Fit, SideInv, Free
  <1>6. Fit("free", s, n)
    BY <1>1, <1>3, <1>5 DEF Fit
  <1>7. CASE rec.type \in {"SENT", "RECEIVED"}
    <2>1. Fit("live", s, Begin("timer", n))
      BY <1>2, <1>3, <1>4, <1>6, <1>7, BeginChain DEF Opening
    <2> QED BY <1>7, <2>1 DEF do_replay, n
  <1>8. CASE rec.type = "DISCONNECT"
    <2>1. Fit("live", s, Begin("watch", n))
      BY <1>4, <1>6, BeginChain DEF Opening
    <2>2. Fit("live", s, do_close(n))
      BY <1>6, DoCloseFit, FitFacts
    <2> QED BY <1>8, <2>1, <2>2 DEF do_replay, n
  <1>9. CASE rec.type = "END_OF_FILE"
    BY <1>6, <1>9, FitFacts DEF do_replay, n
  <1> QED BY <1>2, <1>7, <1>8, <1>9 DEF Types

\* The connection stands: the chain goes on if the side replays.
LEMMA EstablishedFit ==
  ASSUME OptsOK(opts), NEW s \in Sides, NEW r, Fit("live", s, r),
         opts[s] = "replay" => Fit("ready", s, r)
  PROVE  Fit("live", s, Established(s, r))
  <1> DEFINE c == IF r.conn = "closed" THEN r.conn ELSE "open"
             q == [r EXCEPT !.conn = c]
  <1>1. c \in Conns
    BY DEF Conns, Fit, SideInv, Programs
  <1>2. Fit("live", s, q) /\ (opts[s] = "replay" => Fit("ready", s, q))
    BY <1>1, ConnFit
  <1> HIDE DEF q
  <1>3. CASE opts[s] = "replay"
    <2> DEFINE b == IF s = "client" /\ opts.limit THEN Begin("limit", q) ELSE q
    <2>1. Fit("ready", s, b)
      BY <1>2, <1>3, BeginFit DEF Ops, Chain, Opening
    <2>2. Fit("live", s, do_replay(s, b))
      BY <2>1, DoReplayFit
    <2> QED BY <1>3, <2>2 DEF Established, start_replay, q
  <1>4. CASE opts[s] # "replay"
    <2>1. Fit("live", s, do_read(q))
      BY <1>2, <1>4, BeginUnreplayed DEF do_read, Chain, Opening
    <2> QED BY <1>4, <2>1 DEF Established, q
  <1> QED BY <1>3, <1>4

\* The timer's handler.
LEMMA ReplayedFit ==
  ASSUME OptsOK(opts), NEW s \in Sides, NEW r, Fit("ready", s, r), r.pos > 0,
         opts.trace[r.pos].type \in {"SENT", "RECEIVED"}
  PROVE  Fit("live", s, replayed(s, r))
  <1> DEFINE rec == opts.trace[r.pos]
             own == rec.type = (IF s = "client" THEN "SENT" ELSE "RECEIVED")
             e == [r EXCEPT !.expected = rec.message]
  <1>1. r.pos \in 1 .. Len(opts.trace) /\ opts[s] = "replay"
    BY DEF Fit, SideInv, Programs
  <1>2. rec.message \in Own(opts, s) /\ rec.message \in Seq(Octet)
    BY <1>1, TraceFacts, OwnFits DEF Fits
  <1>3. Fit("live", s, do_replay(s, enqueue(s, rec.message, r)))
    BY <1>2, EnqueueFit, DoReplayFit
  <1>4. Fit("ready", s, e) /\ e.pos = r.pos
    BY <1>2, ExpectedFit DEF Fit, SideInv, Programs
  <1>5. Fit("live", s, do_read(e))
    BY <1>4, FitFacts, BeginChain DEF do_read, Chain, Opening
  <1> QED BY <1>3, <1>5 DEF replayed

\* A read fills the front of the buffer.
LEMMA FillFit ==
  ASSUME NEW k, NEW s, NEW r, Fit(k, s, r), NEW m \in Fits
  PROVE  Fit(k, s, Fill(m, r))
  <1>1. r.data \in Seq(Octet) /\ Len(r.data) = BufferSize /\ BufferSize \in Nat
    BY ReplayAssumption DEF Fit, SideInv, Programs, Buffers
  <1>2. m \in Seq(Octet) /\ Len(m) \in Nat /\ Len(m) <= BufferSize
    BY DEF Fits
  <1> DEFINE t == SubSeq(r.data, Len(m) + 1, BufferSize)
  <1>3. t \in Seq(Octet) /\ Len(t) = BufferSize - Len(m)
    BY <1>1, <1>2
  <1> HIDE DEF t
  <1>4. m \o t \in Seq(Octet) /\ Len(m \o t) = BufferSize
    BY <1>1, <1>2, <1>3
  <1>5. m \o t \in Buffers
    BY <1>4 DEF Buffers
  <1> QED BY <1>5, DataFit DEF Fill, t

\* The destructor of the server's session.
LEMMA ReleasedFit ==
  ASSUME NEW k, NEW s, NEW r, Fit(k, s, r) PROVE Fit(k, s, Released(r))
  BY CloseFit, AbortFit, SessionFit DEF Released, SessionStates
-----------------------------------------------------------------------------
\* A handler leaves the loop.
LEMMA TailLoop ==
  ASSUME NEW H, NEW L \in Seq(H), L # <<>>
  PROVE  /\ Tail(L) \in Seq(H) /\ Head(L) \in H /\ Head(L) = L[1] /\ 1 \in DOMAIN L
         /\ \A i \in DOMAIN Tail(L) :
               i \in Nat /\ i + 1 # 1 /\ i + 1 \in DOMAIN L /\ Tail(L)[i] = L[i + 1]
  <1>1. Len(L) \in Nat /\ Len(L) > 0 /\ DOMAIN L = 1 .. Len(L) /\ Tail(L) \in Seq(H)
        /\ Len(Tail(L)) = Len(L) - 1 /\ DOMAIN Tail(L) = 1 .. Len(L) - 1
    OBVIOUS
  <1> QED BY <1>1

\* What is under way without the first handler.
LEMMA TailFacts ==
  ASSUME NEW H, NEW W, NEW L \in Seq(H), L # <<>>
  PROVE  /\ \A x : Active(x, W, Tail(L)) => Active(x, W, L)
         /\ \A C : One(C, W, L) => One(C, W, Tail(L))
         /\ \A C : One(C, W, L) /\ Head(L).op \in C
               => \A x \in C : ~Active(x, W, Tail(L))
         /\ Active(Head(L).op, W, L)
  <1>1. \A x : Active(x, W, Tail(L)) => Active(x, W, L)
    BY TailLoop DEF Active
  <1>2. ASSUME NEW C, One(C, W, L) PROVE One(C, W, Tail(L))
    <2>1. ASSUME NEW i \in DOMAIN Tail(L), NEW j \in DOMAIN Tail(L),
                 Tail(L)[i].op \in C, Tail(L)[j].op \in C
          PROVE  i = j
      <3>1. i + 1 = j + 1 /\ i \in Nat /\ j \in Nat
        BY <1>2, <2>1, TailLoop DEF One
      <3> QED BY <3>1
    <2>2. ASSUME NEW i \in DOMAIN Tail(L), NEW x \in W, x \in C
          PROVE  Tail(L)[i].op \notin C
      BY <1>2, <2>2, TailLoop DEF One
    <2> QED BY <1>2, <2>1, <2>2 DEF One
  <1>3. ASSUME NEW C, One(C, W, L), Head(L).op \in C, NEW x \in C PROVE ~Active(x, W, Tail(L))
    BY <1>3, TailLoop DEF One, Active
  <1>4. Active(Head(L).op, W, L)
    BY TailLoop DEF Active
  <1> QED BY <1>1, <1>2, <1>3, <1>4

\* The program that runs the handler of x.
LEMMA ThisFit ==
  ASSUME ReplayInv, NEW s \in Sides, NEW x, Turn(s, x)
  PROVE  /\ Fit("live", s, This(s))
         /\ Head(side[s].loop) \in Handlers(opts, s)
         /\ This(s).pos = side[s].pos /\ This(s).queue = side[s].queue
         /\ opts[s] = "replay" /\ x \in Opening \cup {"timer", "read"} =>
               Fit("ready", s, This(s))
         /\ opts[s] = "replay" /\ x \in Opening => This(s).pos = 0
         /\ opts[s] = "replay" /\ x \in {"timer", "read"} =>
               This(s).pos > 0 /\ opts.trace[This(s).pos].type \in {"SENT", "RECEIVED"}
         /\ x = "timer" => opts[s] = "replay"
         /\ x = "echo" => opts[s] # "replay"
         /\ x = "write" => This(s).queue # <<>> /\ ~Active("write", This(s).wait, This(s).loop)
  <1> DEFINE r == side[s]
             q == This(s)
  <1>1. /\ SideInv(opts, s, r) /\ r.session # "gone" /\ OptsOK(opts)
        /\ r.loop # <<>> /\ Head(r.loop).op = x
    BY DEF ReplayInv, Turn, Running
  <1>2. r \in Programs(opts, s) /\ r.loop \in Seq(Handlers(opts, s))
    BY <1>1 DEF SideInv, Programs
  <1>3. q = [r EXCEPT !.loop = Tail(r.loop)]
    BY DEF This
  <1>4. Tail(r.loop) \in Seq(Handlers(opts, s)) /\ Head(r.loop) \in Handlers(opts, s)
    BY <1>1, <1>2, TailLoop
  <1> HIDE DEF r, q
  <1>5. /\ q \in Programs(opts, s) /\ q.wait = r.wait /\ q.loop = Tail(r.loop)
        /\ q.pos = r.pos /\ q.queue = r.queue /\ q.echo = r.echo /\ q.session = r.session
    BY <1>2, <1>3, <1>4 DEF Programs
  <1>6. /\ \A y : Active(y, q.wait, q.loop) => Active(y, r.wait, r.loop)
        /\ \A C : One(C, r.wait, r.loop) => One(C, q.wait, q.loop)
        /\ \A C : One(C, r.wait, r.loop) /\ x \in C => \A y \in C : ~Active(y, q.wait, q.loop)
        /\ Active(x, r.wait, r.loop)
    <2>1. /\ \A y : Active(y, r.wait, Tail(r.loop)) => Active(y, r.wait, r.loop)
          /\ \A C : One(C, r.wait, r.loop) => One(C, r.wait, Tail(r.loop))
          /\ \A C : One(C, r.wait, r.loop) /\ Head(r.loop).op \in C
                => \A y \in C : ~Active(y, r.wait, Tail(r.loop))
          /\ Active(Head(r.loop).op, r.wait, r.loop)
      BY <1>1, <1>2, TailFacts
    <2> QED BY <1>1, <1>5, <2>1
  <1>7. Tame(r, q)
    BY <1>5, <1>6 DEF Tame
  <1>8. Fit("live", s, r)
    BY <1>1 DEF Fit
  <1>9. Fit("live", s, q)
    BY <1>5, <1>7, <1>8, TameFit
  <1>10. ASSUME opts[s] = "replay", x \in Opening \cup {"timer", "read"}
         PROVE  /\ Fit("ready", s, q)
                /\ x \in Opening => q.pos = 0
                /\ x \in {"timer", "read"} =>
                      q.pos > 0 /\ opts.trace[q.pos].type \in {"SENT", "RECEIVED"}
    <2>1. /\ One(Chain, r.wait, r.loop) /\ r.pos <= Len(opts.trace) /\ r.pos \in Nat
          /\ x \in Opening => r.pos = 0
          /\ x \in {"timer", "read"} =>
                      r.pos > 0 /\ opts.trace[r.pos].type \in {"SENT", "RECEIVED"}
      BY <1>1, <1>2, <1>6, <1>10 DEF SideInv, Programs
    <2>2. x \in Chain
      BY <1>10 DEF Chain
    <2>3. Free(q.wait, q.loop)
      BY <1>6, <2>1, <2>2 DEF Free
    <2>4. q.pos < Len(opts.trace)
      BY <1>1, <1>5, <1>10, <2>1, TraceFacts
    <2> QED BY <1>5, <1>9, <1>10, <2>1, <2>3, <2>4 DEF Fit
  <1>11. (x = "timer" => opts[s] = "replay") /\ (x = "echo" => opts[s] # "replay")
    BY <1>1, <1>6 DEF SideInv
  <1>12. x = "write" => q.queue # <<>> /\ ~Active("write", q.wait, q.loop)
    BY <1>1, <1>5, <1>6 DEF SideInv
  <1> QED BY <1>4, <1>5, <1>9, <1>10, <1>11, <1>12 DEF r, q

\* A program that has not ended takes a step.
LEMMA SideSteps ==
  ASSUME ReplayInv, NEW s \in Sides, NEW q, Fit("live", s, q),
         side' = [side EXCEPT ![s] = q], UNCHANGED <<opts, wire, lines, signals>>
  PROVE  ReplayInv'
  <1>1. side \in [Sides -> Programs(opts, "client") \cup Programs(opts, "server")]
    BY DEF ReplayInv
  <1>2. q \in Programs(opts, "client") \cup Programs(opts, "server")
    BY FitFacts DEF Sides
  <1>3. /\ side' \in [Sides -> Programs(opts, "client") \cup Programs(opts, "server")]
        /\ side'[s] = q /\ \A p \in Sides : p # s => side'[p] = side[p]
    BY <1>1, <1>2
  <1>4. SideInv(opts, s, q) /\ q.session # "gone"
    BY DEF Fit
  <1>5. ASSUME NEW p \in Sides
        PROVE  /\ SideInv(opts', p, side'[p])
               /\ side'[p].session = "gone" => side'[p].status # "running"
    BY <1>3, <1>4 DEF ReplayInv
  <1>6. side'["client"].session = "gone" /\ opts'.log =>
          /\ side'["client"].log # <<>>
          /\ side'["client"].log[Len(side'["client"].log)].type = "END_OF_FILE"
    BY <1>3, <1>4 DEF ReplayInv, Sides
  <1> QED BY <1>3, <1>5, <1>6 DEF ReplayInv

\* A handler of the client ends with q.
LEMMA ClientStep ==
  ASSUME ReplayInv, NEW q, Fit("live", "client", q), ClientDoes(q)
  PROVE  ReplayInv'
  BY SideSteps DEF ClientDoes, Sides

\* A handler of the server ends with q.
LEMMA ServerStep ==
  ASSUME ReplayInv, NEW q, Fit("live", "server", q), ServerDoes(q)
  PROVE  ReplayInv'
  BY SideSteps, ReleasedFit DEF ServerDoes, Sides
-----------------------------------------------------------------------------
\* Which operations are of the chain.
LEMMA Kinds ==
  /\ Ops = {"connect", "handshake", "shutdown", "read", "watch", "write", "echo", "last",
            "bye", "stdin", "signal", "timer", "limit", "accept", "main_signal", "resolve"}
  /\ Chain = {"resolve", "connect", "accept", "handshake", "timer", "read", "watch"}
  /\ Opening = {"resolve", "connect", "accept", "handshake"}
  BY DEF Ops, SocketOps, Reads, Writes, Chain, Opening

\* What a handler has got.
LEMMA OctetsFacts ==
  ASSUME ReplayInv, NEW s \in Sides, NEW x, Turn(s, x)
  PROVE  /\ Octets(s) \in Heard(opts, s) /\ Octets(s) \in Fits
         /\ x = "stdin" /\ Fine(s) => Octets(s) \in Lines
         /\ Code(s) \in Codes
  <1>1. Head(side[s].loop) \in Handlers(opts, s)
    BY ThisFit
  <1>2. Echoed \subseteq Fits
    BY ReplayAssumption DEF Echoed, Fits
  <1> QED BY <1>1, <1>2 DEF Octets, Handlers, Heard, Fine, Code, Turn

\* The client resolves, connects, and shakes hands.
LEMMA OpeningSteps ==
  ASSUME ReplayInv, resolved \/ do_connect \/ do_handshake
  PROVE  ReplayInv'
  <1> USE DEF Sides
  <1>0. OptsOK(opts)
    BY DEF ReplayInv
  <1>1. CASE resolved
    <2>1. Turn("client", "resolve")
      BY <1>1 DEF resolved
    <2> DEFINE r == ThisClient
               b == Begin("connect", r)
    <2>2. /\ Fit("live", "client", r)
          /\ opts.client = "replay" => Fit("ready", "client", r) /\ r.pos = 0
      BY <2>1, ThisFit, Kinds DEF ThisClient
    <2>3. Fit("live", "client", b)
      BY <2>2, FitFacts, BeginChain, BeginUnreplayed, Kinds
    <2>4. Fit("live", "client", [b EXCEPT !.conn = "connecting"])
      BY <2>3, ConnFit DEF Conns
    <2> HIDE DEF r
    <2> QED BY <1>1, <2>2, <2>4, ClientStep DEF resolved, r
  <1>2. CASE do_connect
    <2>1. Turn("client", "connect")
      BY <1>2 DEF do_connect
    <2> DEFINE r == ThisClient
               h == Begin("handshake", r)
               c == IF h.conn = "closed" THEN h.conn ELSE "handshaking"
    <2>2. /\ Fit("live", "client", r)
          /\ opts.client = "replay" => Fit("ready", "client", r) /\ r.pos = 0
      BY <2>1, ThisFit, Kinds DEF ThisClient
    <2>3. Fit("live", "client", h)
      BY <2>2, FitFacts, BeginChain, BeginUnreplayed, Kinds
    <2>4. Fit("live", "client", [h EXCEPT !.conn = c])
      <3>1. c \in Conns
        BY <2>3, FitFacts DEF Programs, Conns
      <3> QED BY <2>3, <3>1, ConnFit
    <2>5. Fit("live", "client", Established("client", r))
      BY <1>0, <2>2, EstablishedFit
    <2>6. Fit("live", "client", Abort({"signal", "stdin"}, r))
      BY <2>2, AbortFit
    <2>7. \/ ClientDoes([h EXCEPT !.conn = c])
          \/ ClientDoes(Established("client", r))
          \/ ClientDoes(Abort({"signal", "stdin"}, r))
      BY <1>2 DEF do_connect
    <2> HIDE DEF r, h, c
    <2> QED BY <2>4, <2>5, <2>6, <2>7, ClientStep
  <1>3. CASE do_handshake
    <2>1. Turn("client", "handshake")
      BY <1>3 DEF do_handshake
    <2> DEFINE r == ThisClient
               e == Established("client", r)
    <2>2. /\ Fit("live", "client", r)
          /\ opts.client = "replay" => Fit("ready", "client", r)
      BY <2>1, ThisFit, Kinds DEF ThisClient
    <2>3. Fit("live", "client", e)
      BY <1>0, <2>2, EstablishedFit
    <2>4. Fit("live", "client", close(Abort({"signal", "stdin"}, e)))
      BY <2>3, AbortFit, CloseFit
    <2> HIDE DEF e
    <2> QED BY <1>3, <2>3, <2>4, ClientStep DEF do_handshake, e
  <1> QED BY <1>1, <1>2, <1>3

\* The timer of the client, and its reads.
LEMMA ClientReads ==
  ASSUME ReplayInv, client_timer \/ client_read_failed \/ client_read
  PROVE  ReplayInv'
  <1> USE DEF Sides
  <1> DEFINE r == ThisClient
  <1>0. OptsOK(opts)
    BY DEF ReplayInv
  <1>1. CASE client_timer
    <2>1. Turn("client", "timer")
      BY <1>1 DEF client_timer
    <2>2. /\ Fit("ready", "client", r) /\ r.pos > 0
          /\ opts.trace[r.pos].type \in {"SENT", "RECEIVED"}
      BY <2>1, ThisFit, Kinds DEF ThisClient
    <2>3. Fit("live", "client", replayed("client", r))
      BY <1>0, <2>2, ReplayedFit
    <2> HIDE DEF r
    <2> QED BY <1>1, <2>3, ClientStep DEF client_timer, r
  <1>2. CASE client_read_failed
    <2>1. Fit("live", "client", r)
      BY <1>2, ThisFit DEF client_read_failed, ThisClient
    <2>2. Fit("live", "client", do_shutdown(r))
      BY <2>1, DoShutdownFit
    <2> HIDE DEF r
    <2> QED BY <1>2, <2>1, <2>2, ClientStep DEF client_read_failed, r
  <1>3. CASE client_read
    <2>1. Turn("client", "read")
      BY <1>3 DEF client_read
    <2> DEFINE m == Octets("client")
               q == push("RECEIVED", m, Fill(m, r))
    <2>2. /\ Fit("live", "client", r)
          /\ opts.client = "replay" => Fit("ready", "client", r)
      BY <2>1, ThisFit, Kinds DEF ThisClient
    <2>3. m \in Fits
      BY <2>1, OctetsFacts
    <2>4. /\ Fit("live", "client", q)
          /\ opts.client = "replay" => Fit("ready", "client", q)
      BY <2>2, <2>3, FillFit, PushFit DEF Types
    <2>5. Fit("live", "client", Throw("mismatch", q))
      BY <2>4, ThrowFit DEF Statuses
    <2>6. Fit("live", "client", do_shutdown(q))
      BY <2>4, DoShutdownFit
    <2>7. opts.client = "replay" => Fit("live", "client", do_replay("client", q))
      BY <1>0, <2>4, DoReplayFit
    <2>8. opts.client # "replay" => Fit("live", "client", do_read(q))
      BY <2>4, BeginUnreplayed, Kinds DEF do_read
    <2>9. \/ ClientDoes(Throw("mismatch", q))
          \/ ClientDoes(do_shutdown(q))
          \/ opts.client = "replay" /\ ClientDoes(do_replay("client", q))
          \/ opts.client # "replay" /\ ClientDoes(do_read(q))
      BY <1>3 DEF client_read
    <2> HIDE DEF q
    <2> QED BY <2>5, <2>6, <2>7, <2>8, <2>9, ClientStep
  <1> QED BY <1>1, <1>2, <1>3

\* A line that is typed fits with its line end, also when it is echoed.
LEMMA TypedFits ==
  ASSUME NEW l \in Lines
  PROVE  /\ Front(l) \o <<"cr", "nl">> \in Own(opts, "client")
         /\ l \in Fits
  <1> DEFINE f == SubSeq(l, 1, Len(l) - 1)
  <1>1. /\ l \in Seq(Octet) /\ l # <<>> /\ Len(l) + 2 <= BufferSize /\ BufferSize \in Nat
        /\ Len(l) \in Nat /\ Len(l) > 0
    BY ReplayAssumption
  <1>2. f \in Seq(Octet) /\ Len(f) = Len(l) - 1 /\ Front(l) = f
    <2>1. Front(l) = f
      BY DEF Front
    <2>2. 1 \in Int /\ Len(l) - 1 \in Int /\ Len(l) - 1 <= Len(l) /\ 1 <= (Len(l) - 1) + 1
      BY <1>1
    <2>3. \A i \in 1 .. Len(l) - 1 : l[i] \in Octet
      BY <1>1
    <2>4. f = [i \in 1 .. Len(l) - 1 |-> l[i]]
      BY <1>1
    <2>5. f \in [1 .. Len(l) - 1 -> Octet]
      BY <2>3, <2>4
    <2>6. Len(l) - 1 \in Nat
      BY <1>1
    <2> HIDE DEF f
    <2> QED BY <2>1, <2>5, <2>6
  <1>3. <<"cr", "nl">> \in Seq(Octet) /\ Len(<<"cr", "nl">>) = 2
    BY DEF Octet
  <1> HIDE DEF f
  <1>4. f \o <<"cr", "nl">> \in Seq(Octet) /\ Len(f \o <<"cr", "nl">>) = Len(l) + 1
    BY <1>1, <1>2, <1>3
  <1>5. f \o <<"cr", "nl">> \in Echoed /\ f \o <<"cr", "nl">> \in Fits /\ l \in Fits
    BY <1>1, <1>4 DEF Echoed, Fits
  <1> QED BY <1>2, <1>5 DEF Own

\* The keyboard and the signals of the client, and the end of its connection.
LEMMA ClientEnds ==
  ASSUME ReplayInv,
         shutdown_done \/ do_keyboard_read \/ keyboard_ends \/ client_signal \/ client_bye
  PROVE  ReplayInv'
  <1> USE DEF Sides
  <1> DEFINE r == ThisClient
  <1>1. CASE shutdown_done
    <2> DEFINE q == push("DISCONNECT", <<>>, r)
    <2>1. Fit("live", "client", r)
      BY <1>1, ThisFit DEF shutdown_done, ThisClient
    <2>2. <<>> \in Fits
      BY ReplayAssumption DEF Fits
    <2>3. Fit("live", "client", q)
      BY <2>1, <2>2, PushFit DEF Types
    <2>4. Fit("live", "client", close(Abort({"stdin", "signal", "timer", "limit"}, q)))
      BY <2>3, AbortFit, CloseFit
    <2> HIDE DEF q
    <2> QED BY <1>1, <2>4, ClientStep DEF shutdown_done, q
  <1>2. CASE do_keyboard_read
    <2> DEFINE m == Front(Octets("client")) \o <<"cr", "nl">>
               q == enqueue("client", m, r)
    <2>1. Fit("live", "client", r) /\ Octets("client") \in Lines
      BY <1>2, ThisFit, OctetsFacts DEF do_keyboard_read, ThisClient
    <2>2. m \in Own(opts, "client")
      BY <2>1, TypedFits
    <2> HIDE DEF m
    <2>3. Fit("live", "client", q)
      BY <2>1, <2>2, EnqueueFit
    <2>4. Fit("live", "client", Begin("stdin", q))
      BY <2>3, BeginFit, Kinds
    <2> HIDE DEF q
    <2> QED BY <1>2, <2>4, ClientStep DEF do_keyboard_read, q, m
  <1>3. CASE keyboard_ends
    <2>1. Fit("live", "client", r)
      BY <1>3, ThisFit DEF keyboard_ends, ThisClient
    <2>2. Fit("live", "client", Abort({"signal"}, close(r)))
      BY <2>1, AbortFit, CloseFit
    <2> HIDE DEF r
    <2> QED BY <1>3, <2>2, ClientStep DEF keyboard_ends, r
  <1>4. CASE client_signal
    <2> DEFINE t == [r EXCEPT !.signaled = TRUE]
    <2>1. Fit("live", "client", r)
      BY <1>4, ThisFit DEF client_signal, ThisClient
    <2>2. Fit("live", "client", Abort({"stdin", "signal"}, close(r)))
      BY <2>1, AbortFit, CloseFit
    <2>3. Fit("live", "client", t)
      BY <2>1, SignaledFit
    <2> HIDE DEF t
    <2>4. Fit("live", "client", do_last_write_close(Begin("signal", t)))
      BY <2>3, BeginFit, Kinds DEF do_last_write_close
    <2>5. \/ ClientDoes(r) \/ ClientDoes(Abort({"stdin", "signal"}, close(r)))
          \/ ClientDoes(do_last_write_close(Begin("signal", t)))
      BY <1>4 DEF client_signal, t
    <2> HIDE DEF r
    <2> QED BY <2>1, <2>2, <2>4, <2>5, ClientStep
  <1>5. CASE client_bye
    <2>1. Fit("live", "client", r)
      BY <1>5, ThisFit DEF client_bye, ThisClient
    <2>2. Fit("live", "client", do_close(r))
      BY <2>1, DoCloseFit
    <2> HIDE DEF r
    <2> QED BY <1>5, <2>2, ClientStep DEF client_bye, r
  <1> QED BY <1>1, <1>2, <1>3, <1>4, <1>5

\* The server keeps what it echoes.
LEMMA EchoFit ==
  ASSUME NEW k, NEW r, Fit(k, "server", r), NEW m \in Heard(opts, "server"),
         opts.server = "echo"
  PROVE  Fit(k, "server", [r EXCEPT !.echo = m])
  <1> DEFINE q == [r EXCEPT !.echo = m]
  <1>1. r \in Programs(opts, "server")
    BY FitFacts
  <1>2. m \in IF opts.ssl THEN Echoed ELSE Fits
    BY DEF Heard
  <1>3. /\ q \in Programs(opts, "server") /\ q.pos = r.pos /\ q.queue = r.queue
        /\ q.wait = r.wait /\ q.loop = r.loop /\ q.session = r.session
    BY <1>1, <1>2 DEF Programs
  <1> HIDE DEF q
  <1>4. SideInv(opts, "server", q)
    BY <1>3 DEF Fit, SideInv
  <1> QED BY <1>3, <1>4 DEF Fit, q

\* The server accepts a connection, and shakes hands.
LEMMA ServerOpens ==
  ASSUME ReplayInv, accepted \/ accept_failed \/ handshaken
  PROVE  ReplayInv'
  <1> USE DEF Sides
  <1> DEFINE r == ThisServer
  <1>0. OptsOK(opts) /\ opts.server \in {"echo", "replay"}
    BY DEF ReplayInv, OptsOK, ConfigsOf, ServerModes
  <1>1. CASE accepted
    <2>1. Turn("server", "accept")
      BY <1>1 DEF accepted
    <2>2. /\ Fit("live", "server", r)
          /\ opts.server = "replay" => Fit("ready", "server", r) /\ r.pos = 0
      BY <2>1, ThisFit, Kinds DEF ThisServer
    <2> DEFINE u == [r EXCEPT !.session = "live"]
               up == [u EXCEPT !.conn = "handshaking"]
               b == Begin("signal", up)
               begun == IF opts.ssl THEN Begin("handshake", b) ELSE Established("server", b)
    <2>3. up = [r EXCEPT !.session = "live", !.conn = "handshaking"]
      BY DEF Fit
    <2>4. /\ Fit("live", "server", up)
          /\ opts.server = "replay" => Fit("ready", "server", up)
      <3>1. /\ Fit("live", "server", u)
            /\ opts.server = "replay" => Fit("ready", "server", u)
        BY <2>2, SessionFit DEF SessionStates
      <3> QED BY <3>1, ConnFit DEF Conns
    <2>5. opts.server = "replay" => up.pos = 0
      BY <2>2, FitFacts DEF Programs
    <2> HIDE DEF up
    <2>6. /\ Fit("live", "server", b)
          /\ opts.server = "replay" => Fit("ready", "server", b)
      BY <2>4, BeginFit, Kinds
    <2>7. opts.server = "replay" => b.pos = 0
      BY <2>4, <2>5, FitFacts, BeginCases, Kinds
    <2> HIDE DEF b
    <2>8. Fit("live", "server", Established("server", b))
      BY <1>0, <2>6, EstablishedFit
    <2>9. Fit("live", "server", Begin("handshake", b))
      BY <2>6, <2>7, FitFacts, BeginChain, BeginUnreplayed, Kinds
    <2>10. Fit("live", "server", begun)
      BY <2>8, <2>9
    <2> HIDE DEF begun
    <2>11. Fit("live", "server", Abort({"main_signal"}, begun))
      BY <2>10, AbortFit
    <2>12. opts.server # "replay" => Fit("live", "server", Begin("accept", begun))
      BY <2>10, BeginUnreplayed, Kinds
    <2>13. ServerDoes(IF opts.server = "replay" THEN Abort({"main_signal"}, begun)
                      ELSE Begin("accept", begun))
      BY <1>1, <2>3 DEF accepted, begun, b
    <2> QED BY <2>11, <2>12, <2>13, ServerStep
  <1>2. CASE accept_failed
    <2>1. Fit("live", "server", r)
      BY <1>2, ThisFit DEF accept_failed, ThisServer
    <2>2. Fit("live", "server", Abort({"limit"}, r))
      BY <2>1, AbortFit
    <2> HIDE DEF r
    <2> QED BY <1>2, <2>1, <2>2, ServerStep DEF accept_failed, r
  <1>3. CASE handshaken
    <2>1. Turn("server", "handshake")
      BY <1>3 DEF handshaken
    <2>2. /\ Fit("live", "server", r)
          /\ opts.server = "replay" => Fit("ready", "server", r)
      BY <2>1, ThisFit, Kinds DEF ThisServer
    <2>3. Fit("live", "server", Established("server", r))
      BY <1>0, <2>2, EstablishedFit
    <2>4. Fit("live", "server", Abort({"signal"}, r))
      BY <2>2, AbortFit
    <2> HIDE DEF r
    <2> QED BY <1>3, <2>3, <2>4, ServerStep DEF handshaken, r
  <1> QED BY <1>1, <1>2, <1>3

\* The timer of the server, its reads, and its echoes.
LEMMA ServerReads ==
  ASSUME ReplayInv, server_timer \/ server_read \/ echoed
  PROVE  ReplayInv'
  <1> USE DEF Sides
  <1> DEFINE r == ThisServer
  <1>0. OptsOK(opts) /\ opts.server \in {"echo", "replay"}
    BY DEF ReplayInv, OptsOK, ConfigsOf, ServerModes
  <1>1. CASE server_timer
    <2>1. Turn("server", "timer")
      BY <1>1 DEF server_timer
    <2>2. /\ Fit("ready", "server", r) /\ r.pos > 0
          /\ opts.trace[r.pos].type \in {"SENT", "RECEIVED"}
      BY <2>1, ThisFit, Kinds DEF ThisServer
    <2>3. Fit("live", "server", replayed("server", r))
      BY <1>0, <2>2, ReplayedFit
    <2> HIDE DEF r
    <2> QED BY <1>1, <2>3, ServerStep DEF server_timer, r
  <1>2. CASE server_read
    <2>1. Turn("server", "read")
      BY <1>2 DEF server_read
    <2> DEFINE m == Octets("server")
               q == Fill(m, r)
               e == [q EXCEPT !.echo = m]
    <2>2. /\ Fit("live", "server", r)
          /\ opts.server = "replay" => Fit("ready", "server", r)
      BY <2>1, ThisFit, Kinds DEF ThisServer
    <2>3. m \in Fits /\ m \in Heard(opts, "server")
      BY <2>1, OctetsFacts
    <2>4. /\ Fit("live", "server", q)
          /\ opts.server = "replay" => Fit("ready", "server", q)
      BY <2>2, <2>3, FillFit
    <2>5. Fit("live", "server", Throw("mismatch", q))
      BY <2>4, ThrowFit DEF Statuses
    <2>6. Fit("live", "server", Begin("last", q))
      BY <2>4, BeginFit, Kinds
    <2>7. opts.server = "replay" => Fit("live", "server", do_replay("server", q))
      BY <1>0, <2>4, DoReplayFit
    <2> HIDE DEF q, m
    <2>8. opts.server # "replay" => Fit("live", "server", Begin("echo", e))
      BY <1>0, <2>3, <2>4, EchoFit, BeginUnreplayed, Kinds
    <2>9. \/ ServerDoes(r)
          \/ ServerDoes(Throw("mismatch", q))
          \/ ServerDoes(Begin("last", q))
          \/ opts.server = "replay" /\ ServerDoes(do_replay("server", q))
          \/ opts.server # "replay" /\ ServerDoes(Begin("echo", e))
      BY <1>2 DEF server_read, q, m
    <2> HIDE DEF e, r
    <2> QED BY <2>2, <2>5, <2>6, <2>7, <2>8, <2>9, ServerStep
  <1>3. CASE echoed
    <2>1. Turn("server", "echo")
      BY <1>3 DEF echoed
    <2>2. Fit("live", "server", r) /\ opts.server # "replay"
      BY <2>1, ThisFit DEF ThisServer
    <2>3. Fit("live", "server", do_read(r))
      BY <2>2, BeginUnreplayed, Kinds DEF do_read
    <2> HIDE DEF r
    <2> QED BY <1>3, <2>2, <2>3, ServerStep DEF echoed, r
  <1> QED BY <1>1, <1>2, <1>3

\* The last words of the server, the disconnect, and its signals.
LEMMA ServerEnds ==
  ASSUME ReplayInv,
         last_written \/ wait_for_disconnect \/ server_signal \/ server_bye \/ main_signal
  PROVE  ReplayInv'
  <1> USE DEF Sides
  <1> DEFINE r == ThisServer
             t == [r EXCEPT !.signaled = TRUE]
  <1>1. Fit("live", "server", r)
    BY ThisFit DEF last_written, wait_for_disconnect, server_signal, server_bye, main_signal,
       ThisServer
  <1>2. Fit("live", "server", t)
    BY <1>1, SignaledFit
  <1>3. \/ ServerDoes(r)
        \/ \E X : ServerDoes(Abort(X, r))
        \/ ServerDoes(Throw("undefined", r)) \/ ServerDoes(Throw("disconnect", r))
        \/ ServerDoes(close(r))
        \/ ServerDoes(do_last_write_close(Begin("signal", t)))
        \/ ServerDoes(Abort({"signal"}, close(r)))
        \/ ServerDoes(Abort({"signal"}, Abort(SocketOps, r)))
    <2>1. CASE last_written
      BY <2>1 DEF last_written
    <2>2. CASE wait_for_disconnect
      BY <2>2 DEF wait_for_disconnect
    <2>3. CASE server_signal
      BY <2>3 DEF server_signal
    <2>4. CASE server_bye
      BY <2>4 DEF server_bye
    <2>5. CASE main_signal
      BY <2>5 DEF main_signal
    <2> QED BY <2>1, <2>2, <2>3, <2>4, <2>5
  <1> HIDE DEF r, t
  <1>4. /\ \A X : Fit("live", "server", Abort(X, r))
        /\ Fit("live", "server", Throw("undefined", r))
        /\ Fit("live", "server", Throw("disconnect", r))
        /\ Fit("live", "server", close(r))
        /\ Fit("live", "server", do_last_write_close(Begin("signal", t)))
        /\ Fit("live", "server", Abort({"signal"}, close(r)))
        /\ Fit("live", "server", Abort({"signal"}, Abort(SocketOps, r)))
    <2>1. \A X : Fit("live", "server", Abort(X, r))
      BY <1>1, AbortFit
    <2>2. /\ Fit("live", "server", Throw("undefined", r))
          /\ Fit("live", "server", Throw("disconnect", r))
      BY <1>1, ThrowFit DEF Statuses
    <2>3. Fit("live", "server", close(r))
      BY <1>1, CloseFit
    <2>4. Fit("live", "server", do_last_write_close(Begin("signal", t)))
      BY <1>2, BeginFit, Kinds DEF do_last_write_close
    <2>5. Fit("live", "server", Abort({"signal"}, close(r)))
          /\ Fit("live", "server", Abort({"signal"}, Abort(SocketOps, r)))
      BY <2>1, <2>3, AbortFit
    <2> QED BY <2>1, <2>2, <2>3, <2>4, <2>5
  <1> QED BY <1>1, <1>3, <1>4, ServerStep
-----------------------------------------------------------------------------
\* Either side.
LEMMA SideStep ==
  ASSUME ReplayInv, NEW s \in Sides, NEW q, Fit("live", s, q), Does(s, q)
  PROVE  ReplayInv'
  BY ClientStep, ServerStep DEF Does, Sides

\* The queue changes while no write is under way.
LEMMA QueueFit ==
  ASSUME NEW s, NEW r, Fit("live", s, r), ~Active("write", r.wait, r.loop),
         NEW w \in Seq(Own(opts, s))
  PROVE  Fit("live", s, [r EXCEPT !.queue = w])
  <1> DEFINE q == [r EXCEPT !.queue = w]
  <1>1. r \in Programs(opts, s)
    BY FitFacts
  <1>2. /\ q \in Programs(opts, s) /\ q.pos = r.pos /\ q.echo = r.echo
        /\ q.wait = r.wait /\ q.loop = r.loop /\ q.session = r.session
    BY <1>1 DEF Programs
  <1> HIDE DEF q
  <1>3. SideInv(opts, s, q)
    BY <1>2 DEF Fit, SideInv
  <1> QED BY <1>2, <1>3 DEF Fit, q

\* The handler of do_write(): the next message, if there is one.
LEMMA WrittenStep ==
  ASSUME ReplayInv, NEW s \in Sides, written(s)
  PROVE  ReplayInv'
  <1> DEFINE r == This(s)
             w == IF Fine(s) THEN Tail(r.queue) ELSE r.queue
             q == [r EXCEPT !.queue = w]
  <1>1. /\ Fit("live", s, r) /\ r.queue # <<>> /\ ~Active("write", r.wait, r.loop)
    BY ThisFit DEF written
  <1>2. w \in Seq(Own(opts, s))
    BY <1>1, FitFacts DEF Programs
  <1>3. Fit("live", s, q)
    BY <1>1, <1>2, QueueFit
  <1>4. ~Active("write", q.wait, q.loop)
    BY <1>1, FitFacts DEF Programs
  <1>5. Does(s, IF Fine(s) /\ q.queue # <<>> THEN do_write(s, q) ELSE q)
    BY DEF written
  <1> HIDE DEF q
  <1>6. q.queue # <<>> => Fit("live", s, do_write(s, q))
    BY <1>3, <1>4, DoWriteFit
  <1> QED BY <1>3, <1>5, <1>6, SideStep

\* A program that runs has not ended.
LEMMA RunningFit ==
  ASSUME ReplayInv, NEW s \in Sides, Running(s)
  PROVE  Fit("live", s, side[s])
  BY DEF ReplayInv, Running, Fit

\* The limit, and the return of run().
LEMMA LimitStep ==
  ASSUME ReplayInv, NEW s \in Sides, limit(s) \/ run_returns(s)
  PROVE  ReplayInv'
  <1>1. CASE limit(s)
    <2>1. Fit("live", s, This(s))
      BY <1>1, ThisFit DEF limit
    <2>2. Fit("live", s, Throw("limit", This(s)))
      BY <2>1, ThrowFit DEF Statuses
    <2> QED BY <1>1, <2>1, <2>2, SideStep DEF limit
  <1>2. CASE run_returns(s)
    <2>1. Fit("live", s, side[s])
      BY <1>2, RunningFit DEF run_returns
    <2>2. Fit("live", s, [side[s] EXCEPT !.status = "returned"])
      BY <2>1, StatusFit DEF Statuses
    <2> QED BY <1>2, <2>2, SideStep DEF run_returns
  <1> QED BY <1>1, <1>2

\* The process ends; the client's trace gets its last record.
LEMMA FinishStep ==
  ASSUME ReplayInv, NEW s \in Sides, finish(s)
  PROVE  ReplayInv'
  <1> DEFINE c == close(side[s])
             r == [c EXCEPT !.session = "gone", !.wait = {}, !.loop = <<>>]
             q == IF s = "client" THEN push("END_OF_FILE", <<>>, r) ELSE r
  <1>1. /\ SideInv(opts, s, side[s]) /\ side[s].session # "gone" /\ side[s].status # "running"
        /\ side' = [side EXCEPT ![s] = q] /\ UNCHANGED <<opts, wire, lines, signals>>
    BY DEF ReplayInv, finish, Running
  <1>2. Fit("live", s, c) /\ c.status = side[s].status
    <2>1. Fit("live", s, side[s])
      BY <1>1 DEF Fit
    <2>2. Fit("live", s, c) /\ side[s] \in Programs(opts, s)
      BY <2>1, CloseFit, FitFacts
    <2>3. c.status = side[s].status
      BY <2>2 DEF close, Abort, Programs
    <2> QED BY <2>2, <2>3
  <1>3. c \in Programs(opts, s)
    BY <1>2, FitFacts
  <1> HIDE DEF c
  <1>4. /\ r \in Programs(opts, s) /\ r.pos = c.pos /\ r.queue = c.queue /\ r.echo = c.echo
        /\ r.wait = {} /\ r.loop = <<>> /\ r.session = "gone" /\ r.status = c.status
        /\ r.log = c.log
    <2>1. <<>> \in Seq(Handlers(opts, s)) /\ "gone" \in SessionStates
      BY DEF SessionStates
    <2> QED BY <1>3, <2>1 DEF Programs
  <1> HIDE DEF r
  <1>5. <<>> \in Fits /\ Record("END_OF_FILE", <<>>) \in Records(Fits)
    BY ReplayAssumption DEF Fits, Record, Records, Types
  <1>6. r.log \in Seq(Records(Fits))
    BY <1>4 DEF Programs
  <1>7. /\ Append(r.log, Record("END_OF_FILE", <<>>)) \in Seq(Records(Fits))
        /\ Append(r.log, Record("END_OF_FILE", <<>>)) # <<>>
        /\ Append(r.log, Record("END_OF_FILE", <<>>))
             [Len(Append(r.log, Record("END_OF_FILE", <<>>)))].type = "END_OF_FILE"
    <2> DEFINE e == Record("END_OF_FILE", <<>>)
    <2>1. e.type = "END_OF_FILE"
      BY DEF Record
    <2>2. e \in Records(Fits)
      BY <1>5
    <2> HIDE DEF e
    <2>3. Append(r.log, e) \in Seq(Records(Fits)) /\ Append(r.log, e) # <<>>
          /\ Append(r.log, e)[Len(Append(r.log, e))] = e
      BY <1>6, <2>2
    <2> QED BY <2>1, <2>3 DEF e
  <1>8. /\ q \in Programs(opts, s) /\ q.pos = c.pos /\ q.queue = c.queue /\ q.echo = c.echo
        /\ q.wait = {} /\ q.loop = <<>> /\ q.session = "gone" /\ q.status = c.status
    BY <1>4, <1>7 DEF push, Programs
  <1>9. s = "client" /\ opts.log =>
          q.log # <<>> /\ q.log[Len(q.log)].type = "END_OF_FILE"
    BY <1>4, <1>7 DEF push, Programs
  <1> HIDE DEF q
  <1>10. SideInv(opts, s, q)
    <2>1. \A x : ~Active(x, q.wait, q.loop)
      BY <1>8 DEF Active
    <2>2. \A C : One(C, q.wait, q.loop)
      BY <1>8 DEF One
    <2> QED BY <1>2, <1>8, <2>1, <2>2 DEF SideInv, Fit
  <1>11. /\ side' \in [Sides -> Programs(opts, "client") \cup Programs(opts, "server")]
         /\ side'[s] = q /\ \A p \in Sides : p # s => side'[p] = side[p]
    BY <1>1, <1>8 DEF ReplayInv, Sides
  <1>12. ASSUME NEW p \in Sides
         PROVE  /\ SideInv(opts', p, side'[p])
                /\ side'[p].session = "gone" => side'[p].status # "running"
    BY <1>1, <1>2, <1>8, <1>10, <1>11 DEF ReplayInv
  <1>13. side'["client"].session = "gone" /\ opts'.log =>
          /\ side'["client"].log # <<>>
          /\ side'["client"].log[Len(side'["client"].log)].type = "END_OF_FILE"
    BY <1>1, <1>9, <1>11 DEF ReplayInv, Sides
  <1> QED BY <1>1, <1>11, <1>12, <1>13 DEF ReplayInv
-----------------------------------------------------------------------------
\* What is on its way between the two.
WireOK(w) ==
    /\ w \in [Sides -> Seq(Seq(Octet))]
    /\ opts.ssl => \A s \in Sides : w[s] \in Seq(Own(opts, s))

\* The outside world acts on one side or on both.
LEMMA WorldSteps ==
  ASSUME ReplayInv, opts' = opts, lines' \in 0 .. opts.lines,
         signals' \in 0 .. opts.signals, WireOK(wire'),
         side' = [p \in Sides |-> side'[p]],
         \A p \in Sides : side'[p] = side[p] \/ Fit("live", p, side'[p])
  PROVE  ReplayInv'
  <1>1. ASSUME NEW p \in Sides
        PROVE  /\ SideInv(opts', p, side'[p])
               /\ side'[p].session = "gone" => side'[p].status # "running"
    BY <1>1 DEF ReplayInv, Fit
  <1>2. ASSUME NEW p \in Sides
        PROVE  side'[p] \in Programs(opts, "client") \cup Programs(opts, "server")
    BY <1>1, <1>2 DEF SideInv, Sides
  <1>3. side' \in [Sides -> Programs(opts', "client") \cup Programs(opts', "server")]
    BY <1>2
  <1>4. /\ wire' \in [Sides -> Seq(Seq(Octet))]
        /\ opts'.ssl => \A s \in Sides : wire'[s] \in Seq(Own(opts', s))
    BY DEF WireOK
  <1>5. side'["client"].session = "gone" /\ opts'.log =>
          /\ side'["client"].log # <<>>
          /\ side'["client"].log[Len(side'["client"].log)].type = "END_OF_FILE"
    BY DEF ReplayInv, Fit, Sides
  <1>6. OptsOK(opts')
    BY DEF ReplayInv
  <1> QED BY <1>1, <1>3, <1>4, <1>5, <1>6 DEF ReplayInv

\* The program s with the outstanding operation x completed.
Completed(s, x, c, m) ==
    [side[s] EXCEPT !.wait = @ \ {x}, !.loop = Append(@, Done(x, c, m))]

\* Its handler takes its place in the chain.
LEMMA CompletedFit ==
  ASSUME ReplayInv, NEW s \in Sides, NEW x, NEW c, NEW m, Waits(s, x),
         Done(x, c, m) \in Handlers(opts, s)
  PROVE  Fit("live", s, Completed(s, x, c, m))
  <1> DEFINE r == side[s]
             q == Completed(s, x, c, m)
             h == Done(x, c, m)
  <1>1. Fit("live", s, r) /\ x \in r.wait
    BY DEF ReplayInv, Waits, Running, Fit
  <1>2. r \in Programs(opts, s) /\ r.loop \in Seq(Handlers(opts, s)) /\ r.wait \subseteq Ops
        /\ h.op = x /\ h \in Handlers(opts, s)
    BY <1>1 DEF Fit, SideInv, Programs, Done
  <1>3. Append(r.loop, h) \in Seq(Handlers(opts, s))
    BY <1>2, AppendLoop
  <1>4. /\ q \in Programs(opts, s)
        /\ q.wait = r.wait \ {x} /\ q.loop = Append(r.loop, h)
        /\ q.pos = r.pos /\ q.queue = r.queue /\ q.echo = r.echo /\ q.session = r.session
    BY <1>2, <1>3 DEF Programs, Completed
  <1> HIDE DEF h, q, r
  <1>5. \A y : Active(y, q.wait, q.loop) => Active(y, r.wait, r.loop)
    <2>1. \A y : Active(y, q.wait, Append(r.loop, h)) <=> Active(y, q.wait, r.loop) \/ y = h.op
      BY <1>2, AppendActive
    <2> QED BY <1>1, <1>2, <1>4, <2>1 DEF Active
  <1>6. ASSUME NEW C, One(C, r.wait, r.loop) PROVE One(C, q.wait, q.loop)
    <2>1. One(C, r.wait \ {x}, r.loop)
      BY <1>6 DEF One
    <2>2. h.op \in C => \A y \in C : ~Active(y, r.wait \ {x}, r.loop)
      BY <1>1, <1>2, <1>6 DEF One, Active
    <2>3. One(C, r.wait \ {x}, Append(r.loop, h))
      BY <1>2, <2>1, <2>2, AppendOne
    <2> QED BY <1>4, <2>3
  <1>7. Tame(r, q)
    BY <1>4, <1>5, <1>6 DEF Tame
  <1> QED BY <1>1, <1>4, <1>7, TameFit DEF q

\* One operation completes.
LEMMA CompletesStep ==
  ASSUME ReplayInv, NEW s \in Sides, NEW x, NEW c, NEW m, Waits(s, x),
         Done(x, c, m) \in Handlers(opts, s), Completes(s, x, c, m), opts' = opts,
         lines' \in 0 .. opts.lines, signals' \in 0 .. opts.signals, WireOK(wire')
  PROVE  ReplayInv'
  <1>0. side = [p \in Sides |-> side[p]]
    BY DEF ReplayInv
  <1>1. /\ side' = [p \in Sides |-> side'[p]] /\ side'[s] = Completed(s, x, c, m)
        /\ \A p \in Sides : p # s => side'[p] = side[p]
    BY <1>0 DEF Completes, Completed
  <1>2. Fit("live", s, side'[s])
    BY <1>1, CompletedFit
  <1> QED BY <1>1, <1>2, WorldSteps

\* What the lemmas above need if nothing else happens.
LEMMA Calm ==
  ReplayInv => /\ WireOK(wire)
               /\ lines \in 0 .. opts.lines /\ signals \in 0 .. opts.signals
  BY DEF ReplayInv, WireOK

\* An operation completes that yields nothing, and nothing else happens.
LEMMA BlankStep ==
  ASSUME ReplayInv, NEW s \in Sides, NEW x \in Ops, NEW c \in Codes, x # "stdin" \/ c # "ok",
         Waits(s, x), Completes(s, x, c, <<>>), UNCHANGED <<opts, wire, lines, signals>>
  PROVE  ReplayInv'
  <1>1. Done(x, c, <<>>) \in Handlers(opts, s)
    BY BlankHandler
  <1>2. WireOK(wire') /\ lines' \in 0 .. opts.lines /\ signals' \in 0 .. opts.signals
    BY Calm
  <1> QED BY <1>1, <1>2, CompletesStep

\* One side is told that an operation has succeeded or failed.
LEMMA SingleSteps ==
  ASSUME ReplayInv,
         \/ Resolves \/ ShutdownCompletes \/ Types_eof
         \/ \E s \in Sides : HandshakeBreaks(s) \/ Expires(s, "timer") \/ Expires(s, "limit")
  PROVE  ReplayInv'
  <1>1. ASSUME NEW s \in Sides, NEW x \in Ops, NEW c \in Codes, x # "stdin" \/ c # "ok",
               Waits(s, x), Completes(s, x, c, <<>>), UNCHANGED <<opts, wire, lines, signals>>
        PROVE  ReplayInv'
    BY <1>1, BlankStep
  <1>2. /\ {"ok", "error", "eof", "short"} \subseteq Codes /\ "client" \in Sides
        /\ {"resolve", "shutdown", "stdin", "handshake", "timer", "limit"} \subseteq Ops
    BY Kinds DEF Codes, Sides
  <1>3. CASE Resolves
    <2>1. PICK c \in {"ok", "error"} : Completes("client", "resolve", c, <<>>)
      BY <1>3 DEF Resolves
    <2> QED BY <1>1, <1>2, <1>3, <2>1 DEF Resolves
  <1>4. CASE ShutdownCompletes BY <1>1, <1>2, <1>4 DEF ShutdownCompletes
  <1>5. CASE Types_eof BY <1>1, <1>2, <1>5 DEF Types_eof
  <1>6. ASSUME NEW s \in Sides, HandshakeBreaks(s) PROVE ReplayInv'
    BY <1>1, <1>2, <1>6 DEF HandshakeBreaks
  <1>7. ASSUME NEW s \in Sides, NEW x \in {"timer", "limit"}, Expires(s, x) PROVE ReplayInv'
    BY <1>1, <1>2, <1>7 DEF Expires
  <1> QED BY <1>3, <1>4, <1>5, <1>6, <1>7

\* Both ends of the connection, or of the handshake, complete.
LEMMA MeetingSteps ==
  ASSUME ReplayInv, Connects \/ Handshakes
  PROVE  ReplayInv'
  <1>0. /\ {"ok", "error"} \subseteq Codes /\ Sides = {"client", "server"}
        /\ {"connect", "accept", "handshake"} \subseteq Ops
    BY Kinds DEF Codes, Sides
  <1>1. ASSUME NEW x, NEW y, {x, y} \subseteq {"connect", "accept", "handshake"},
               NEW c \in {"ok", "error"}, Waits("client", x), Waits("server", y),
               side' = [s \in Sides |-> Completed(s, IF s = "client" THEN x ELSE y, c, <<>>)],
               UNCHANGED <<opts, wire, lines, signals>>
        PROVE  ReplayInv'
    <2>1. /\ Done(x, c, <<>>) \in Handlers(opts, "client")
          /\ Done(y, c, <<>>) \in Handlers(opts, "server")
      BY <1>0, <1>1, BlankHandler
    <2>2. /\ Fit("live", "client", Completed("client", x, c, <<>>))
          /\ Fit("live", "server", Completed("server", y, c, <<>>))
      BY <1>0, <1>1, <2>1, CompletedFit
    <2>3. /\ side'["client"] = Completed("client", x, c, <<>>)
          /\ side'["server"] = Completed("server", y, c, <<>>)
          /\ side' = [p \in Sides |-> side'[p]]
      BY <1>0, <1>1
    <2>4. \A p \in Sides : Fit("live", p, side'[p])
      BY <1>0, <2>2, <2>3
    <2>5. WireOK(wire') /\ lines' \in 0 .. opts.lines /\ signals' \in 0 .. opts.signals
      BY <1>1, Calm
    <2> QED BY <1>1, <2>3, <2>4, <2>5, WorldSteps
  <1>2. CASE Connects /\ Waits("server", "accept")
    <2>1. side' = [s \in Sides |->
             Completed(s, IF s = "client" THEN "connect" ELSE "accept", "ok", <<>>)]
      BY <1>2 DEF Connects, Completed
    <2> QED BY <1>1, <1>2, <2>1 DEF Connects
  <1>3. CASE Connects /\ ~Waits("server", "accept")
    BY <1>0, <1>3, BlankStep DEF Connects
  <1>4. CASE Handshakes
    <2>1. PICK c \in {"ok", "error"} : side' = [s \in Sides |->
               [side[s] EXCEPT !.wait = @ \ {"handshake"},
                               !.loop = Append(@, Done("handshake", c, <<>>))]]
      BY <1>4 DEF Handshakes
    <2>2. side' = [s \in Sides |->
             Completed(s, IF s = "client" THEN "handshake" ELSE "handshake", c, <<>>)]
      BY <2>1 DEF Completed
    <2> QED BY <1>0, <1>1, <1>4, <2>2 DEF Handshakes
  <1> QED BY <1>2, <1>3, <1>4

\* The user types a line.
LEMMA LineStep ==
  ASSUME ReplayInv, Types_line PROVE ReplayInv'
  <1>1. PICK l \in Lines : Completes("client", "stdin", "ok", l)
    BY DEF Types_line
  <1>2. Done("stdin", "ok", l) \in Handlers(opts, "client")
    <2>1. l \in Fits
      BY ReplayAssumption DEF Fits
    <2> QED BY <2>1, Kinds DEF Handlers, Heard, Done, Codes
  <1>3. WireOK(wire') /\ lines' \in 0 .. opts.lines /\ signals' \in 0 .. opts.signals
    <2>1. opts.lines \in Nat
      BY ReplayAssumption DEF ReplayInv, OptsOK, ConfigsOf
    <2> QED BY <2>1, Calm DEF Types_line
  <1> QED BY <1>1, <1>2, <1>3, CompletesStep DEF Types_line, Sides

\* A signal completes every wait for one.
LEMMA SignalStep ==
  ASSUME ReplayInv, NEW s \in Sides, Signal(s) PROVE ReplayInv'
  <1> DEFINE r == side[s]
             S == r.wait \cap {"signal", "main_signal"}
             q == [r EXCEPT !.wait = r.wait \ S, !.loop = r.loop \o Several(S, "ok")]
  <1>0. side = [p \in Sides |-> side[p]]
    BY DEF ReplayInv
  <1>1. Fit("live", s, r)
    BY DEF ReplayInv, Signal, Running, Fit
  <1>2. S \in SUBSET r.wait /\ r.wait \ S \subseteq r.wait /\ (r.wait \ S) \cap S = {}
        /\ "ok" \in Codes /\ "stdin" \notin S
    BY DEF Codes
  <1>3. side' = [side EXCEPT ![s] = q]
    BY DEF Signal, Several
  <1> HIDE DEF S, r
  <1>4. Fit("live", s, q)
    BY <1>1, <1>2, SeveralComplete
  <1> HIDE DEF q
  <1>5. /\ side' = [p \in Sides |-> side'[p]] /\ side'[s] = q
        /\ \A p \in Sides : p # s => side'[p] = side[p]
    BY <1>0, <1>3
  <1>6. WireOK(wire') /\ lines' \in 0 .. opts.lines /\ signals' \in 0 .. opts.signals
    <2>1. opts.signals \in Nat
      BY ReplayAssumption DEF ReplayInv, OptsOK, ConfigsOf
    <2> QED BY <2>1, Calm DEF Signal
  <1> QED BY <1>4, <1>5, <1>6, WorldSteps DEF Signal

\* What is written may be read by the peer.
LEMMA MessageFits ==
  ASSUME ReplayInv, NEW s \in Sides, NEW x \in Writes, Waits(s, x)
  PROVE  /\ Message(s, x) \in Seq(Octet)
         /\ opts.ssl => Message(s, x) \in Own(opts, s)
  <1> DEFINE r == side[s]
  <1>1. SideInv(opts, s, r) /\ r \in Programs(opts, s) /\ x \in r.wait
    BY DEF ReplayInv, Waits, SideInv
  <1>2. BufferSize \in Nat /\ BufferSize > 3
    BY ReplayAssumption
  <1>3. CASE x = "write"
    <2>1. r.queue \in Seq(Own(opts, s)) /\ r.queue # <<>>
      BY <1>1, <1>3 DEF SideInv, Programs, Active
    <2>2. Head(r.queue) \in Own(opts, s)
      BY <2>1
    <2> QED BY <1>3, <2>2, OwnFits DEF Message, Fits
  <1>4. CASE x = "echo"
    <2>1. r.echo \in Fits /\ (opts.ssl => r.echo \in Echoed) /\ (s = "client" => r.echo = <<>>)
      BY <1>1, <1>2 DEF SideInv, Programs, Fits, Echoed
    <2>2. r.echo \in Seq(Octet) /\ Len(r.echo) \in Nat
      BY <2>1 DEF Fits
    <2>3. <<"S">> \in Seq(Octet) /\ Len(<<"S">>) = 1
      BY DEF Octet
    <2>4. <<"S">> \o r.echo \in Seq(Octet) /\ Len(<<"S">> \o r.echo) = 1 + Len(r.echo)
      BY <2>2, <2>3, ConcatProperties
    <2>5. s = "client" => Len(r.echo) = 0
      BY <2>1
    <2>6. opts.ssl => <<"S">> \o r.echo \in Own(opts, s)
      <3> DEFINE e == <<"S">> \o r.echo
      <3>1. e \in Seq(Octet) /\ Len(e) = 1 + Len(r.echo)
        BY <2>4
      <3> SUFFICES ASSUME opts.ssl PROVE e \in Own(opts, s)
        OBVIOUS
      <3> HIDE DEF e
      <3>2. CASE s = "client"
        <4>1. Len(e) = 1
          BY <2>5, <3>1, <3>2
        <4>2. Len(e) < BufferSize /\ Len(e) <= BufferSize
          BY <1>2, <4>1
        <4> QED BY <3>1, <4>2 DEF Own, Echoed, Fits
      <3>3. CASE s # "client"
        <4>1. Len(r.echo) < BufferSize
          BY <2>1, <3>3 DEF Echoed
        <4>2. e \in Fits
          BY <1>2, <2>2, <3>1, <4>1 DEF Fits
        <4> QED BY <3>3, <4>2 DEF Own
      <3> QED BY <3>2, <3>3
    <2> QED BY <1>4, <2>4, <2>6 DEF Message
  <1>5. CASE x \in {"last", "bye"}
    <2>1. /\ GoodBye \in Seq(Octet) /\ Len(GoodBye) = 3
          /\ LastWords(s) \in Seq(Octet) /\ Len(LastWords(s)) \in {1, 3}
      <3>1. <<"S", "x", "g">> \in Seq(Octet) /\ Len(<<"S", "x", "g">>) = 3
        BY DEF Octet
      <3>2. <<"g", "cr", "nl">> \in Seq(Octet) /\ Len(<<"g", "cr", "nl">>) = 3
        BY DEF Octet
      <3>3. <<"d">> \in Seq(Octet) /\ Len(<<"d">>) = 1
        BY DEF Octet
      <3> QED BY <3>1, <3>2, <3>3 DEF GoodBye, LastWords
    <2>2. Message(s, x) = GoodBye \/ Message(s, x) = LastWords(s)
      BY <1>5 DEF Message
    <2>3. Message(s, x) \in Echoed /\ Message(s, x) \in Fits
      <3>1. Message(s, x) \in Seq(Octet) /\ Len(Message(s, x)) \in {1, 3}
        BY <2>1, <2>2
      <3>2. Len(Message(s, x)) < BufferSize /\ Len(Message(s, x)) <= BufferSize
        <4> DEFINE n == Len(Message(s, x))
        <4>1. n = 1 \/ n = 3
          BY <3>1
        <4> HIDE DEF n
        <4>2. n < BufferSize /\ n <= BufferSize
          BY <1>2, <4>1
        <4> QED BY <4>2 DEF n
      <3> QED BY <3>1, <3>2 DEF Echoed, Fits
    <2> QED BY <2>3 DEF Own, Fits
  <1> QED BY <1>3, <1>4, <1>5 DEF Writes

\* A write succeeds, or fails.
LEMMA TransmitsStep ==
  ASSUME ReplayInv, NEW s \in Sides, NEW x \in Writes, Transmits(s, x)
  PROVE  ReplayInv'
  <1>1. x \in Ops /\ x # "stdin" /\ {"ok", "error"} \subseteq Codes /\ Waits(s, x)
    BY Kinds DEF Writes, Codes, Transmits
  <1>2. CASE Completes(s, x, "error", <<>>) /\ wire' = wire
    BY <1>1, <1>2, BlankStep DEF Transmits
  <1>3. CASE Completes(s, x, "ok", <<>>) /\ wire' = [wire EXCEPT ![s] = Sent(@, Message(s, x))]
    <2> DEFINE m == Message(s, x)
               w == wire[s]
    <2>1. m \in Seq(Octet) /\ (opts.ssl => m \in Own(opts, s))
      BY <1>1, MessageFits
    <2>2. /\ WireOK(wire) /\ w \in Seq(Seq(Octet)) /\ (opts.ssl => w \in Seq(Own(opts, s)))
      BY Calm DEF WireOK
    <2>3. Done(x, "ok", <<>>) \in Handlers(opts, s)
      BY <1>1, BlankHandler
    <2> HIDE DEF m
    <2>4. Append(w, m) \in Seq(Seq(Octet)) /\ (opts.ssl => Append(w, m) \in Seq(Own(opts, s)))
      BY <2>1, <2>2
    <2>5. w # <<>> => <<Head(w) \o m>> \in Seq(Seq(Octet))
      <3>1. ASSUME w # <<>> PROVE Head(w) \in Seq(Octet)
        BY <2>2, <3>1
      <3>2. ASSUME w # <<>> PROVE Head(w) \o m \in Seq(Octet)
        BY <2>1, <3>1, <3>2, ConcatProperties
      <3> QED BY <3>2
    <2>6. Sent(w, m) \in Seq(Seq(Octet)) /\ (opts.ssl => Sent(w, m) \in Seq(Own(opts, s)))
      BY <2>4, <2>5 DEF Sent
    <2>7. wire' = [wire EXCEPT ![s] = Sent(w, m)]
      BY <1>3 DEF m
    <2>8. WireOK(wire')
      BY <2>2, <2>6, <2>7 DEF WireOK
    <2> QED BY <1>1, <1>3, <2>3, <2>8, Calm, CompletesStep DEF Transmits
  <1> QED BY <1>2, <1>3 DEF Transmits

\* What a side may send its peer may receive.
LEMMA PeerSide ==
  ASSUME NEW s \in Sides
  PROVE  Peer(s) \in Sides /\ (opts.ssl => Own(opts, Peer(s)) \subseteq Heard(opts, s))
  <1>1. Echoed \subseteq Fits
    BY ReplayAssumption DEF Echoed, Fits
  <1> QED BY <1>1 DEF Peer, Sides, Own, Heard

\* A read yields a message, or a piece of the stream.
LEMMA ArrivesStep ==
  ASSUME ReplayInv, NEW s \in Sides, NEW x \in Reads, Arrives(s, x)
  PROVE  ReplayInv'
  <1> DEFINE p == Peer(s)
             w == wire[p]
  <1>1. /\ x \in Ops /\ x # "stdin" /\ "ok" \in Codes /\ Waits(s, x) /\ p \in Sides /\ w # <<>>
        /\ UNCHANGED <<opts, lines, signals>>
    BY Kinds, PeerSide DEF Reads, Codes, Arrives
  <1>2. /\ WireOK(wire) /\ wire \in [Sides -> Seq(Seq(Octet))]
        /\ w \in Seq(Seq(Octet)) /\ (opts.ssl => w \in Seq(Own(opts, p)))
    BY <1>1, Calm DEF WireOK
  <1>3. ASSUME NEW m \in Heard(opts, s) PROVE Done(x, "ok", m) \in Handlers(opts, s)
    BY <1>1, <1>3 DEF Handlers, Done
  <1>4. ASSUME NEW v \in Seq(Seq(Octet)), opts.ssl => v \in Seq(Own(opts, p)),
               wire' = [wire EXCEPT ![p] = v]
        PROVE  WireOK(wire')
    BY <1>1, <1>2, <1>4 DEF WireOK
  <1>5. CASE opts.ssl
    <2>1. Completes(s, x, "ok", Head(w)) /\ wire' = [wire EXCEPT ![p] = Tail(w)]
      BY <1>5 DEF Arrives
    <2>2. /\ Head(w) \in Own(opts, p)
          /\ Tail(w) \in Seq(Seq(Octet)) /\ Tail(w) \in Seq(Own(opts, p))
      BY <1>1, <1>2, <1>5
    <2>3. Done(x, "ok", Head(w)) \in Handlers(opts, s)
      BY <1>3, <1>5, <2>2, PeerSide
    <2>4. WireOK(wire')
      BY <1>4, <2>1, <2>2
    <2> QED BY <1>1, <2>1, <2>3, <2>4, Calm, CompletesStep
  <1>6. CASE ~opts.ssl
    <2> DEFINE t == Head(w)
    <2>1. PICK n \in 1 .. Len(t) :
            /\ n <= BufferSize
            /\ Completes(s, x, "ok", SubSeq(t, 1, n))
            /\ wire' = [wire EXCEPT ![p] = IF n = Len(t) THEN <<>>
                                           ELSE <<SubSeq(t, n + 1, Len(t))>>]
      BY <1>6 DEF Arrives
    <2>2. t \in Seq(Octet) /\ Len(t) \in Nat /\ n \in Nat /\ n <= Len(t)
      BY <1>1, <1>2
    <2> HIDE DEF t
    <2>3. SubSeq(t, 1, n) \in Seq(Octet) /\ Len(SubSeq(t, 1, n)) = n
      BY <2>2
    <2>4. SubSeq(t, n + 1, Len(t)) \in Seq(Octet)
      BY <2>2
    <2>5. SubSeq(t, 1, n) \in Heard(opts, s)
      BY <1>6, <2>1, <2>3 DEF Heard, Fits
    <2>6. Done(x, "ok", SubSeq(t, 1, n)) \in Handlers(opts, s)
      BY <1>3, <2>5
    <2>7. WireOK(wire')
      <3> DEFINE v == IF n = Len(t) THEN <<>> ELSE <<SubSeq(t, n + 1, Len(t))>>
      <3>1. v \in Seq(Seq(Octet)) /\ wire' = [wire EXCEPT ![p] = v]
        BY <2>1, <2>4
      <3> QED BY <1>4, <1>6, <3>1
    <2> QED BY <1>1, <2>1, <2>6, <2>7, Calm, CompletesStep
  <1> QED BY <1>5, <1>6

\* A read meets the end of the connection.
LEMMA PeerEndsStep ==
  ASSUME ReplayInv, NEW s \in Sides, NEW x \in Reads, PeerEnds(s, x)
  PROVE  ReplayInv'
  <1>1. /\ x \in Ops /\ x # "stdin" /\ {"short", "eof", "error"} \subseteq Codes
        /\ Waits(s, x) /\ Peer(s) \in Sides /\ UNCHANGED <<opts, lines, signals>>
    BY Kinds, PeerSide DEF Reads, Codes, PeerEnds
  <1>2. PICK c \in {"short", "eof", "error"} :
          /\ Completes(s, x, c, <<>>)
          /\ wire' = wire \/ wire' = [wire EXCEPT ![Peer(s)] = <<>>]
    BY DEF PeerEnds
  <1>3. Done(x, c, <<>>) \in Handlers(opts, s)
    BY <1>1, BlankHandler
  <1>4. WireOK(wire')
    <2>1. WireOK(wire)
      BY Calm
    <2>2. <<>> \in Seq(Seq(Octet)) /\ <<>> \in Seq(Own(opts, Peer(s)))
      OBVIOUS
    <2> QED BY <1>1, <1>2, <2>1, <2>2 DEF WireOK
  <1> QED BY <1>1, <1>2, <1>3, <1>4, Calm, CompletesStep

\* The two programs as they are started.
LEMMA StartFits ==
  ASSUME NEW o, OptsOK(o)
  PROVE  /\ SideInv(o, "client", ClientMain(o)) /\ SideInv(o, "server", ServerMain(o))
         /\ ClientMain(o).session # "gone" /\ ServerMain(o).session # "gone"
  <1>1. BufferSize \in Nat /\ BufferSize > 3
    BY ReplayAssumption
  <1>2. [i \in 1 .. BufferSize |-> "0"] \in Buffers
    <2>1. [i \in 1 .. BufferSize |-> "0"] \in Seq(Octet)
      BY <1>1 DEF Octet
    <2>2. Len([i \in 1 .. BufferSize |-> "0"]) = BufferSize
      BY <1>1
    <2> QED BY <2>1, <2>2 DEF Buffers
  <1>3. <<>> \in Fits /\ <<>> \in Echoed /\ <<>> \in Seq(Octet)
    BY <1>1 DEF Fits, Echoed
  <1> DEFINE Live(W) == [Idle EXCEPT !.session = "live", !.wait = W]
             None(W) == [Idle EXCEPT !.wait = W]
  <1>4. ASSUME NEW s, NEW W \in SUBSET Ops
        PROVE  /\ Live(W) \in Programs(o, s) /\ None(W) \in Programs(o, s)
               /\ \A r \in {Live(W), None(W)} :
                    /\ r.wait = W /\ r.loop = <<>> /\ r.queue = <<>> /\ r.pos = 0
                    /\ r.echo = <<>> /\ r.session # "gone"
    <2>1. /\ <<>> \in Seq(Handlers(o, s)) /\ <<>> \in Seq(Own(o, s))
          /\ <<>> \in Seq(Records(Fits)) /\ "none" \in Conns /\ "running" \in Statuses
          /\ "none" \in SessionStates /\ "live" \in SessionStates
      BY DEF Conns, Statuses, SessionStates
    <2> DEFINE D == [i \in 1 .. BufferSize |-> "0"]
    <2>2. D \in Buffers
      BY <1>2
    <2>3. Idle = [wait |-> {}, loop |-> <<>>, conn |-> "none", queue |-> <<>>, pos |-> 0,
                  expected |-> <<>>, echo |-> <<>>, data |-> D, signaled |-> FALSE,
                  log |-> <<>>, session |-> "none", status |-> "running"]
      BY DEF Idle
    <2> HIDE DEF D
    <2>4. Live(W) \in Programs(o, s) /\ None(W) \in Programs(o, s)
      BY <1>3, <1>4, <2>1, <2>2, <2>3 DEF Programs
    <2> QED BY <2>3, <2>4
  <1> HIDE DEF Live, None
  <1>5. ASSUME NEW s \in Sides, NEW r, r \in Programs(o, s), r.loop = <<>>, r.queue = <<>>,
               r.pos = 0, r.echo = <<>>, "write" \notin r.wait, "echo" \notin r.wait,
               r.wait \cap Chain \subseteq Opening,
               \A x, y \in r.wait : x \in Chain /\ y \in Chain => x = y
        PROVE  SideInv(o, s, r)
    <2>1. \A x : Active(x, r.wait, r.loop) <=> x \in r.wait
      BY <1>5 DEF Active
    <2>2. One({"write"}, r.wait, r.loop) /\ One(Chain, r.wait, r.loop)
      BY <1>5 DEF One
    <2>3. Len(o.trace) \in Nat
      BY DEF OptsOK, ConfigsOf
    <2>4. "timer" \notin r.wait /\ "read" \notin r.wait
      BY <1>5, Kinds
    <2> QED BY <1>5, <2>1, <2>2, <2>3, <2>4 DEF SideInv
  <1>6. SideInv(o, "client", ClientMain(o)) /\ ClientMain(o).session # "gone"
    <2> DEFINE W == {"signal", "resolve"} \cup (IF o.client = "keyboard" THEN {"stdin"} ELSE {})
               r == ClientMain(o)
    <2>1. /\ W \subseteq Ops /\ "write" \notin W /\ "echo" \notin W
          /\ W \cap Chain \subseteq Opening
          /\ \A x, y \in W : x \in Chain /\ y \in Chain => x = y
      BY Kinds
    <2> HIDE DEF W
    <2>2. r = Live(W)
      BY DEF ClientMain, W, Live
    <2>3. r \in Programs(o, "client")
      BY <1>4, <2>1, <2>2
    <2>4. /\ r.wait = W /\ r.loop = <<>> /\ r.queue = <<>> /\ r.pos = 0 /\ r.echo = <<>>
          /\ r.session # "gone"
      BY <1>4, <2>1, <2>2
    <2> QED BY <1>5, <2>1, <2>3, <2>4 DEF Sides
  <1>7. SideInv(o, "server", ServerMain(o)) /\ ServerMain(o).session # "gone"
    <2> DEFINE W == {"main_signal", "accept"} \cup (IF o.limit THEN {"limit"} ELSE {})
               r == ServerMain(o)
    <2>1. /\ W \subseteq Ops /\ "write" \notin W /\ "echo" \notin W
          /\ W \cap Chain \subseteq Opening
          /\ \A x, y \in W : x \in Chain /\ y \in Chain => x = y
      BY Kinds
    <2> HIDE DEF W
    <2>2. r = None(W)
      BY DEF ServerMain, W, None
    <2>3. r \in Programs(o, "server")
      BY <1>4, <2>1, <2>2
    <2>4. /\ r.wait = W /\ r.loop = <<>> /\ r.queue = <<>> /\ r.pos = 0 /\ r.echo = <<>>
          /\ r.session # "gone"
      BY <1>4, <2>1, <2>2
    <2> QED BY <1>5, <2>1, <2>3, <2>4 DEF Sides
  <1> QED BY <1>6, <1>7

Started(o, d, w, l, g) ==
    /\ d = [client |-> ClientMain(o), server |-> ServerMain(o)]
    /\ w = [s \in Sides |-> <<>>] /\ l = 0 /\ g = 0

\* All of the state at the start.
LEMMA StartedFacts ==
  ASSUME NEW o, OptsOK(o), NEW d, NEW w, NEW l, NEW g, Started(o, d, w, l, g)
  PROVE  /\ l \in 0 .. o.lines /\ g \in 0 .. o.signals
         /\ d \in [Sides -> Programs(o, "client") \cup Programs(o, "server")]
         /\ \A s \in Sides : SideInv(o, s, d[s]) /\ d[s].session # "gone"
         /\ w \in [Sides -> Seq(Seq(Octet))]
         /\ \A s \in Sides : w[s] \in Seq(Own(o, s))
  <1>1. l \in 0 .. o.lines /\ g \in 0 .. o.signals
    BY ReplayAssumption DEF Started, OptsOK, ConfigsOf
  <1>2. d["client"] = ClientMain(o) /\ d["server"] = ServerMain(o) /\ DOMAIN d = Sides
    BY DEF Started, Sides
  <1>3. \A s \in Sides : SideInv(o, s, d[s]) /\ d[s].session # "gone"
    BY <1>2, StartFits DEF Sides
  <1>4. \A s \in Sides : d[s] \in Programs(o, "client") \cup Programs(o, "server")
    BY <1>3 DEF SideInv, Sides
  <1>5. d \in [Sides -> Programs(o, "client") \cup Programs(o, "server")]
    <2>1. d = [s \in Sides |-> d[s]]
      BY <1>2 DEF Started, Sides
    <2> QED BY <1>4, <2>1
  <1>6. \A s \in Sides : w[s] = <<>>
    BY DEF Started
  <1>7. w \in [Sides -> Seq(Seq(Octet))]
    BY DEF Started
  <1> QED BY <1>1, <1>3, <1>5, <1>6, <1>7

\* The invariant holds when the programs start, ...
LEMMA InitReplay ==
  ASSUME Init PROVE ReplayInv
  <1>1. OptsOK(opts)
    <2>1. opts \in Configs
      BY DEF Init
    <2>2. /\ opts \in ConfigsOf(Seq(Records(IF opts.server = "echo" THEN Echoed ELSE Fits)))
          /\ "replay" \in {opts.client, opts.server} =>
                opts.trace # <<>> /\ Last(opts.trace).type = "END_OF_FILE"
      BY <2>1, ReplayAssumption
    <2> QED BY <2>2 DEF OptsOK, Last
  <1>2. Started(opts, side, wire, lines, signals)
    BY DEF Init, Started
  <1> QED BY <1>1, <1>2, StartedFacts DEF ReplayInv, Sides

\* ... when they start again with the trace that was recorded: it is typed and ends with
\* END_OF_FILE, ...
LEMMA ReplayRecordedStep ==
  ASSUME ReplayInv, ReplayRecorded PROVE ReplayInv'
  <1> DEFINE g == side["client"].log
  <1>1. g \in Seq(Records(Fits)) /\ g # <<>> /\ g[Len(g)].type = "END_OF_FILE"
    BY DEF ReplayInv, SideInv, Programs, ReplayRecorded, Recorded, Sides
  <1>2. opts' = [Basic(g) EXCEPT !.limit = FALSE]
    BY DEF ReplayRecorded
  <1> HIDE DEF g
  <1>3. opts' \in ConfigsOf(Seq(Records(Fits))) /\ opts'.server = "replay" /\ opts'.trace = g
    <2>1. opts' = [client |-> "replay", server |-> "replay", ssl |-> TRUE, limit |-> FALSE,
                   log |-> FALSE, faulty |-> FALSE, lines |-> 0, signals |-> 0, trace |-> g]
      BY <1>2 DEF Basic
    <2>2. 0 \in 0 .. Bound
      BY ReplayAssumption
    <2> QED BY <1>1, <2>1, <2>2 DEF ConfigsOf, ClientModes, ServerModes
  <1>4. OptsOK(opts')
    BY <1>1, <1>3 DEF OptsOK
  <1>5. Started(opts', side', wire', lines', signals')
    BY DEF ReplayRecorded, Started
  <1> QED BY <1>4, <1>5, StartedFacts DEF ReplayInv, Sides


\* ... after every handler, ...
LEMMA HandlerStep ==
  ASSUME ReplayInv, Handler PROVE ReplayInv'
  <1>1. CASE ClientHandler
    BY <1>1, OpeningSteps, ClientReads, ClientEnds DEF ClientHandler
  <1>2. CASE ServerHandler
    BY <1>2, ServerOpens, ServerReads, ServerEnds DEF ServerHandler
  <1>3. ASSUME NEW s \in Sides, written(s) \/ limit(s) \/ run_returns(s) \/ finish(s)
        PROVE  ReplayInv'
    BY <1>3, WrittenStep, LimitStep, FinishStep
  <1> QED BY <1>1, <1>2, <1>3 DEF Handler

\* ... and after every step of the network, of the timers and of the user.
LEMMA OutsideStep ==
  ASSUME ReplayInv, Network \/ Limit \/ User PROVE ReplayInv'
  <1>1. CASE Resolves \/ Connects \/ Handshakes \/ ShutdownCompletes
    BY <1>1, SingleSteps, MeetingSteps
  <1>2. ASSUME NEW s \in Sides, HandshakeBreaks(s) \/ Expires(s, "timer") \/ Expires(s, "limit")
        PROVE  ReplayInv'
    BY <1>2, SingleSteps
  <1>3. ASSUME NEW s \in Sides, NEW x \in Writes, Transmits(s, x) PROVE ReplayInv'
    BY <1>3, TransmitsStep
  <1>4. ASSUME NEW s \in Sides, NEW x \in Reads, Arrives(s, x) \/ PeerEnds(s, x)
        PROVE  ReplayInv'
    BY <1>4, ArrivesStep, PeerEndsStep
  <1>5. CASE Network
    BY <1>1, <1>2, <1>3, <1>4, <1>5 DEF Network
  <1>6. CASE Limit
    BY <1>2, <1>6 DEF Limit
  <1>7. CASE User
    BY <1>7, LineStep, SignalStep, SingleSteps DEF User
  <1> QED BY <1>5, <1>6, <1>7

\* The invariant is inductive.
LEMMA ReplayStep ==
  ASSUME ReplayInv, [Next]_vars PROVE ReplayInv'
  <1>1. CASE Next
    BY <1>1, HandlerStep, OutsideStep, ReplayRecordedStep DEF Next
  <1>2. CASE UNCHANGED vars
    BY <1>2 DEF vars, ReplayInv
  <1> QED BY <1>1, <1>2

\* Two sets of which one is empty, and the other has one element at most.
LEMMA AtMostOne ==
  ASSUME NEW A, NEW B, \A x, y \in A : x = y, \A x, y \in B : x = y, A = {} \/ B = {}
  PROVE  Cardinality(A) + Cardinality(B) <= 1
  <1>1. ASSUME NEW S, \A x, y \in S : x = y PROVE S = {} \/ \E x : S = {x}
    BY <1>1
  <1>2. ASSUME NEW S, \A x, y \in S : x = y PROVE Cardinality(S) \in {0, 1}
    BY <1>1, <1>2, FS_EmptySet, FS_Singleton, ZenonT(30)
  <1>3. Cardinality(A) = 0 \/ Cardinality(B) = 0
    BY FS_EmptySet
  <1> QED BY <1>2, <1>3

\* The invariant gives the types.
LEMMA ReplayTypes ==
  ASSUME ReplayInv PROVE TypeOK
  <1>1. opts \in ConfigsOf({opts.trace})
    BY DEF ReplayInv, OptsOK, ConfigsOf
  <1>2. lines \in 0 .. opts.lines /\ signals \in 0 .. opts.signals
    BY DEF ReplayInv
  <1>3. ASSUME NEW s \in Sides
        PROVE  /\ side[s].wait \subseteq Ops
               /\ side[s].conn \in {"none", "connecting", "handshaking", "open",
                                    "shutdown", "closed"}
               /\ side[s].pos <= Len(opts.trace)
               /\ Len(side[s].data) = BufferSize /\ Range(side[s].data) \subseteq Octet
               /\ side[s].session \in {"none", "live", "destroyed", "gone"}
               /\ side[s].status \in {"running", "returned", "mismatch", "limit",
                                      "cancel", "disconnect", "undefined"}
    <2>1. SideInv(opts, s, side[s]) /\ side[s] \in Programs(opts, s)
      BY DEF ReplayInv, SideInv
    <2>2. Len(opts.trace) \in Nat
      BY DEF ReplayInv, OptsOK, ConfigsOf
    <2>3. side[s].pos <= Len(opts.trace)
      BY <2>1, <2>2 DEF SideInv
    <2>4. side[s].data \in Seq(Octet) /\ Len(side[s].data) = BufferSize
      BY <2>1 DEF Programs, Buffers
    <2>5. Range(side[s].data) \subseteq Octet
      BY <2>4 DEF Range
    <2> QED BY <2>1, <2>3, <2>4, <2>5 DEF Programs, Conns, SessionStates, Statuses
  <1>4. ASSUME NEW s \in Sides, NEW i \in 1 .. Len(side[s].loop)
        PROVE  /\ side[s].loop[i].op \in Ops /\ side[s].loop[i].code \in Codes
               /\ Range(side[s].loop[i].octets) \subseteq Octet
    <2> DEFINE h == side[s].loop[i]
    <2>1. side[s].loop \in Seq(Handlers(opts, s))
      BY DEF ReplayInv, SideInv, Programs
    <2>2. h \in Handlers(opts, s)
      BY <1>4, <2>1
    <2>3. h.op \in Ops /\ h.code \in Codes /\ h.octets \in Heard(opts, s)
      BY <2>2 DEF Handlers
    <2>4. h.octets \in Seq(Octet)
      BY <2>3 DEF Heard, Fits, Echoed
    <2> HIDE DEF h
    <2>5. Range(h.octets) \subseteq Octet
      BY <2>4 DEF Range
    <2> QED BY <2>3, <2>5 DEF h
  <1> QED BY <1>1, <1>2, <1>3, <1>4 DEF TypeOK

\* A replay is one chain, whatever the trace, the options, the network, the user and
\* the signals: of the timer, the read and the wait for the disconnect one at most is
\* outstanding or queued on a replaying side, and the members of both programs keep
\* their types.
THEOREM ReplayIsSequentialAlways == Spec => []ReplayIsSequential
  <1>1. Init => ReplayInv
    BY InitReplay
  <1>2. ReplayInv /\ [Next]_vars => ReplayInv'
    BY ReplayStep
  <1>3. ReplayInv => ReplayIsSequential
    <2> SUFFICES ASSUME ReplayInv PROVE ReplayIsSequential
      OBVIOUS
    <2> DEFINE chain == Reads \cup {"timer"}
               queued(s) == {i \in 1 .. Len(side[s].loop) : side[s].loop[i].op \in chain}
               waiting(s) == side[s].wait \cap chain
    <2>1. ASSUME NEW s \in Sides, opts[s] = "replay"
          PROVE  Cardinality(waiting(s)) + Cardinality(queued(s)) <= 1
      <3>1. One(Chain, side[s].wait, side[s].loop) /\ side[s].loop \in Seq(Handlers(opts, s))
        BY <2>1 DEF ReplayInv, SideInv, Programs
      <3>2. DOMAIN side[s].loop = 1 .. Len(side[s].loop) /\ chain \subseteq Chain
        BY <3>1, Kinds DEF Reads
      <3>3. /\ \A x, y \in waiting(s) : x = y
            /\ \A x, y \in queued(s) : x = y
            /\ waiting(s) = {} \/ queued(s) = {}
        BY <3>1, <3>2 DEF One
      <3> HIDE DEF waiting, queued
      <3> QED BY <3>3, AtMostOne
    <2> QED BY <2>1, ReplayTypes DEF ReplayIsSequential
  <1> QED BY <1>1, <1>2, <1>3, PTL DEF Spec
-----------------------------------------------------------------------------
\* How often e is in the sequence q.
Count(q, e) == UpTo(q, Len(q), e)

\* Parts of an interval can be counted, and one more element counts one more.
LEMMA PartOfInterval ==
  ASSUME NEW n \in Nat, NEW A \in SUBSET (1 .. n)
  PROVE  /\ IsFiniteSet(A) /\ Cardinality(A) \in Nat
         /\ Cardinality(A \cup {n + 1}) = Cardinality(A) + 1
  <1>1. IsFiniteSet(1 .. n)
    BY FS_Interval
  <1>2. IsFiniteSet(A)
    BY <1>1, FS_Subset
  <1>3. n + 1 \notin A
    OBVIOUS
  <1> QED BY <1>2, <1>3, FS_CardinalityType, FS_AddElement

\* An element is appended.
LEMMA AppendItems ==
  ASSUME NEW T, NEW q \in Seq(T), NEW x \in T
  PROVE  /\ Append(q, x) \in Seq(T) /\ Len(q) \in Nat /\ Len(Append(q, x)) = Len(q) + 1
         /\ 1 .. Len(q) + 1 = (1 .. Len(q)) \cup {Len(q) + 1}
         /\ Append(q, x)[Len(q) + 1] = x
         /\ \A i \in 1 .. Len(q) : Append(q, x)[i] = q[i] /\ q[i] \in T
  OBVIOUS

\* What is counted up to a place that was there before stays the same.
LEMMA AppendUpTo ==
  ASSUME NEW T, NEW q \in Seq(T), NEW x \in T, NEW i \in 0 .. Len(q)
  PROVE  /\ \A e : UpTo(Append(q, x), i, e) = UpTo(q, i, e)
         /\ SentUpTo(Append(q, x), i) = SentUpTo(q, i)
  <1>1. \A k \in 1 .. i : Append(q, x)[k] = q[k]
    BY AppendItems
  <1>2. ASSUME NEW e PROVE {k \in 1 .. i : Append(q, x)[k] = e} = {k \in 1 .. i : q[k] = e}
    BY <1>1
  <1>3. {k \in 1 .. i : Append(q, x)[k].type = "SENT"} = {k \in 1 .. i : q[k].type = "SENT"}
    BY <1>1
  <1> QED BY <1>2, <1>3 DEF UpTo, SentUpTo

\* Numbers.
LEMMA CountNat ==
  ASSUME NEW T, NEW q \in Seq(T), NEW e PROVE Count(q, e) \in Nat
  <1>1. Len(q) \in Nat /\ {k \in 1 .. Len(q) : q[k] = e} \in SUBSET (1 .. Len(q))
    OBVIOUS
  <1> QED BY <1>1, PartOfInterval DEF Count, UpTo

\* One place more: what is counted there.
LEMMA OnePlaceMore ==
  ASSUME NEW n \in Nat, NEW f, NEW g, \A i \in 1 .. n : g[i] = f[i]
  PROVE  /\ \A e : {k \in 1 .. n + 1 : g[k] = e}
                      = IF g[n + 1] = e THEN {k \in 1 .. n : f[k] = e} \cup {n + 1}
                        ELSE {k \in 1 .. n : f[k] = e}
         /\ {k \in 1 .. n + 1 : g[k].type = "SENT"}
               = IF g[n + 1].type = "SENT" THEN {k \in 1 .. n : f[k].type = "SENT"} \cup {n + 1}
                 ELSE {k \in 1 .. n : f[k].type = "SENT"}
  <1>1. 1 .. n + 1 = (1 .. n) \cup {n + 1}
    OBVIOUS
  <1> QED BY <1>1

\* How an appended element counts.
LEMMA CountAppend ==
  ASSUME NEW T, NEW q \in Seq(T), NEW x \in T, NEW e
  PROVE  Count(Append(q, x), e) = Count(q, e) + (IF x = e THEN 1 ELSE 0)
  <1> DEFINE n == Len(q)
             A == {k \in 1 .. n : q[k] = e}
             B == {k \in 1 .. n + 1 : Append(q, x)[k] = e}
  <1>1. n \in Nat /\ A \in SUBSET (1 .. n) /\ Len(Append(q, x)) = n + 1
    BY AppendItems
  <1>2. (x = e => B = A \cup {n + 1}) /\ (x # e => B = A)
    <2>1. Append(q, x)[n + 1] = x /\ \A i \in 1 .. n : Append(q, x)[i] = q[i]
      BY AppendItems
    <2> QED BY <1>1, <2>1, OnePlaceMore
  <1>3. Count(Append(q, x), e) = Cardinality(B) /\ Count(q, e) = Cardinality(A)
    BY <1>1 DEF Count, UpTo
  <1>4. Cardinality(A) \in Nat /\ Cardinality(A \cup {n + 1}) = Cardinality(A) + 1
    BY <1>1, PartOfInterval
  <1> HIDE DEF n, A, B
  <1>5. CASE x = e
    <2>1. Cardinality(B) = Cardinality(A) + 1
      BY <1>2, <1>4, <1>5, Zenon
    <2> QED BY <1>3, <1>4, <1>5, <2>1
  <1>6. CASE ~(x = e)
    <2>1. Cardinality(B) = Cardinality(A)
      BY <1>2, <1>6, Zenon
    <2> QED BY <1>3, <1>4, <1>6, <2>1
  <1> QED BY <1>5, <1>6

\* How an appended record counts.
LEMMA SentAppend ==
  ASSUME NEW T, NEW q \in Seq(T), NEW x \in T
  PROVE  /\ SentUpTo(Append(q, x), Len(q) + 1)
               = SentUpTo(q, Len(q)) + (IF x.type = "SENT" THEN 1 ELSE 0)
         /\ SentUpTo(q, Len(q)) \in Nat
  <1> DEFINE n == Len(q)
             A == {k \in 1 .. n : q[k].type = "SENT"}
             B == {k \in 1 .. n + 1 : Append(q, x)[k].type = "SENT"}
  <1>1. n \in Nat /\ A \in SUBSET (1 .. n)
    BY AppendItems
  <1>2. (x.type = "SENT" => B = A \cup {n + 1}) /\ (x.type # "SENT" => B = A)
    <2>1. Append(q, x)[n + 1] = x /\ \A i \in 1 .. n : Append(q, x)[i] = q[i]
      BY AppendItems
    <2> QED BY <1>1, <2>1, OnePlaceMore
  <1>3. SentUpTo(Append(q, x), n + 1) = Cardinality(B) /\ SentUpTo(q, n) = Cardinality(A)
    BY DEF SentUpTo
  <1>4. Cardinality(A) \in Nat /\ Cardinality(A \cup {n + 1}) = Cardinality(A) + 1
    BY <1>1, PartOfInterval
  <1> HIDE DEF A, B
  <1>5. CASE x.type = "SENT"
    <2>1. Cardinality(B) = Cardinality(A) + 1
      BY <1>2, <1>4, <1>5, Zenon
    <2> QED BY <1>3, <1>4, <1>5, <2>1
  <1>6. CASE ~(x.type = "SENT")
    <2>1. Cardinality(B) = Cardinality(A)
      BY <1>2, <1>6, Zenon
    <2> QED BY <1>3, <1>4, <1>6, <2>1
  <1> QED BY <1>5, <1>6

\* The first element counts once.
LEMMA CountTail ==
  ASSUME NEW T, NEW q \in Seq(T), q # <<>>, NEW e
  PROVE  Count(q, e) = Count(Tail(q), e) + (IF Head(q) = e THEN 1 ELSE 0)
  <1> DEFINE n == Len(Tail(q))
             A == {k \in 1 .. n : Tail(q)[k] = e}
             B == {k \in 2 .. n + 1 : q[k] = e}
             C == {k \in 1 .. n + 1 : q[k] = e}
             f == [k \in A |-> k + 1]
  <1>1. /\ n \in Nat /\ Len(q) = n + 1 /\ Head(q) = q[1]
        /\ \A k \in 1 .. n : Tail(q)[k] = q[k + 1]
    OBVIOUS
  <1>2. A \in SUBSET (1 .. n) /\ IsFiniteSet(A)
    BY <1>1, PartOfInterval
  <1>3. f \in Bijection(A, B)
    <2>1. f \in [A -> B]
      BY <1>1
    <2>2. \A a, b \in A : f[a] = f[b] => a = b
      BY <1>1
    <2>3. \A b \in B : \E a \in A : f[a] = b
      <3> SUFFICES ASSUME NEW b \in B PROVE \E a \in A : f[a] = b
        OBVIOUS
      <3>1. b - 1 \in 1 .. n /\ Tail(q)[b - 1] = q[(b - 1) + 1] /\ (b - 1) + 1 = b
        BY <1>1
      <3>2. b - 1 \in A /\ f[b - 1] = b
        BY <3>1
      <3> QED BY <3>2
    <2> QED BY <2>1, <2>2, <2>3 DEF Bijection, Injection, Surjection, IsInjective
  <1>4. IsFiniteSet(B) /\ Cardinality(B) = Cardinality(A) /\ Cardinality(A) \in Nat
    BY <1>2, <1>3, FS_Bijection, FS_CardinalityType, ZenonT(30) DEF ExistsBijection
  <1>5. (Head(q) = e => C = B \cup {1}) /\ (Head(q) # e => C = B) /\ 1 \notin B
    <2>1. 1 .. n + 1 = (2 .. n + 1) \cup {1} /\ 1 \notin 2 .. n + 1
      BY <1>1
    <2> QED BY <1>1, <2>1
  <1>6. Count(q, e) = Cardinality(C) /\ Count(Tail(q), e) = Cardinality(A)
    BY <1>1 DEF Count, UpTo
  <1> HIDE DEF n, A, B, C, f
  <1> QED BY <1>4, <1>5, <1>6, FS_AddElement

\* What does not occur in the second part of a concatenation.
LEMMA CountConcat ==
  ASSUME NEW T, NEW L \in Seq(T), NEW Q \in Seq(T), NEW e, \A i \in DOMAIN Q : Q[i] # e
  PROVE  Count(L \o Q, e) = Count(L, e)
  <1>1. L \o Q \in Seq(T)
    BY ConcatLoop
  <1>2. DOMAIN (L \o Q) = 1 .. Len(L \o Q) /\ DOMAIN L = 1 .. Len(L)
    BY <1>1
  <1>3. {k \in DOMAIN (L \o Q) : (L \o Q)[k] = e} = {k \in DOMAIN L : L[k] = e}
    BY ConcatLoop
  <1> QED BY <1>2, <1>3 DEF Count, UpTo

-----------------------------------------------------------------------------
\* The records of sent messages in the trace are about the messages g, in their order.
Names(log, g) ==
    /\ SentUpTo(log, Len(log)) = Len(g)
    /\ \A i \in 1 .. Len(log) : log[i].type = "SENT" =>
          SentUpTo(log, i) \in 1 .. Len(g) /\ log[i].message = g[SentUpTo(log, i)]
    /\ \A m \in Typed : Count(log, Record("SENT", m)) = Count(g, m)

\* No write is under way, or one has just succeeded.
Settled(g, r) ==
    /\ Names(r.log, g)
    /\ "write" \notin r.wait
    /\ \A i \in DOMAIN r.loop : r.loop[i].op = "write" => r.loop[i].code = "ok"

\* The write of x is under way or has failed.
Writing(g, x, r) ==
    /\ Names(r.log, Append(g, x))
    /\ r.queue # <<>>
    /\ "write" \in r.wait => x = Head(r.queue)
    /\ \A i \in DOMAIN r.loop : r.loop[i].op = "write" => r.loop[i].code # "ok"

Stage(g, r) == Settled(g, r) \/ \E x \in Fits : Writing(g, x, r)

\* Lines, and when their echoes are looked at.
Lined == Typed \ {LastWords("client")}
Echoing == opts.ssl /\ opts.server = "echo"
EchoRecord(m) == Record("RECEIVED", Echo(m))

\* Up to each echo of m the trace names m as often as the echo.
EchoesFollow(m, log) ==
    \A i \in 1 .. Len(log) : log[i] = EchoRecord(m) =>
       UpTo(log, i, EchoRecord(m)) <= UpTo(log, i, Record("SENT", m))

\* How many copies of m are on the way: as a read of the server or as what it echoes;
\* and as a read of the client or in its trace.
AtServer(m, r) == Count(r.loop, Done("read", "ok", m))
                  + (IF "echo" \in r.wait /\ r.echo = m THEN 1 ELSE 0)
AtClient(m, r) == Count(r.loop, Done("read", "ok", Echo(m))) + Count(r.log, EchoRecord(m))
Carried(m, w) == Count(w["client"], m) + Count(w["server"], Echo(m))

\* Nothing is sent back that was not written.
Flow(m) == Carried(m, wire) + AtServer(m, side["server"]) + AtClient(m, side["client"])
              <= Count(given, m)

TranscriptInv ==
    opts.log =>
       /\ given \in Seq(Fits)
       /\ Stage(given, side["client"])
       /\ Echoing =>
             /\ ~Active("write", side["server"].wait, side["server"].loop)
             /\ \A m \in Lined : EchoesFollow(m, side["client"].log) /\ Flow(m)
-----------------------------------------------------------------------------
Trace == Seq(Records(Fits))

\* A record that is not about a sent message is added, ...
LEMMA NamesOther ==
  ASSUME NEW log \in Trace, NEW g \in Seq(Fits), Names(log, g),
         NEW e \in Records(Fits), e.type # "SENT"
  PROVE  Names(Append(log, e), g)
  <1> DEFINE n == Len(log)
             q == Append(log, e)
  <1>1. /\ log \in Seq(Records(Fits)) /\ n \in Nat /\ Len(q) = n + 1 /\ q[n + 1] = e
        /\ 1 .. n + 1 = (1 .. n) \cup {n + 1} /\ \A i \in 1 .. n : q[i] = log[i] /\ i \in 0 .. n
    BY AppendItems DEF Trace
  <1>2. SentUpTo(q, n + 1) = SentUpTo(log, n) /\ SentUpTo(log, n) \in Nat
    <2>1. SentUpTo(q, n + 1) = SentUpTo(log, n) + 0 /\ SentUpTo(log, n) \in Nat
      BY <1>1, SentAppend
    <2> QED BY <2>1
  <1>3. \A i \in 1 .. n : SentUpTo(q, i) = SentUpTo(log, i)
    BY <1>1, AppendUpTo
  <1>4. ASSUME NEW m \in Typed PROVE Count(q, Record("SENT", m)) = Count(log, Record("SENT", m))
    <2>1. e # Record("SENT", m)
      BY DEF Record
    <2>2. Count(q, Record("SENT", m)) = Count(log, Record("SENT", m)) + 0
      BY <1>1, <2>1, CountAppend
    <2>3. Count(log, Record("SENT", m)) \in Nat
      BY <1>1, CountNat
    <2> QED BY <2>2, <2>3
  <1> HIDE DEF n, q
  <1>5. SentUpTo(q, Len(q)) = Len(g)
    BY <1>1, <1>2 DEF Names, n
  <1>6. ASSUME NEW i \in 1 .. Len(q), q[i].type = "SENT"
        PROVE  SentUpTo(q, i) \in 1 .. Len(g) /\ q[i].message = g[SentUpTo(q, i)]
    <2>1. i \in 1 .. n
      BY <1>1, <1>6
    <2> QED BY <1>1, <1>3, <1>6, <2>1 DEF Names, n
  <1>7. ASSUME NEW m \in Typed PROVE Count(q, Record("SENT", m)) = Count(g, m)
    BY <1>4 DEF Names
  <1>8. Names(q, g)
    BY <1>5, <1>6, <1>7 DEF Names
  <1> QED BY <1>8 DEF q

\* ... or one that is.
LEMMA NamesSent ==
  ASSUME NEW log \in Trace, NEW g \in Seq(Fits), Names(log, g), NEW x \in Fits
  PROVE  Names(Append(log, Record("SENT", x)), Append(g, x))
  <1> DEFINE n == Len(log)
             e == Record("SENT", x)
             q == Append(log, e)
             h == Append(g, x)
  <1>0. e \in Records(Fits) /\ e.type = "SENT" /\ e.message = x
    BY DEF Record, Records, Types
  <1>1. /\ log \in Seq(Records(Fits)) /\ n \in Nat /\ Len(q) = n + 1 /\ q[n + 1] = e
        /\ 1 .. n + 1 = (1 .. n) \cup {n + 1} /\ \A i \in 1 .. n : q[i] = log[i] /\ i \in 0 .. n
    <2> HIDE DEF e
    <2> QED BY <1>0, AppendItems DEF Trace
  <1>2. /\ Len(g) \in Nat /\ Len(h) = Len(g) + 1 /\ h[Len(g) + 1] = x
        /\ \A k \in 1 .. Len(g) : h[k] = g[k] /\ k \in 1 .. Len(h)
        /\ Len(h) \in 1 .. Len(h)
    BY AppendItems
  <1>3. SentUpTo(q, n + 1) = SentUpTo(log, n) + 1 /\ SentUpTo(log, n) = Len(g)
    <2>1. SentUpTo(q, n + 1) = SentUpTo(log, n) + 1
      BY <1>0, <1>1, SentAppend
    <2> QED BY <2>1 DEF Names
  <1>4. \A i \in 1 .. n : SentUpTo(q, i) = SentUpTo(log, i)
    BY <1>0, <1>1, AppendUpTo
  <1>5. ASSUME NEW m \in Typed PROVE Count(q, Record("SENT", m)) = Count(h, m)
    <2>1. e = Record("SENT", m) <=> x = m
      BY DEF Record
    <2>2. Count(q, Record("SENT", m)) = Count(log, Record("SENT", m))
             + (IF e = Record("SENT", m) THEN 1 ELSE 0)
      BY <1>0, <1>1, CountAppend
    <2>3. Count(h, m) = Count(g, m) + (IF x = m THEN 1 ELSE 0)
      BY CountAppend
    <2>4. Count(log, Record("SENT", m)) = Count(g, m)
      BY DEF Names
    <2> HIDE DEF q, h, e
    <2> QED BY <2>1, <2>2, <2>3, <2>4
  <1> HIDE DEF n, q, h
  <1>6. SentUpTo(q, Len(q)) = Len(h)
    BY <1>1, <1>2, <1>3
  <1>7. ASSUME NEW i \in 1 .. Len(q), q[i].type = "SENT"
        PROVE  SentUpTo(q, i) \in 1 .. Len(h) /\ q[i].message = h[SentUpTo(q, i)]
    <2>1. CASE i = n + 1
      <3>1. q[i] = e /\ SentUpTo(q, i) = Len(g) + 1
        BY <1>1, <1>3, <2>1
      <3> QED BY <1>0, <1>2, <3>1
    <2>2. CASE i \in 1 .. n
      <3>1. /\ log[i].type = "SENT" /\ log[i].message = q[i].message
            /\ SentUpTo(q, i) = SentUpTo(log, i)
        BY <1>1, <1>4, <1>7, <2>2
      <3>2. SentUpTo(log, i) \in 1 .. Len(g) /\ log[i].message = g[SentUpTo(log, i)]
        BY <2>2, <3>1 DEF Names, n
      <3> QED BY <1>2, <3>1, <3>2
    <2> QED BY <1>1, <2>1, <2>2
  <1>8. Names(q, h)
    BY <1>5, <1>6, <1>7 DEF Names
  <1> QED BY <1>8 DEF q, h

\* At the start there is nothing.
LEMMA NamesNothing == Names(<<>>, <<>>)
  <1>1. Len(<<>>) = 0 /\ 1 .. 0 = {}
    OBVIOUS
  <1>2. SentUpTo(<<>>, 0) = 0 /\ \A e : UpTo(<<>>, 0, e) = 0
    BY <1>1, FS_EmptySet DEF SentUpTo, UpTo
  <1> QED BY <1>1, <1>2 DEF Names, Count

\* Another record than an echo of m is added, ...
LEMMA FollowOther ==
  ASSUME NEW log \in Trace, NEW m, EchoesFollow(m, log), NEW e \in Records(Fits),
         e # EchoRecord(m)
  PROVE  EchoesFollow(m, Append(log, e))
  <1> DEFINE n == Len(log)
             q == Append(log, e)
  <1>1. /\ log \in Seq(Records(Fits)) /\ n \in Nat /\ Len(q) = n + 1 /\ q[n + 1] = e
        /\ 1 .. n + 1 = (1 .. n) \cup {n + 1} /\ \A i \in 1 .. n : q[i] = log[i] /\ i \in 0 .. n
    BY AppendItems DEF Trace
  <1>2. \A i \in 1 .. n : \A c : UpTo(q, i, c) = UpTo(log, i, c)
    BY <1>1, AppendUpTo
  <1> HIDE DEF n, q
  <1>3. EchoesFollow(m, q)
    BY <1>1, <1>2 DEF EchoesFollow, n
  <1> QED BY <1>3 DEF q

\* ... or an echo that is owed.
LEMMA FollowEcho ==
  ASSUME NEW log \in Trace, NEW m, EchoesFollow(m, log), EchoRecord(m) \in Records(Fits),
         Count(log, EchoRecord(m)) + 1 <= Count(log, Record("SENT", m))
  PROVE  EchoesFollow(m, Append(log, EchoRecord(m)))
  <1> DEFINE n == Len(log)
             e == EchoRecord(m)
             c == Record("SENT", m)
             q == Append(log, e)
  <1>0. e # c
    BY DEF EchoRecord, Record
  <1>1. /\ log \in Seq(Records(Fits)) /\ n \in Nat /\ Len(q) = n + 1
        /\ 1 .. n + 1 = (1 .. n) \cup {n + 1} /\ \A i \in 1 .. n : q[i] = log[i] /\ i \in 0 .. n
    BY AppendItems DEF Trace
  <1>2. \A i \in 1 .. n : \A d : UpTo(q, i, d) = UpTo(log, i, d)
    BY <1>1, AppendUpTo
  <1>3. Count(q, e) = Count(log, e) + 1
    BY <1>1, CountAppend
  <1>4. Count(q, c) = Count(log, c) + 0 /\ Count(log, c) \in Nat
    BY <1>0, <1>1, CountAppend, CountNat
  <1>5. UpTo(q, n + 1, e) <= UpTo(q, n + 1, c)
    <2>1. Count(q, e) <= Count(q, c)
      <3> HIDE DEF e, c, q
      <3>1. Count(log, e) + 1 <= Count(log, c)
        BY DEF e, c
      <3> QED BY <1>3, <1>4, <3>1
    <2> QED BY <1>1, <2>1 DEF Count
  <1> HIDE DEF n, q
  <1>6. EchoesFollow(m, q)
    BY <1>1, <1>2, <1>5 DEF EchoesFollow, n
  <1> QED BY <1>6 DEF q

-----------------------------------------------------------------------------
\* What the client owes to the trace: an echo of m is read or recorded b times at most.
Owed(m, b, r) ==
    Echoing /\ m \in Lined => AtClient(m, r) <= b /\ EchoesFollow(m, r.log)

\* A client whose trace is a transcript of g.
Good(g, m, b, r) ==
    /\ r \in Programs(opts, "client")
    /\ Active("write", r.wait, r.loop) => r.queue # <<>>
    /\ Stage(g, r)
    /\ Owed(m, b, r)

\* The members that matter stay, and no write begins.
LEMMA GoodWait ==
  ASSUME NEW g, NEW m, NEW b, NEW r, Good(g, m, b, r), NEW q \in Programs(opts, "client"),
         q.loop = r.loop, q.log = r.log, q.queue = r.queue,
         "write" \in q.wait => "write" \in r.wait
  PROVE  Good(g, m, b, q)
  <1>1. Active("write", q.wait, q.loop) => Active("write", r.wait, r.loop)
    BY DEF Active
  <1>2. Settled(g, r) => Settled(g, q)
    BY DEF Settled
  <1>3. \A x \in Fits : Writing(g, x, r) => Writing(g, x, q)
    BY DEF Writing
  <1>4. Owed(m, b, q)
    BY DEF Good, Owed, AtClient
  <1> QED BY <1>1, <1>2, <1>3, <1>4 DEF Good, Stage

\* A handler is queued, but of no write that has succeeded and no echo.
LEMMA GoodAppend ==
  ASSUME NEW g, NEW m, NEW b, NEW r, Good(g, m, b, r), NEW q \in Programs(opts, "client"),
         NEW h \in Handlers(opts, "client"), q.loop = Append(r.loop, h),
         q.log = r.log, q.queue = r.queue, "write" \in q.wait => "write" \in r.wait,
         h.op = "write" => "write" \in r.wait /\ h.code # "ok",
         h # Done("read", "ok", Echo(m))
  PROVE  Good(g, m, b, q)
  <1> DEFINE L == r.loop
  <1>0. L \in Seq(Handlers(opts, "client")) /\ r.log \in Trace
    BY DEF Good, Programs, Trace
  <1>1. /\ DOMAIN q.loop = DOMAIN L \cup {Len(L) + 1} /\ q.loop[Len(L) + 1] = h
        /\ \A i \in DOMAIN L : q.loop[i] = L[i]
    BY <1>0, AppendLoop
  <1>2. Active("write", q.wait, q.loop) => Active("write", r.wait, r.loop)
    BY <1>1 DEF Active
  <1>3. Settled(g, r) => Settled(g, q)
    BY <1>1 DEF Settled
  <1>4. \A x \in Fits : Writing(g, x, r) => Writing(g, x, q)
    BY <1>1 DEF Writing
  <1>5. AtClient(m, q) = AtClient(m, r)
    <2> DEFINE e == Done("read", "ok", Echo(m))
    <2>1. e # h
      OBVIOUS
    <2> HIDE DEF e, L
    <2>2. Count(q.loop, e) = Count(L, e) + 0 /\ Count(L, e) \in Nat
      BY <1>0, <2>1, CountAppend, CountNat DEF L
    <2>3. Count(q.loop, e) = Count(L, e)
      BY <2>2
    <2> QED BY <2>3 DEF AtClient, e, L
  <1>6. Owed(m, b, q)
    BY <1>5 DEF Good, Owed
  <1> QED BY <1>2, <1>3, <1>4, <1>6 DEF Good, Stage

\* An operation is started that is no write.
LEMMA BeginGood ==
  ASSUME NEW g, NEW m, NEW b, NEW r, Good(g, m, b, r), NEW x \in Ops, x # "write"
  PROVE  Good(g, m, b, Begin(x, r)) /\ Begin(x, r).pos = r.pos
  <1> DEFINE q == Begin(x, r)
             h == Done(x, "error", <<>>)
  <1>1. r \in Programs(opts, "client")
    BY DEF Good
  <1>2. q \in Programs(opts, "client") /\ q.log = r.log /\ q.queue = r.queue /\ q.pos = r.pos
    BY <1>1, BeginCases
  <1>3. /\ h \in Handlers(opts, "client") /\ h.op = x /\ h.code = "error"
        /\ h # Done("read", "ok", Echo(m))
    BY BlankHandler DEF Codes, Done
  <1>4. \/ q.wait = r.wait \cup {x} /\ q.loop = r.loop
        \/ q.wait = r.wait /\ q.loop = Append(r.loop, h)
    BY <1>1 DEF Begin, Programs
  <1> HIDE DEF q, h
  <1>5. Good(g, m, b, q)
    BY <1>2, <1>3, <1>4, GoodWait, GoodAppend
  <1> QED BY <1>2, <1>5 DEF q

\* The sequence of the handlers of several operations.
LEMMA SeveralHandlers ==
  ASSUME NEW s, NEW S \in SUBSET Ops, NEW c \in Codes, c # "ok" \/ "stdin" \notin S
  PROVE  /\ Several(S, c) \in Seq(Handlers(opts, s))
         /\ \A i \in DOMAIN Several(S, c) : /\ Several(S, c)[i].op \in S
                                            /\ Several(S, c)[i].code = c
  <1> DEFINE H == {Done(x, c, <<>>) : x \in S}
             Q == Several(S, c)
  <1>1. \A h \in H : h \in Handlers(opts, s) /\ h.op \in S /\ h.code = c
    <2>1. ASSUME NEW x \in S
          PROVE  /\ Done(x, c, <<>>) \in Handlers(opts, s) /\ Done(x, c, <<>>).op = x
                 /\ Done(x, c, <<>>).code = c
      BY BlankHandler DEF Done
    <2> QED BY <2>1
  <1>2. Q \in Seq(H)
    BY SeveralFacts
  <1> HIDE DEF H, Q
  <1>3. \A i \in DOMAIN Q : Q[i] \in H
    BY <1>2
  <1>4. H \subseteq Handlers(opts, s)
    BY <1>1
  <1>5. Q \in Seq(Handlers(opts, s))
    BY <1>2, <1>4
  <1> QED BY <1>1, <1>3, <1>5 DEF Q

\* Several operations complete that are neither reads nor writes, or fail.
LEMMA GoodConcat ==
  ASSUME NEW g, NEW m, NEW b, NEW r, Good(g, m, b, r), NEW S \in SUBSET r.wait,
         NEW V, V \subseteq r.wait, NEW c \in Codes,
         c # "ok" \/ S \cap {"read", "write", "stdin"} = {},
         NEW q, q = [r EXCEPT !.wait = V, !.loop = r.loop \o Several(S, c)]
  PROVE  Good(g, m, b, q) /\ q.pos = r.pos
  <1> DEFINE L == r.loop
             Q == Several(S, c)
  <1>0. /\ r \in Programs(opts, "client") /\ L \in Seq(Handlers(opts, "client"))
        /\ r.wait \subseteq Ops /\ S \in SUBSET Ops
    BY DEF Good, Programs
  <1>1. /\ Q \in Seq(Handlers(opts, "client"))
        /\ \A i \in DOMAIN Q : Q[i].op \in S /\ Q[i].code = c
    BY <1>0, SeveralHandlers
  <1> HIDE DEF Q, L
  <1>2. /\ L \o Q \in Seq(Handlers(opts, "client"))
        /\ \A i \in DOMAIN (L \o Q) :
             \/ i \in DOMAIN L /\ (L \o Q)[i] = L[i]
             \/ \E j \in DOMAIN Q : i = Len(L) + j /\ (L \o Q)[i] = Q[j]
    BY <1>0, <1>1, ConcatLoop
  <1>3. /\ q \in Programs(opts, "client") /\ q.wait = V /\ q.loop = L \o Q /\ q.log = r.log
        /\ q.queue = r.queue /\ q.pos = r.pos
    <2>1. V \in SUBSET Ops /\ L \o Q \in Seq(Handlers(opts, "client"))
      BY <1>0, <1>2
    <2>2. q = [r EXCEPT !.wait = V, !.loop = L \o Q]
      BY DEF L, Q
    <2> HIDE DEF Good
    <2> QED BY <1>0, <2>1, <2>2 DEF Programs
  <1>4. \A i \in DOMAIN q.loop :
           \/ i \in DOMAIN L /\ q.loop[i] = L[i]
           \/ q.loop[i].op \in r.wait /\ q.loop[i].op \in S /\ q.loop[i].code = c
    BY <1>1, <1>2, <1>3, SMTT(30)
  <1>5. Active("write", q.wait, q.loop) => Active("write", r.wait, r.loop)
    BY <1>3, <1>4 DEF Active, L
  <1>6. Settled(g, r) => Settled(g, q)
    BY <1>3, <1>4 DEF Settled, L
  <1>7. \A x \in Fits : Writing(g, x, r) => Writing(g, x, q)
    BY <1>3, <1>4 DEF Writing, L
  <1>8. AtClient(m, q) = AtClient(m, r)
    <2> DEFINE e == Done("read", "ok", Echo(m))
    <2>1. e.op = "read" /\ e.code = "ok"
      BY DEF Done
    <2> HIDE DEF e
    <2>2. \A i \in DOMAIN Q : Q[i] # e
      BY <1>1, <2>1
    <2>3. Count(L \o Q, e) = Count(L, e)
      BY <1>0, <1>1, <2>2, CountConcat
    <2> QED BY <1>3, <2>3 DEF AtClient, e, L
  <1>9. Owed(m, b, q)
    BY <1>3, <1>8 DEF Good, Owed
  <1> QED BY <1>3, <1>5, <1>6, <1>7, <1>9 DEF Good, Stage

\* Operations are aborted.
LEMMA AbortGood ==
  ASSUME NEW g, NEW m, NEW b, NEW r, Good(g, m, b, r), NEW X
  PROVE  Good(g, m, b, Abort(X, r))
  <1> DEFINE S == X \cap r.wait
             V == r.wait \ X
             q == Abort(X, r)
  <1>1. q = [r EXCEPT !.wait = V, !.loop = r.loop \o Several(S, "aborted")]
    BY DEF Abort, Several
  <1>2. S \in SUBSET r.wait /\ V \subseteq r.wait /\ "aborted" \in Codes /\ "aborted" # "ok"
    BY DEF Codes
  <1> HIDE DEF S, V, q
  <1>3. Good(g, m, b, q)
    BY <1>1, <1>2, GoodConcat
  <1> QED BY <1>3 DEF q

\* The remaining members.
LEMMA MemberGood ==
  ASSUME NEW g, NEW m, NEW b, NEW r, Good(g, m, b, r)
  PROVE  /\ \A c \in Conns : Good(g, m, b, [r EXCEPT !.conn = c])
         /\ \A v \in Statuses : Good(g, m, b, [r EXCEPT !.status = v])
         /\ Good(g, m, b, [r EXCEPT !.signaled = TRUE])
         /\ \A e \in Seq(Octet) : Good(g, m, b, [r EXCEPT !.expected = e])
         /\ \A d \in Buffers : Good(g, m, b, [r EXCEPT !.data = d])
         /\ \A n \in Nat : Good(g, m, b, [r EXCEPT !.pos = n])
  <1>1. r \in Programs(opts, "client")
    BY DEF Good
  <1>2. ASSUME NEW c \in Conns PROVE Good(g, m, b, [r EXCEPT !.conn = c])
    <2> DEFINE q == [r EXCEPT !.conn = c]
    <2>1. /\ q \in Programs(opts, "client") /\ q.wait = r.wait /\ q.loop = r.loop
          /\ q.log = r.log /\ q.queue = r.queue
      BY <1>1 DEF Programs
    <2> QED BY <2>1, GoodWait
  <1>3. ASSUME NEW v \in Statuses PROVE Good(g, m, b, [r EXCEPT !.status = v])
    <2> DEFINE q == [r EXCEPT !.status = v]
    <2>1. /\ q \in Programs(opts, "client") /\ q.wait = r.wait /\ q.loop = r.loop
          /\ q.log = r.log /\ q.queue = r.queue
      BY <1>1 DEF Programs
    <2> QED BY <2>1, GoodWait
  <1>4. Good(g, m, b, [r EXCEPT !.signaled = TRUE])
    <2> DEFINE q == [r EXCEPT !.signaled = TRUE]
    <2>1. /\ q \in Programs(opts, "client") /\ q.wait = r.wait /\ q.loop = r.loop
          /\ q.log = r.log /\ q.queue = r.queue
      BY <1>1 DEF Programs
    <2> QED BY <2>1, GoodWait
  <1>5. ASSUME NEW e \in Seq(Octet) PROVE Good(g, m, b, [r EXCEPT !.expected = e])
    <2> DEFINE q == [r EXCEPT !.expected = e]
    <2>1. /\ q \in Programs(opts, "client") /\ q.wait = r.wait /\ q.loop = r.loop
          /\ q.log = r.log /\ q.queue = r.queue
      BY <1>1 DEF Programs
    <2> QED BY <2>1, GoodWait
  <1>6. ASSUME NEW d \in Buffers PROVE Good(g, m, b, [r EXCEPT !.data = d])
    <2> DEFINE q == [r EXCEPT !.data = d]
    <2>1. /\ q \in Programs(opts, "client") /\ q.wait = r.wait /\ q.loop = r.loop
          /\ q.log = r.log /\ q.queue = r.queue
      BY <1>1 DEF Programs
    <2> QED BY <2>1, GoodWait
  <1>7. ASSUME NEW n \in Nat PROVE Good(g, m, b, [r EXCEPT !.pos = n])
    <2> DEFINE q == [r EXCEPT !.pos = n]
    <2>1. /\ q \in Programs(opts, "client") /\ q.wait = r.wait /\ q.loop = r.loop
          /\ q.log = r.log /\ q.queue = r.queue
      BY <1>1 DEF Programs
    <2> QED BY <2>1, GoodWait
  <1> QED BY <1>2, <1>3, <1>4, <1>5, <1>6, <1>7

\* close() of the client's socket, and what is made of it.
LEMMA CloseGood ==
  ASSUME NEW g, NEW m, NEW b, NEW r, Good(g, m, b, r)
  PROVE  /\ Good(g, m, b, close(r)) /\ Good(g, m, b, do_close(r))
         /\ \A why \in Statuses : Good(g, m, b, Throw(why, r))
  <1>1. Good(g, m, b, close(r))
    <2>1. Good(g, m, b, Abort(SocketOps, r))
      BY AbortGood
    <2> QED BY <2>1, MemberGood DEF close, Conns
  <1>2. \A why \in Statuses : Good(g, m, b, Throw(why, r))
    BY MemberGood DEF Throw
  <1>3. Good(g, m, b, cancel(r))
    BY <1>2, AbortGood DEF cancel, Statuses
  <1>4. Good(g, m, b, do_close(r))
    BY <1>1, <1>3, AbortGood DEF do_close
  <1> QED BY <1>1, <1>2, <1>4

\* do_shutdown() of the client.
LEMMA ShutdownGood ==
  ASSUME NEW g, NEW m, NEW b, NEW r, Good(g, m, b, r)
  PROVE  Good(g, m, b, do_shutdown(r))
  <1> DEFINE s == Begin("shutdown", r)
             c == IF s.conn = "open" THEN "shutdown" ELSE s.conn
  <1>1. Good(g, m, b, s)
    BY BeginGood, Kinds
  <1>2. c \in Conns
    BY <1>1 DEF Good, Programs, Conns
  <1>3. Good(g, m, b, [s EXCEPT !.conn = c])
    BY <1>1, <1>2, MemberGood
  <1> QED BY <1>3 DEF do_shutdown

\* A record that is neither of a sent message nor of an echo of m.
LEMMA PushGood ==
  ASSUME NEW g \in Seq(Fits), NEW m, NEW b, NEW r, Good(g, m, b, r), NEW t \in Types \ {"SENT"},
         NEW x \in Fits, Record(t, x) # EchoRecord(m)
  PROVE  Good(g, m, b, push(t, x, r)) /\ push(t, x, r).pos = r.pos
  <1> DEFINE e == Record(t, x)
             q == [r EXCEPT !.log = Append(r.log, e)]
  <1>1. r \in Programs(opts, "client") /\ r.log \in Trace /\ r.log \in Seq(Records(Fits))
    BY DEF Good, Programs, Trace
  <1>2. e \in Records(Fits) /\ e.type # "SENT" /\ e # EchoRecord(m)
    BY DEF Record, Records
  <1> HIDE DEF e
  <1>3. Append(r.log, e) \in Seq(Records(Fits))
    BY <1>1, <1>2
  <1>4. /\ q \in Programs(opts, "client") /\ q.wait = r.wait /\ q.loop = r.loop
        /\ q.log = Append(r.log, e) /\ q.queue = r.queue /\ q.pos = r.pos
    BY <1>1, <1>3 DEF Programs
  <1> HIDE DEF q
  <1>5. \A h \in Seq(Fits) : Names(r.log, h) => Names(q.log, h)
    BY <1>1, <1>2, <1>4, NamesOther
  <1>6. Settled(g, r) => Settled(g, q)
    BY <1>4, <1>5 DEF Settled
  <1>7. \A y \in Fits : Writing(g, y, r) => Writing(g, y, q)
    <2>1. \A y \in Fits : Append(g, y) \in Seq(Fits)
      OBVIOUS
    <2> QED BY <1>4, <1>5, <2>1 DEF Writing
  <1>8. AtClient(m, q) = AtClient(m, r)
    <2>1. Count(q.log, EchoRecord(m)) = Count(r.log, EchoRecord(m)) + 0
          /\ Count(r.log, EchoRecord(m)) \in Nat
      BY <1>1, <1>2, <1>4, CountAppend, CountNat
    <2>2. Count(q.log, EchoRecord(m)) = Count(r.log, EchoRecord(m))
      BY <2>1
    <2> QED BY <1>4, <2>2 DEF AtClient
  <1>9. EchoesFollow(m, r.log) => EchoesFollow(m, q.log)
    BY <1>1, <1>2, <1>4, FollowOther
  <1>10. Owed(m, b, q)
    BY <1>8, <1>9 DEF Good, Owed
  <1>11. Good(g, m, b, q)
    BY <1>4, <1>6, <1>7, <1>10 DEF Good, Stage
  <1> QED BY <1>4, <1>11 DEF push, q, e

\* do_write() of the client: the message is named, and its write is under way.
LEMMA DoWriteGood ==
  ASSUME opts.log, NEW g \in Seq(Fits), NEW m, NEW b, NEW r, r \in Programs(opts, "client"),
         Names(r.log, g), Owed(m, b, r), r.queue # <<>>, ~Active("write", r.wait, r.loop)
  PROVE  Good(g, m, b, do_write("client", r)) /\ do_write("client", r).pos = r.pos
  <1> DEFINE x == Head(r.queue)
             e == Record("SENT", x)
             p == [r EXCEPT !.log = Append(r.log, e)]
             q == Begin("write", p)
             h == Done("write", "error", <<>>)
  <1>1. /\ r.log \in Trace /\ r.log \in Seq(Records(Fits))
        /\ r.loop \in Seq(Handlers(opts, "client"))
    BY DEF Programs, Trace
  <1>2. x \in Fits
    BY OwnFits DEF Programs
  <1> HIDE DEF x
  <1>3. e \in Records(Fits) /\ e # EchoRecord(m)
    BY <1>2 DEF Record, Records, Types, EchoRecord
  <1>4. Names(Append(r.log, e), Append(g, x))
    BY <1>1, <1>2, NamesSent
  <1> HIDE DEF e
  <1>5. Append(r.log, e) \in Seq(Records(Fits))
    BY <1>1, <1>3
  <1>6. /\ p \in Programs(opts, "client") /\ p.wait = r.wait /\ p.loop = r.loop
        /\ p.log = Append(r.log, e) /\ p.queue = r.queue /\ p.pos = r.pos
    BY <1>5 DEF Programs
  <1> HIDE DEF p
  <1>7. q \in Programs(opts, "client") /\ q.log = p.log /\ q.queue = p.queue /\ q.pos = p.pos
    <2>1. "write" \in Ops /\ p \in Programs(opts, "client")
      BY <1>6, Kinds
    <2> QED BY <2>1, BeginCases
  <1>8. h \in Handlers(opts, "client") /\ h.op = "write" /\ h.code = "error"
    BY BlankHandler, Kinds DEF Codes, Done
  <1>9. \/ q.wait = r.wait \cup {"write"} /\ q.loop = r.loop
        \/ q.wait = r.wait /\ q.loop = Append(r.loop, h)
    <2>1. p \in Programs(opts, "client")
      BY <1>6
    <2>2. \/ q.wait = p.wait \cup {"write"} /\ q.loop = p.loop
          \/ q.wait = p.wait /\ q.loop = Append(p.loop, h)
      BY <2>1 DEF Begin, Programs
    <2> QED BY <1>6, <2>2
  <1>10. Writing(g, x, q)
    <2>1. \A i \in DOMAIN r.loop : r.loop[i].op # "write"
      BY DEF Active
    <2>2. \A i \in DOMAIN q.loop : q.loop[i].op = "write" => q.loop[i].code # "ok"
      <3>1. CASE q.loop = r.loop
        BY <2>1, <3>1
      <3>2. CASE q.loop = Append(r.loop, h)
        <4> HIDE DEF h, q
        <4> QED BY <1>1, <1>8, <2>1, <3>2, AppendLoop
      <3> QED BY <1>9, <3>1, <3>2
    <2> QED BY <1>4, <1>6, <1>7, <2>2 DEF Writing, x
  <1>11. Owed(m, b, q)
    <2>1. Count(q.loop, Done("read", "ok", Echo(m))) = Count(r.loop, Done("read", "ok", Echo(m)))
      <3> DEFINE d == Done("read", "ok", Echo(m))
      <3>1. h # d
        BY DEF Done
      <3> HIDE DEF d, h, q
      <3>2. Count(Append(r.loop, h), d) = Count(r.loop, d) + 0
        BY <1>1, <1>8, <3>1, CountAppend
      <3>3. Count(r.loop, d) \in Nat
        BY <1>1, CountNat
      <3>4. Count(q.loop, d) = Count(r.loop, d)
        <4>1. Count(Append(r.loop, h), d) = Count(r.loop, d)
          BY <3>2, <3>3
        <4> QED BY <1>9, <4>1
      <3> QED BY <3>4 DEF d
    <2>2. Count(q.log, EchoRecord(m)) = Count(r.log, EchoRecord(m))
      <3> DEFINE d == EchoRecord(m)
      <3> HIDE DEF q, d
      <3>1. Count(Append(r.log, e), d) = Count(r.log, d) + 0 /\ Count(r.log, d) \in Nat
        BY <1>1, <1>3, CountAppend, CountNat DEF d
      <3>2. Count(q.log, d) = Count(r.log, d)
        BY <1>6, <1>7, <3>1
      <3> QED BY <3>2 DEF d
    <2>3. EchoesFollow(m, r.log) => EchoesFollow(m, q.log)
      BY <1>1, <1>3, <1>6, <1>7, FollowOther
    <2> HIDE DEF q
    <2> QED BY <2>1, <2>2, <2>3 DEF Owed, AtClient
  <1>12. Good(g, m, b, q)
    BY <1>2, <1>6, <1>7, <1>10, <1>11 DEF Good, Stage
  <1> QED BY <1>6, <1>7, <1>12 DEF do_write, push, p, e, x

\* A message is queued.
LEMMA EnqueueGood ==
  ASSUME opts.log, NEW g \in Seq(Fits), NEW m, NEW b, NEW r, Good(g, m, b, r),
         NEW x \in Own(opts, "client")
  PROVE  Good(g, m, b, enqueue("client", x, r)) /\ enqueue("client", x, r).pos = r.pos
  <1> DEFINE q == [r EXCEPT !.queue = Append(r.queue, x)]
  <1>1. r \in Programs(opts, "client") /\ r.queue \in Seq(Own(opts, "client"))
    BY DEF Good, Programs
  <1>2. /\ Append(r.queue, x) \in Seq(Own(opts, "client")) /\ Append(r.queue, x) # <<>>
        /\ r.queue # <<>> => Head(Append(r.queue, x)) = Head(r.queue)
    <2> DEFINE w == r.queue
    <2>1. w \in Seq(Own(opts, "client"))
      BY <1>1
    <2> HIDE DEF w
    <2>2. Append(w, x) \in Seq(Own(opts, "client")) /\ Append(w, x) # <<>>
      BY <2>1
    <2>3. w # <<>> => Head(w) = w[1] /\ Head(Append(w, x)) = Append(w, x)[1] /\ 1 \in 1 .. Len(w)
      BY <2>1, <2>2
    <2>4. w # <<>> => Append(w, x)[1] = w[1]
      BY <2>1, <2>3, AppendItems
    <2> QED BY <2>2, <2>3, <2>4 DEF w
  <1>3. /\ q \in Programs(opts, "client") /\ q.queue = Append(r.queue, x) /\ q.pos = r.pos
        /\ q.wait = r.wait /\ q.loop = r.loop /\ q.log = r.log
    BY <1>1, <1>2 DEF Programs
  <1> HIDE DEF q
  <1>4. Owed(m, b, q)
    BY <1>3 DEF Good, Owed, AtClient
  <1>5. CASE r.queue = <<>>
    <2>1. ~Active("write", r.wait, r.loop)
      BY <1>5 DEF Good
    <2>2. Names(r.log, g)
      BY <1>5 DEF Good, Stage, Settled, Writing
    <2>3. Good(g, m, b, do_write("client", q)) /\ do_write("client", q).pos = q.pos
      BY <1>2, <1>3, <1>4, <2>1, <2>2, DoWriteGood
    <2> QED BY <1>3, <1>5, <2>3 DEF enqueue, q
  <1>6. CASE r.queue # <<>>
    <2>1. Settled(g, r) => Settled(g, q)
      BY <1>3 DEF Settled
    <2>2. \A y \in Fits : Writing(g, y, r) => Writing(g, y, q)
      BY <1>2, <1>3, <1>6 DEF Writing
    <2>3. Good(g, m, b, q)
      BY <1>2, <1>3, <1>4, <2>1, <2>2 DEF Good, Stage
    <2> QED BY <1>3, <1>6, <2>3 DEF enqueue, q
  <1> QED BY <1>5, <1>6

\* do_replay() of the client.
LEMMA DoReplayGood ==
  ASSUME OptsOK(opts), opts.client = "replay", NEW g, NEW m, NEW b, NEW r, Good(g, m, b, r),
         r.pos < Len(opts.trace)
  PROVE  Good(g, m, b, do_replay("client", r))
  <1> DEFINE n == [r EXCEPT !.pos = r.pos + 1]
             rec == opts.trace[r.pos + 1]
  <1>1. r.pos \in Nat
    BY DEF Good, Programs
  <1>2. rec.type \in Types
    <2>1. "client" \in Sides /\ opts["client"] = "replay"
      BY DEF Sides
    <2>2. /\ Len(opts.trace) \in Nat
          /\ \A i \in 1 .. Len(opts.trace) : opts.trace[i].type \in Types
      BY <2>1, TraceFacts
    <2>3. r.pos + 1 \in 1 .. Len(opts.trace)
      BY <1>1, <2>2
    <2> QED BY <2>2, <2>3
  <1>3. Good(g, m, b, n)
    <2>1. r.pos + 1 \in Nat
      BY <1>1
    <2> QED BY <2>1, MemberGood
  <1> HIDE DEF n
  <1>4. Good(g, m, b, Begin("timer", n)) /\ Good(g, m, b, do_close(n))
    BY <1>3, BeginGood, CloseGood, Kinds
  <1>5. do_replay("client", r) \in {Begin("timer", n), do_close(n), n}
    BY <1>2 DEF do_replay, n, Types
  <1> QED BY <1>3, <1>4, <1>5

\* The connection stands.
LEMMA EstablishedGood ==
  ASSUME OptsOK(opts), NEW g, NEW m, NEW b, NEW r, Good(g, m, b, r),
         opts.client = "replay" => r.pos < Len(opts.trace)
  PROVE  Good(g, m, b, Established("client", r))
  <1> DEFINE c == IF r.conn = "closed" THEN r.conn ELSE "open"
             q == [r EXCEPT !.conn = c]
             l == IF opts.limit THEN Begin("limit", q) ELSE q
  <1>1. c \in Conns /\ q.pos = r.pos
    BY DEF Good, Programs, Conns
  <1>2. Good(g, m, b, q)
    BY <1>1, MemberGood
  <1> HIDE DEF q
  <1>3. Good(g, m, b, l) /\ l.pos = r.pos
    BY <1>1, <1>2, BeginGood, Kinds
  <1>4. Good(g, m, b, do_read(q))
    BY <1>2, BeginGood, Kinds DEF do_read
  <1>5. opts.client = "replay" => Good(g, m, b, do_replay("client", l))
    BY <1>3, DoReplayGood
  <1> QED BY <1>4, <1>5 DEF Established, start_replay, q

\* The timer's handler.
LEMMA ReplayedGood ==
  ASSUME OptsOK(opts), opts.log, opts.client = "replay", NEW g \in Seq(Fits), NEW m, NEW b,
         NEW r, Good(g, m, b, r), r.pos > 0, r.pos < Len(opts.trace)
  PROVE  Good(g, m, b, replayed("client", r))
  <1> DEFINE x == opts.trace[r.pos].message
             q == enqueue("client", x, r)
             e == [r EXCEPT !.expected = x]
  <1>1. x \in Own(opts, "client") /\ x \in Seq(Octet)
    <2>1. "client" \in Sides /\ opts["client"] = "replay"
      BY DEF Sides
    <2>2. /\ Len(opts.trace) \in Nat
          /\ \A i \in 1 .. Len(opts.trace) : opts.trace[i].message \in Own(opts, "client")
      BY <2>1, TraceFacts
    <2>3. r.pos \in 1 .. Len(opts.trace)
      BY <2>2 DEF Good, Programs
    <2>4. x \in Own(opts, "client")
      BY <2>2, <2>3
    <2> QED BY <2>4, OwnFits DEF Fits
  <1> HIDE DEF x
  <1>2. Good(g, m, b, q) /\ q.pos = r.pos
    BY <1>1, EnqueueGood
  <1>3. Good(g, m, b, do_replay("client", q))
    BY <1>2, DoReplayGood
  <1>4. Good(g, m, b, e)
    BY <1>1, MemberGood
  <1>5. Good(g, m, b, do_read(e))
    BY <1>4, BeginGood, Kinds DEF do_read
  <1> QED BY <1>3, <1>5 DEF replayed, x

\* A read fills the buffer.
LEMMA FillGood ==
  ASSUME NEW g, NEW m, NEW b, NEW r, Good(g, m, b, r), NEW k, NEW x \in Fits,
         Fit(k, "client", r)
  PROVE  Good(g, m, b, Fill(x, r)) /\ Fill(x, r).pos = r.pos /\ Fill(x, r).log = r.log
         /\ Fill(x, r).loop = r.loop
  <1> DEFINE q == Fill(x, r)
  <1>1. q \in Programs(opts, "client")
    BY FillFit, FitFacts
  <1>2. /\ q.wait = r.wait /\ q.loop = r.loop /\ q.log = r.log /\ q.queue = r.queue
        /\ q.pos = r.pos
    BY DEF Fill, Good, Programs
  <1> HIDE DEF q
  <1>3. Good(g, m, b, q)
    BY <1>1, <1>2, GoodWait
  <1> QED BY <1>2, <1>3 DEF q

-----------------------------------------------------------------------------
\* An echoing server that has m to send back b times at most.
Echoes(m, b, r) ==
    /\ r \in Programs(opts, "server")
    /\ ~Active("write", r.wait, r.loop)
    /\ m \in Lined => AtServer(m, r) <= b

\* A number.
LEMMA AtServerNat ==
  ASSUME NEW m, NEW r \in Programs(opts, "server") PROVE AtServer(m, r) \in Nat
  <1>1. r.loop \in Seq(Handlers(opts, "server"))
    BY DEF Programs
  <1>2. Count(r.loop, Done("read", "ok", m)) \in Nat
    BY <1>1, CountNat
  <1> QED BY <1>2 DEF AtServer

\* The members that matter stay, and neither a write nor an echo begins.
LEMMA EchoesWait ==
  ASSUME NEW m, NEW b \in Nat, NEW r, Echoes(m, b, r), NEW q \in Programs(opts, "server"),
         q.loop = r.loop, q.echo = r.echo, "write" \in q.wait => "write" \in r.wait,
         "echo" \in q.wait => "echo" \in r.wait
  PROVE  Echoes(m, b, q)
  <1>1. ~Active("write", q.wait, q.loop)
    BY DEF Active, Echoes
  <1>2. AtServer(m, q) <= AtServer(m, r) /\ AtServer(m, q) \in Nat /\ AtServer(m, r) \in Nat
    <2>1. AtServer(m, q) \in Nat /\ AtServer(m, r) \in Nat
      BY AtServerNat DEF Echoes
    <2>2. Count(r.loop, Done("read", "ok", m)) \in Nat
      <3>1. r.loop \in Seq(Handlers(opts, "server"))
        BY DEF Echoes, Programs
      <3> QED BY <3>1, CountNat
    <2> QED BY <2>1, <2>2 DEF AtServer
  <1> QED BY <1>1, <1>2 DEF Echoes

\* A handler is queued, but neither of a write nor of a read of m.
LEMMA EchoesAppend ==
  ASSUME NEW m, NEW b \in Nat, NEW r, Echoes(m, b, r), NEW q \in Programs(opts, "server"),
         NEW h \in Handlers(opts, "server"), q.loop = Append(r.loop, h), q.echo = r.echo,
         "write" \in q.wait => "write" \in r.wait, "echo" \in q.wait => "echo" \in r.wait,
         h.op # "write", h # Done("read", "ok", m)
  PROVE  Echoes(m, b, q)
  <1> DEFINE L == r.loop
             d == Done("read", "ok", m)
  <1>0. L \in Seq(Handlers(opts, "server")) /\ h # d
    BY DEF Echoes, Programs
  <1>1. ~Active("write", q.wait, q.loop)
    <2>1. /\ DOMAIN q.loop = DOMAIN L \cup {Len(L) + 1} /\ q.loop[Len(L) + 1] = h
          /\ \A i \in DOMAIN L : q.loop[i] = L[i]
      BY <1>0, AppendLoop
    <2> QED BY <2>1 DEF Active, Echoes
  <1> HIDE DEF L, d
  <1>2. Count(Append(L, h), d) = Count(L, d) + 0 /\ Count(L, d) \in Nat
    BY <1>0, CountAppend, CountNat
  <1>3. Count(q.loop, d) = Count(r.loop, d) /\ Count(r.loop, d) \in Nat
    BY <1>2 DEF L
  <1>4. AtServer(m, q) <= AtServer(m, r) /\ AtServer(m, q) \in Nat /\ AtServer(m, r) \in Nat
    <2>1. AtServer(m, q) \in Nat /\ AtServer(m, r) \in Nat
      BY AtServerNat DEF Echoes
    <2> QED BY <1>3, <2>1 DEF AtServer, d
  <1> QED BY <1>1, <1>4 DEF Echoes

\* An operation is started that is neither a write nor an echo.
LEMMA BeginEchoes ==
  ASSUME NEW m, NEW b \in Nat, NEW r, Echoes(m, b, r), NEW x \in Ops,
         x \notin {"write", "echo"}
  PROVE  Echoes(m, b, Begin(x, r))
  <1> DEFINE q == Begin(x, r)
             h == Done(x, "error", <<>>)
  <1>1. r \in Programs(opts, "server")
    BY DEF Echoes
  <1>2. q \in Programs(opts, "server") /\ q.echo = r.echo
    BY <1>1, BeginCases
  <1>3. /\ h \in Handlers(opts, "server") /\ h.op = x /\ h.code = "error"
        /\ h # Done("read", "ok", m)
    BY BlankHandler DEF Codes, Done
  <1>4. \/ q.wait = r.wait \cup {x} /\ q.loop = r.loop
        \/ q.wait = r.wait /\ q.loop = Append(r.loop, h)
    BY <1>1 DEF Begin, Programs
  <1> HIDE DEF q, h
  <1>5. Echoes(m, b, q)
    BY <1>2, <1>3, <1>4, EchoesWait, EchoesAppend
  <1> QED BY <1>5 DEF q

\* Several operations complete that are neither reads nor writes, or fail.
LEMMA EchoesConcat ==
  ASSUME NEW m, NEW b \in Nat, NEW r, Echoes(m, b, r), NEW S \in SUBSET r.wait,
         NEW V, V \subseteq r.wait, NEW c \in Codes,
         c # "ok" \/ S \cap {"read", "write", "stdin"} = {},
         NEW q, q = [r EXCEPT !.wait = V, !.loop = r.loop \o Several(S, c)]
  PROVE  Echoes(m, b, q)
  <1> DEFINE L == r.loop
             Q == Several(S, c)
             d == Done("read", "ok", m)
  <1>0. /\ r \in Programs(opts, "server") /\ L \in Seq(Handlers(opts, "server"))
        /\ r.wait \subseteq Ops /\ S \in SUBSET Ops
    BY DEF Echoes, Programs
  <1>1. /\ Q \in Seq(Handlers(opts, "server"))
        /\ \A i \in DOMAIN Q : Q[i].op \in S /\ Q[i].code = c
    BY <1>0, SeveralHandlers
  <1>2. d.op = "read" /\ d.code = "ok"
    BY DEF Done
  <1> HIDE DEF Q, L, d
  <1>3. /\ L \o Q \in Seq(Handlers(opts, "server"))
        /\ \A i \in DOMAIN (L \o Q) :
             \/ i \in DOMAIN L /\ (L \o Q)[i] = L[i]
             \/ \E j \in DOMAIN Q : i = Len(L) + j /\ (L \o Q)[i] = Q[j]
    BY <1>0, <1>1, ConcatLoop
  <1>4. /\ q \in Programs(opts, "server") /\ q.wait = V /\ q.loop = L \o Q /\ q.echo = r.echo
    <2>1. V \in SUBSET Ops /\ L \o Q \in Seq(Handlers(opts, "server"))
      BY <1>0, <1>3
    <2>2. q = [r EXCEPT !.wait = V, !.loop = L \o Q]
      BY DEF L, Q
    <2> QED BY <1>0, <2>1, <2>2 DEF Programs
  <1>5. ~Active("write", q.wait, q.loop)
    <2>1. "write" \notin r.wait /\ \A i \in DOMAIN L : L[i].op # "write"
      BY DEF Echoes, Active, L
    <2>2. \A i \in DOMAIN q.loop :
             \/ i \in DOMAIN L /\ q.loop[i] = L[i]
             \/ q.loop[i].op \in r.wait
      BY <1>1, <1>3, <1>4
    <2> QED BY <1>4, <2>1, <2>2 DEF Active
  <1>6. Count(L \o Q, d) = Count(L, d) /\ Count(L, d) \in Nat
    <2>1. \A i \in DOMAIN Q : Q[i] # d
      BY <1>1, <1>2
    <2> QED BY <1>0, <1>1, <2>1, CountConcat, CountNat
  <1>7. Count(q.loop, d) = Count(r.loop, d) /\ Count(r.loop, d) \in Nat
    BY <1>4, <1>6 DEF L
  <1>8. AtServer(m, q) <= AtServer(m, r) /\ AtServer(m, q) \in Nat /\ AtServer(m, r) \in Nat
    <2>1. AtServer(m, q) \in Nat /\ AtServer(m, r) \in Nat
      BY <1>0, <1>4, AtServerNat
    <2> QED BY <1>4, <1>7, <2>1 DEF AtServer, d
  <1> QED BY <1>4, <1>5, <1>8 DEF Echoes

\* Operations are aborted.
LEMMA AbortEchoes ==
  ASSUME NEW m, NEW b \in Nat, NEW r, Echoes(m, b, r), NEW X
  PROVE  Echoes(m, b, Abort(X, r))
  <1> DEFINE S == X \cap r.wait
             V == r.wait \ X
             q == Abort(X, r)
  <1>1. q = [r EXCEPT !.wait = V, !.loop = r.loop \o Several(S, "aborted")]
    BY DEF Abort, Several
  <1>2. S \in SUBSET r.wait /\ V \subseteq r.wait /\ "aborted" \in Codes /\ "aborted" # "ok"
    BY DEF Codes
  <1> HIDE DEF S, V, q
  <1>3. Echoes(m, b, q)
    BY <1>1, <1>2, EchoesConcat
  <1> QED BY <1>3 DEF q

\* The remaining members.
LEMMA MemberEchoes ==
  ASSUME NEW m, NEW b \in Nat, NEW r, Echoes(m, b, r)
  PROVE  /\ \A c \in Conns : Echoes(m, b, [r EXCEPT !.conn = c])
         /\ \A v \in Statuses : Echoes(m, b, [r EXCEPT !.status = v])
         /\ \A v \in SessionStates : Echoes(m, b, [r EXCEPT !.session = v])
         /\ Echoes(m, b, [r EXCEPT !.signaled = TRUE])
  <1>1. r \in Programs(opts, "server")
    BY DEF Echoes
  <1>2. ASSUME NEW c \in Conns PROVE Echoes(m, b, [r EXCEPT !.conn = c])
    <2> DEFINE q == [r EXCEPT !.conn = c]
    <2>1. /\ q \in Programs(opts, "server") /\ q.wait = r.wait /\ q.loop = r.loop
          /\ q.echo = r.echo
      BY <1>1 DEF Programs
    <2> QED BY <2>1, EchoesWait
  <1>3. ASSUME NEW v \in Statuses PROVE Echoes(m, b, [r EXCEPT !.status = v])
    <2> DEFINE q == [r EXCEPT !.status = v]
    <2>1. /\ q \in Programs(opts, "server") /\ q.wait = r.wait /\ q.loop = r.loop
          /\ q.echo = r.echo
      BY <1>1 DEF Programs
    <2> QED BY <2>1, EchoesWait
  <1>4. ASSUME NEW v \in SessionStates PROVE Echoes(m, b, [r EXCEPT !.session = v])
    <2> DEFINE q == [r EXCEPT !.session = v]
    <2>1. /\ q \in Programs(opts, "server") /\ q.wait = r.wait /\ q.loop = r.loop
          /\ q.echo = r.echo
      BY <1>1 DEF Programs
    <2> QED BY <2>1, EchoesWait
  <1>5. Echoes(m, b, [r EXCEPT !.signaled = TRUE])
    <2> DEFINE q == [r EXCEPT !.signaled = TRUE]
    <2>1. /\ q \in Programs(opts, "server") /\ q.wait = r.wait /\ q.loop = r.loop
          /\ q.echo = r.echo
      BY <1>1 DEF Programs
    <2> QED BY <2>1, EchoesWait
  <1> QED BY <1>2, <1>3, <1>4, <1>5

\* The socket closes, the session ends, and a read of the echoing server begins.
LEMMA CloseEchoes ==
  ASSUME NEW m, NEW b \in Nat, NEW r, Echoes(m, b, r)
  PROVE  /\ Echoes(m, b, close(r)) /\ Echoes(m, b, Released(r))
         /\ opts.server = "echo" => Echoes(m, b, Established("server", r))
  <1>1. Echoes(m, b, close(r))
    <2>1. Echoes(m, b, Abort(SocketOps, r))
      BY AbortEchoes
    <2> QED BY <2>1, MemberEchoes DEF close, Conns
  <1>2. Echoes(m, b, Released(r))
    <2>1. Echoes(m, b, Abort({"limit"}, close(r)))
      BY <1>1, AbortEchoes
    <2> QED BY <2>1, MemberEchoes DEF Released, SessionStates
  <1>3. ASSUME opts.server = "echo" PROVE Echoes(m, b, Established("server", r))
    <2> DEFINE c == IF r.conn = "closed" THEN r.conn ELSE "open"
               q == [r EXCEPT !.conn = c]
    <2>1. c \in Conns
      BY DEF Echoes, Programs, Conns
    <2>2. Echoes(m, b, q)
      BY <2>1, MemberEchoes
    <2> HIDE DEF q
    <2>3. Echoes(m, b, do_read(q))
      BY <2>2, BeginEchoes, Kinds DEF do_read
    <2> QED BY <1>3, <2>3 DEF Established, q
  <1> QED BY <1>1, <1>2, <1>3

\* What has been read is going to be echoed.
LEMMA EchoBegins ==
  ASSUME NEW m, NEW b \in Nat, NEW a \in Nat, NEW r, Echoes(m, a, r), NEW k,
         NEW x \in Heard(opts, "server"), Fit(k, "server", r), opts.server = "echo",
         a + (IF x = m THEN 1 ELSE 0) <= b
  PROVE  Echoes(m, b, Begin("echo", [r EXCEPT !.echo = x]))
  <1> DEFINE p == [r EXCEPT !.echo = x]
             q == Begin("echo", p)
             h == Done("echo", "error", <<>>)
             d == Done("read", "ok", m)
  <1>1. r \in Programs(opts, "server") /\ p \in Programs(opts, "server")
    BY EchoFit, FitFacts DEF Echoes
  <1>2. p.wait = r.wait /\ p.loop = r.loop /\ p.echo = x
    BY <1>1 DEF Programs
  <1> HIDE DEF p
  <1>3. q \in Programs(opts, "server") /\ q.echo = x
    <2>1. "echo" \in Ops
      BY Kinds
    <2> QED BY <1>1, <1>2, <2>1, BeginCases
  <1>4. /\ h \in Handlers(opts, "server") /\ h.op = "echo" /\ h # d
    BY BlankHandler, Kinds DEF Codes, Done
  <1>5. \/ q.wait = p.wait \cup {"echo"} /\ q.loop = p.loop
        \/ q.wait = p.wait /\ q.loop = Append(p.loop, h)
    BY <1>1 DEF Begin, Programs
  <1>6. r.loop \in Seq(Handlers(opts, "server"))
    BY <1>1 DEF Programs
  <1> HIDE DEF q, h, d
  <1>7. Count(q.loop, d) = Count(r.loop, d) /\ Count(r.loop, d) \in Nat
    <2>1. Count(Append(r.loop, h), d) = Count(r.loop, d) + 0 /\ Count(r.loop, d) \in Nat
      BY <1>4, <1>6, CountAppend, CountNat
    <2>2. Count(Append(r.loop, h), d) = Count(r.loop, d)
      BY <2>1
    <2> QED BY <1>2, <1>5, <2>1, <2>2
  <1>8. ~Active("write", q.wait, q.loop)
    <2>1. CASE q.wait = p.wait \cup {"echo"} /\ q.loop = p.loop
      BY <1>2, <2>1 DEF Echoes, Active
    <2>2. CASE q.wait = p.wait /\ q.loop = Append(p.loop, h)
      <3>1. \A i \in DOMAIN q.loop : q.loop[i] = h \/ (i \in DOMAIN r.loop /\ q.loop[i] = r.loop[i])
        BY <1>2, <1>4, <1>6, <2>2, AppendLoop
      <3> QED BY <1>2, <1>4, <2>2, <3>1 DEF Echoes, Active
    <2> QED BY <1>5, <2>1, <2>2
  <1>9. m \in Lined => AtServer(m, q) <= b
    <2> SUFFICES ASSUME m \in Lined PROVE AtServer(m, q) <= b
      OBVIOUS
    <2>1. Count(r.loop, d) <= a
      <3>1. AtServer(m, r) <= a
        BY DEF Echoes
      <3> QED BY <1>7, <3>1 DEF AtServer, d
    <2>2. AtServer(m, q) = Count(q.loop, d) + (IF "echo" \in q.wait /\ x = m THEN 1 ELSE 0)
      BY <1>3 DEF AtServer, d
    <2> QED BY <1>7, <2>1, <2>2
  <1> QED BY <1>3, <1>8, <1>9 DEF Echoes, q, p

\* A number.
LEMMA AtClientNat ==
  ASSUME NEW m, NEW r \in Programs(opts, "client") PROVE AtClient(m, r) \in Nat
  <1>1. r.loop \in Seq(Handlers(opts, "client")) /\ r.log \in Seq(Records(Fits))
    BY DEF Programs
  <1>2. Count(r.loop, Done("read", "ok", Echo(m))) \in Nat /\ Count(r.log, EchoRecord(m)) \in Nat
    BY <1>1, CountNat
  <1> QED BY <1>2 DEF AtClient

\* The invariants in terms of the two programs.
LEMMA Present ==
  ASSUME ReplayInv, TranscriptInv, opts.log
  PROVE  /\ given \in Seq(Fits) /\ OptsOK(opts)
         /\ side["client"] \in Programs(opts, "client")
         /\ side["server"] \in Programs(opts, "server")
         /\ \A m : /\ AtClient(m, side["client"]) \in Nat
                   /\ AtServer(m, side["server"]) \in Nat
                   /\ Count(given, m) \in Nat
                   /\ Count(wire["client"], m) \in Nat /\ Count(wire["server"], m) \in Nat
                   /\ Carried(m, wire) \in Nat
         /\ \A m : Good(given, m, AtClient(m, side["client"]), side["client"])
         /\ Echoing => \A m : Echoes(m, AtServer(m, side["server"]), side["server"])
  <1>1. /\ given \in Seq(Fits) /\ OptsOK(opts)
        /\ side["client"] \in Programs(opts, "client")
        /\ side["server"] \in Programs(opts, "server")
    BY DEF TranscriptInv, ReplayInv, SideInv, Sides
  <1>2. wire["client"] \in Seq(Seq(Octet)) /\ wire["server"] \in Seq(Seq(Octet))
    BY DEF ReplayInv, Sides
  <1>3. ASSUME NEW m
        PROVE  /\ AtClient(m, side["client"]) \in Nat
               /\ AtServer(m, side["server"]) \in Nat
               /\ Count(given, m) \in Nat
               /\ Count(wire["client"], m) \in Nat /\ Count(wire["server"], m) \in Nat
               /\ Carried(m, wire) \in Nat
    <2>1. /\ Count(given, m) \in Nat /\ Count(wire["client"], m) \in Nat
          /\ Count(wire["server"], m) \in Nat /\ Count(wire["server"], Echo(m)) \in Nat
      BY <1>1, <1>2, CountNat
    <2>2. AtClient(m, side["client"]) \in Nat /\ AtServer(m, side["server"]) \in Nat
      BY <1>1, AtClientNat, AtServerNat
    <2> QED BY <2>1, <2>2 DEF Carried
  <1>4. ASSUME NEW m PROVE Good(given, m, AtClient(m, side["client"]), side["client"])
    <2>1. Active("write", side["client"].wait, side["client"].loop)
             => side["client"].queue # <<>>
      BY DEF ReplayInv, SideInv, Sides
    <2>2. AtClient(m, side["client"]) <= AtClient(m, side["client"])
      BY <1>3
    <2> QED BY <1>1, <2>1, <2>2 DEF Good, Owed, TranscriptInv
  <1>5. ASSUME NEW m, Echoing PROVE Echoes(m, AtServer(m, side["server"]), side["server"])
    <2>1. AtServer(m, side["server"]) <= AtServer(m, side["server"])
      BY <1>3
    <2> QED BY <1>1, <1>5, <2>1 DEF Echoes, TranscriptInv
  <1> QED BY <1>1, <1>3, <1>4, <1>5

\* A larger bound.
LEMMA GoodMore ==
  ASSUME NEW g, NEW m, NEW a \in Nat, NEW b \in Nat, a <= b, NEW r, Good(g, m, a, r)
  PROVE  Good(g, m, b, r)
  <1>1. AtClient(m, r) \in Nat
    BY AtClientNat DEF Good
  <1> QED BY <1>1 DEF Good, Owed

\* The client runs a handler: it has left the loop, and no longer counts as a read.
LEMMA ThisGood ==
  ASSUME ReplayInv, TranscriptInv, opts.log, NEW x, Turn("client", x), NEW m
  PROVE  /\ AtClient(m, ThisClient) \in Nat
         /\ Good(given, m, AtClient(m, ThisClient), ThisClient)
         /\ Good(given, m, AtClient(m, side["client"]), ThisClient)
         /\ AtClient(m, side["client"]) = AtClient(m, ThisClient)
               + (IF Head(side["client"].loop) = Done("read", "ok", Echo(m)) THEN 1 ELSE 0)
         /\ Settled(given, side["client"]) => Settled(given, ThisClient)
         /\ \A y \in Fits : Writing(given, y, side["client"]) => Writing(given, y, ThisClient)
  <1> DEFINE r == side["client"]
             L == r.loop
             q == ThisClient
             d == Done("read", "ok", Echo(m))
  <1>1. r \in Programs(opts, "client") /\ Good(given, m, AtClient(m, r), r)
    BY Present
  <1>2. L \in Seq(Handlers(opts, "client")) /\ L # <<>>
    BY <1>1 DEF Programs, Turn
  <1>3. Tail(L) \in Seq(Handlers(opts, "client"))
    BY <1>2, TailLoop
  <1>4. /\ q \in Programs(opts, "client") /\ q.loop = Tail(L) /\ q.wait = r.wait
        /\ q.log = r.log /\ q.queue = r.queue
    BY <1>1, <1>3 DEF ThisClient, This, Programs
  <1>5. \A i \in DOMAIN q.loop : i + 1 \in DOMAIN r.loop /\ q.loop[i] = r.loop[i + 1]
    BY <1>2, <1>4, TailLoop
  <1>6. Active("write", q.wait, q.loop) => Active("write", r.wait, r.loop)
    BY <1>4, <1>5 DEF Active
  <1>7. Settled(given, r) => Settled(given, q)
    BY <1>4, <1>5 DEF Settled
  <1>8. \A y \in Fits : Writing(given, y, r) => Writing(given, y, q)
    BY <1>4, <1>5 DEF Writing
  <1>9. AtClient(m, r) = AtClient(m, q) + (IF Head(L) = d THEN 1 ELSE 0) /\ AtClient(m, q) \in Nat
    <2>1. Count(L, d) = Count(Tail(L), d) + (IF Head(L) = d THEN 1 ELSE 0)
      BY <1>2, CountTail
    <2>2. AtClient(m, q) \in Nat
      BY <1>4, AtClientNat
    <2>3. Count(Tail(L), d) \in Nat /\ Count(r.log, EchoRecord(m)) \in Nat
      <3>1. r.log \in Seq(Records(Fits))
        BY <1>1 DEF Programs
      <3> QED BY <1>3, <3>1, CountNat
    <2>4. /\ AtClient(m, r) = Count(L, d) + Count(r.log, EchoRecord(m))
          /\ AtClient(m, q) = Count(Tail(L), d) + Count(r.log, EchoRecord(m))
      BY <1>4 DEF AtClient
    <2> HIDE DEF r, L, q, d
    <2> QED BY <2>1, <2>2, <2>3, <2>4
  <1>10. Good(given, m, AtClient(m, q), q)
    <2> HIDE DEF q, r
    <2>1. AtClient(m, q) <= AtClient(m, q)
      BY <1>9
    <2>2. Owed(m, AtClient(m, q), q)
      BY <1>1, <1>4, <2>1 DEF Good, Owed
    <2> QED BY <1>1, <1>4, <1>6, <1>7, <1>8, <2>2 DEF Good, Stage
  <1>11. Good(given, m, AtClient(m, r), q)
    <2>1. AtClient(m, q) <= AtClient(m, r) /\ AtClient(m, r) \in Nat
      BY <1>1, <1>9, AtClientNat
    <2> QED BY <1>9, <1>10, <2>1, GoodMore
  <1> QED BY <1>7, <1>8, <1>9, <1>10, <1>11

\* The names of sent messages count.
LEMMA StageCounts ==
  ASSUME NEW g \in Seq(Fits), NEW m \in Typed, NEW r, Stage(g, r)
  PROVE  Count(g, m) <= Count(r.log, Record("SENT", m)) /\ Count(g, m) \in Nat
  <1>1. Count(g, m) \in Nat
    BY CountNat
  <1>2. CASE Settled(g, r)
    BY <1>1, <1>2 DEF Settled, Names
  <1>3. ASSUME NEW x \in Fits, Writing(g, x, r)
        PROVE  Count(g, m) <= Count(r.log, Record("SENT", m))
    <2>1. Count(r.log, Record("SENT", m)) = Count(Append(g, x), m)
      BY <1>3 DEF Writing, Names
    <2>2. Count(Append(g, x), m) = Count(g, m) + (IF x = m THEN 1 ELSE 0)
      BY CountAppend
    <2> QED BY <1>1, <2>1, <2>2
  <1> QED BY <1>1, <1>2, <1>3 DEF Stage

\* An echo of m is recorded.
LEMMA PushEcho ==
  ASSUME opts.log, NEW g \in Seq(Fits), NEW m, NEW a \in Nat, NEW b \in Nat, NEW r,
         Good(g, m, a, r), Echoing /\ m \in Lined => a + 1 <= b /\ b <= Count(g, m),
         Echo(m) \in Fits
  PROVE  Good(g, m, b, push("RECEIVED", Echo(m), r))
  <1> DEFINE e == EchoRecord(m)
             q == [r EXCEPT !.log = Append(r.log, e)]
             d == Done("read", "ok", Echo(m))
  <1>1. /\ r \in Programs(opts, "client") /\ r.log \in Trace /\ r.log \in Seq(Records(Fits))
        /\ r.loop \in Seq(Handlers(opts, "client"))
    BY DEF Good, Programs, Trace
  <1>2. e \in Records(Fits) /\ e.type # "SENT"
    BY DEF EchoRecord, Record, Records, Types
  <1> HIDE DEF e
  <1>3. Append(r.log, e) \in Seq(Records(Fits))
    BY <1>1, <1>2
  <1>4. /\ q \in Programs(opts, "client") /\ q.wait = r.wait /\ q.loop = r.loop
        /\ q.log = Append(r.log, e) /\ q.queue = r.queue
    BY <1>1, <1>3 DEF Programs
  <1> HIDE DEF q, d
  <1>5. \A h \in Seq(Fits) : Names(r.log, h) => Names(q.log, h)
    BY <1>1, <1>2, <1>4, NamesOther
  <1>6. Settled(g, r) => Settled(g, q)
    BY <1>4, <1>5 DEF Settled
  <1>7. \A y \in Fits : Writing(g, y, r) => Writing(g, y, q)
    <2>1. \A y \in Fits : Append(g, y) \in Seq(Fits)
      OBVIOUS
    <2> QED BY <1>4, <1>5, <2>1 DEF Writing
  <1>8. ASSUME Echoing, m \in Lined
        PROVE  AtClient(m, q) <= b /\ EchoesFollow(m, q.log)
    <2>1. Count(q.log, e) = Count(r.log, e) + 1 /\ Count(r.log, e) \in Nat
      <3>1. Count(Append(r.log, e), e) = Count(r.log, e) + 1 /\ Count(r.log, e) \in Nat
        BY <1>1, <1>2, CountAppend, CountNat
      <3> QED BY <1>4, <3>1
    <2>2. Count(r.loop, d) \in Nat
      BY <1>1, CountNat
    <2>3. AtClient(m, r) = Count(r.loop, d) + Count(r.log, e) /\ AtClient(m, r) <= a
      BY <1>8 DEF AtClient, Good, Owed, d, e
    <2>4. AtClient(m, q) = Count(r.loop, d) + Count(q.log, e)
      BY <1>4 DEF AtClient, d, e
    <2>5. AtClient(m, q) <= b
      BY <1>8, <2>1, <2>2, <2>3, <2>4
    <2>6. Count(g, m) <= Count(r.log, Record("SENT", m)) /\ Count(g, m) \in Nat
      BY <1>8, StageCounts DEF Good, Lined
    <2>7. Count(r.log, Record("SENT", m)) \in Nat
      BY <1>1, CountNat
    <2>8. Count(r.log, e) + 1 <= Count(r.log, Record("SENT", m))
      BY <1>8, <2>1, <2>2, <2>3, <2>6, <2>7
    <2>9. EchoesFollow(m, r.log)
      BY <1>8 DEF Good, Owed
    <2>10. EchoesFollow(m, Append(r.log, e))
      BY <1>1, <1>2, <2>8, <2>9, FollowEcho DEF e
    <2> QED BY <1>4, <2>5, <2>10
  <1>9. Owed(m, b, q)
    BY <1>8 DEF Owed
  <1>10. Good(g, m, b, q)
    BY <1>4, <1>6, <1>7, <1>9 DEF Good, Stage
  <1>11. push("RECEIVED", Echo(m), r) = q
    BY DEF push, q, e, EchoRecord
  <1> QED BY <1>10, <1>11

-----------------------------------------------------------------------------
\* A client that does something keeps its trace a transcript.
Kept(q) == \A m : Good(given, m, AtClient(m, side["client"]), q)

\* The handlers that open the connection.
LEMMA OpeningGood ==
  ASSUME ReplayInv, TranscriptInv, opts.log, resolved \/ do_connect \/ do_handshake
  PROVE  \E q : ClientDoes(q) /\ Kept(q)
  <1> DEFINE r == ThisClient
             e == Established("client", r)
             h == Begin("handshake", r)
             c == IF h.conn = "closed" THEN h.conn ELSE "handshaking"
             k == Begin("connect", r)
             K(q) == \A m : Good(given, m, AtClient(m, side["client"]), q)
  <1>0. OptsOK(opts) /\ "client" \in Sides
    BY Present DEF Sides
  <1>1. PICK x \in Opening : Turn("client", x)
    BY Kinds DEF resolved, do_connect, do_handshake
  <1>2. K(r) /\ (opts.client = "replay" => r.pos < Len(opts.trace))
    <2>1. opts.client = "replay" => Fit("ready", "client", r)
      BY <1>0, <1>1, ThisFit DEF ThisClient
    <2> QED BY <1>1, <2>1, ThisGood DEF Fit
  <1> HIDE DEF r
  <1>3. K(e)
    BY <1>0, <1>2, EstablishedGood
  <1>4. K(h) /\ K(k)
    BY <1>2, BeginGood, Kinds
  <1>5. K([h EXCEPT !.conn = c]) /\ K([k EXCEPT !.conn = "connecting"])
    <2>1. c \in Conns /\ "connecting" \in Conns
      BY <1>4 DEF Good, Programs, Conns
    <2> HIDE DEF h, k, c
    <2> QED BY <1>4, <2>1, MemberGood
  <1>6. K(Abort({"signal", "stdin"}, r)) /\ K(close(Abort({"signal", "stdin"}, e)))
    BY <1>2, <1>3, AbortGood, CloseGood
  <1>7. \/ ClientDoes([k EXCEPT !.conn = "connecting"]) \/ ClientDoes(r)
        \/ ClientDoes([h EXCEPT !.conn = c]) \/ ClientDoes(e)
        \/ ClientDoes(Abort({"signal", "stdin"}, r))
        \/ ClientDoes(close(Abort({"signal", "stdin"}, e)))
    BY DEF resolved, do_connect, do_handshake, r
  <1> HIDE DEF e, h, c, k
  <1> QED BY <1>2, <1>3, <1>5, <1>6, <1>7 DEF Kept

\* The timer and the reads.
LEMMA ReadingGood ==
  ASSUME ReplayInv, TranscriptInv, opts.log, client_timer \/ client_read_failed \/ client_read
  PROVE  \E q : ClientDoes(q) /\ Kept(q)
  <1> DEFINE r == ThisClient
             K(q) == \A m : Good(given, m, AtClient(m, side["client"]), q)
  <1>0. OptsOK(opts) /\ "client" \in Sides /\ given \in Seq(Fits)
    BY Present DEF Sides
  <1>1. CASE client_timer
    <2>1. Turn("client", "timer")
      BY <1>1 DEF client_timer
    <2>2. Fit("ready", "client", r) /\ r.pos > 0 /\ opts.client = "replay"
      BY <1>0, <2>1, ThisFit, Kinds DEF ThisClient
    <2>3. K(r) /\ r.pos < Len(opts.trace)
      BY <2>1, <2>2, ThisGood DEF Fit
    <2> HIDE DEF r
    <2>4. K(replayed("client", r))
      BY <1>0, <2>2, <2>3, ReplayedGood
    <2> QED BY <1>1, <2>4 DEF client_timer, r, Kept
  <1>2. CASE client_read_failed
    <2>1. K(r)
      BY <1>2, ThisGood DEF client_read_failed
    <2> HIDE DEF r
    <2>2. K(do_shutdown(r))
      BY <2>1, ShutdownGood
    <2> QED BY <1>2, <2>1, <2>2 DEF client_read_failed, r, Kept
  <1>3. CASE client_read
    <2> DEFINE x == Octets("client")
               f == Fill(x, r)
               q == push("RECEIVED", x, f)
    <2>1. Turn("client", "read") /\ Fine("client")
      BY <1>3 DEF client_read
    <2>2. x \in Fits /\ Head(side["client"].loop) = Done("read", "ok", x)
      <3>1. x \in Fits /\ Head(side["client"].loop) \in Handlers(opts, "client")
        BY <1>0, <2>1, OctetsFacts, ThisFit
      <3> QED BY <2>1, <3>1 DEF Octets, Fine, Code, Turn, Handlers, Done
    <2>3. /\ Fit("live", "client", r)
          /\ opts.client = "replay" => r.pos < Len(opts.trace)
      <3>1. opts.client = "replay" => Fit("ready", "client", r)
        BY <1>0, <2>1, ThisFit, Kinds DEF ThisClient
      <3>2. Fit("live", "client", r)
        BY <1>0, <2>1, ThisFit DEF ThisClient
      <3> QED BY <3>1, <3>2 DEF Fit
    <2> HIDE DEF x, r
    <2>4. ASSUME NEW m
          PROVE  Good(given, m, AtClient(m, side["client"]), q) /\ q.pos = r.pos
      <3> DEFINE b == AtClient(m, side["client"])
                 a == AtClient(m, r)
      <3>1. /\ a \in Nat /\ Good(given, m, a, r) /\ Good(given, m, b, r)
            /\ b = a + (IF Done("read", "ok", x) = Done("read", "ok", Echo(m)) THEN 1 ELSE 0)
        BY <2>1, <2>2, ThisGood DEF r
      <3>2. b \in Nat
        BY Present
      <3> HIDE DEF a, b
      <3>3. Good(given, m, a, f) /\ Good(given, m, b, f) /\ f.pos = r.pos
        BY <2>2, <2>3, <3>1, FillGood
      <3>4. f \in Programs(opts, "client")
        BY <3>3 DEF Good
      <3>5. CASE x # Echo(m)
        <4>1. Record("RECEIVED", x) # EchoRecord(m) /\ "RECEIVED" \in Types \ {"SENT"}
          BY <3>5 DEF Record, EchoRecord, Types
        <4> HIDE DEF f
        <4>2. Good(given, m, b, q) /\ q.pos = f.pos
          BY <1>0, <2>2, <3>3, <4>1, PushGood
        <4> QED BY <3>3, <4>2 DEF b
      <3>6. CASE x = Echo(m)
        <4>1. b = a + 1
          BY <3>1, <3>6
        <4>2. Echoing /\ m \in Lined => a + 1 <= b /\ b <= Count(given, m)
          <5> SUFFICES ASSUME Echoing, m \in Lined PROVE b <= Count(given, m)
            BY <3>1, <3>2, <4>1
          <5>1. Flow(m)
            BY DEF TranscriptInv
          <5>2. Carried(m, wire) \in Nat /\ AtServer(m, side["server"]) \in Nat
                /\ Count(given, m) \in Nat
            BY Present
          <5>3. Carried(m, wire) + AtServer(m, side["server"]) + b <= Count(given, m)
            BY <5>1 DEF Flow, b
          <5> QED BY <3>2, <5>2, <5>3
        <4> HIDE DEF f
        <4>3. Good(given, m, b, push("RECEIVED", Echo(m), f))
          BY <1>0, <2>2, <3>1, <3>2, <3>3, <3>6, <4>2, PushEcho
        <4>4. q.pos = f.pos
          BY <3>4 DEF push, Programs
        <4> QED BY <3>3, <3>6, <4>3, <4>4 DEF b
      <3> QED BY <3>5, <3>6
    <2>5. K(q) /\ q.pos = r.pos
      BY <2>4
    <2> HIDE DEF q
    <2>6. K(Throw("mismatch", q)) /\ K(do_shutdown(q)) /\ K(do_read(q))
      BY <2>5, CloseGood, ShutdownGood, BeginGood, Kinds DEF do_read, Statuses
    <2>7. opts.client = "replay" => K(do_replay("client", q))
      BY <1>0, <2>3, <2>5, DoReplayGood
    <2>8. \/ ClientDoes(Throw("mismatch", q))
          \/ ClientDoes(do_shutdown(q))
          \/ opts.client = "replay" /\ ClientDoes(do_replay("client", q))
          \/ opts.client # "replay" /\ ClientDoes(do_read(q))
      BY <1>3 DEF client_read, q, x, r
    <2> QED BY <2>6, <2>7, <2>8 DEF Kept
  <1> QED BY <1>1, <1>2, <1>3

\* The keyboard and the signals, and the end of the connection.
LEMMA EndingGood ==
  ASSUME ReplayInv, TranscriptInv, opts.log,
         shutdown_done \/ do_keyboard_read \/ keyboard_ends \/ client_signal \/ client_bye
  PROVE  \E q : ClientDoes(q) /\ Kept(q)
  <1> DEFINE r == ThisClient
             K(q) == \A m : Good(given, m, AtClient(m, side["client"]), q)
  <1>0. "client" \in Sides /\ given \in Seq(Fits)
    BY Present DEF Sides
  <1>1. K(r)
    BY ThisGood DEF shutdown_done, do_keyboard_read, keyboard_ends, client_signal, client_bye
  <1> HIDE DEF r
  <1>2. CASE shutdown_done
    <2> DEFINE q == push("DISCONNECT", <<>>, r)
    <2>1. <<>> \in Fits /\ "DISCONNECT" \in Types \ {"SENT"}
      BY ReplayAssumption DEF Fits, Types
    <2>2. \A m : Record("DISCONNECT", <<>>) # EchoRecord(m)
      BY DEF Record, EchoRecord
    <2>3. K(q)
      BY <1>0, <1>1, <2>1, <2>2, PushGood
    <2> HIDE DEF q
    <2>4. K(close(Abort({"stdin", "signal", "timer", "limit"}, q)))
      BY <2>3, AbortGood, CloseGood
    <2> QED BY <1>2, <2>4 DEF shutdown_done, q, r, Kept
  <1>3. CASE do_keyboard_read
    <2> DEFINE x == Front(Octets("client")) \o <<"cr", "nl">>
               q == enqueue("client", x, r)
    <2>1. x \in Own(opts, "client")
      BY <1>0, <1>3, OctetsFacts, TypedFits DEF do_keyboard_read
    <2> HIDE DEF x
    <2>2. K(q)
      BY <1>0, <1>1, <2>1, EnqueueGood
    <2> HIDE DEF q
    <2>3. K(Begin("stdin", q))
      BY <2>2, BeginGood, Kinds
    <2> QED BY <1>3, <2>3 DEF do_keyboard_read, q, x, r, Kept
  <1>4. CASE keyboard_ends
    <2>1. K(Abort({"signal"}, close(r)))
      BY <1>1, CloseGood, AbortGood
    <2> QED BY <1>4, <2>1 DEF keyboard_ends, r, Kept
  <1>5. CASE client_signal
    <2> DEFINE s == [r EXCEPT !.signaled = TRUE]
    <2>1. K(s)
      BY <1>1, MemberGood
    <2> HIDE DEF s
    <2>2. K(do_last_write_close(Begin("signal", s)))
      BY <2>1, BeginGood, Kinds DEF do_last_write_close
    <2>3. K(Abort({"stdin", "signal"}, close(r)))
      BY <1>1, CloseGood, AbortGood
    <2>4. \/ ClientDoes(r) \/ ClientDoes(Abort({"stdin", "signal"}, close(r)))
          \/ ClientDoes(do_last_write_close(Begin("signal", s)))
      BY <1>5 DEF client_signal, s, r
    <2> QED BY <1>1, <2>2, <2>3, <2>4 DEF Kept
  <1>6. CASE client_bye
    <2>1. K(do_close(r))
      BY <1>1, CloseGood
    <2> QED BY <1>6, <2>1 DEF client_bye, r, Kept
  <1> QED BY <1>2, <1>3, <1>4, <1>5, <1>6

\* The handler of the client's write: what was written has been named, and the next
\* message is.
LEMMA WrittenGood ==
  ASSUME ReplayInv, TranscriptInv, opts.log, written("client")
  PROVE  \E q : ClientDoes(q) /\ Kept(q)
  <1> DEFINE t == This("client")
             w == IF Fine("client") THEN Tail(t.queue) ELSE t.queue
             q == [t EXCEPT !.queue = w]
             K(p) == \A m : Good(given, m, AtClient(m, side["client"]), p)
  <1>0. Turn("client", "write") /\ "client" \in Sides /\ given \in Seq(Fits)
    BY Present DEF written, Sides
  <1>1. /\ t \in Programs(opts, "client") /\ t.queue # <<>>
        /\ ~Active("write", t.wait, t.loop)
    BY <1>0, ThisFit, FitFacts
  <1>2. K(t) /\ (Settled(given, side["client"]) => Settled(given, t))
    BY <1>0, ThisGood DEF ThisClient
  <1>3. w \in Seq(Own(opts, "client"))
    BY <1>1 DEF Programs
  <1>4. /\ q \in Programs(opts, "client") /\ q.queue = w /\ q.wait = t.wait
        /\ q.loop = t.loop /\ q.log = t.log
    <2> HIDE DEF w, t
    <2> QED BY <1>1, <1>3 DEF Programs
  <1>5. Fine("client") => Settled(given, t)
    <2> SUFFICES ASSUME Fine("client") PROVE Settled(given, side["client"])
      BY <1>2
    <2> DEFINE L == side["client"].loop
    <2>1. 1 \in DOMAIN L /\ L[1].op = "write" /\ L[1].code = "ok"
      <3>1. L # <<>> /\ L \in Seq(Handlers(opts, "client"))
        BY <1>0, Present DEF Turn, Programs
      <3>2. Head(L) = L[1] /\ 1 \in DOMAIN L
        BY <3>1, TailLoop
      <3> QED BY <1>0, <3>2 DEF Turn, Fine, Code
    <2>2. \A y \in Fits : ~Writing(given, y, side["client"])
      BY <2>1 DEF Writing
    <2>3. Stage(given, side["client"])
      BY DEF TranscriptInv
    <2> QED BY <2>2, <2>3 DEF Stage
  <1>6. ClientDoes(IF Fine("client") /\ q.queue # <<>> THEN do_write("client", q) ELSE q)
    BY DEF written, Does
  <1> HIDE DEF q, t
  <1>7. ASSUME NEW m PROVE Owed(m, AtClient(m, side["client"]), q)
    BY <1>2, <1>4 DEF Good, Owed, AtClient
  <1>8. ~Active("write", q.wait, q.loop)
    BY <1>1, <1>4
  <1>9. CASE Fine("client")
    <2>1. Settled(given, q) /\ Names(q.log, given)
      BY <1>4, <1>5, <1>9 DEF Settled
    <2>2. q.queue # <<>> => K(do_write("client", q))
      BY <1>0, <1>4, <1>7, <1>8, <2>1, DoWriteGood
    <2>3. K(q)
      BY <1>4, <1>7, <1>8, <2>1 DEF Good, Stage
    <2> QED BY <1>6, <2>2, <2>3 DEF Kept
  <1>10. CASE ~Fine("client")
    <2>1. q.queue = t.queue
      BY <1>4, <1>10
    <2>2. K(q)
      BY <1>2, <1>4, <2>1, GoodWait
    <2> QED BY <1>6, <1>10, <2>2 DEF Kept
  <1> QED BY <1>9, <1>10

\* The limit, and the return of run().
LEMMA LimitGood ==
  ASSUME ReplayInv, TranscriptInv, opts.log, limit("client") \/ run_returns("client")
  PROVE  \E q : ClientDoes(q) /\ Kept(q)
  <1> DEFINE K(p) == \A m : Good(given, m, AtClient(m, side["client"]), p)
  <1>1. CASE limit("client")
    <2>1. K(This("client"))
      BY <1>1, ThisGood DEF limit, ThisClient
    <2>2. K(Throw("limit", This("client")))
      BY <2>1, CloseGood DEF Statuses
    <2> QED BY <1>1, <2>1, <2>2 DEF limit, Does, Kept
  <1>2. CASE run_returns("client")
    <2>1. K([side["client"] EXCEPT !.status = "returned"])
      BY Present, MemberGood DEF Statuses
    <2> QED BY <1>2, <2>1 DEF run_returns, Does, Kept
  <1> QED BY <1>1, <1>2

\* The process ends.
LEMMA FinishGood ==
  ASSUME ReplayInv, TranscriptInv, opts.log, finish("client")
  PROVE  \E q : ClientDoes(q) /\ Kept(q)
  <1> DEFINE K(p) == \A m : Good(given, m, AtClient(m, side["client"]), p)
             c == close(side["client"])
             r == [c EXCEPT !.session = "gone", !.wait = {}, !.loop = <<>>]
  <1>0. given \in Seq(Fits)
    BY Present
  <1>1. K(c)
    BY Present, CloseGood
  <1> HIDE DEF c
  <1>2. /\ r \in Programs(opts, "client") /\ r.wait = {} /\ r.loop = <<>> /\ r.log = c.log
        /\ r.queue = c.queue
    <2>1. <<>> \in Seq(Handlers(opts, "client")) /\ "gone" \in SessionStates
          /\ c \in Programs(opts, "client")
      BY <1>1 DEF SessionStates, Good
    <2> QED BY <2>1 DEF Programs
  <1> HIDE DEF r
  <1>3. ASSUME NEW m PROVE Good(given, m, AtClient(m, side["client"]), r)
    <2> DEFINE b == AtClient(m, side["client"])
               d == Done("read", "ok", Echo(m))
    <2>1. Good(given, m, b, c) /\ b \in Nat
      BY <1>1, Present
    <2> HIDE DEF b, d
    <2>2. ~Active("write", r.wait, r.loop)
      BY <1>2 DEF Active
    <2>3. Settled(given, c) => Settled(given, r)
      BY <1>2 DEF Settled
    <2>4. \A y \in Fits : Writing(given, y, c) => Writing(given, y, r)
      BY <1>2 DEF Writing
    <2>5. Count(r.loop, d) = 0 /\ Count(c.loop, d) \in Nat /\ Count(c.log, EchoRecord(m)) \in Nat
      <3>1. c.loop \in Seq(Handlers(opts, "client")) /\ c.log \in Seq(Records(Fits))
        BY <2>1 DEF Good, Programs
      <3>2. {k \in 1 .. Len(<<>>) : <<>>[k] = d} = {}
        OBVIOUS
      <3>3. Count(<<>>, d) = 0
        BY <3>2, FS_EmptySet DEF Count, UpTo
      <3> QED BY <1>2, <3>1, <3>3, CountNat
    <2>6. AtClient(m, r) <= AtClient(m, c)
      BY <1>2, <2>5 DEF AtClient, d
    <2>7. Owed(m, b, r)
      <3>1. AtClient(m, r) \in Nat /\ AtClient(m, c) \in Nat
        BY <1>2, <2>1, AtClientNat DEF Good
      <3> QED BY <1>2, <2>1, <2>6, <3>1 DEF Good, Owed
    <2>8. Good(given, m, b, r)
      BY <1>2, <2>1, <2>2, <2>3, <2>4, <2>7 DEF Good, Stage
    <2> QED BY <2>8 DEF b
  <1>4. K(push("END_OF_FILE", <<>>, r))
    <2>1. <<>> \in Fits /\ "END_OF_FILE" \in Types \ {"SENT"}
      BY ReplayAssumption DEF Fits, Types
    <2>2. \A m : Record("END_OF_FILE", <<>>) # EchoRecord(m)
      BY DEF Record, EchoRecord
    <2> QED BY <1>0, <1>3, <2>1, <2>2, PushGood
  <1>5. ClientDoes(push("END_OF_FILE", <<>>, r))
    BY DEF finish, ClientDoes, r, c
  <1> QED BY <1>4, <1>5 DEF Kept
-----------------------------------------------------------------------------
\* An echoing server that does something sends nothing back that it has not read.
Returned(q) == Echoing => \A m : Echoes(m, AtServer(m, side["server"]), q)

\* A larger bound.
LEMMA EchoesMore ==
  ASSUME NEW m, NEW a \in Nat, NEW b \in Nat, a <= b, NEW r, Echoes(m, a, r)
  PROVE  Echoes(m, b, r)
  <1>1. AtServer(m, r) \in Nat
    BY AtServerNat DEF Echoes
  <1> QED BY <1>1 DEF Echoes

\* The server runs a handler.
LEMMA ThisEchoes ==
  ASSUME ReplayInv, TranscriptInv, opts.log, Echoing, NEW x, Turn("server", x), NEW m
  PROVE  /\ AtServer(m, ThisServer) \in Nat
         /\ Echoes(m, AtServer(m, ThisServer), ThisServer)
         /\ Echoes(m, AtServer(m, side["server"]), ThisServer)
         /\ AtServer(m, side["server"]) = AtServer(m, ThisServer)
               + (IF Head(side["server"].loop) = Done("read", "ok", m) THEN 1 ELSE 0)
         /\ x \notin {"write", "timer"} /\ opts.server = "echo"
  <1> DEFINE r == side["server"]
             L == r.loop
             q == ThisServer
             d == Done("read", "ok", m)
  <1>0. opts.server = "echo" /\ "server" \in Sides
    BY DEF Echoing, Sides
  <1>1. r \in Programs(opts, "server") /\ Echoes(m, AtServer(m, r), r) /\ AtServer(m, r) \in Nat
    BY Present
  <1>2. L \in Seq(Handlers(opts, "server")) /\ L # <<>>
    BY <1>1 DEF Programs, Turn
  <1>3. Tail(L) \in Seq(Handlers(opts, "server"))
    BY <1>2, TailLoop
  <1>4. q \in Programs(opts, "server") /\ q.loop = Tail(L) /\ q.wait = r.wait /\ q.echo = r.echo
    BY <1>1, <1>3 DEF ThisServer, This, Programs
  <1>5. /\ \A i \in DOMAIN q.loop : i + 1 \in DOMAIN r.loop /\ q.loop[i] = r.loop[i + 1]
        /\ Head(L) = L[1] /\ 1 \in DOMAIN L
    BY <1>2, <1>4, TailLoop
  <1>6. ~Active("write", q.wait, q.loop)
    BY <1>1, <1>4, <1>5 DEF Active, Echoes
  <1>7. AtServer(m, r) = AtServer(m, q) + (IF Head(L) = d THEN 1 ELSE 0) /\ AtServer(m, q) \in Nat
    <2>1. Count(L, d) = Count(Tail(L), d) + (IF Head(L) = d THEN 1 ELSE 0)
      BY <1>2, CountTail
    <2>2. AtServer(m, q) \in Nat /\ Count(Tail(L), d) \in Nat
      BY <1>3, <1>4, AtServerNat, CountNat
    <2> DEFINE k == IF "echo" \in r.wait /\ r.echo = m THEN 1 ELSE 0
    <2>3. AtServer(m, r) = Count(L, d) + k /\ AtServer(m, q) = Count(Tail(L), d) + k
      BY <1>4 DEF AtServer
    <2>4. k \in Nat
      OBVIOUS
    <2> HIDE DEF r, L, q, d, k
    <2> QED BY <2>1, <2>2, <2>3, <2>4
  <1>8. Echoes(m, AtServer(m, q), q)
    <2> HIDE DEF q
    <2>1. AtServer(m, q) <= AtServer(m, q)
      BY <1>7
    <2> QED BY <1>4, <1>6, <2>1 DEF Echoes
  <1>9. Echoes(m, AtServer(m, r), q)
    <2>1. AtServer(m, q) <= AtServer(m, r)
      BY <1>1, <1>7
    <2> QED BY <1>1, <1>7, <1>8, <2>1, EchoesMore
  <1>10. x # "write"
    BY <1>1, <1>5 DEF Turn, Echoes, Active
  <1>11. x # "timer"
    <2>1. x = "timer" => opts["server"] = "replay"
      BY <1>0, ThisFit
    <2> QED BY <1>0, <2>1
  <1> QED BY <1>0, <1>7, <1>8, <1>9, <1>10, <1>11

\* The server opens the session, and takes leave.
LEMMA ServerEchoes ==
  ASSUME ReplayInv, TranscriptInv, opts.log,
         \/ accepted \/ accept_failed \/ handshaken \/ echoed \/ last_written
         \/ wait_for_disconnect \/ server_signal \/ server_bye \/ main_signal
  PROVE  \E q : ServerDoes(q) /\ Returned(q)
  <1> DEFINE r == ThisServer
             K(q) == Echoing => \A m : /\ Echoes(m, AtServer(m, side["server"]), q)
                                       /\ AtServer(m, side["server"]) \in Nat
  <1>0. Echoing => opts.server = "echo" /\ opts.ssl
    BY DEF Echoing
  <1>1. K(r)
    <2>1. \E x : Turn("server", x)
      BY DEF accepted, accept_failed, handshaken, echoed, last_written, wait_for_disconnect,
             server_signal, server_bye, main_signal
    <2> QED BY <2>1, ThisEchoes, Present
  <1> HIDE DEF r
  <1>2. CASE accepted
    <2> DEFINE u == [r EXCEPT !.session = "live", !.conn = "handshaking"]
               v == Begin("signal", u)
               p == IF opts.ssl THEN Begin("handshake", v) ELSE Established("server", v)
    <2>1. K(u)
      <3>1. K([r EXCEPT !.session = "live"])
        BY <1>1, MemberEchoes DEF SessionStates
      <3>2. K([[r EXCEPT !.session = "live"] EXCEPT !.conn = "handshaking"])
        BY <3>1, MemberEchoes DEF Conns
      <3>3. Echoing => r \in Programs(opts, "server")
        BY <1>1 DEF Echoes
      <3>4. Echoing => u = [[r EXCEPT !.session = "live"] EXCEPT !.conn = "handshaking"]
        BY <3>3 DEF Programs
      <3> QED BY <3>2, <3>4
    <2> HIDE DEF u
    <2>2. K(v)
      BY <2>1, BeginEchoes, Kinds
    <2> HIDE DEF v
    <2>3. K(p)
      BY <1>0, <2>2, BeginEchoes, Kinds
    <2> HIDE DEF p
    <2>4. K(Abort({"main_signal"}, p)) /\ K(Begin("accept", p))
      BY <2>3, AbortEchoes, BeginEchoes, Kinds
    <2>5. ServerDoes(Abort({"main_signal"}, p)) \/ ServerDoes(Begin("accept", p))
      BY <1>2 DEF accepted, p, v, u, r
    <2> QED BY <2>4, <2>5 DEF Returned
  <1>3. CASE accept_failed
    <2>1. K(Abort({"limit"}, r))
      BY <1>1, AbortEchoes
    <2>2. ServerDoes(Abort({"limit"}, r)) \/ ServerDoes(r)
      BY <1>3 DEF accept_failed, r
    <2> QED BY <1>1, <2>1, <2>2 DEF Returned
  <1>4. CASE handshaken
    <2>1. K(Established("server", r)) /\ K(Abort({"signal"}, r))
      BY <1>0, <1>1, CloseEchoes, AbortEchoes
    <2>2. ServerDoes(Established("server", r)) \/ ServerDoes(Abort({"signal"}, r))
      BY <1>4 DEF handshaken, r
    <2> QED BY <2>1, <2>2 DEF Returned
  <1>5. CASE echoed
    <2>1. K(do_read(r))
      BY <1>1, BeginEchoes, Kinds DEF do_read
    <2>2. ServerDoes(do_read(r)) \/ ServerDoes(r)
      BY <1>5 DEF echoed, r
    <2> QED BY <1>1, <2>1, <2>2 DEF Returned
  <1>6. CASE last_written
    <2>1. K(Abort({"signal"}, r))
      BY <1>1, AbortEchoes
    <2> QED BY <1>6, <2>1 DEF last_written, r, Returned
  <1>7. CASE wait_for_disconnect
    <2>1. K(Abort({"signal"}, r))
      BY <1>1, AbortEchoes
    <2>2. K(Throw("undefined", r)) /\ K(Throw("disconnect", r))
      BY <1>1, MemberEchoes DEF Throw, Statuses
    <2>3. \/ ServerDoes(Abort({"signal"}, r)) \/ ServerDoes(Throw("undefined", r))
          \/ ServerDoes(Throw("disconnect", r))
      BY <1>7 DEF wait_for_disconnect, r
    <2> QED BY <2>1, <2>2, <2>3 DEF Returned
  <1>8. CASE server_signal
    <2> DEFINE s == [r EXCEPT !.signaled = TRUE]
    <2>1. K(s)
      BY <1>1, MemberEchoes
    <2> HIDE DEF s
    <2>2. K(do_last_write_close(Begin("signal", s)))
      BY <2>1, BeginEchoes, Kinds DEF do_last_write_close
    <2>3. K(close(r))
      BY <1>1, CloseEchoes
    <2>4. \/ ServerDoes(r) \/ ServerDoes(close(r))
          \/ ServerDoes(do_last_write_close(Begin("signal", s)))
      BY <1>8 DEF server_signal, s, r
    <2> QED BY <1>1, <2>2, <2>3, <2>4 DEF Returned
  <1>9. CASE server_bye
    <2>1. K(Abort({"signal"}, close(r))) /\ K(Abort({"signal"}, Abort(SocketOps, r)))
      BY <1>1, CloseEchoes, AbortEchoes
    <2>2. \/ ServerDoes(Abort({"signal"}, close(r)))
          \/ ServerDoes(Abort({"signal"}, Abort(SocketOps, r)))
      BY <1>9 DEF server_bye, r
    <2> QED BY <2>1, <2>2 DEF Returned
  <1>10. CASE main_signal
    <2>1. K(Abort({"accept"}, r))
      BY <1>1, AbortEchoes
    <2>2. ServerDoes(Abort({"accept"}, r)) \/ ServerDoes(r)
      BY <1>10 DEF main_signal, r
    <2> QED BY <1>1, <2>1, <2>2 DEF Returned
  <1> QED BY <1>2, <1>3, <1>4, <1>5, <1>6, <1>7, <1>8, <1>9, <1>10

-----------------------------------------------------------------------------
\* The echoing server reads a message: it has been on its way to the server, and is now
\* on its way back.
LEMMA ServerReadEchoes ==
  ASSUME ReplayInv, TranscriptInv, opts.log, server_read
  PROVE  \E q : ServerDoes(q) /\ Returned(q)
  <1> DEFINE r == ThisServer
             x == Octets("server")
             f == Fill(x, r)
             e == [f EXCEPT !.echo = x]
             K(q) == Echoing => \A m : Echoes(m, AtServer(m, side["server"]), q)
  <1>0. Turn("server", "read") /\ "server" \in Sides /\ (Echoing => opts.server = "echo")
    BY DEF server_read, Sides, Echoing
  <1>1. x \in Fits /\ x \in Heard(opts, "server")
    BY <1>0, OctetsFacts
  <1>2. Fit("live", "server", r)
    BY <1>0, ThisFit DEF ThisServer
  <1>3. Fine("server") => Head(side["server"].loop) = Done("read", "ok", x)
    <2>1. Head(side["server"].loop) \in Handlers(opts, "server")
      BY <1>0, ThisFit
    <2> QED BY <1>0, <2>1 DEF Octets, Fine, Code, Turn, Handlers, Done
  <1>4. \/ ServerDoes(r)
        \/ Fine("server") /\ ServerDoes(Throw("mismatch", f))
        \/ Fine("server") /\ ServerDoes(Begin("last", f))
        \/ opts.server = "replay" /\ ServerDoes(do_replay("server", f))
        \/ Fine("server") /\ opts.server # "replay" /\ ServerDoes(Begin("echo", e))
    BY DEF server_read
  <1>5. K(r)
    BY <1>0, ThisEchoes
  <1> HIDE DEF r, x
  <1>6. Fit("live", "server", f) /\ f \in Programs(opts, "server") /\ r \in Programs(opts, "server")
    BY <1>1, <1>2, FillFit, FitFacts
  <1>7. f.loop = r.loop /\ f.echo = r.echo /\ f.wait = r.wait
    BY <1>6 DEF Fill, Programs
  <1>8. ASSUME NEW m, NEW b \in Nat, Echoes(m, b, r) PROVE Echoes(m, b, f)
    <2> HIDE DEF f
    <2> QED BY <1>6, <1>7, <1>8, EchoesWait
  <1>9. Echoing => \A m : AtServer(m, side["server"]) \in Nat
    BY Present
  <1>10. K(f)
    <2> HIDE DEF f
    <2> QED BY <1>5, <1>8, <1>9
  <1> HIDE DEF f
  <1>11. K(Throw("mismatch", f)) /\ K(Begin("last", f))
    BY <1>9, <1>10, MemberEchoes, BeginEchoes, Kinds DEF Throw, Statuses
  <1>12. ASSUME Fine("server"), Echoing, NEW m
         PROVE  Echoes(m, AtServer(m, side["server"]), Begin("echo", e))
    <2> DEFINE a == AtServer(m, r)
               b == AtServer(m, side["server"])
    <2>1. /\ a \in Nat /\ Echoes(m, a, r)
          /\ b = a + (IF Done("read", "ok", x) = Done("read", "ok", m) THEN 1 ELSE 0)
      BY <1>0, <1>3, <1>12, ThisEchoes DEF r
    <2>2. b \in Nat
      BY <1>9, <1>12
    <2>3. x = m => Done("read", "ok", x) = Done("read", "ok", m)
      OBVIOUS
    <2> HIDE DEF a, b
    <2>4. a + (IF x = m THEN 1 ELSE 0) <= b
      BY <2>1, <2>2, <2>3
    <2>5. Echoes(m, a, f)
      BY <1>8, <2>1
    <2>6. Echoes(m, b, Begin("echo", e))
      BY <1>0, <1>1, <1>6, <1>12, <2>1, <2>2, <2>4, <2>5, EchoBegins
    <2> QED BY <2>6 DEF b
  <1> HIDE DEF e
  <1>13. CASE Echoing
    <2>1. opts.server # "replay"
      BY <1>0, <1>13
    <2> QED BY <1>4, <1>5, <1>11, <1>12, <2>1 DEF Returned
  <1>14. CASE ~Echoing
    BY <1>4, <1>14 DEF Returned
  <1> QED BY <1>13, <1>14

\* The other handlers of the server: an echoing one has no queue and no timer.
LEMMA ServerOthers ==
  ASSUME ReplayInv, TranscriptInv, opts.log,
         server_timer \/ written("server") \/ limit("server") \/ run_returns("server")
  PROVE  \E q : ServerDoes(q) /\ Returned(q)
  <1> DEFINE K(q) == Echoing => \A m : Echoes(m, AtServer(m, side["server"]), q)
  <1>0. Echoing => \A m : AtServer(m, side["server"]) \in Nat
    BY Present
  <1>1. CASE server_timer
    <2>1. Turn("server", "timer") /\ \E q : ServerDoes(q)
      BY <1>1 DEF server_timer
    <2>2. ~Echoing
      BY <2>1, ThisEchoes
    <2> QED BY <2>1, <2>2 DEF Returned
  <1>2. CASE written("server")
    <2>1. Turn("server", "write") /\ \E q : ServerDoes(q)
      BY <1>2 DEF written, Does
    <2>2. ~Echoing
      BY <2>1, ThisEchoes
    <2> QED BY <2>1, <2>2 DEF Returned
  <1>3. CASE limit("server")
    <2>1. K(This("server"))
      BY <1>3, ThisEchoes DEF limit, ThisServer
    <2>2. K(Throw("limit", This("server")))
      BY <1>0, <2>1, MemberEchoes DEF Statuses, Throw
    <2> QED BY <1>3, <2>1, <2>2 DEF limit, Does, Returned
  <1>4. CASE run_returns("server")
    <2>1. K([side["server"] EXCEPT !.status = "returned"])
      BY <1>0, Present, MemberEchoes DEF Statuses
    <2> QED BY <1>4, <2>1 DEF run_returns, Does, Returned
  <1> QED BY <1>1, <1>2, <1>3, <1>4

\* Nothing counts in an empty sequence.
LEMMA CountNothing == \A e : Count(<<>>, e) = 0
  <1> SUFFICES ASSUME NEW e PROVE Count(<<>>, e) = 0
    OBVIOUS
  <1>1. {k \in 1 .. Len(<<>>) : <<>>[k] = e} = {}
    OBVIOUS
  <1> QED BY <1>1, FS_EmptySet DEF Count, UpTo

\* The server's process ends.
LEMMA ServerFinish ==
  ASSUME ReplayInv, TranscriptInv, opts.log, finish("server")
  PROVE  side'["client"] = side["client"] /\ Returned(side'["server"])
  <1> DEFINE c == close(side["server"])
             r == [c EXCEPT !.session = "gone", !.wait = {}, !.loop = <<>>]
  <1>1. side' = [side EXCEPT !["server"] = r] /\ side = [p \in Sides |-> side[p]]
    BY DEF finish, ReplayInv
  <1>2. side'["client"] = side["client"] /\ side'["server"] = r
    BY <1>1 DEF Sides
  <1>3. ASSUME Echoing, NEW m PROVE Echoes(m, AtServer(m, side["server"]), r)
    <2> DEFINE b == AtServer(m, side["server"])
    <2>1. Echoes(m, b, c) /\ b \in Nat
      BY <1>3, Present, CloseEchoes
    <2> HIDE DEF b, c
    <2>2. r \in Programs(opts, "server") /\ r.wait = {} /\ r.loop = <<>>
      <3>1. /\ <<>> \in Seq(Handlers(opts, "server")) /\ "gone" \in SessionStates
            /\ c \in Programs(opts, "server")
        BY <2>1 DEF SessionStates, Echoes
      <3> QED BY <3>1 DEF Programs
    <2> HIDE DEF r
    <2>3. AtServer(m, r) = 0
      BY <2>2, CountNothing DEF AtServer
    <2>4. ~Active("write", r.wait, r.loop)
      BY <2>2 DEF Active
    <2>5. Echoes(m, b, r)
      BY <2>1, <2>2, <2>3, <2>4 DEF Echoes
    <2> QED BY <2>5 DEF b
  <1> HIDE DEF r
  <1> QED BY <1>2, <1>3 DEF Returned

\* Two programs that keep what they promise, with nothing new between them.
LEMMA QuietStep ==
  ASSUME ReplayInv, ReplayInv', TranscriptInv, opts.log, opts' = opts, given' = given,
         Kept(side'["client"]), Returned(side'["server"]),
         Echoing => \A m \in Lined : Carried(m, wire') <= Carried(m, wire)
  PROVE  TranscriptInv'
  <1>1. given \in Seq(Fits) /\ Stage(given, side'["client"])
    BY Present DEF Kept, Good
  <1>2. ASSUME Echoing PROVE ~Active("write", side'["server"].wait, side'["server"].loop)
    BY <1>2 DEF Returned, Echoes
  <1>3. ASSUME Echoing, NEW m \in Lined
        PROVE  /\ EchoesFollow(m, side'["client"].log)
               /\ Carried(m, wire') + AtServer(m, side'["server"]) + AtClient(m, side'["client"])
                     <= Count(given', m)
    <2>1. AtClient(m, side'["client"]) <= AtClient(m, side["client"])
          /\ EchoesFollow(m, side'["client"].log)
      BY <1>3 DEF Kept, Good, Owed
    <2>2. AtServer(m, side'["server"]) <= AtServer(m, side["server"])
      BY <1>3 DEF Returned, Echoes
    <2>3. Flow(m) /\ Carried(m, wire') <= Carried(m, wire)
      BY <1>3 DEF TranscriptInv
    <2>4. /\ AtClient(m, side["client"]) \in Nat /\ AtServer(m, side["server"]) \in Nat
          /\ Carried(m, wire) \in Nat /\ Count(given, m) \in Nat
      BY Present
    <2>5. AtClient(m, side'["client"]) \in Nat /\ AtServer(m, side'["server"]) \in Nat
      <3>1. side'["client"] \in Programs(opts, "client")
        BY DEF Kept, Good
      <3>2. side'["server"] \in Programs(opts, "server")
        BY <1>3 DEF Returned, Echoes
      <3> QED BY <3>1, <3>2, AtClientNat, AtServerNat
    <2>6. Carried(m, wire') \in Nat
      <3>1. wire'["client"] \in Seq(Seq(Octet)) /\ wire'["server"] \in Seq(Seq(Octet))
        BY DEF ReplayInv, Sides
      <3>2. Count(wire'["client"], m) \in Nat /\ Count(wire'["server"], Echo(m)) \in Nat
        BY <3>1, CountNat
      <3> QED BY <3>2 DEF Carried
    <2> QED BY <2>1, <2>2, <2>3, <2>4, <2>5, <2>6 DEF Flow
  <1> QED BY <1>1, <1>2, <1>3 DEF TranscriptInv, Echoing, Flow

\* A handler keeps the trace a transcript.
LEMMA HandlerTranscript ==
  ASSUME ReplayInv, ReplayInv', TranscriptInv, opts.log, Handler
  PROVE  TranscriptInv'
  <1>0. /\ side = [p \in Sides |-> side[p]] /\ Sides = {"client", "server"}
        /\ Kept(side["client"]) /\ Returned(side["server"])
    BY Present DEF ReplayInv, Sides, Kept, Returned
  <1>1. Echoing => \A m \in Lined : Carried(m, wire) <= Carried(m, wire)
    BY Present
  <1>2. ASSUME NEW q, ClientDoes(q), Kept(q) PROVE TranscriptInv'
    <2>1. /\ side'["client"] = q /\ side'["server"] = side["server"] /\ wire' = wire
          /\ opts' = opts /\ given' = given
      BY <1>0, <1>2 DEF ClientDoes
    <2> QED BY <1>0, <1>1, <1>2, <2>1, QuietStep
  <1>3. ASSUME NEW q, ServerDoes(q), Returned(q) PROVE TranscriptInv'
    <2>1. /\ side'["server"] = Released(q) /\ side'["client"] = side["client"] /\ wire' = wire
          /\ opts' = opts /\ given' = given
      BY <1>0, <1>3 DEF ServerDoes
    <2>2. Returned(Released(q))
      BY <1>3, Present, CloseEchoes DEF Returned
    <2> QED BY <1>0, <1>1, <2>1, <2>2, QuietStep
  <1>4. CASE ClientHandler
    BY <1>2, <1>4, OpeningGood, ReadingGood, EndingGood DEF ClientHandler
  <1>5. CASE ServerHandler
    BY <1>3, <1>5, ServerEchoes, ServerReadEchoes, ServerOthers DEF ServerHandler
  <1>6. CASE written("client") \/ limit("client") \/ run_returns("client") \/ finish("client")
    BY <1>2, <1>6, WrittenGood, LimitGood, FinishGood
  <1>7. CASE written("server") \/ limit("server") \/ run_returns("server")
    BY <1>3, <1>7, ServerOthers
  <1>8. CASE finish("server")
    <2>1. side'["client"] = side["client"] /\ Returned(side'["server"])
      BY <1>8, ServerFinish
    <2>2. wire' = wire /\ opts' = opts /\ given' = given
      BY <1>8 DEF finish
    <2> QED BY <1>0, <1>1, <2>1, <2>2, QuietStep
  <1> QED BY <1>0, <1>4, <1>5, <1>6, <1>7, <1>8 DEF Handler

\* How lines and their echoes end: like nothing else that is written.
LEMMA LinedEnds ==
  ASSUME NEW m \in Lined
  PROVE  /\ m \in Seq(Octet) /\ m[Len(m)] = "nl" /\ m # LastWords("client")
         /\ Echo(m) \in Seq(Octet) /\ Echo(m)[Len(Echo(m))] = "nl"
         /\ \A e \in Seq(Octet) : Echo(e) = Echo(m) => e = m
  <1> DEFINE c == <<"cr", "nl">>
  <1>1. PICK l \in Lines : m = Front(l) \o c
    BY DEF Lined, Typed
  <1>2. m \in Seq(Octet) /\ m # LastWords("client")
    BY <1>1, TypedFits, OwnFits DEF Fits, Lined
  <1>3. Front(l) \in Seq(Octet)
    <2> DEFINE f == SubSeq(l, 1, Len(l) - 1)
    <2>1. l \in Seq(Octet) /\ Len(l) \in Nat /\ Len(l) > 0
      BY ReplayAssumption
    <2>2. f = [i \in 1 .. Len(l) - 1 |-> l[i]] /\ Len(l) - 1 \in Nat
      BY <2>1
    <2>3. \A i \in 1 .. Len(l) - 1 : l[i] \in Octet
      BY <2>1
    <2>4. f \in [1 .. Len(l) - 1 -> Octet]
      BY <2>2, <2>3
    <2>5. Front(l) = f
      BY DEF Front
    <2> HIDE DEF f
    <2> QED BY <2>2, <2>4, <2>5
  <1>4. c \in Seq(Octet) /\ Len(c) = 2 /\ c[2] = "nl"
    BY DEF Octet
  <1> HIDE DEF c
  <1>5. Len(m) = Len(Front(l)) + 2 /\ m[Len(m)] = "nl" /\ Len(m) \in Nat /\ Len(m) >= 2
    <2> DEFINE f == Front(l)
    <2>1. f \in Seq(Octet) /\ Len(f) \in Nat
      BY <1>3
    <2> HIDE DEF f
    <2>2. Len(f \o c) = Len(f) + 2
      <3>1. Len(f \o c) = Len(f) + Len(c)
        BY <1>4, <2>1, ConcatProperties, Zenon
      <3> QED BY <1>4, <3>1
    <2>3. (f \o c)[Len(f) + 2] = c[2]
      <3> DEFINE k == Len(f) + 2
      <3>1. k \in 1 .. Len(f) + Len(c) /\ ~(k <= Len(f)) /\ k - Len(f) = 2
        BY <1>4, <2>1
      <3>2. (f \o c)[k] = c[k - Len(f)]
        <4> HIDE DEF k
        <4> QED BY <1>4, <2>1, <3>1, ConcatProperties
      <3> QED BY <3>1, <3>2
    <2> QED BY <1>1, <1>4, <2>1, <2>2, <2>3 DEF f
  <1>6. ASSUME NEW e \in Seq(Octet)
        PROVE  /\ Echo(e) \in Seq(Octet) /\ Len(Echo(e)) = Len(e) + 1 /\ Len(e) \in Nat
               /\ \A i \in 1 .. Len(e) : Echo(e)[i + 1] = e[i]
    <2>1. <<"S">> \in Seq(Octet) /\ Len(<<"S">>) = 1
      BY DEF Octet
    <2> DEFINE s == <<"S">>
    <2> HIDE DEF s
    <2>2. s \in Seq(Octet) /\ Len(s) = 1
      BY <2>1 DEF s
    <2>3. s \o e \in Seq(Octet) /\ Len(s \o e) = Len(e) + 1 /\ Len(e) \in Nat
      BY <2>2, ConcatProperties
    <2>4. ASSUME NEW i \in 1 .. Len(e) PROVE (s \o e)[i + 1] = e[i]
      <3>1. /\ i + 1 \in 1 .. Len(s) + Len(e) /\ ~(i + 1 <= Len(s)) /\ (i + 1) - Len(s) = i
        BY <2>2, <2>3
      <3>2. (s \o e)[i + 1] = e[(i + 1) - Len(s)]
        BY <2>2, <3>1, ConcatProperties
      <3> QED BY <3>1, <3>2
    <2>5. Echo(e) = s \o e
      BY DEF Echo, s
    <2> QED BY <2>3, <2>4, <2>5
  <1>7. Echo(m)[Len(Echo(m))] = "nl"
    <2>1. Len(Echo(m)) = Len(m) + 1 /\ Len(m) \in 1 .. Len(m)
      BY <1>2, <1>5, <1>6
    <2>2. Echo(m)[Len(m) + 1] = m[Len(m)]
      BY <1>2, <1>6, <2>1
    <2> QED BY <1>5, <2>1, <2>2
  <1>8. ASSUME NEW e \in Seq(Octet), Echo(e) = Echo(m) PROVE e = m
    <2>1. Len(e) = Len(m) /\ \A i \in 1 .. Len(e) : e[i] = m[i]
      BY <1>2, <1>6, <1>8
    <2> QED BY <1>2, <2>1
  <1> QED BY <1>2, <1>5, <1>6, <1>7, <1>8

\* One operation of a side completes; the other side does not change.
LEMMA SidesAfter ==
  ASSUME ReplayInv, NEW s \in Sides, NEW x, NEW c, NEW o, Completes(s, x, c, o)
  PROVE  /\ side'[s] = Completed(s, x, c, o)
         /\ s = "client" => side'["server"] = side["server"]
         /\ s = "server" => side'["client"] = side["client"]
  <1>0. side = [p \in Sides |-> side[p]]
    BY DEF ReplayInv
  <1> QED BY <1>0 DEF Completes, Completed, Sides

\* The members after an operation has completed.
LEMMA CompletedMembers ==
  ASSUME ReplayInv, NEW s \in Sides, NEW x, NEW c, NEW o, Waits(s, x),
         Done(x, c, o) \in Handlers(opts, s), NEW q, q = Completed(s, x, c, o)
  PROVE  /\ q \in Programs(opts, s) /\ side[s] \in Programs(opts, s)
         /\ q.wait = side[s].wait \ {x} /\ q.loop = Append(side[s].loop, Done(x, c, o))
         /\ q.log = side[s].log /\ q.queue = side[s].queue /\ q.echo = side[s].echo
         /\ x \in side[s].wait
         /\ \A i \in DOMAIN q.loop : \/ i \in DOMAIN side[s].loop /\ q.loop[i] = side[s].loop[i]
                                     \/ q.loop[i] = Done(x, c, o)
  <1> DEFINE h == Done(x, c, o)
             r == side[s]
  <1>1. r \in Programs(opts, s) /\ r.loop \in Seq(Handlers(opts, s)) /\ x \in r.wait
    BY DEF ReplayInv, SideInv, Programs, Waits
  <1> HIDE DEF h, r
  <1>2. /\ Append(r.loop, h) \in Seq(Handlers(opts, s))
        /\ DOMAIN Append(r.loop, h) = DOMAIN r.loop \cup {Len(r.loop) + 1}
        /\ Append(r.loop, h)[Len(r.loop) + 1] = h
        /\ \A i \in DOMAIN r.loop : Append(r.loop, h)[i] = r.loop[i]
    BY <1>1, AppendLoop DEF h
  <1>3. q = [r EXCEPT !.wait = r.wait \ {x}, !.loop = Append(r.loop, h)]
    BY DEF Completed, h, r
  <1>4. /\ q \in Programs(opts, s) /\ q.wait = r.wait \ {x} /\ q.loop = Append(r.loop, h)
        /\ q.log = r.log /\ q.queue = r.queue /\ q.echo = r.echo
    BY <1>1, <1>2, <1>3 DEF Programs
  <1> QED BY <1>1, <1>2, <1>4 DEF h, r

\* An operation of the client completes that is no write, or a write fails.
LEMMA ClientCompletes ==
  ASSUME ReplayInv, TranscriptInv, opts.log, NEW x, NEW c, NEW o, Waits("client", x),
         Done(x, c, o) \in Handlers(opts, "client"), x = "write" => c # "ok",
         NEW q, q = Completed("client", x, c, o)
  PROVE  Stage(given, q)
  <1> DEFINE r == side["client"]
             h == Done(x, c, o)
  <1>1. /\ q.wait = r.wait \ {x} /\ q.log = r.log /\ q.queue = r.queue /\ x \in r.wait
        /\ \A i \in DOMAIN q.loop : q.loop[i] = h \/ (i \in DOMAIN r.loop /\ q.loop[i] = r.loop[i])
    BY CompletedMembers DEF Sides
  <1>2. h.op = x /\ h.code = c
    BY DEF Done
  <1>3. Stage(given, r)
    BY DEF TranscriptInv
  <1> HIDE DEF h, r
  <1>4. Settled(given, r) => Settled(given, q)
    BY <1>1, <1>2 DEF Settled
  <1>5. \A y \in Fits : Writing(given, y, r) => Writing(given, y, q)
    BY <1>1, <1>2 DEF Writing
  <1> QED BY <1>3, <1>4, <1>5 DEF Stage

\* A write of the client succeeds.
LEMMA ClientWrites ==
  ASSUME ReplayInv, TranscriptInv, opts.log, Waits("client", "write"),
         Done("write", "ok", <<>>) \in Handlers(opts, "client"),
         NEW q, q = Completed("client", "write", "ok", <<>>)
  PROVE  /\ Stage(Append(given, Head(side["client"].queue)), q)
         /\ Append(given, Head(side["client"].queue)) \in Seq(Fits)
  <1> DEFINE r == side["client"]
             h == Done("write", "ok", <<>>)
             X == Head(r.queue)
  <1>1. /\ q.wait = r.wait \ {"write"} /\ q.log = r.log /\ "write" \in r.wait
        /\ \A i \in DOMAIN q.loop : q.loop[i] = h \/ (i \in DOMAIN r.loop /\ q.loop[i] = r.loop[i])
    BY CompletedMembers DEF Sides
  <1>2. h.op = "write" /\ h.code = "ok"
    BY DEF Done
  <1>3. Stage(given, r) /\ One({"write"}, r.wait, r.loop) /\ given \in Seq(Fits)
    BY DEF TranscriptInv, ReplayInv, SideInv, Sides
  <1> HIDE DEF h, r
  <1>4. PICK y \in Fits : Writing(given, y, r)
    BY <1>1, <1>3 DEF Stage, Settled
  <1>5. y = X
    BY <1>1, <1>4 DEF Writing
  <1>6. Names(q.log, Append(given, X))
    BY <1>1, <1>4, <1>5 DEF Writing
  <1>7. \A i \in DOMAIN r.loop : r.loop[i].op # "write"
    BY <1>1, <1>3 DEF One
  <1>8. Settled(Append(given, X), q)
    BY <1>1, <1>2, <1>6, <1>7 DEF Settled
  <1>9. Append(given, X) \in Seq(Fits)
    <2> HIDE DEF X
    <2> QED BY <1>3, <1>4, <1>5
  <1> QED BY <1>8, <1>9 DEF Stage, r

\* What the completion of an operation adds to the copies at the client, ...
LEMMA ClientCount ==
  ASSUME ReplayInv, NEW x, NEW c, NEW o, Waits("client", x),
         Done(x, c, o) \in Handlers(opts, "client"), NEW q, q = Completed("client", x, c, o),
         NEW m
  PROVE  /\ AtClient(m, q) = AtClient(m, side["client"])
               + (IF Done(x, c, o) = Done("read", "ok", Echo(m)) THEN 1 ELSE 0)
         /\ AtClient(m, side["client"]) \in Nat
  <1> DEFINE r == side["client"]
             h == Done(x, c, o)
             d == Done("read", "ok", Echo(m))
             n == Count(r.log, EchoRecord(m))
  <1>1. /\ q.loop = Append(r.loop, h) /\ q.log = r.log /\ r \in Programs(opts, "client")
        /\ h \in Handlers(opts, "client")
    BY CompletedMembers DEF Sides
  <1>2. r.loop \in Seq(Handlers(opts, "client")) /\ r.log \in Seq(Records(Fits))
    BY <1>1 DEF Programs
  <1> HIDE DEF r, h, d
  <1>3. /\ Count(Append(r.loop, h), d) = Count(r.loop, d) + (IF h = d THEN 1 ELSE 0)
        /\ Count(r.loop, d) \in Nat /\ n \in Nat
    BY <1>1, <1>2, CountAppend, CountNat
  <1>4. AtClient(m, q) = Count(Append(r.loop, h), d) + n /\ AtClient(m, r) = Count(r.loop, d) + n
    BY <1>1 DEF AtClient, d
  <1> HIDE DEF n
  <1>5. AtClient(m, q) = AtClient(m, r) + (IF h = d THEN 1 ELSE 0) /\ AtClient(m, r) \in Nat
    BY <1>3, <1>4
  <1> QED BY <1>5 DEF r, h, d

\* ... and at the server, where a finished echo no longer counts.
LEMMA ServerCount ==
  ASSUME ReplayInv, NEW x, NEW c, NEW o, Waits("server", x),
         Done(x, c, o) \in Handlers(opts, "server"), NEW q, q = Completed("server", x, c, o),
         NEW m
  PROVE  /\ AtServer(m, q) + (IF x = "echo" /\ side["server"].echo = m THEN 1 ELSE 0)
               = AtServer(m, side["server"])
                 + (IF Done(x, c, o) = Done("read", "ok", m) THEN 1 ELSE 0)
         /\ AtServer(m, side["server"]) \in Nat /\ AtServer(m, q) \in Nat
         /\ ~Active("write", side["server"].wait, side["server"].loop)
               => ~Active("write", q.wait, q.loop)
  <1> DEFINE r == side["server"]
             h == Done(x, c, o)
             d == Done("read", "ok", m)
  <1>1. /\ q.loop = Append(r.loop, h) /\ q.echo = r.echo /\ r \in Programs(opts, "server")
        /\ q \in Programs(opts, "server") /\ h \in Handlers(opts, "server")
        /\ q.wait = r.wait \ {x} /\ x \in r.wait
        /\ \A i \in DOMAIN q.loop : q.loop[i] = h \/ (i \in DOMAIN r.loop /\ q.loop[i] = r.loop[i])
    BY CompletedMembers DEF Sides
  <1>2. r.loop \in Seq(Handlers(opts, "server")) /\ h.op = x
    BY <1>1 DEF Programs, Done
  <1> HIDE DEF r, h, d
  <1>3. /\ Count(Append(r.loop, h), d) = Count(r.loop, d) + (IF h = d THEN 1 ELSE 0)
        /\ Count(r.loop, d) \in Nat
    BY <1>1, <1>2, CountAppend, CountNat
  <1> DEFINE N == Count(Append(r.loop, h), d)
             K == Count(r.loop, d)
  <1>4. /\ AtServer(m, q) = N + (IF "echo" \in q.wait /\ r.echo = m THEN 1 ELSE 0)
        /\ AtServer(m, r) = K + (IF "echo" \in r.wait /\ r.echo = m THEN 1 ELSE 0)
    BY <1>1 DEF AtServer, d
  <1>5. "echo" \in r.wait <=> ("echo" \in q.wait \/ x = "echo")
    BY <1>1
  <1>6. x = "echo" => "echo" \notin q.wait
    BY <1>1
  <1> HIDE DEF N, K
  <1>7. N = K + (IF h = d THEN 1 ELSE 0) /\ K \in Nat
    BY <1>3 DEF N, K
  <1>8. /\ AtServer(m, q) + (IF x = "echo" /\ r.echo = m THEN 1 ELSE 0)
             = AtServer(m, r) + (IF h = d THEN 1 ELSE 0)
        /\ AtServer(m, r) \in Nat /\ AtServer(m, q) \in Nat
    BY <1>4, <1>5, <1>6, <1>7
  <1>9. ~Active("write", r.wait, r.loop) => ~Active("write", q.wait, q.loop)
    BY <1>1, <1>2 DEF Active
  <1> QED BY <1>8, <1>9 DEF r, h, d

\* The outside world acts: the trace is what it was, and for every line the copies are
\* not more than the times it was written.
LEMMA WorldFlow ==
  ASSUME TranscriptInv, opts.log, opts' = opts, given' \in Seq(Fits),
         Stage(given', side'["client"]), side'["client"].log = side["client"].log,
         Echoing => ~Active("write", side'["server"].wait, side'["server"].loop),
         Echoing => \A m \in Lined :
            Carried(m, wire') + AtServer(m, side'["server"]) + AtClient(m, side'["client"])
               <= Count(given', m)
  PROVE  TranscriptInv'
  BY DEF TranscriptInv, Echoing, Flow

\* The client is told of an operation that is neither a read nor a write, or that has
\* failed, ...
LEMMA ClientTold ==
  ASSUME ReplayInv, TranscriptInv, opts.log, NEW x, NEW c, NEW o, Waits("client", x),
         Done(x, c, o) \in Handlers(opts, "client"), c = "ok" => x \notin {"read", "write"},
         NEW q, q = Completed("client", x, c, o)
  PROVE  Kept(q)
  <1>1. Stage(given, q) /\ q \in Programs(opts, "client") /\ q.log = side["client"].log
        /\ q.queue = side["client"].queue /\ q.wait = side["client"].wait \ {x}
        /\ x \in side["client"].wait
    BY ClientCompletes, CompletedMembers DEF Sides
  <1>2. Active("write", q.wait, q.loop) => q.queue # <<>>
    <2>1. Fit("live", "client", q)
      BY CompletedFit DEF Sides
    <2> QED BY <2>1 DEF Fit, SideInv
  <1>3. ASSUME NEW m PROVE Owed(m, AtClient(m, side["client"]), q)
    <2>1. Done(x, c, o) # Done("read", "ok", Echo(m))
      BY DEF Done
    <2>2. AtClient(m, q) = AtClient(m, side["client"]) + 0 /\ AtClient(m, side["client"]) \in Nat
      BY <2>1, ClientCount
    <2>3. AtClient(m, q) <= AtClient(m, side["client"])
      BY <2>2
    <2> QED BY <1>1, <2>3 DEF Owed, TranscriptInv
  <1> QED BY <1>1, <1>2, <1>3 DEF Kept, Good

\* ... and so is the server.
LEMMA ServerTold ==
  ASSUME ReplayInv, TranscriptInv, opts.log, NEW x, NEW c, NEW o, Waits("server", x),
         Done(x, c, o) \in Handlers(opts, "server"), c = "ok" => x # "read",
         NEW q, q = Completed("server", x, c, o)
  PROVE  Returned(q)
  <1> SUFFICES ASSUME Echoing, NEW m PROVE Echoes(m, AtServer(m, side["server"]), q)
    BY DEF Returned
  <1>1. q \in Programs(opts, "server")
    BY CompletedMembers DEF Sides
  <1>2. Done(x, c, o) # Done("read", "ok", m)
    BY DEF Done
  <1>3. /\ AtServer(m, q) + (IF x = "echo" /\ side["server"].echo = m THEN 1 ELSE 0)
             = AtServer(m, side["server"]) + 0
        /\ AtServer(m, side["server"]) \in Nat /\ AtServer(m, q) \in Nat
        /\ ~Active("write", side["server"].wait, side["server"].loop)
               => ~Active("write", q.wait, q.loop)
    BY <1>2, ServerCount
  <1>4. AtServer(m, q) <= AtServer(m, side["server"])
    BY <1>3
  <1> QED BY <1>1, <1>3, <1>4 DEF Echoes, TranscriptInv

\* One side is told so, and nothing new is on the wire.
LEMMA ToldStep ==
  ASSUME ReplayInv, ReplayInv', TranscriptInv, opts.log, NEW s \in Sides, NEW x, NEW c, NEW o,
         Waits(s, x), Completes(s, x, c, o), Done(x, c, o) \in Handlers(opts, s),
         c = "ok" => x \notin {"read", "write"}, opts' = opts, given' = given,
         Echoing => \A m \in Lined : Carried(m, wire') <= Carried(m, wire)
  PROVE  TranscriptInv'
  <1>0. Kept(side["client"]) /\ Returned(side["server"]) /\ (s = "client" \/ s = "server")
    BY Present DEF Kept, Returned, Sides
  <1>1. /\ side'[s] = Completed(s, x, c, o)
        /\ s = "client" => side'["server"] = side["server"]
        /\ s = "server" => side'["client"] = side["client"]
    BY SidesAfter
  <1>2. CASE s = "client"
    <2>1. Kept(side'["client"])
      BY <1>1, <1>2, ClientTold
    <2>2. Returned(side'["server"])
      BY <1>0, <1>1, <1>2
    <2> QED BY <2>1, <2>2, QuietStep
  <1>3. CASE s = "server"
    <2>1. Returned(side'["server"])
      BY <1>1, <1>3, ServerTold
    <2>2. Kept(side'["client"])
      BY <1>0, <1>1, <1>3
    <2> QED BY <2>1, <2>2, QuietStep
  <1> QED BY <1>0, <1>2, <1>3

\* An operation completes that yields nothing.
LEMMA BlankTold ==
  ASSUME ReplayInv, ReplayInv', TranscriptInv, opts.log, NEW s \in Sides, NEW x \in Ops,
         NEW c \in Codes, Waits(s, x), Completes(s, x, c, <<>>),
         c = "ok" => x \notin {"read", "write", "stdin"}, UNCHANGED <<opts, wire, given>>
  PROVE  TranscriptInv'
  <1>1. Done(x, c, <<>>) \in Handlers(opts, s)
    BY BlankHandler
  <1>2. Echoing => \A m \in Lined : Carried(m, wire') <= Carried(m, wire)
    BY Present
  <1> QED BY <1>1, <1>2, ToldStep

\* The steps of the world that complete one operation of one side.
LEMMA SingleTranscript ==
  ASSUME ReplayInv, ReplayInv', TranscriptInv, opts.log,
         \/ Resolves \/ ShutdownCompletes \/ Types_eof \/ Types_line
         \/ \E s \in Sides : HandshakeBreaks(s) \/ Expires(s, "timer") \/ Expires(s, "limit")
  PROVE  TranscriptInv'
  <1>1. ASSUME NEW s \in Sides, NEW x \in Ops, NEW c \in Codes, Waits(s, x),
               Completes(s, x, c, <<>>), c = "ok" => x \notin {"read", "write", "stdin"},
               UNCHANGED <<opts, wire, given>>
        PROVE  TranscriptInv'
    BY <1>1, BlankTold
  <1>2. /\ {"ok", "error", "eof", "short"} \subseteq Codes /\ "client" \in Sides
        /\ {"resolve", "shutdown", "stdin", "handshake", "timer", "limit"} \subseteq Ops
    BY Kinds DEF Codes, Sides
  <1>3. CASE Resolves
    <2>1. PICK c \in {"ok", "error"} : Completes("client", "resolve", c, <<>>)
      BY <1>3 DEF Resolves
    <2> QED BY <1>1, <1>2, <1>3, <2>1 DEF Resolves
  <1>4. CASE ShutdownCompletes BY <1>1, <1>2, <1>4 DEF ShutdownCompletes
  <1>5. CASE Types_eof BY <1>1, <1>2, <1>5 DEF Types_eof
  <1>6. ASSUME NEW s \in Sides, HandshakeBreaks(s) PROVE TranscriptInv'
    BY <1>1, <1>2, <1>6 DEF HandshakeBreaks
  <1>7. ASSUME NEW s \in Sides, NEW x \in {"timer", "limit"}, Expires(s, x)
        PROVE  TranscriptInv'
    BY <1>1, <1>2, <1>7 DEF Expires
  <1>8. CASE Types_line
    <2>1. PICK l \in Lines : Completes("client", "stdin", "ok", l)
      BY <1>8 DEF Types_line
    <2>2. Done("stdin", "ok", l) \in Handlers(opts, "client")
      <3>1. l \in Fits
        BY ReplayAssumption DEF Fits
      <3> QED BY <3>1, Kinds DEF Handlers, Heard, Done, Codes
    <2>3. /\ Waits("client", "stdin") /\ opts' = opts /\ given' = given
          /\ Echoing => \A m \in Lined : Carried(m, wire') <= Carried(m, wire)
      BY <1>8, Present DEF Types_line
    <2> QED BY <1>2, <2>1, <2>2, <2>3, ToldStep
  <1> QED BY <1>3, <1>4, <1>5, <1>6, <1>7, <1>8

\* The steps that complete operations of both sides, or several.
LEMMA MeetingTranscript ==
  ASSUME ReplayInv, ReplayInv', TranscriptInv, opts.log,
         Connects \/ Handshakes \/ \E s \in Sides : Signal(s)
  PROVE  TranscriptInv'
  <1>0. /\ {"ok", "error"} \subseteq Codes /\ Sides = {"client", "server"}
        /\ {"connect", "accept", "handshake"} \subseteq Ops
        /\ Kept(side["client"]) /\ Returned(side["server"])
    BY Kinds, Present DEF Codes, Sides, Kept, Returned
  <1>1. Echoing => \A m \in Lined : Carried(m, wire) <= Carried(m, wire)
    BY Present
  <1>2. ASSUME NEW x, NEW y, {x, y} \subseteq {"connect", "accept", "handshake"},
               NEW c \in {"ok", "error"}, Waits("client", x), Waits("server", y),
               side' = [s \in Sides |-> Completed(s, IF s = "client" THEN x ELSE y, c, <<>>)],
               UNCHANGED <<opts, wire, given>>
        PROVE  TranscriptInv'
    <2>1. /\ Done(x, c, <<>>) \in Handlers(opts, "client")
          /\ Done(y, c, <<>>) \in Handlers(opts, "server")
      BY <1>0, <1>2, BlankHandler
    <2>2. /\ side'["client"] = Completed("client", x, c, <<>>)
          /\ side'["server"] = Completed("server", y, c, <<>>)
      BY <1>0, <1>2
    <2>3. Kept(side'["client"])
      BY <1>2, <2>1, <2>2, ClientTold
    <2>4. Returned(side'["server"])
      BY <1>2, <2>1, <2>2, ServerTold
    <2> QED BY <1>1, <1>2, <2>3, <2>4, QuietStep
  <1>3. CASE Connects /\ Waits("server", "accept")
    <2>1. side' = [s \in Sides |->
             Completed(s, IF s = "client" THEN "connect" ELSE "accept", "ok", <<>>)]
      BY <1>3 DEF Connects, Completed
    <2> QED BY <1>2, <1>3, <2>1 DEF Connects
  <1>4. CASE Connects /\ ~Waits("server", "accept")
    BY <1>0, <1>4, BlankTold DEF Connects
  <1>5. CASE Handshakes
    <2>1. PICK c \in {"ok", "error"} : side' = [s \in Sides |->
               [side[s] EXCEPT !.wait = @ \ {"handshake"},
                               !.loop = Append(@, Done("handshake", c, <<>>))]]
      BY <1>5 DEF Handshakes
    <2>2. side' = [s \in Sides |->
             Completed(s, IF s = "client" THEN "handshake" ELSE "handshake", c, <<>>)]
      BY <2>1 DEF Completed
    <2> QED BY <1>0, <1>2, <1>5, <2>2 DEF Handshakes
  <1>6. ASSUME NEW s \in Sides, Signal(s) PROVE TranscriptInv'
    <2> DEFINE r == side[s]
               S == r.wait \cap {"signal", "main_signal"}
               V == r.wait \ S
               q == [r EXCEPT !.wait = V, !.loop = r.loop \o Several(S, "ok")]
    <2>0. side = [p \in Sides |-> side[p]]
      BY DEF ReplayInv
    <2>1. /\ S \in SUBSET r.wait /\ V \subseteq r.wait /\ "ok" \in Codes
          /\ S \cap {"read", "write", "stdin"} = {}
      BY DEF Codes
    <2>2. side' = [side EXCEPT ![s] = q] /\ UNCHANGED <<opts, wire, given>>
      BY <1>6, ZenonT(30) DEF Signal, Several
    <2>3. /\ \A m : Good(given, m, AtClient(m, side["client"]), side["client"])
          /\ Echoing => \A m : /\ Echoes(m, AtServer(m, side["server"]), side["server"])
                               /\ AtServer(m, side["server"]) \in Nat
      BY Present
    <2> HIDE DEF S, V, r
    <2>4. CASE s = "client"
      <3>1. \A m : Good(given, m, AtClient(m, side["client"]), r)
        BY <2>3, <2>4 DEF r
      <3>2. q = [r EXCEPT !.wait = V, !.loop = r.loop \o Several(S, "ok")]
        OBVIOUS
      <3> HIDE DEF q
      <3>3. Kept(q)
        BY <2>1, <3>1, <3>2, GoodConcat DEF Kept
      <3>4. side'["client"] = q /\ side'["server"] = side["server"]
        BY <1>0, <2>0, <2>2, <2>4
      <3> QED BY <1>0, <1>1, <2>2, <3>3, <3>4, QuietStep
    <2>5. CASE s = "server"
      <3>1. Echoing => \A m : /\ Echoes(m, AtServer(m, side["server"]), r)
                              /\ AtServer(m, side["server"]) \in Nat
        BY <2>3, <2>5 DEF r
      <3>2. q = [r EXCEPT !.wait = V, !.loop = r.loop \o Several(S, "ok")]
        OBVIOUS
      <3> HIDE DEF q
      <3>3. Returned(q)
        BY <2>1, <3>1, <3>2, EchoesConcat DEF Returned
      <3>4. side'["server"] = q /\ side'["client"] = side["client"]
        BY <1>0, <2>0, <2>2, <2>5
      <3> QED BY <1>0, <1>1, <2>2, <3>3, <3>4, QuietStep
    <2> QED BY <1>0, <2>4, <2>5
  <1> QED BY <1>3, <1>4, <1>5, <1>6

\* A read meets the end of the connection; what is left on the wire may be lost.
LEMMA PeerEndsTranscript ==
  ASSUME ReplayInv, ReplayInv', TranscriptInv, opts.log, NEW s \in Sides, NEW x \in Reads,
         PeerEnds(s, x)
  PROVE  TranscriptInv'
  <1>1. /\ x \in Ops /\ x # "stdin" /\ {"short", "eof", "error"} \subseteq Codes
        /\ Waits(s, x) /\ Peer(s) \in Sides /\ opts' = opts /\ given' = given
    BY Kinds, PeerSide DEF Reads, Codes, PeerEnds
  <1>2. PICK c \in {"short", "eof", "error"} :
          /\ Completes(s, x, c, <<>>)
          /\ wire' = wire \/ wire' = [wire EXCEPT ![Peer(s)] = <<>>]
    BY DEF PeerEnds
  <1>3. Done(x, c, <<>>) \in Handlers(opts, s)
    BY <1>1, BlankHandler
  <1>4. ASSUME NEW m PROVE Carried(m, wire') <= Carried(m, wire)
    <2>1. Count(wire["client"], m) \in Nat /\ Count(wire["server"], Echo(m)) \in Nat
      BY Present
    <2>2. \A p \in Sides : wire'[p] = wire[p] \/ wire'[p] = <<>>
      BY <1>1, <1>2 DEF ReplayInv
    <2>3. /\ wire'["client"] = wire["client"] \/ wire'["client"] = <<>>
          /\ wire'["server"] = wire["server"] \/ wire'["server"] = <<>>
      BY <2>2 DEF Sides
    <2>4. /\ Count(wire'["client"], m) \in {Count(wire["client"], m), 0}
          /\ Count(wire'["server"], Echo(m)) \in {Count(wire["server"], Echo(m)), 0}
      BY <2>3, CountNothing
    <2> QED BY <2>1, <2>4 DEF Carried
  <1> QED BY <1>1, <1>2, <1>3, <1>4, ToldStep

-----------------------------------------------------------------------------
\* Whether X, written by p, is a copy of m: 1 or 0.
Copy(p, X, m) == IF (p = "client" /\ X = m) \/ (p = "server" /\ X = Echo(m)) THEN 1 ELSE 0

\* Over TLS a message that is written is one more on the wire, ...
LEMMA WireGrows ==
  ASSUME ReplayInv, opts.ssl, NEW s \in Sides, NEW X \in Seq(Octet), NEW m,
         wire' = [wire EXCEPT ![s] = Sent(@, X)]
  PROVE  Carried(m, wire') = Carried(m, wire) + Copy(s, X, m) /\ Carried(m, wire) \in Nat
  <1>1. /\ wire \in [Sides -> Seq(Seq(Octet))] /\ (s = "client" \/ s = "server")
        /\ wire["client"] \in Seq(Seq(Octet)) /\ wire["server"] \in Seq(Seq(Octet))
    BY DEF ReplayInv, Sides
  <1>2. wire' = [wire EXCEPT ![s] = Append(wire[s], X)]
    BY DEF Sent
  <1>3. Count(wire["client"], m) \in Nat /\ Count(wire["server"], Echo(m)) \in Nat
    BY <1>1, CountNat
  <1>4. ASSUME NEW w \in Seq(Seq(Octet)), NEW e
        PROVE  Count(Append(w, X), e) = Count(w, e) + (IF X = e THEN 1 ELSE 0)
    <2> DEFINE T == Seq(Octet)
    <2>1. w \in Seq(T) /\ X \in T
      BY <1>4
    <2> HIDE DEF T
    <2> QED BY <2>1, CountAppend
  <1>5. CASE s = "client"
    <2>1. wire'["client"] = Append(wire["client"], X) /\ wire'["server"] = wire["server"]
      BY <1>1, <1>2, <1>5 DEF Sides
    <2>2. Count(wire'["client"], m) = Count(wire["client"], m) + (IF X = m THEN 1 ELSE 0)
      BY <1>1, <1>4, <2>1
    <2>3. Copy(s, X, m) = IF X = m THEN 1 ELSE 0
      BY <1>5 DEF Copy
    <2> QED BY <1>3, <2>1, <2>2, <2>3 DEF Carried
  <1>6. CASE s = "server"
    <2>1. wire'["server"] = Append(wire["server"], X) /\ wire'["client"] = wire["client"]
      BY <1>1, <1>2, <1>6 DEF Sides
    <2>2. Count(wire'["server"], Echo(m))
             = Count(wire["server"], Echo(m)) + (IF X = Echo(m) THEN 1 ELSE 0)
      BY <1>1, <1>4, <2>1
    <2>3. Copy(s, X, m) = IF X = Echo(m) THEN 1 ELSE 0
      BY <1>6 DEF Copy
    <2> QED BY <1>3, <2>1, <2>2, <2>3 DEF Carried
  <1> QED BY <1>1, <1>5, <1>6

\* ... and one that is read is one less.
LEMMA WireShrinks ==
  ASSUME ReplayInv, NEW p \in Sides, wire[p] # <<>>, NEW m,
         wire' = [wire EXCEPT ![p] = Tail(wire[p])]
  PROVE  /\ Carried(m, wire) = Carried(m, wire') + Copy(p, Head(wire[p]), m)
         /\ Carried(m, wire') \in Nat
  <1>1. /\ wire \in [Sides -> Seq(Seq(Octet))] /\ (p = "client" \/ p = "server")
        /\ wire["client"] \in Seq(Seq(Octet)) /\ wire["server"] \in Seq(Seq(Octet))
    BY DEF ReplayInv, Sides
  <1>2. Tail(wire[p]) \in Seq(Seq(Octet))
    BY <1>1
  <1>3. CASE p = "client"
    <2>1. wire'["client"] = Tail(wire["client"]) /\ wire'["server"] = wire["server"]
      BY <1>1, <1>3 DEF Sides
    <2>2. Count(wire["client"], m)
             = Count(Tail(wire["client"]), m) + (IF Head(wire["client"]) = m THEN 1 ELSE 0)
      BY <1>1, <1>3, CountTail
    <2>3. Count(Tail(wire["client"]), m) \in Nat /\ Count(wire["server"], Echo(m)) \in Nat
      BY <1>1, <1>2, <1>3, CountNat
    <2>4. Copy(p, Head(wire[p]), m) = IF Head(wire["client"]) = m THEN 1 ELSE 0
      BY <1>3 DEF Copy
    <2> QED BY <2>1, <2>2, <2>3, <2>4 DEF Carried
  <1>4. CASE p = "server"
    <2>1. wire'["server"] = Tail(wire["server"]) /\ wire'["client"] = wire["client"]
      BY <1>1, <1>4 DEF Sides
    <2>2. Count(wire["server"], Echo(m)) = Count(Tail(wire["server"]), Echo(m))
             + (IF Head(wire["server"]) = Echo(m) THEN 1 ELSE 0)
      BY <1>1, <1>4, CountTail
    <2>3. Count(Tail(wire["server"]), Echo(m)) \in Nat /\ Count(wire["client"], m) \in Nat
      BY <1>1, <1>2, <1>4, CountNat
    <2>4. Copy(p, Head(wire[p]), m) = IF Head(wire["server"]) = Echo(m) THEN 1 ELSE 0
      BY <1>4 DEF Copy
    <2> QED BY <2>1, <2>2, <2>3, <2>4 DEF Carried
  <1> QED BY <1>1, <1>3, <1>4

\* Of what the client and the echoing server write nothing but the messages of the
\* client's queue, and their echoes, are copies of a line.
LEMMA Copies ==
  ASSUME ReplayInv, TranscriptInv, opts.log, Echoing, NEW s \in Sides, NEW x \in Writes,
         Waits(s, x), NEW m \in Lined
  PROVE  /\ s = "client" /\ x # "write" => Copy(s, Message(s, x), m) = 0
         /\ s = "server" => x # "write"
         /\ s = "server" /\ x = "echo" => Copy(s, Message(s, x), m)
                                            = IF side["server"].echo = m THEN 1 ELSE 0
         /\ s = "server" /\ x \in {"last", "bye"} => Copy(s, Message(s, x), m) = 0
  <1>1. /\ m \in Seq(Octet) /\ m[Len(m)] = "nl" /\ m # LastWords("client")
        /\ Echo(m) \in Seq(Octet) /\ Echo(m)[Len(Echo(m))] = "nl"
        /\ \A e \in Seq(Octet) : Echo(e) = Echo(m) => e = m
    BY LinedEnds
  <1>2. /\ GoodBye[Len(GoodBye)] = "g" /\ <<"d">>[Len(<<"d">>)] = "d"
        /\ <<"S">>[Len(<<"S">>)] = "S"
    BY DEF GoodBye
  <1>3. /\ GoodBye # m /\ GoodBye # Echo(m) /\ LastWords("server") # Echo(m) /\ <<"S">> # m
    BY <1>1, <1>2 DEF LastWords
  <1>4. ASSUME s = "client", x # "write" PROVE Copy(s, Message(s, x), m) = 0
    <2>1. side["client"].echo = <<>>
      BY DEF ReplayInv, SideInv, Sides
    <2>2. <<"S">> \o <<>> = <<"S">>
      OBVIOUS
    <2>3. Message(s, x) \in {<<"S">>, GoodBye, LastWords("client")}
      BY <1>4, <2>1, <2>2 DEF Message, Writes
    <2>4. Message(s, x) # m
      BY <1>1, <1>3, <2>3
    <2> QED BY <1>4, <2>4 DEF Copy
  <1>5. ASSUME s = "server" PROVE x # "write"
    <2>1. x \in side["server"].wait
      BY <1>5 DEF Waits
    <2> QED BY <2>1 DEF TranscriptInv, Active
  <1>6. ASSUME s = "server", x = "echo"
        PROVE  Copy(s, Message(s, x), m) = IF side["server"].echo = m THEN 1 ELSE 0
    <2> DEFINE e == side["server"].echo
    <2>1. e \in Seq(Octet)
      <3>1. side["server"] \in Programs(opts, "server")
        BY Present
      <3> QED BY <3>1 DEF Programs, Echoed, Fits
    <2>2. Message(s, x) = Echo(e)
      BY <1>6 DEF Message, Echo
    <2>3. Echo(e) = Echo(m) <=> e = m
      BY <1>1, <2>1
    <2> QED BY <1>6, <2>2, <2>3 DEF Copy
  <1>7. ASSUME s = "server", x \in {"last", "bye"} PROVE Copy(s, Message(s, x), m) = 0
    <2>1. Message(s, x) \in {GoodBye, LastWords("server")}
      BY <1>7 DEF Message
    <2> QED BY <1>3, <1>7, <2>1 DEF Copy
  <1> QED BY <1>4, <1>5, <1>6, <1>7

\* A write succeeds or fails.
LEMMA TransmitsTranscript ==
  ASSUME ReplayInv, ReplayInv', TranscriptInv, opts.log, NEW s \in Sides, NEW x \in Writes,
         Transmits(s, x)
  PROVE  TranscriptInv'
  <1> DEFINE X == Message(s, x)
             q == Completed(s, x, "ok", <<>>)
  <1>0. /\ x \in Ops /\ x \notin {"stdin", "read"} /\ {"ok", "error"} \subseteq Codes
        /\ Waits(s, x) /\ opts' = opts /\ (s = "client" \/ s = "server")
        /\ given \in Seq(Fits)
    BY Kinds, Present DEF Writes, Codes, Transmits, Sides
  <1>1. /\ Done(x, "ok", <<>>) \in Handlers(opts, s) /\ X \in Seq(Octet)
        /\ \A m, y : Done(x, "ok", <<>>) # Done("read", "ok", y)
    BY <1>0, BlankHandler, MessageFits DEF Done
  <1>2. CASE Completes(s, x, "error", <<>>) /\ wire' = wire /\ given' = given
    BY <1>0, <1>2, BlankTold
  <1>3. CASE /\ Completes(s, x, "ok", <<>>) /\ wire' = [wire EXCEPT ![s] = Sent(@, X)]
             /\ given' = IF s = "client" /\ x = "write" THEN Append(given, X) ELSE given
    <2>1. /\ side'[s] = q
          /\ s = "client" => side'["server"] = side["server"]
          /\ s = "server" => side'["client"] = side["client"]
      BY <1>3, SidesAfter
    <2>2. q.log = side[s].log
      BY <1>0, <1>1, CompletedMembers
    <2>3. ASSUME NEW m \in Lined, Echoing
          PROVE  /\ Carried(m, wire') = Carried(m, wire) + Copy(s, X, m)
                 /\ Carried(m, wire) \in Nat /\ Flow(m)
                 /\ AtServer(m, side["server"]) \in Nat /\ AtClient(m, side["client"]) \in Nat
                 /\ Count(given, m) \in Nat
      BY <1>1, <1>3, <2>3, WireGrows, Present DEF Echoing, TranscriptInv
    <2> HIDE DEF X, q
    <2>4. CASE s = "client"
      <3>0. /\ Waits("client", x) /\ Done(x, "ok", <<>>) \in Handlers(opts, "client")
            /\ q = Completed("client", x, "ok", <<>>)
        BY <1>0, <1>1, <2>4 DEF q
      <3>1. \A m : AtClient(m, q) = AtClient(m, side["client"]) + 0
        BY <1>1, <3>0, ClientCount
      <3>2. CASE x = "write"
        <4>1. X = Head(side["client"].queue)
          BY <2>4, <3>2 DEF Message, X
        <4>2. Stage(Append(given, X), q) /\ Append(given, X) \in Seq(Fits)
          BY <3>0, <3>2, <4>1, ClientWrites
        <4>3. X \in Fits
          <5>1. side["client"].queue \in Seq(Own(opts, "client")) /\ side["client"].queue # <<>>
            <6>1. Active("write", side["client"].wait, side["client"].loop)
              BY <3>0, <3>2 DEF Waits, Active
            <6> QED BY <6>1 DEF ReplayInv, SideInv, Programs, Sides
          <5>2. Head(side["client"].queue) \in Own(opts, "client")
            BY <5>1
          <5> QED BY <4>1, <5>2, OwnFits
        <4>4. given' = Append(given, X)
          BY <1>3, <2>4, <3>2
        <4>5. ASSUME NEW m \in Lined, Echoing
              PROVE  Carried(m, wire') + AtServer(m, side'["server"])
                        + AtClient(m, side'["client"]) <= Count(given', m)
          <5>1. Count(given', m) = Count(given, m) + (IF X = m THEN 1 ELSE 0)
            BY <1>0, <4>3, <4>4, CountAppend
          <5>2. Copy(s, X, m) = IF X = m THEN 1 ELSE 0
            BY <2>4 DEF Copy
          <5>3. AtServer(m, side'["server"]) = AtServer(m, side["server"])
                /\ AtClient(m, side'["client"]) = AtClient(m, side["client"]) + 0
            BY <2>1, <2>4, <3>1
          <5> QED BY <2>3, <4>5, <5>1, <5>2, <5>3 DEF Flow
        <4>6. Echoing => ~Active("write", side'["server"].wait, side'["server"].loop)
          BY <2>1, <2>4 DEF TranscriptInv
        <4> QED BY <1>0, <2>1, <2>2, <2>4, <4>2, <4>4, <4>5, <4>6, WorldFlow
      <3>3. CASE x # "write"
        <4>1. Stage(given, q)
          BY <3>0, <3>3, ClientCompletes
        <4>2. given' = given
          BY <1>3, <3>3
        <4>3. ASSUME NEW m \in Lined, Echoing
              PROVE  Carried(m, wire') + AtServer(m, side'["server"])
                        + AtClient(m, side'["client"]) <= Count(given', m)
          <5>1. Copy(s, X, m) = 0
            BY <1>0, <2>4, <3>3, <4>3, Copies DEF X
          <5>2. AtServer(m, side'["server"]) = AtServer(m, side["server"])
                /\ AtClient(m, side'["client"]) = AtClient(m, side["client"]) + 0
            BY <2>1, <2>4, <3>1
          <5> QED BY <2>3, <4>2, <4>3, <5>1, <5>2 DEF Flow
        <4>4. Echoing => ~Active("write", side'["server"].wait, side'["server"].loop)
          BY <2>1, <2>4 DEF TranscriptInv
        <4> QED BY <1>0, <2>1, <2>2, <2>4, <4>1, <4>2, <4>3, <4>4, WorldFlow
      <3> QED BY <3>2, <3>3
    <2>5. CASE s = "server"
      <3>0. /\ Waits("server", x) /\ Done(x, "ok", <<>>) \in Handlers(opts, "server")
            /\ q = Completed("server", x, "ok", <<>>) /\ given' = given
            /\ side'["server"] = q /\ side'["client"] = side["client"]
        BY <1>0, <1>1, <1>3, <2>1, <2>5 DEF q
      <3>1. ASSUME NEW m
            PROVE  /\ AtServer(m, q)
                      + (IF x = "echo" /\ side["server"].echo = m THEN 1 ELSE 0)
                         = AtServer(m, side["server"]) + 0
                   /\ AtServer(m, q) \in Nat
                   /\ ~Active("write", side["server"].wait, side["server"].loop)
                         => ~Active("write", q.wait, q.loop)
        BY <1>1, <3>0, ServerCount
      <3>2. Stage(given, side["client"])
        BY DEF TranscriptInv
      <3>3. Echoing => ~Active("write", q.wait, q.loop)
        BY <3>1 DEF TranscriptInv
      <3>4. ASSUME NEW m \in Lined, Echoing
            PROVE  Carried(m, wire') + AtServer(m, q) + AtClient(m, side["client"])
                      <= Count(given, m)
        <4>1. Copy(s, X, m) = IF x = "echo" /\ side["server"].echo = m THEN 1 ELSE 0
          <5>1. x # "write" /\ x \in {"echo", "last", "bye"}
            BY <1>0, <2>5, <3>4, Copies DEF Writes
          <5>2. x = "echo" => Copy(s, X, m) = IF side["server"].echo = m THEN 1 ELSE 0
            BY <1>0, <2>5, <3>4, Copies DEF X
          <5>3. x \in {"last", "bye"} => Copy(s, X, m) = 0
            BY <1>0, <2>5, <3>4, Copies DEF X
          <5> QED BY <5>1, <5>2, <5>3
        <4>2. AtServer(m, q) + Copy(s, X, m) = AtServer(m, side["server"]) + 0
          BY <3>1, <4>1
        <4>3. Copy(s, X, m) \in Nat
          BY DEF Copy
        <4> QED BY <2>3, <3>1, <3>4, <4>2, <4>3 DEF Flow
      <3> QED BY <1>0, <3>0, <3>2, <3>3, <3>4, WorldFlow
    <2> QED BY <1>0, <2>4, <2>5
  <1> QED BY <1>2, <1>3 DEF Transmits

\* A read yields what is on the wire.
LEMMA ArrivesTranscript ==
  ASSUME ReplayInv, ReplayInv', TranscriptInv, opts.log, NEW s \in Sides, NEW x \in Reads,
         Arrives(s, x)
  PROVE  TranscriptInv'
  <1> DEFINE p == Peer(s)
  <1>0. /\ Waits(s, x) /\ wire[p] # <<>> /\ p \in Sides /\ opts' = opts /\ given' = given
        /\ x \in Ops /\ x \in {"read", "watch"} /\ (s = "client" \/ s = "server")
        /\ "ok" \in Codes
    BY PeerSide, Kinds DEF Arrives, Reads, Sides, Codes
  <1>1. PICK o \in Heard(opts, s) :
          /\ Completes(s, x, "ok", o)
          /\ Echoing => o = Head(wire[p]) /\ wire' = [wire EXCEPT ![p] = Tail(wire[p])]
    <2>1. CASE opts.ssl
      <3>1. Completes(s, x, "ok", Head(wire[p])) /\ wire' = [wire EXCEPT ![p] = Tail(wire[p])]
        BY <2>1 DEF Arrives
      <3>2. Head(wire[p]) \in Heard(opts, s)
        <4>1. wire[p] \in Seq(Own(opts, p))
          BY <1>0, <2>1 DEF ReplayInv
        <4>2. Head(wire[p]) \in Own(opts, p)
          BY <1>0, <4>1
        <4> QED BY <2>1, <4>2, PeerSide
      <3> QED BY <3>1, <3>2
    <2>2. CASE ~opts.ssl
      <3> DEFINE t == Head(wire[p])
      <3>1. PICK n \in 1 .. Len(t) : n <= BufferSize /\ Completes(s, x, "ok", SubSeq(t, 1, n))
        BY <2>2 DEF Arrives
      <3>2. t \in Seq(Octet) /\ Len(t) \in Nat /\ n \in Nat /\ n <= Len(t)
        <4>1. wire[p] \in Seq(Seq(Octet))
          BY <1>0 DEF ReplayInv
        <4>2. t \in Seq(Octet)
          BY <1>0, <4>1
        <4> QED BY <4>2
      <3> HIDE DEF t
      <3>3. SubSeq(t, 1, n) \in Seq(Octet) /\ Len(SubSeq(t, 1, n)) = n
        BY <3>2
      <3>4. SubSeq(t, 1, n) \in Heard(opts, s)
        BY <2>2, <3>1, <3>3 DEF Heard, Fits
      <3> QED BY <2>2, <3>1, <3>4 DEF Echoing
    <2> QED BY <2>1, <2>2
  <1> DEFINE q == Completed(s, x, "ok", o)
  <1>2. Done(x, "ok", o) \in Handlers(opts, s)
    BY <1>0, <1>1 DEF Handlers, Done
  <1>3. /\ side'[s] = q
        /\ s = "client" => side'["server"] = side["server"]
        /\ s = "server" => side'["client"] = side["client"]
    BY <1>1, SidesAfter
  <1>4. q.log = side[s].log
    BY <1>0, <1>2, CompletedMembers
  <1>5. ASSUME NEW m \in Lined, Echoing
        PROVE  /\ Carried(m, wire) = Carried(m, wire') + Copy(p, o, m)
               /\ Carried(m, wire') \in Nat /\ Flow(m)
               /\ AtServer(m, side["server"]) \in Nat /\ AtClient(m, side["client"]) \in Nat
               /\ Count(given, m) \in Nat
    <2>1. Flow(m)
      BY <1>5 DEF TranscriptInv
    <2>2. Carried(m, wire) = Carried(m, wire') + Copy(p, o, m) /\ Carried(m, wire') \in Nat
      BY <1>0, <1>1, <1>5, WireShrinks
    <2> QED BY <2>1, <2>2, Present
  <1>6. given \in Seq(Fits) /\ Stage(given, side["client"])
    BY DEF TranscriptInv
  <1> HIDE DEF q
  <1>7. CASE s = "client"
    <2>0. /\ Waits("client", x) /\ Done(x, "ok", o) \in Handlers(opts, "client")
          /\ q = Completed("client", x, "ok", o) /\ x # "write" /\ p = "server"
      BY <1>0, <1>2, <1>7 DEF q, Peer
    <2>1. Stage(given, q)
      BY <2>0, ClientCompletes
    <2>2. Echoing => ~Active("write", side'["server"].wait, side'["server"].loop)
      BY <1>3, <1>7 DEF TranscriptInv
    <2>3. ASSUME NEW m \in Lined, Echoing
          PROVE  Carried(m, wire') + AtServer(m, side["server"]) + AtClient(m, q)
                    <= Count(given, m)
      <3> DEFINE d == IF Done(x, "ok", o) = Done("read", "ok", Echo(m)) THEN 1 ELSE 0
      <3>1. AtClient(m, q) = AtClient(m, side["client"]) + d
        BY <2>0, ClientCount
      <3>2. d <= Copy(p, o, m) /\ d \in Nat /\ Copy(p, o, m) \in Nat
        BY <2>0 DEF Copy, Done
      <3> HIDE DEF d
      <3> QED BY <1>5, <2>3, <3>1, <3>2 DEF Flow
    <2> QED BY <1>0, <1>3, <1>4, <1>6, <1>7, <2>1, <2>2, <2>3, WorldFlow
  <1>8. CASE s = "server"
    <2>0. /\ Waits("server", x) /\ Done(x, "ok", o) \in Handlers(opts, "server")
          /\ q = Completed("server", x, "ok", o) /\ x # "echo" /\ p = "client"
      BY <1>0, <1>2, <1>8 DEF q, Peer
    <2>1. ASSUME NEW m
          PROVE  /\ AtServer(m, q) + 0 = AtServer(m, side["server"])
                      + (IF Done(x, "ok", o) = Done("read", "ok", m) THEN 1 ELSE 0)
                 /\ AtServer(m, q) \in Nat
                 /\ ~Active("write", side["server"].wait, side["server"].loop)
                      => ~Active("write", q.wait, q.loop)
      BY <2>0, ServerCount
    <2>2. Echoing => ~Active("write", q.wait, q.loop)
      BY <2>1 DEF TranscriptInv
    <2>3. ASSUME NEW m \in Lined, Echoing
          PROVE  Carried(m, wire') + AtServer(m, q) + AtClient(m, side["client"])
                    <= Count(given, m)
      <3> DEFINE d == IF Done(x, "ok", o) = Done("read", "ok", m) THEN 1 ELSE 0
      <3>1. AtServer(m, q) + 0 = AtServer(m, side["server"]) + d /\ AtServer(m, q) \in Nat
        BY <2>1
      <3>2. d <= Copy(p, o, m) /\ d \in Nat /\ Copy(p, o, m) \in Nat
        BY <2>0 DEF Copy, Done
      <3> HIDE DEF d
      <3> QED BY <1>5, <2>3, <3>1, <3>2 DEF Flow
    <2> QED BY <1>0, <1>3, <1>6, <1>8, <2>2, <2>3, WorldFlow
  <1> QED BY <1>0, <1>7, <1>8

\* At the start nothing is written, and nothing recorded.
LEMMA InitTranscript ==
  ASSUME Init PROVE TranscriptInv
  <1> DEFINE r == side["client"]
             v == side["server"]
  <1>1. /\ r = ClientMain(opts) /\ v = ServerMain(opts) /\ given = <<>>
        /\ wire["client"] = <<>> /\ wire["server"] = <<>>
    BY DEF Init, Sides
  <1>2. /\ r.loop = <<>> /\ r.log = <<>>
        /\ r.wait = {"signal", "resolve"} \cup (IF opts.client = "keyboard" THEN {"stdin"} ELSE {})
        /\ v.loop = <<>>
        /\ v.wait = {"main_signal", "accept"} \cup (IF opts.limit THEN {"limit"} ELSE {})
    BY <1>1 DEF ClientMain, ServerMain, Idle
  <1> HIDE DEF r, v
  <1>3. "write" \notin r.wait /\ "write" \notin v.wait /\ "echo" \notin v.wait
    BY <1>2
  <1>4. Settled(given, r)
    BY <1>1, <1>2, <1>3, NamesNothing DEF Settled
  <1>5. ~Active("write", v.wait, v.loop)
    BY <1>2, <1>3 DEF Active
  <1>6. ASSUME NEW m PROVE EchoesFollow(m, r.log) /\ Flow(m)
    <2>1. EchoesFollow(m, r.log)
      BY <1>2 DEF EchoesFollow
    <2>2. Carried(m, wire) = 0 /\ AtServer(m, v) = 0 /\ AtClient(m, r) = 0 /\ Count(given, m) = 0
      BY <1>1, <1>2, <1>3, CountNothing DEF Carried, AtServer, AtClient
    <2> QED BY <2>1, <2>2 DEF Flow, r, v
  <1>7. given \in Seq(Fits)
    BY <1>1
  <1> QED BY <1>4, <1>5, <1>6, <1>7 DEF TranscriptInv, Stage, r, v

\* The options stay, until a recorded trace is replayed.
LEMMA OptionsStay ==
  ASSUME Handler \/ Network \/ Limit \/ User PROVE opts' = opts
  <1>1. CASE ClientHandler
    BY <1>1 DEF ClientHandler, resolved, do_connect, do_handshake, client_timer, client_read,
                client_read_failed, shutdown_done, do_keyboard_read, keyboard_ends,
                client_signal, client_bye, ClientDoes
  <1>2. CASE ServerHandler
    BY <1>2 DEF ServerHandler, accepted, accept_failed, handshaken, server_timer, server_read,
                echoed, last_written, wait_for_disconnect, server_signal, server_bye,
                main_signal, ServerDoes
  <1>3. ASSUME NEW s, written(s) \/ limit(s) \/ run_returns(s) \/ finish(s) PROVE opts' = opts
    BY <1>3 DEF written, limit, run_returns, finish, Does, ClientDoes, ServerDoes
  <1>4. CASE Network
    BY <1>4 DEF Network, Resolves, Connects, Handshakes, ShutdownCompletes, HandshakeBreaks,
                Expires, Transmits, Arrives, PeerEnds
  <1>5. CASE Limit \/ User
    BY <1>5 DEF Limit, User, Expires, Types_line, Types_eof, Signal
  <1> QED BY <1>1, <1>2, <1>3, <1>4, <1>5 DEF Handler

\* The network, the timers and the user keep the trace a transcript.
LEMMA OutsideTranscript ==
  ASSUME ReplayInv, ReplayInv', TranscriptInv, opts.log, Network \/ Limit \/ User
  PROVE  TranscriptInv'
  <1>1. CASE Resolves \/ Connects \/ Handshakes \/ ShutdownCompletes
    BY <1>1, SingleTranscript, MeetingTranscript
  <1>2. ASSUME NEW s \in Sides, HandshakeBreaks(s) \/ Expires(s, "timer") \/ Expires(s, "limit")
        PROVE  TranscriptInv'
    BY <1>2, SingleTranscript
  <1>3. ASSUME NEW s \in Sides, NEW x \in Writes, Transmits(s, x) PROVE TranscriptInv'
    BY <1>3, TransmitsTranscript
  <1>4. ASSUME NEW s \in Sides, NEW x \in Reads, Arrives(s, x) \/ PeerEnds(s, x)
        PROVE  TranscriptInv'
    BY <1>4, ArrivesTranscript, PeerEndsTranscript
  <1>5. CASE Network
    BY <1>1, <1>2, <1>3, <1>4, <1>5 DEF Network
  <1>6. CASE Limit
    BY <1>2, <1>6 DEF Limit
  <1>7. CASE User
    BY <1>7, SingleTranscript, MeetingTranscript DEF User
  <1> QED BY <1>5, <1>6, <1>7

\* The invariant is inductive.
LEMMA TranscriptStep ==
  ASSUME ReplayInv, TranscriptInv, [Next]_vars PROVE TranscriptInv'
  <1>0. ReplayInv'
    BY ReplayStep
  <1>1. CASE Handler \/ Network \/ Limit \/ User
    <2>1. opts' = opts
      BY <1>1, OptionsStay
    <2>2. CASE opts.log
      BY <1>0, <1>1, <2>2, HandlerTranscript, OutsideTranscript
    <2>3. CASE ~opts.log
      BY <2>1, <2>3 DEF TranscriptInv
    <2> QED BY <2>2, <2>3
  <1>2. CASE ReplayRecorded
    <2>1. opts'.log = FALSE
      BY <1>2 DEF ReplayRecorded, Basic
    <2> QED BY <2>1 DEF TranscriptInv
  <1>3. CASE UNCHANGED vars
    BY <1>3 DEF vars, TranscriptInv, Echoing, Flow
  <1> QED BY <1>1, <1>2, <1>3 DEF Next

\* What the stages of a write say about the trace.
LEMMA StageTranscript ==
  ASSUME NEW g \in Seq(Fits), NEW r, Stage(g, r)
  PROVE  /\ SentUpTo(r.log, Len(r.log)) \in Len(g) .. (Len(g) + 1)
         /\ \A i \in 1 .. Len(r.log) :
               r.log[i].type = "SENT" /\ SentUpTo(r.log, i) <= Len(g)
                  => r.log[i].message = g[SentUpTo(r.log, i)]
  <1>0. Len(g) \in Nat
    OBVIOUS
  <1>1. CASE Settled(g, r)
    BY <1>0, <1>1 DEF Settled, Names
  <1>2. ASSUME NEW x \in Fits, Writing(g, x, r)
        PROVE  /\ SentUpTo(r.log, Len(r.log)) \in Len(g) .. (Len(g) + 1)
               /\ \A i \in 1 .. Len(r.log) :
                     r.log[i].type = "SENT" /\ SentUpTo(r.log, i) <= Len(g)
                        => r.log[i].message = g[SentUpTo(r.log, i)]
    <2> DEFINE h == Append(g, x)
    <2>1. Len(h) = Len(g) + 1 /\ \A k \in 1 .. Len(g) : h[k] = g[k]
      BY AppendItems
    <2> HIDE DEF h
    <2>2. Names(r.log, h)
      BY <1>2 DEF Writing, h
    <2>3. SentUpTo(r.log, Len(r.log)) = Len(g) + 1
      BY <2>1, <2>2 DEF Names
    <2>4. ASSUME NEW i \in 1 .. Len(r.log), r.log[i].type = "SENT", SentUpTo(r.log, i) <= Len(g)
          PROVE  r.log[i].message = g[SentUpTo(r.log, i)]
      <3>1. SentUpTo(r.log, i) \in 1 .. Len(h) /\ r.log[i].message = h[SentUpTo(r.log, i)]
        BY <2>2, <2>4 DEF Names
      <3>2. SentUpTo(r.log, i) \in 1 .. Len(g)
        BY <1>0, <2>1, <2>4, <3>1
      <3> QED BY <2>1, <3>1, <3>2
    <2> QED BY <1>0, <2>3, <2>4
  <1> QED BY <1>1, <1>2 DEF Stage

\* The trace that the client of example/client.cc records is a transcript, whatever is
\* typed, whatever the network does and whenever a signal comes: it names the written
\* messages in their order and at most one that is being written, and over TLS with the
\* echoing server a line is named before its echo, each time.
THEOREM TraceIsTranscriptAlways == Spec => []TraceIsTranscript
  <1>1. Init => ReplayInv /\ TranscriptInv
    BY InitReplay, InitTranscript
  <1>2. ReplayInv /\ TranscriptInv /\ [Next]_vars => (ReplayInv /\ TranscriptInv)'
    BY ReplayStep, TranscriptStep
  <1>3. ReplayInv /\ TranscriptInv => TraceIsTranscript
    <2> SUFFICES ASSUME ReplayInv, TranscriptInv, opts.log PROVE TraceIsTranscript
      BY DEF TraceIsTranscript
    <2> DEFINE log == side["client"].log
    <2>1. /\ SentUpTo(log, Len(log)) \in Len(given) .. (Len(given) + 1)
          /\ \A i \in 1 .. Len(log) :
                log[i].type = "SENT" /\ SentUpTo(log, i) <= Len(given)
                   => log[i].message = given[SentUpTo(log, i)]
      BY StageTranscript DEF TranscriptInv
    <2>2. ASSUME opts.ssl, opts.server = "echo", NEW m \in Typed \ {LastWords("client")},
                 NEW i \in 1 .. Len(log), log[i] = Record("RECEIVED", Echo(m))
          PROVE  UpTo(log, i, log[i]) <= UpTo(log, i, Record("SENT", m))
      <3>1. m \in Lined /\ Echoing
        BY <2>2 DEF Lined, Echoing
      <3>2. EchoesFollow(m, log)
        BY <3>1 DEF TranscriptInv
      <3> QED BY <2>2, <3>2 DEF EchoesFollow, EchoRecord
    <2> QED BY <2>1, <2>2 DEF TraceIsTranscript
  <1> QED BY <1>1, <1>2, <1>3, PTL DEF Spec
=============================================================================
