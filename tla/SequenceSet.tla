---------------------------- MODULE SequenceSet -----------------------------
(***************************************************************************)
(* Sequence_Set: the UIDs of transferred messages, kept as closed          *)
(* intervals <<first, last>>, so that a command can name many messages in  *)
(* a short line.  The container is a Boost.ICL interval_set, whose insert  *)
(* joins a new interval with all intervals it overlaps or touches.         *)
(***************************************************************************)
EXTENDS Integers, FiniteSets

\* The intervals that the interval a .. b overlaps or is next to.
Touching(S, a, b) == {i \in S : i[1] <= b + 1 /\ a <= i[2] + 1}

\* The lowest and the highest end of a .. b joined with the intervals of T.
LowEnd(T, a)  == IF \E i \in T : i[1] < a
               THEN (CHOOSE i \in T : \A j \in T : i[1] <= j[1])[1] ELSE a
HighEnd(T, b) == IF \E i \in T : i[2] > b
               THEN (CHOOSE i \in T : \A j \in T : j[2] <= i[2])[2] ELSE b

\* Mutant: the interval is added beside the ones it touches.
insert_apart(S, a, b) == IF a > b THEN S ELSE S \cup {<<a, b>>}

\* interval_set::insert(); an interval whose ends are swapped is empty.
insert(S, a, b) ==
    IF a > b THEN S
    ELSE LET T == Touching(S, a, b)
         IN  (S \ T) \cup {<<LowEnd(T, a), HighEnd(T, b)>>}

\* push(), clear(), size().
push(S, id) == insert(S, id, id)
clear == {}
size(S) == Cardinality(S)

\* The numbers a set of intervals stands for.
Numbers(S) == UNION {i[1] .. i[2] : i \in S}

\* No interval is empty, and two of them neither overlap nor touch: the set is
\* written with as few intervals as possible.
Canonical(S) ==
    /\ \A i \in S : i[1] <= i[2]
    /\ \A i, j \in S : i = j \/ i[2] + 1 < j[1] \/ j[2] + 1 < i[1]
=============================================================================
