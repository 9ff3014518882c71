----------------------------- MODULE LtopSample -----------------------------
(***************************************************************************)
(* sample_t of src/utils/sample.c: the last two readings of a counter or a *)
(* gauge, and when they were taken.                                        *)
(*                                                                         *)
(* A value is a record: n is the number, by the server that reported it.   *)
(* The program has no such tag; it only lets a property say where the two  *)
(* readings of a rate come from.                                           *)
(***************************************************************************)
EXTENDS Integers

CONSTANTS
    Server,       \* OSS or MDS host names
    None          \* the empty host name

Value == [n : Nat, by : Server \cup {None}]

\* val[0], val[1], time[0], time[1] and the number of valid readings
Sample == [valid : 0 .. 2, time0 : Nat, time1 : Nat, val0 : Value, val1 : Value]

NoValue == [n |-> 0, by |-> None]

sample_create ==
    [valid |-> 0, time0 |-> 0, time1 |-> 0, val0 |-> NoValue, val1 |-> NoValue]

sample_invalidate(s) == [s EXCEPT !.valid = 0]

\* Mutant of sample_update: time[1] keeps the time of the older reading.
MutTimeKept(s, val, t) ==
    IF s.valid = 0
    THEN [s EXCEPT !.time1 = t, !.val1 = val, !.valid = 1]
    ELSE IF s.time1 < t
    THEN [valid |-> 2, time0 |-> s.time1, time1 |-> s.time1, val0 |-> s.val1, val1 |-> val]
    ELSE s

\* Mutant of sample_update: valid is counted up without a limit.
MutCountsOn(s, val, t) ==
    IF s.valid = 0
    THEN [s EXCEPT !.time1 = t, !.val1 = val, !.valid = 1]
    ELSE IF s.time1 < t
    THEN [valid |-> s.valid + 1, time0 |-> s.time1, time1 |-> t, val0 |-> s.val1, val1 |-> val]
    ELSE s

sample_update(s, val, t) ==
    IF s.valid = 0
    THEN [s EXCEPT !.time1 = t, !.val1 = val, !.valid = 1]
    ELSE IF s.time1 < t
    THEN [valid |-> 2, time0 |-> s.time1, time1 |-> t, val0 |-> s.val1, val1 |-> val]
    ELSE s

\* The guard of sample_add, sample_max and sample_min.
SameTimes(s1, s2) ==
    /\ s1.valid = s2.valid
    /\ s1.valid > 0 => s1.time1 = s2.time1
    /\ s1.valid > 1 => s1.time0 = s2.time0

\* s1 with the numbers n1 and n0 in its valid readings, if the times agree.
Combined(s1, s2, n1, n0) ==
    IF SameTimes(s1, s2)
    THEN [s1 EXCEPT !.val1.n = IF s1.valid > 0 THEN n1 ELSE @,
                    !.val0.n = IF s1.valid > 1 THEN n0 ELSE @]
    ELSE s1

sample_add(s1, s2) ==
    Combined(s1, s2, s1.val1.n + s2.val1.n, s1.val0.n + s2.val0.n)

Smaller(a, b) == IF a < b THEN a ELSE b

sample_min(s1, s2) ==
    Combined(s1, s2, Smaller(s1.val1.n, s2.val1.n), Smaller(s1.val0.n, s2.val0.n))

\* sample_val and sample_rate answer 0 when the newest reading has expired.
Expired(time, tnow, stale_secs) == tnow - time > stale_secs

=============================================================================
