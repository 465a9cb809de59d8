----------------------------- MODULE EventStore -----------------------------
(***************************************************************************)
(* The table events and its monthly partitions (event_service.py,          *)
(* partition_manager.py, the migration that partitions the table).         *)
(*                                                                         *)
(* A month is <<year, month>>; a date is the month it is in.  Events of a  *)
(* month without a partition go to events_default, and PostgreSQL creates  *)
(* no partition for rows that are there.                                   *)
(***************************************************************************)
EXTENDS Integers, FiniteSets

CONSTANTS
    First,          \* the month of the migration
    MaxMonths       \* bound on the months that go by

ASSUME StoreAssumption ==
    /\ First \in (Nat \ {0}) \X (1 .. 12)
    /\ MaxMonths \in Nat

VARIABLES
    now,            \* the month it is
    partitions,     \* the months that have a partition
    inDefault,      \* the months of the rows in events_default
    ran,            \* history: the month the job last succeeded in
    late,           \* history: the job has not succeeded for more than 3 months
    astray          \* history: somebody has sent a date more than 3 months after it, or
                    \* before the migration

storeVars == <<now, partitions, inDefault, ran, late, astray>>

Month == Nat \X (1 .. 12)

\* Months since the year 0.
Index(month) == 12 * month[1] + month[2] - 1

\* Where the loop of _months_ahead goes from a month.
NextMonth(month) == IF month[2] = 12 THEN <<month[1] + 1, 1>> ELSE <<month[1], month[2] + 1>>

\* Mutant: the current month is counted.
MonthsAheadOne(base, count) ==
    LET months[i \in Nat] == IF i = 0 THEN base ELSE NextMonth(months[i - 1])
    IN {months[i] : i \in 0 .. count - 2}

\* _months_ahead
MonthsAhead(base, count) ==
    LET months[i \in Nat] == IF i = 0 THEN base ELSE NextMonth(months[i - 1])
    IN {months[i] : i \in 0 .. count - 1}

\* _partition_bounds: the month that begins and the one that ends it.
Bounds(month) == [from |-> month, to |-> NextMonth(month)]

Takes(partition, date) ==
    LET b == Bounds(partition) IN Index(b.from) <= Index(date) /\ Index(date) < Index(b.to)

\* upgrade: from three months ago to six months ahead; the past needs no
\* more partitions.
StoreInit ==
    /\ now = First /\ ran = First
    /\ partitions = MonthsAhead(First, 7)
    /\ inDefault = {}
    /\ late = FALSE /\ astray = FALSE

\* The rows of an INSERT dated so.
Routed(date) ==
    inDefault' = IF \E p \in partitions : Takes(p, date) THEN inDefault ELSE inDefault \cup {date}

\* save_events_batch: one INSERT for all; the SDK leaves the date to the
\* server.
SaveBatch ==
    /\ Routed(now)
    /\ UNCHANGED <<now, partitions, ran, late, astray>>

\* save_event, of a client that gives the date: any date is accepted.
SaveDated(date) ==
    /\ Routed(date)
    /\ astray' = (astray \/ Index(date) < Index(First) \/ Index(date) > Index(ran) + 3)
    /\ UNCHANGED <<now, partitions, ran, late>>

\* ensure_partitions as create_monthly_partitions calls it: one transaction,
\* which fails as a whole if any of the months has rows in events_default.
EnsurePartitions ==
    LET missing == MonthsAhead(now, 3 + 1) \ partitions IN
    /\ missing \cap inDefault = {}
    /\ partitions' = partitions \cup missing
    /\ ran' = now
    /\ UNCHANGED <<now, inDefault, late, astray>>

\* The month ends; the job may have failed, or not run, on all of its days.
MonthEnds ==
    /\ Index(now) < Index(First) + MaxMonths
    /\ now' = NextMonth(now)
    /\ late' = (late \/ Index(now') > Index(ran) + 3)
    /\ UNCHANGED <<partitions, inDefault, ran, astray>>

=============================================================================
