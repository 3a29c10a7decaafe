---------------------------- MODULE TargetLedger ----------------------------
(***************************************************************************)
(* What a target database promises the tool: the abstract specification    *)
(* that TargetExecutor implements.  A call of executeItem puts the script  *)
(* of its migration on a database and records it there, and the record     *)
(* keeps every later call from doing it again.                             *)
(***************************************************************************)
EXTENDS Integers

CONSTANTS
  Attempts,    \* calls of executeItem
  Targets,     \* rows of db_targets
  Databases,   \* physical databases
  Addresses,   \* what a target's host, port and db_name may come to name
  EngineOf,    \* the engine of a database
  Copies,      \* the migration rows that executors hold
  KeyOf,       \* their migration_key
  SumOf,       \* their checksum_up
  ModeOf,      \* their transaction_mode
  Escapes,     \* <<c, d>>: on d, c's script takes effect at once, rolled back
               \* or not (MySQL DDL, a script with a COMMIT of its own)
  None

ASSUME TargetAssumption == Addresses \in [Targets -> SUBSET Databases]

ASSUME EngineAssumption == EngineOf \in [Databases -> {"postgres", "mysql"}]

Keys == {KeyOf[c] : c \in Copies}
Sums == {SumOf[c] : c \in Copies}
Mode == {"auto", "single_transaction", "no_transaction"}

ASSUME CopyAssumption ==
  /\ KeyOf \in [Copies -> Keys]
  /\ SumOf \in [Copies -> Sums]
  /\ ModeOf \in [Copies -> Mode]

Job == [target : Targets, db : Databases, copy : Copies]
Result == {"executed", "skipped", "failed"}

ASSUME NoneAssumption == None \notin Job \cup Sums \cup Result

VARIABLES
  job,      \* the item of each call
  result,   \* what the call has returned
  rows,     \* rows[d][k]: checksum recorded in d's migrate_hub_migrations
  landed    \* calls whose script has taken effect, for good

tvars == <<job, result, rows, landed>>

Db(a)   == job[a].db
Copy(a) == job[a].copy
Key(a)  == KeyOf[Copy(a)]
Sum(a)  == SumOf[Copy(a)]
Recorded(a) == rows[Db(a)][Key(a)]

\* The script and its ledger row stand or fall together.
InTransaction(c) == ModeOf[c] # "no_transaction"
Atomic(a) == InTransaction(Copy(a)) /\ <<Copy(a), Db(a)>> \notin Escapes

\* One lock covers the database, and it is held by the only connection.
Guarded(d) ==
  /\ EngineOf[d] = "postgres"
  /\ \A t, u \in Targets : d \in Addresses[t] \cap Addresses[u] => t = u

Init ==
  /\ job = [a \in Attempts |-> None]
  /\ result = [a \in Attempts |-> None]
  /\ rows = [d \in Databases |-> [k \in Keys |-> None]]
  /\ landed = {}

Call(a, j) ==
  /\ job[a] = None
  /\ j.db \in Addresses[j.target]
  /\ job' = [job EXCEPT ![a] = j]
  /\ UNCHANGED <<result, rows, landed>>

\* Mutant of Record: the columns of the INSERT are swapped.
RecordKey(a) == rows' = [rows EXCEPT ![Db(a)][Key(a)] = Key(a)]

Answer(a, r) == result' = [result EXCEPT ![a] = r]
Record(a)    == rows' = [rows EXCEPT ![Db(a)][Key(a)] = Sum(a)]
Land(a)      == landed' = landed \cup {a}

Pending(a) == job[a] # None /\ result[a] = None

\* A script without the protection of a transaction may land on its own, on
\* a guarded database only while there is no record.
MayLeak(a) == ~ Atomic(a) /\ (Guarded(Db(a)) => Recorded(a) = None)

Succeed(a) ==
  /\ Pending(a)
  /\ Recorded(a) = None
  /\ Answer(a, "executed") /\ Record(a) /\ Land(a)
  /\ UNCHANGED job

Skip(a) ==
  /\ Pending(a)
  /\ a \notin landed
  /\ Recorded(a) = Sum(a)
  /\ Answer(a, "skipped")
  /\ UNCHANGED <<job, rows, landed>>

Fail(a) ==
  /\ Pending(a)
  /\ Answer(a, "failed")
  /\ UNCHANGED landed \/ (MayLeak(a) /\ Land(a))
  /\ UNCHANGED <<job, rows>>

Leak(a) ==
  /\ job[a] # None
  /\ result[a] \in {None, "failed"}
  /\ MayLeak(a)
  /\ Land(a)
  /\ UNCHANGED <<job, result, rows>>

\* Its record may then come on its own, and the answer after that.
RecordLeaked(a) ==
  /\ a \in landed
  /\ ~ Atomic(a)
  /\ result[a] \in {None, "failed"}
  /\ Recorded(a) = None
  /\ Record(a)
  /\ UNCHANGED <<job, result, landed>>

ConfirmLeaked(a) ==
  /\ a \in landed
  /\ ~ Atomic(a)
  /\ Pending(a)
  /\ Recorded(a) = Sum(a)
  /\ Answer(a, "executed")
  /\ UNCHANGED <<job, rows, landed>>

\* The answer was lost, not the work.
SucceedUnheard(a) ==
  /\ result[a] = "failed"
  /\ Recorded(a) = None
  /\ Record(a) /\ Land(a)
  /\ UNCHANGED <<job, result>>

Next ==
  \E a \in Attempts :
    \/ \E j \in Job : Call(a, j)
    \/ Succeed(a) \/ Skip(a) \/ Fail(a) \/ SucceedUnheard(a)
    \/ Leak(a) \/ RecordLeaked(a) \/ ConfirmLeaked(a)

Spec == Init /\ [][Next]_tvars

=============================================================================
