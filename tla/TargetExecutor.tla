--------------------------- MODULE TargetExecutor ---------------------------
(***************************************************************************)
(* executeItem on a target database: connection, lock, ledger, script and  *)
(* transaction, statement by statement.  Any number of calls meet on a     *)
(* database: two executions of one run, runs of several migrations, runs   *)
(* of two sets whose targets name the same database.                       *)
(*                                                                         *)
(* A call has one session on the server (the MySQL pool of a call is only  *)
(* used by one goroutine).  The session may outlive the call: when the     *)
(* context is cancelled, or the connection breaks, the client returns an   *)
(* error at once, while the server may still finish the statement it was   *)
(* given, and frees the lock only when the session ends.                   *)
(***************************************************************************)
EXTENDS TargetLedger

VARIABLES
  pc,     \* the statement each call has to send, or has sent, next
  open,   \* calls whose session is in a transaction
  held,   \* calls whose session holds the lock of its target
  gone    \* calls that have returned while their session lives

evars == <<tvars, pc, open, held, gone>>

\* Between the lock and the end of the session.
Working == {"ensure", "check", "begin", "script", "insert", "commit"}
InSession == {"lock", "release"} \cup Working
PC == {"idle", "connect", "done"} \cup InSession

At(a, label) == pc[a] = label
Go(a, label) == pc' = [pc EXCEPT ![a] = label]

\* The client waits for the statement at label.
Sends(a, label) == At(a, label) /\ a \notin gone

EInit ==
  /\ Init
  /\ pc = [a \in Attempts |-> "idle"]
  /\ open = {} /\ held = {} /\ gone = {}

\* The function returns r.  What is deferred comes next; a transaction still
\* open is rolled back.
Return(a, r) ==
  /\ Answer(a, r)
  /\ Go(a, "release")
  /\ open' = open \ {a}

-----------------------------------------------------------------------------
(***************************************************************************)
(* Connection and lock.                                                    *)
(***************************************************************************)

\* executeItem reads the target's row, so the database is the one it names
\* now, which need not be the one it named when the run was approved.
ExecuteItem(a, j) ==
  /\ Call(a, j)
  /\ At(a, "idle")
  /\ Go(a, "connect")
  /\ UNCHANGED <<open, held, gone>>

Connect(a) ==
  /\ At(a, "connect")
  /\ Go(a, "lock")
  /\ UNCHANGED <<tvars, open, held, gone>>

\* The target is disabled, its password unreadable, or nobody answers.
NoConnection(a) ==
  /\ At(a, "connect")
  /\ Answer(a, "failed")
  /\ Go(a, "done")
  /\ UNCHANGED <<job, rows, landed, open, held, gone>>

\* Mutant of LockOf: one lock per migration instead of one per target.
MigrationLockOf(a) == [db |-> Db(a), key |-> Copy(a)]

\* advisoryKey and the GET_LOCK name are made from the target's id, and the
\* lock lives on the database: targets that share one do not share the lock.
LockOf(a) == [db |-> Db(a), key |-> job[a].target]
LockFree(a) == \A b \in held : LockOf(b) # LockOf(a)

AcquireLock(a) ==
  /\ Sends(a, "lock")
  /\ LockFree(a)
  /\ held' = held \cup {a}
  /\ Go(a, "ensure")
  /\ UNCHANGED <<tvars, open, gone>>

\* pg_advisory_lock waits for ever, GET_LOCK for ten seconds.
LockTimeout(a) ==
  /\ Sends(a, "lock")
  /\ EngineOf[Db(a)] = "mysql"
  /\ ~ LockFree(a)
  /\ Return(a, "failed")
  /\ UNCHANGED <<job, rows, landed, held, gone>>

-----------------------------------------------------------------------------
(***************************************************************************)
(* The ledger and the script.                                              *)
(***************************************************************************)

EnsureTable(a) ==
  /\ Sends(a, "ensure")
  /\ Go(a, "check")
  /\ UNCHANGED <<tvars, open, held, gone>>

\* Mutant of CheckLedger: any row of the key ends the call as skipped.
CheckKeyOnly(a) ==
  /\ Sends(a, "check")
  /\ \/ /\ Recorded(a) = None
        /\ Go(a, IF InTransaction(Copy(a)) THEN "begin" ELSE "script")
        /\ UNCHANGED <<result, open>>
     \/ Recorded(a) # None /\ Return(a, "skipped")
  /\ UNCHANGED <<job, rows, landed, held, gone>>

\* A row with the checksum in hand ends the call with ErrAlreadyApplied,
\* another one with an error.
CheckLedger(a) ==
  /\ Sends(a, "check")
  /\ \/ /\ Recorded(a) = None
        /\ Go(a, IF InTransaction(Copy(a)) THEN "begin" ELSE "script")
        /\ UNCHANGED <<result, open>>
     \/ Recorded(a) = Sum(a) /\ Return(a, "skipped")
     \/ Recorded(a) \notin {None, Sum(a)} /\ Return(a, "failed")
  /\ UNCHANGED <<job, rows, landed, held, gone>>

BeginTx(a) ==
  /\ Sends(a, "begin")
  /\ open' = open \cup {a}
  /\ Go(a, "script")
  /\ UNCHANGED <<tvars, held, gone>>

\* Outside a transaction, or escaping from it, the script takes effect now,
\* and the transaction is over.
Undoable(a) == a \in open /\ Atomic(a)

RunScript(a) ==
  /\ Sends(a, "script")
  /\ IF Undoable(a) THEN UNCHANGED <<landed, open>>
                    ELSE Land(a) /\ open' = open \ {a}
  /\ Go(a, "insert")
  /\ UNCHANGED <<job, result, rows, held, gone>>

\* The server makes an INSERT wait for another, uncommitted one of the key,
\* and refuses it when the row is there (PRIMARY KEY).
RowPending(b) == b \in open /\ At(b, "commit")
RowContended(a) ==
  \E b \in open \ {a} : RowPending(b) /\ Db(b) = Db(a) /\ Key(b) = Key(a)
\* Mutant of RowInsertable: INSERT ... ON CONFLICT DO UPDATE.
RowUpsertable(a) == ~ RowContended(a)

RowInsertable(a) == ~ RowContended(a) /\ Recorded(a) = None

InsertRow(a) ==
  /\ Sends(a, "insert")
  /\ RowInsertable(a)
  /\ IF a \in open THEN UNCHANGED rows ELSE Record(a)
  /\ IF InTransaction(Copy(a))
     THEN Go(a, "commit") /\ UNCHANGED <<result, open>>
     ELSE Return(a, "executed")
  /\ UNCHANGED <<job, landed, held, gone>>

\* Mutant of DuplicateRow: the violated key counts as applied already.
DuplicateSkipped(a) ==
  /\ Sends(a, "insert")
  /\ Recorded(a) # None
  /\ Return(a, "skipped")
  /\ UNCHANGED <<job, rows, landed, held, gone>>

DuplicateRow(a) ==
  /\ Sends(a, "insert")
  /\ Recorded(a) # None
  /\ Return(a, "failed")
  /\ UNCHANGED <<job, rows, landed, held, gone>>

\* COMMIT does nothing when the script has ended the transaction.
CommitTx(a) ==
  /\ Sends(a, "commit")
  /\ IF a \in open THEN Record(a) /\ Land(a) ELSE UNCHANGED <<rows, landed>>
  /\ Return(a, "executed")
  /\ UNCHANGED <<job, held, gone>>

\* The server answers a statement with an error and the function returns it.
\* A script may have taken effect up to the error when it cannot be undone
\* by the server.
StatementFails(a) ==
  /\ a \notin gone
  /\ pc[a] \in {"lock"} \cup Working
  /\ Return(a, "failed")
  /\ \/ UNCHANGED landed
     \/ At(a, "script") /\ <<Copy(a), Db(a)>> \in Escapes /\ Land(a)
  /\ UNCHANGED <<job, rows, held, gone>>

\* Mutant of Release: a return path without the unlock, on a pooled session.
ReleaseNothing(a) ==
  /\ At(a, "release")
  /\ Go(a, "done")
  /\ UNCHANGED <<tvars, open, held, gone>>

\* The deferred calls: unlock and close.  Closing ends the session, and with
\* it the lock, also when the unlock had no connection or the wrong one.
Release(a) ==
  /\ At(a, "release")
  /\ held' = held \ {a}
  /\ Go(a, "done")
  /\ UNCHANGED <<tvars, open, gone>>

-----------------------------------------------------------------------------
(***************************************************************************)
(* Sessions and calls that part.                                           *)
(***************************************************************************)

\* The context is cancelled (middleware.Timeout, client, shutdown), or the
\* connection breaks: the call returns an error.
Abandon(a) ==
  /\ a \notin gone
  /\ pc[a] \in {"lock"} \cup Working
  /\ Answer(a, "failed")
  /\ gone' = gone \cup {a}
  /\ UNCHANGED <<job, rows, landed, pc, open, held>>

\* The session ends, and the server undoes what was not committed.
EndSession(a) ==
  /\ a \in gone
  /\ open' = open \ {a} /\ held' = held \ {a} /\ gone' = gone \ {a}
  /\ Go(a, "done")

SessionEnds(a) == EndSession(a) /\ UNCHANGED tvars

\* The statement in flight was carried out before the session ended.
LateScript(a) ==
  /\ At(a, "script") /\ ~ Undoable(a)
  /\ Land(a)
  /\ EndSession(a)
  /\ UNCHANGED <<job, result, rows>>

LateInsert(a) ==
  /\ At(a, "insert") /\ a \notin open
  /\ RowInsertable(a)
  /\ Record(a)
  /\ EndSession(a)
  /\ UNCHANGED <<job, result, landed>>

LateCommit(a) ==
  /\ At(a, "commit") /\ a \in open
  /\ Record(a) /\ Land(a)
  /\ EndSession(a)
  /\ UNCHANGED <<job, result>>

\* database/sql replaces an idle connection it finds dead by a new one and
\* goes on.  The lock was the dead one's.
ReplaceConnection(a) ==
  /\ a \in held \ (gone \cup open)
  /\ EngineOf[Db(a)] = "mysql"
  /\ \/ pc[a] \in {"ensure", "check", "begin"}
     \/ pc[a] \in {"script", "insert"} /\ ~ InTransaction(Copy(a))
  /\ held' = held \ {a}
  /\ UNCHANGED <<tvars, pc, open, gone>>

-----------------------------------------------------------------------------
\* What a call, and the server for it, will do in the end.
Proceed(a) ==
  \/ Connect(a) \/ AcquireLock(a) \/ EnsureTable(a) \/ CheckLedger(a)
  \/ BeginTx(a) \/ RunScript(a) \/ InsertRow(a) \/ DuplicateRow(a)
  \/ CommitTx(a) \/ Release(a) \/ SessionEnds(a)

\* What may happen to it.
Disturb(a) ==
  \/ NoConnection(a) \/ LockTimeout(a) \/ StatementFails(a) \/ Abandon(a)
  \/ LateScript(a) \/ LateInsert(a) \/ LateCommit(a) \/ ReplaceConnection(a)

ENext ==
  \E a \in Attempts :
    (\E j \in Job : ExecuteItem(a, j)) \/ Proceed(a) \/ Disturb(a)

ESpec == EInit /\ [][ENext]_evars

\* Servers answer and goroutines run; nothing has to go wrong.
EFairSpec == ESpec /\ \A a \in Attempts : WF_evars(Proceed(a))

-----------------------------------------------------------------------------
(***************************************************************************)
(* Properties.                                                             *)
(***************************************************************************)

\* Types of the tables, of the sessions and of what the calls return.
ETypeOK ==
  /\ job \in [Attempts -> Job \cup {None}]
  /\ result \in [Attempts -> Result \cup {None}]
  /\ rows \in [Databases -> [Keys -> Sums \cup {None}]]
  /\ landed \subseteq Attempts
  /\ pc \in [Attempts -> PC]
  /\ open \subseteq Attempts /\ held \subseteq Attempts /\ gone \subseteq Attempts

\* The advisory lock does its work on a Postgres database that one target
\* names: one session at a time is past the lock, abandoned ones included.
OneAtATime ==
  \A a, b \in Attempts :
    /\ pc[a] \in Working /\ pc[b] \in Working
    /\ Db(a) = Db(b) /\ Guarded(Db(a))
    => a = b

\* Scripts that a transaction can undo are applied once: of all the calls for
\* a migration key on a database at most one takes effect, its checksum is the
\* recorded one, and no row is there without a script that took effect.
\* No lock is needed for it: it holds on shared databases too, and when
\* database/sql has lost the lock.
AtomicAppliedOnce ==
  /\ \A a, b \in landed :
       Atomic(a) /\ Atomic(b) /\ Db(a) = Db(b) /\ Key(a) = Key(b) => a = b
  /\ \A a \in landed : Atomic(a) => Recorded(a) = Sum(a)
  /\ \A d \in Databases, k \in Keys :
       rows[d][k] # None =>
         \E a \in landed : Db(a) = d /\ Key(a) = k /\ Sum(a) = rows[d][k]

\* An answer is the truth: executed means that the script has taken effect
\* and the row is its row, skipped that another call has done it.
AnswersAreTrue ==
  \A a \in Attempts :
    /\ result[a] = "executed" => a \in landed /\ Recorded(a) = Sum(a)
    /\ result[a] = "skipped"  => a \notin landed /\ Recorded(a) = Sum(a)

\* Every call returns, and every lock is freed: nobody waits for ever for a
\* lock or for the row of another transaction.
CallsReturn ==
  \A a \in Attempts : (job[a] # None) ~> (result[a] # None /\ a \notin held)

\* The calls keep the promises of TargetLedger.
ImplementsTargetLedger == Spec

=============================================================================
