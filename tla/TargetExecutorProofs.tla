------------------------ MODULE TargetExecutorProofs ------------------------
(***************************************************************************)
(* Proofs about TargetExecutor, for any number of calls, targets,          *)
(* databases and migrations: the lock excludes where it covers the         *)
(* database, atomic scripts are applied once with or without it, answers   *)
(* are true, and the calls implement TargetLedger.                         *)
(***************************************************************************)
EXTENDS TargetExecutor, TLAPS

\* The steps at which a call has not yet run its script.
Before == {"idle", "connect", "lock", "ensure", "check", "begin", "script"}

\* A call's own variables agree with each other.
CallOK(a) ==
  /\ job[a] = None <=> At(a, "idle")
  /\ job[a] # None => Db(a) \in Addresses[job[a].target]
  /\ a \in gone => pc[a] \in {"lock"} \cup Working /\ result[a] = "failed"
  /\ pc[a] \notin {"release", "done"} /\ a \notin gone => result[a] = None
  /\ pc[a] \in {"release", "done"} => result[a] # None

\* The session: where it is in its transaction, and where its lock is.
SessionOK(a) ==
  /\ a \in held => pc[a] \in {"release"} \cup Working
  /\ pc[a] \in Working /\ Guarded(Db(a)) => a \in held
  /\ a \in open => pc[a] \in {"script", "insert", "commit"}
  /\ At(a, "begin") \/ At(a, "commit") \/ a \in open => InTransaction(Copy(a))
  /\ At(a, "script") /\ InTransaction(Copy(a)) => a \in open
  /\ At(a, "insert") \/ At(a, "commit") => (a \in open <=> Atomic(a))

\* What has landed and what is recorded, by the step the call is at.
EffectOK(a) ==
  /\ pc[a] \in Before => a \notin landed
  /\ At(a, "insert") \/ At(a, "commit") => (a \in landed <=> a \notin open)
  /\ At(a, "commit") =>
       Recorded(a) = IF a \in open THEN None ELSE Sum(a)
  /\ pc[a] \in {"begin", "script", "insert"} /\ Guarded(Db(a))
       => Recorded(a) = None
  /\ result[a] = "executed" => a \in landed /\ Recorded(a) = Sum(a)
  /\ result[a] = "skipped"  => a \notin landed /\ Recorded(a) = Sum(a)
  /\ a \in landed /\ Atomic(a) => Recorded(a) = Sum(a)

SameSlot(a, b) == Db(a) = Db(b) /\ Key(a) = Key(b)

\* No two sessions hold one lock, hold uncommitted rows of one slot, or have
\* applied atomic scripts to one slot.
PairOK(a, b) ==
  /\ a \in held /\ b \in held /\ LockOf(a) = LockOf(b) => a = b
  /\ RowPending(a) /\ RowPending(b) /\ SameSlot(a, b) => a = b
  /\ a \in landed /\ b \in landed /\ Atomic(a) /\ Atomic(b) /\ SameSlot(a, b)
       => a = b

\* Rows are earned.
RowsOK ==
  \A d \in Databases, k \in Keys : rows[d][k] # None =>
    \E a \in landed : Db(a) = d /\ Key(a) = k /\ Sum(a) = rows[d][k]

CallsInv ==
  /\ \A a \in Attempts : CallOK(a) /\ SessionOK(a) /\ EffectOK(a)
  /\ \A a, b \in Attempts : PairOK(a, b)
  /\ RowsOK

EInv == ETypeOK /\ CallsInv

-----------------------------------------------------------------------------
(***************************************************************************)
(* A step of one call.                                                     *)
(***************************************************************************)

\* The other calls stay as they are, and a keeps its job.
Only(a) ==
  /\ job[a] # None => job'[a] = job[a]
  /\ \A b \in Attempts \ {a} :
       /\ job'[b] = job[b] /\ pc'[b] = pc[b] /\ result'[b] = result[b]
       /\ b \in landed' <=> b \in landed
       /\ b \in open' <=> b \in open
       /\ b \in held' <=> b \in held
       /\ b \in gone' <=> b \in gone
  /\ a \in landed => a \in landed'

\* a writes its row, where there was none and nobody else's is pending.
Writes(a) ==
  /\ Recorded(a) = None
  /\ pc[a] \in {"insert", "commit"}
  /\ RowPending(a) \/ ~ RowContended(a)
  /\ rows' = [rows EXCEPT ![Db(a)][Key(a)] = Sum(a)]
  /\ a \in landed'

LEMMA JobType ==
  ASSUME ETypeOK, NEW a \in Attempts, job[a] # None
  PROVE  /\ job[a] \in Job /\ Db(a) \in Databases /\ Copy(a) \in Copies
         /\ job[a].target \in Targets
         /\ Key(a) \in Keys /\ Sum(a) \in Sums /\ Sum(a) # None
         /\ Recorded(a) \in Sums \cup {None}
<1>1. job[a] \in Job
  BY DEF ETypeOK
<1>2. Db(a) \in Databases /\ Copy(a) \in Copies /\ job[a].target \in Targets
  BY <1>1 DEF Job, Db, Copy
<1>3. Key(a) \in Keys /\ Sum(a) \in Sums
  BY <1>2 DEF Key, Sum, Keys, Sums
<1>4. Sum(a) # None
  BY <1>3, NoneAssumption
<1> QED BY <1>1, <1>2, <1>3, <1>4 DEF ETypeOK, Recorded

\* On a guarded database one call at a time is past the lock.
LEMMA Alone ==
  ASSUME EInv, NEW a \in Attempts, NEW b \in Attempts,
         pc[a] \in Working, pc[b] \in Working, Db(a) = Db(b), Guarded(Db(a))
  PROVE  a = b
<1>1. a \in held /\ b \in held
  BY DEF EInv, CallsInv, SessionOK
<1>2. job[a] # None /\ job[b] # None
  BY DEF EInv, CallsInv, CallOK, At, Working
<1>3. job[a].target = job[b].target
  <2>1. job[a].target \in Targets /\ job[b].target \in Targets
    BY <1>2, JobType DEF EInv
  <2>2. Db(a) \in Addresses[job[a].target] /\ Db(b) \in Addresses[job[b].target]
    BY <1>2 DEF EInv, CallsInv, CallOK
  <2> QED BY <2>1, <2>2 DEF Guarded
<1> QED BY <1>1, <1>3 DEF EInv, CallsInv, PairOK, LockOf

\* What a's step means for the records that another call relies on.
LEMMA RecordKept ==
  ASSUME EInv, NEW a \in Attempts, rows' = rows \/ Writes(a), Only(a),
         job[a] # None, NEW b \in Attempts \ {a}, job[b] # None
  PROVE  /\ Recorded(b) # None => Recorded(b)' = Recorded(b)
         /\ ~ SameSlot(a, b) => Recorded(b)' = Recorded(b)
         /\ RowPending(b) => Recorded(b)' = Recorded(b)
<1>1. Db(b)' = Db(b) /\ Key(b)' = Key(b)
  BY DEF Only, Db, Key, Copy
<1>2. CASE rows' = rows
  BY <1>1, <1>2 DEF Recorded
<1>3. CASE Writes(a)
  <2>1. /\ Db(a) \in Databases /\ Key(a) \in Keys
        /\ Db(b) \in Databases /\ Key(b) \in Keys
    BY JobType DEF EInv
  <2>2. ~ SameSlot(a, b) => Recorded(b)' = Recorded(b)
    BY <1>1, <1>3, <2>1 DEF Writes, SameSlot, Recorded, EInv, ETypeOK
  <2>3. SameSlot(a, b) => Recorded(b) = None
    BY <1>3 DEF Writes, SameSlot, Recorded
  <2>4. RowPending(b) => ~ SameSlot(a, b)
    BY <1>3 DEF Writes, RowContended, EInv, CallsInv, PairOK, SameSlot, RowPending
  <2> QED BY <2>2, <2>3, <2>4
<1> QED BY <1>2, <1>3

\* The other calls keep their part of the invariant.
LEMMA OthersOK ==
  ASSUME EInv, NEW a \in Attempts, rows' = rows \/ Writes(a), Only(a),
         NEW b \in Attempts \ {a}
  PROVE  CallOK(b)' /\ SessionOK(b)' /\ EffectOK(b)'
<1>1. /\ job'[b] = job[b] /\ pc'[b] = pc[b] /\ result'[b] = result[b]
      /\ b \in landed' <=> b \in landed
      /\ b \in open' <=> b \in open
      /\ b \in held' <=> b \in held
      /\ b \in gone' <=> b \in gone
  BY DEF Only
<1>2. /\ Db(b)' = Db(b) /\ Copy(b)' = Copy(b) /\ Key(b)' = Key(b)
      /\ Sum(b)' = Sum(b) /\ Atomic(b)' = Atomic(b)
  BY <1>1 DEF Db, Copy, Key, Sum, Atomic
<1>3. CallOK(b) /\ SessionOK(b) /\ EffectOK(b)
  BY DEF EInv, CallsInv
<1>4. CallOK(b)'
  BY <1>1, <1>2, <1>3 DEF CallOK, At
<1>5. SessionOK(b)'
  BY <1>1, <1>2, <1>3 DEF SessionOK, At
<1>6. EffectOK(b)'
  <2>1. CASE rows' = rows
    <3>1. Recorded(b)' = Recorded(b)
      BY <1>2, <2>1 DEF Recorded
    <3> QED BY <1>1, <1>2, <1>3, <3>1 DEF EffectOK, At
  <2>2. CASE Writes(a) /\ job[b] # None
    <3>1. job[a] # None /\ pc[a] \in Working
      BY <2>2 DEF Writes, EInv, CallsInv, CallOK, At, Working
    <3>2. /\ Recorded(b) # None => Recorded(b)' = Recorded(b)
          /\ ~ SameSlot(a, b) => Recorded(b)' = Recorded(b)
          /\ RowPending(b) => Recorded(b)' = Recorded(b)
      BY <2>2, <3>1, RecordKept
    <3>3. Sum(b) # None
      BY <2>2, JobType DEF EInv
    <3>4. pc[b] \in {"begin", "script", "insert"} /\ Guarded(Db(b))
            => ~ SameSlot(a, b)
      BY <3>1, Alone DEF SameSlot, Working
    <3>5. At(b, "commit") => Recorded(b)' = Recorded(b)
      BY <1>3, <3>2, <3>3 DEF EffectOK, RowPending
    <3> QED BY <1>1, <1>2, <1>3, <3>2, <3>3, <3>4, <3>5 DEF EffectOK, At
  <2>3. CASE Writes(a) /\ job[b] = None
    <3>1. At(b, "idle")
      BY <1>3, <2>3 DEF CallOK
    <3>2. result[b] = None
      BY <1>3, <3>1 DEF CallOK, At, Working
    <3> QED BY <1>1, <1>3, <3>1, <3>2, NoneAssumption
            DEF EffectOK, At, Before, Result
  <2> QED BY <2>1, <2>2, <2>3
<1> QED BY <1>4, <1>5, <1>6

\* What is left to show of a step of a.
LEMMA StepOK ==
  ASSUME EInv, NEW a \in Attempts, ETypeOK', Only(a),
         rows' = rows \/ Writes(a),
         CallOK(a)', SessionOK(a)', EffectOK(a)',
         a \in held' => a \in held \/ LockFree(a),
         RowPending(a)' => RowPending(a) \/ ~ RowContended(a),
         a \in landed' /\ Atomic(a)' =>
           a \in landed \/ (job[a] # None /\ Recorded(a) = None),
         a \in (held' \cup open' \cup landed') => job[a] # None
  PROVE  EInv'
<1>1. \A b \in Attempts : CallOK(b)' /\ SessionOK(b)' /\ EffectOK(b)'
  BY OthersOK
<1>2. \A b \in Attempts : job[b] # None => job'[b] = job[b]
  BY DEF Only
<1>3. \A b \in Attempts : b \in held \cup open \cup landed => job[b] # None
  BY DEF EInv, CallsInv, CallOK, SessionOK, EffectOK, At, Before, Working
<1>4. \A b, c \in Attempts : PairOK(b, c)'
  <2>1. ASSUME NEW b \in Attempts \ {a}, NEW c \in Attempts \ {a}
        PROVE  PairOK(b, c)'
    BY <2>1 DEF Only, PairOK, EInv, CallsInv, LockOf, RowPending, At, SameSlot,
       Db, Key, Copy, Atomic
  <2>2. ASSUME NEW b \in Attempts \ {a} PROVE PairOK(a, b)' /\ PairOK(b, a)'
    <3>1. PairOK(a, b) /\ PairOK(b, a) /\ EffectOK(b)
      BY DEF EInv, CallsInv
    <3>2. ~ (a \in held' /\ b \in held' /\ LockOf(a)' = LockOf(b)')
      BY <1>2, <1>3, <3>1 DEF Only, PairOK, LockFree, LockOf, Db
    <3>3. ~ (RowPending(a)' /\ RowPending(b)' /\ SameSlot(a, b)')
      BY <1>2, <1>3, <3>1 DEF Only, PairOK, RowPending, RowContended, At,
         SameSlot, Db, Key, Copy
    <3>4. ~ (a \in landed' /\ b \in landed' /\ Atomic(a)' /\ Atomic(b)'
             /\ SameSlot(a, b)')
      <4> SUFFICES ASSUME a \in landed', b \in landed', Atomic(a)', Atomic(b)',
                          SameSlot(a, b)'
                   PROVE  FALSE
        OBVIOUS
      <4>1. job'[a] = job[a] /\ job'[b] = job[b] /\ job[b] # None
        BY <1>2, <1>3 DEF Only
      <4>2. Atomic(a) /\ Atomic(b) /\ SameSlot(a, b) /\ b \in landed
        BY <4>1 DEF Only, Atomic, SameSlot, Db, Key, Copy
      <4>3. Recorded(b) = Sum(b) /\ Sum(b) # None
        BY <3>1, <4>1, <4>2, JobType DEF EffectOK, EInv
      <4>4. Recorded(a) # None
        BY <4>2, <4>3 DEF SameSlot, Recorded
      <4> QED BY <3>1, <4>2, <4>4 DEF PairOK
    <3> QED BY <3>2, <3>3, <3>4 DEF PairOK, SameSlot
  <2> QED BY <2>1, <2>2 DEF PairOK
<1>5. RowsOK'
  <2> SUFFICES ASSUME NEW d \in Databases, NEW k \in Keys, rows'[d][k] # None
               PROVE  \E b \in landed' :
                        /\ Db(b)' = d /\ Key(b)' = k /\ Sum(b)' = rows'[d][k]
    BY DEF RowsOK
  <2>1. CASE rows'[d][k] = rows[d][k]
    <3>1. PICK b \in landed : Db(b) = d /\ Key(b) = k /\ Sum(b) = rows[d][k]
      BY <2>1 DEF EInv, CallsInv, RowsOK
    <3>2. b \in Attempts /\ b \in landed' /\ job'[b] = job[b]
      BY <1>2, <1>3, <3>1 DEF EInv, ETypeOK, Only
    <3> QED BY <2>1, <3>1, <3>2 DEF Db, Key, Sum, Copy
  <2>2. CASE rows'[d][k] # rows[d][k]
    <3>1. Writes(a) /\ job[a] # None /\ job'[a] = job[a]
      BY <1>2, <2>2 DEF Writes, EInv, CallsInv, CallOK, At
    <3>2. d = Db(a) /\ k = Key(a) /\ rows'[d][k] = Sum(a)
      BY <2>2, <3>1, JobType DEF Writes, EInv, ETypeOK
    <3> QED BY <3>1, <3>2 DEF Writes, Db, Key, Sum, Copy
  <2> QED BY <2>1, <2>2
<1> QED BY <1>1, <1>4, <1>5 DEF EInv, CallsInv

\* The initial states satisfy the invariant.
LEMMA EInitOK == EInit => EInv
BY NoneAssumption
DEF EInit, Init, EInv, ETypeOK, CallsInv, CallOK, SessionOK, EffectOK, PairOK,
    RowsOK, PC, InSession, Working, Before, At, Result, RowPending

\* So does every step, call by call: the type, the call's own part of the
\* invariant, and what StepOK asks for the others.
LEMMA EStep == EInv /\ [ENext]_evars => EInv'
<1> SUFFICES ASSUME EInv, [ENext]_evars PROVE EInv'
  OBVIOUS
<1> USE DEF Sends, Go, Return, Answer, Land, EndSession, tvars, At
<1>1. ASSUME NEW a \in Attempts, NEW j \in Job, ExecuteItem(a, j) PROVE EInv'
  <2>1. ETypeOK /\ CallOK(a) /\ SessionOK(a) /\ EffectOK(a)
    BY DEF EInv, CallsInv
  <2>2. /\ job' = [job EXCEPT ![a] = j] /\ job[a] = None
        /\ pc' = [pc EXCEPT ![a] = "connect"] /\ At(a, "idle")
        /\ j.db \in Addresses[j.target]
        /\ UNCHANGED <<result, rows, landed, open, held, gone>>
    BY <1>1 DEF ExecuteItem, Call, Go
  <2>3. Only(a)
    BY <2>1, <2>2 DEF Only, ETypeOK
  <2>4. ETypeOK'
    BY <2>1, <2>2 DEF ETypeOK, PC
  <2>5. CallOK(a)'
    BY <2>1, <2>2, NoneAssumption DEF CallOK, ETypeOK, At, Db, Working
  <2>6. SessionOK(a)'
    BY <2>1, <2>2 DEF SessionOK, ETypeOK, At, Working
  <2>7. EffectOK(a)'
    BY <2>1, <2>2, NoneAssumption
    DEF EffectOK, CallOK, ETypeOK, At, Before, Working, Result
  <2>8. a \notin held \cup open \cup landed
    BY <2>1, <2>2 DEF SessionOK, EffectOK, At, Before, Working
  <2> QED BY <2>2, <2>3, <2>4, <2>5, <2>6, <2>7, <2>8, StepOK
          DEF RowPending
<1>2. ASSUME NEW a \in Attempts, Connect(a) PROVE EInv'
  <2>1. ETypeOK /\ CallOK(a) /\ SessionOK(a) /\ EffectOK(a)
    BY DEF EInv, CallsInv
  <2>2. job[a] # None
    BY <1>2, <2>1 DEF Connect, CallOK, SessionOK, Working
  <2>3. Only(a) /\ job' = job
    BY <1>2, <2>1 DEF Connect, Only, ETypeOK
  <2>4. ETypeOK'
    BY <1>2, <2>1 DEF Connect, ETypeOK, PC, InSession, Working, Result
  <2>5. rows' = rows
    BY <1>2 DEF Connect
  <2>6. CallOK(a)'
    BY <1>2, <2>1, <2>3, NoneAssumption
    DEF Connect, CallOK, ETypeOK, Working, Result, Db
  <2>7. SessionOK(a)'
    BY <1>2, <2>1, <2>3
    DEF Connect, SessionOK, Undoable, ETypeOK, Working, Db, Copy, Atomic,
        InTransaction
  <2>8. EffectOK(a)'
    BY <1>2, <2>1, <2>2, <2>3, JobType, NoneAssumption
    DEF Connect, EffectOK, SessionOK, CallOK, Undoable, RowInsertable,
        ETypeOK, Working, Before, Result, Recorded, Db, Key, Sum, Copy,
        Atomic, InTransaction
  <2>9. /\ a \in held' => a \in held
        /\ RowPending(a)' => RowPending(a) \/ ~ RowContended(a)
        /\ a \in landed' /\ Atomic(a)' => a \in landed \/ Recorded(a) = None
    BY <1>2, <2>1, <2>3
    DEF Connect, RowPending, RowInsertable, Undoable, ETypeOK, SessionOK,
        EffectOK, Atomic, InTransaction, Copy, Db
  <2> QED BY <2>2, <2>3, <2>4, <2>5, <2>6, <2>7, <2>8, <2>9, StepOK
<1>3. ASSUME NEW a \in Attempts, NoConnection(a) PROVE EInv'
  <2>1. ETypeOK /\ CallOK(a) /\ SessionOK(a) /\ EffectOK(a)
    BY DEF EInv, CallsInv
  <2>2. job[a] # None
    BY <1>3, <2>1 DEF NoConnection, CallOK, SessionOK, Working
  <2>3. Only(a) /\ job' = job
    BY <1>3, <2>1 DEF NoConnection, Only, ETypeOK
  <2>4. ETypeOK'
    BY <1>3, <2>1 DEF NoConnection, ETypeOK, PC, InSession, Working, Result
  <2>5. rows' = rows
    BY <1>3 DEF NoConnection
  <2>6. CallOK(a)'
    BY <1>3, <2>1, <2>3, NoneAssumption
    DEF NoConnection, CallOK, ETypeOK, Working, Result, Db
  <2>7. SessionOK(a)'
    BY <1>3, <2>1, <2>3
    DEF NoConnection, SessionOK, Undoable, ETypeOK, Working, Db, Copy, Atomic,
        InTransaction
  <2>8. EffectOK(a)'
    BY <1>3, <2>1, <2>2, <2>3, JobType, NoneAssumption
    DEF NoConnection, EffectOK, SessionOK, CallOK, Undoable, RowInsertable,
        ETypeOK, Working, Before, Result, Recorded, Db, Key, Sum, Copy,
        Atomic, InTransaction
  <2>9. /\ a \in held' => a \in held
        /\ RowPending(a)' => RowPending(a) \/ ~ RowContended(a)
        /\ a \in landed' /\ Atomic(a)' => a \in landed \/ Recorded(a) = None
    BY <1>3, <2>1, <2>3
    DEF NoConnection, RowPending, RowInsertable, Undoable, ETypeOK, SessionOK,
        EffectOK, Atomic, InTransaction, Copy, Db
  <2> QED BY <2>2, <2>3, <2>4, <2>5, <2>6, <2>7, <2>8, <2>9, StepOK
<1>4. ASSUME NEW a \in Attempts, AcquireLock(a) PROVE EInv'
  <2>1. ETypeOK /\ CallOK(a) /\ SessionOK(a) /\ EffectOK(a)
    BY DEF EInv, CallsInv
  <2>2. job[a] # None
    BY <1>4, <2>1 DEF AcquireLock, CallOK, SessionOK, Working
  <2>3. Only(a) /\ job' = job
    BY <1>4, <2>1 DEF AcquireLock, Only, ETypeOK
  <2>4. ETypeOK'
    BY <1>4, <2>1 DEF AcquireLock, ETypeOK, PC, InSession, Working, Result
  <2>5. rows' = rows
    BY <1>4 DEF AcquireLock
  <2>6. CallOK(a)'
    BY <1>4, <2>1, <2>3, NoneAssumption
    DEF AcquireLock, CallOK, ETypeOK, Working, Result, Db
  <2>7. SessionOK(a)'
    BY <1>4, <2>1, <2>3
    DEF AcquireLock, SessionOK, Undoable, ETypeOK, Working, Db, Copy, Atomic,
        InTransaction
  <2>8. EffectOK(a)'
    BY <1>4, <2>1, <2>2, <2>3, JobType, NoneAssumption
    DEF AcquireLock, EffectOK, SessionOK, CallOK, Undoable, RowInsertable,
        ETypeOK, Working, Before, Result, Recorded, Db, Key, Sum, Copy,
        Atomic, InTransaction
  <2>9. a \in held' => LockFree(a)
    BY <1>4 DEF AcquireLock
  <2>10. /\ RowPending(a)' => RowPending(a) \/ ~ RowContended(a)
         /\ a \in landed' /\ Atomic(a)' => a \in landed \/ Recorded(a) = None
    BY <1>4, <2>1 DEF AcquireLock, RowPending, ETypeOK, SessionOK
  <2> QED BY <2>2, <2>3, <2>4, <2>5, <2>6, <2>7, <2>8, <2>9, <2>10, StepOK
<1>5. ASSUME NEW a \in Attempts, LockTimeout(a) PROVE EInv'
  <2>1. ETypeOK /\ CallOK(a) /\ SessionOK(a) /\ EffectOK(a)
    BY DEF EInv, CallsInv
  <2>2. job[a] # None
    BY <1>5, <2>1 DEF LockTimeout, CallOK, SessionOK, Working
  <2>3. Only(a) /\ job' = job
    BY <1>5, <2>1 DEF LockTimeout, Only, ETypeOK
  <2>4. ETypeOK'
    BY <1>5, <2>1 DEF LockTimeout, ETypeOK, PC, InSession, Working, Result
  <2>5. rows' = rows
    BY <1>5 DEF LockTimeout
  <2>6. CallOK(a)'
    BY <1>5, <2>1, <2>3, NoneAssumption
    DEF LockTimeout, CallOK, ETypeOK, Working, Result, Db
  <2>7. SessionOK(a)'
    BY <1>5, <2>1, <2>3
    DEF LockTimeout, SessionOK, Undoable, ETypeOK, Working, Db, Copy, Atomic,
        InTransaction
  <2>8. EffectOK(a)'
    BY <1>5, <2>1, <2>2, <2>3, JobType, NoneAssumption
    DEF LockTimeout, EffectOK, SessionOK, CallOK, Undoable, RowInsertable,
        ETypeOK, Working, Before, Result, Recorded, Db, Key, Sum, Copy,
        Atomic, InTransaction
  <2>9. /\ a \in held' => a \in held
        /\ RowPending(a)' => RowPending(a) \/ ~ RowContended(a)
        /\ a \in landed' /\ Atomic(a)' => a \in landed \/ Recorded(a) = None
    BY <1>5, <2>1, <2>3
    DEF LockTimeout, RowPending, RowInsertable, Undoable, ETypeOK, SessionOK,
        EffectOK, Atomic, InTransaction, Copy, Db
  <2> QED BY <2>2, <2>3, <2>4, <2>5, <2>6, <2>7, <2>8, <2>9, StepOK
<1>6. ASSUME NEW a \in Attempts, EnsureTable(a) PROVE EInv'
  <2>1. ETypeOK /\ CallOK(a) /\ SessionOK(a) /\ EffectOK(a)
    BY DEF EInv, CallsInv
  <2>2. job[a] # None
    BY <1>6, <2>1 DEF EnsureTable, CallOK, SessionOK, Working
  <2>3. Only(a) /\ job' = job
    BY <1>6, <2>1 DEF EnsureTable, Only, ETypeOK
  <2>4. ETypeOK'
    BY <1>6, <2>1 DEF EnsureTable, ETypeOK, PC, InSession, Working, Result
  <2>5. rows' = rows
    BY <1>6 DEF EnsureTable
  <2>6. CallOK(a)'
    BY <1>6, <2>1, <2>3, NoneAssumption
    DEF EnsureTable, CallOK, ETypeOK, Working, Result, Db
  <2>7. SessionOK(a)'
    BY <1>6, <2>1, <2>3
    DEF EnsureTable, SessionOK, Undoable, ETypeOK, Working, Db, Copy, Atomic,
        InTransaction
  <2>8. EffectOK(a)'
    BY <1>6, <2>1, <2>2, <2>3, JobType, NoneAssumption
    DEF EnsureTable, EffectOK, SessionOK, CallOK, Undoable, RowInsertable,
        ETypeOK, Working, Before, Result, Recorded, Db, Key, Sum, Copy,
        Atomic, InTransaction
  <2>9. /\ a \in held' => a \in held
        /\ RowPending(a)' => RowPending(a) \/ ~ RowContended(a)
        /\ a \in landed' /\ Atomic(a)' => a \in landed \/ Recorded(a) = None
    BY <1>6, <2>1, <2>3
    DEF EnsureTable, RowPending, RowInsertable, Undoable, ETypeOK, SessionOK,
        EffectOK, Atomic, InTransaction, Copy, Db
  <2> QED BY <2>2, <2>3, <2>4, <2>5, <2>6, <2>7, <2>8, <2>9, StepOK
<1>7. ASSUME NEW a \in Attempts, CheckLedger(a) PROVE EInv'
  <2>1. ETypeOK /\ CallOK(a) /\ SessionOK(a) /\ EffectOK(a)
    BY DEF EInv, CallsInv
  <2>2. job[a] # None
    BY <1>7, <2>1 DEF CheckLedger, CallOK, SessionOK, Working
  <2>3. Only(a) /\ job' = job
    BY <1>7, <2>1 DEF CheckLedger, Only, ETypeOK
  <2>4. ETypeOK'
    BY <1>7, <2>1 DEF CheckLedger, ETypeOK, PC, InSession, Working, Result
  <2>5. rows' = rows
    BY <1>7 DEF CheckLedger
  <2>6. CallOK(a)'
    BY <1>7, <2>1, <2>3, NoneAssumption
    DEF CheckLedger, CallOK, ETypeOK, Working, Result, Db
  <2>7. SessionOK(a)'
    BY <1>7, <2>1, <2>3
    DEF CheckLedger, SessionOK, Undoable, ETypeOK, Working, Db, Copy, Atomic,
        InTransaction
  <2>8. EffectOK(a)'
    BY <1>7, <2>1, <2>2, <2>3, JobType, NoneAssumption
    DEF CheckLedger, EffectOK, SessionOK, CallOK, Undoable, RowInsertable,
        ETypeOK, Working, Before, Result, Recorded, Db, Key, Sum, Copy,
        Atomic, InTransaction
  <2>9. /\ a \in held' => a \in held
        /\ RowPending(a)' => RowPending(a) \/ ~ RowContended(a)
        /\ a \in landed' /\ Atomic(a)' => a \in landed \/ Recorded(a) = None
    BY <1>7, <2>1, <2>3
    DEF CheckLedger, RowPending, RowInsertable, Undoable, ETypeOK, SessionOK,
        EffectOK, Atomic, InTransaction, Copy, Db
  <2> QED BY <2>2, <2>3, <2>4, <2>5, <2>6, <2>7, <2>8, <2>9, StepOK
<1>8. ASSUME NEW a \in Attempts, BeginTx(a) PROVE EInv'
  <2>1. ETypeOK /\ CallOK(a) /\ SessionOK(a) /\ EffectOK(a)
    BY DEF EInv, CallsInv
  <2>2. job[a] # None
    BY <1>8, <2>1 DEF BeginTx, CallOK, SessionOK, Working
  <2>3. Only(a) /\ job' = job
    BY <1>8, <2>1 DEF BeginTx, Only, ETypeOK
  <2>4. ETypeOK'
    BY <1>8, <2>1 DEF BeginTx, ETypeOK, PC, InSession, Working, Result
  <2>5. rows' = rows
    BY <1>8 DEF BeginTx
  <2>6. CallOK(a)'
    BY <1>8, <2>1, <2>3, NoneAssumption
    DEF BeginTx, CallOK, ETypeOK, Working, Result, Db
  <2>7. SessionOK(a)'
    BY <1>8, <2>1, <2>3
    DEF BeginTx, SessionOK, Undoable, ETypeOK, Working, Db, Copy, Atomic,
        InTransaction
  <2>8. EffectOK(a)'
    BY <1>8, <2>1, <2>2, <2>3, JobType, NoneAssumption
    DEF BeginTx, EffectOK, SessionOK, CallOK, Undoable, RowInsertable,
        ETypeOK, Working, Before, Result, Recorded, Db, Key, Sum, Copy,
        Atomic, InTransaction
  <2>9. /\ a \in held' => a \in held
        /\ RowPending(a)' => RowPending(a) \/ ~ RowContended(a)
        /\ a \in landed' /\ Atomic(a)' => a \in landed \/ Recorded(a) = None
    BY <1>8, <2>1, <2>3
    DEF BeginTx, RowPending, RowInsertable, Undoable, ETypeOK, SessionOK,
        EffectOK, Atomic, InTransaction, Copy, Db
  <2> QED BY <2>2, <2>3, <2>4, <2>5, <2>6, <2>7, <2>8, <2>9, StepOK
<1>9. ASSUME NEW a \in Attempts, RunScript(a) PROVE EInv'
  <2>1. ETypeOK /\ CallOK(a) /\ SessionOK(a) /\ EffectOK(a)
    BY DEF EInv, CallsInv
  <2>2. job[a] # None
    BY <1>9, <2>1 DEF RunScript, CallOK, SessionOK, Working
  <2>3. Only(a) /\ job' = job
    BY <1>9, <2>1 DEF RunScript, Only, ETypeOK
  <2>4. ETypeOK'
    BY <1>9, <2>1 DEF RunScript, ETypeOK, PC, InSession, Working, Result
  <2>5. rows' = rows
    BY <1>9 DEF RunScript
  <2>6. CallOK(a)'
    BY <1>9, <2>1, <2>3, NoneAssumption
    DEF RunScript, CallOK, ETypeOK, Working, Result, Db
  <2>7. SessionOK(a)'
    BY <1>9, <2>1, <2>3
    DEF RunScript, SessionOK, Undoable, ETypeOK, Working, Db, Copy, Atomic,
        InTransaction
  <2>8. EffectOK(a)'
    BY <1>9, <2>1, <2>2, <2>3, JobType, NoneAssumption
    DEF RunScript, EffectOK, SessionOK, CallOK, Undoable, RowInsertable,
        ETypeOK, Working, Before, Result, Recorded, Db, Key, Sum, Copy,
        Atomic, InTransaction
  <2>9. /\ a \in held' => a \in held
        /\ RowPending(a)' => RowPending(a) \/ ~ RowContended(a)
        /\ a \in landed' /\ Atomic(a)' => a \in landed \/ Recorded(a) = None
    BY <1>9, <2>1, <2>3
    DEF RunScript, RowPending, RowInsertable, Undoable, ETypeOK, SessionOK,
        EffectOK, Atomic, InTransaction, Copy, Db
  <2> QED BY <2>2, <2>3, <2>4, <2>5, <2>6, <2>7, <2>8, <2>9, StepOK
<1>10. ASSUME NEW a \in Attempts, InsertRow(a) PROVE EInv'
  <2>1. ETypeOK /\ CallOK(a) /\ SessionOK(a) /\ EffectOK(a)
    BY DEF EInv, CallsInv
  <2>2. job[a] # None
    BY <1>10, <2>1 DEF InsertRow, CallOK, SessionOK, Working
  <2>3. Only(a) /\ job' = job
    BY <1>10, <2>1 DEF InsertRow, Only, Record, ETypeOK
  <2>4. ETypeOK'
    <3>1. rows' \in [Databases -> [Keys -> Sums \cup {None}]]
      <4>1. rows' = rows \/ Record(a)
        BY <1>10 DEF InsertRow
      <4> QED BY <2>1, <2>2, <4>1, JobType DEF Record, ETypeOK
    <3> QED
      BY <1>10, <2>1, <3>1
      DEF InsertRow, ETypeOK, PC, InSession, Working, Result
  <2>5. rows' = rows \/ Writes(a)
    BY <1>10, <2>1
    DEF InsertRow, Record, Writes, RowPending, RowInsertable, EffectOK, Only
  <2>6. CallOK(a)'
    BY <1>10, <2>1, <2>3, NoneAssumption
    DEF InsertRow, CallOK, ETypeOK, Working, Result, Db
  <2>7. SessionOK(a)'
    BY <1>10, <2>1, <2>3
    DEF InsertRow, SessionOK, Undoable, ETypeOK, Working, Db, Copy, Atomic,
        InTransaction
  <2>8. EffectOK(a)'
    BY <1>10, <2>1, <2>2, <2>3, JobType, NoneAssumption
    DEF InsertRow, Record, EffectOK, SessionOK, CallOK, Undoable,
        RowInsertable, ETypeOK, Working, Before, Result, Recorded, Db, Key,
        Sum, Copy, Atomic, InTransaction
  <2>9. /\ a \in held' => a \in held
        /\ RowPending(a)' => RowPending(a) \/ ~ RowContended(a)
        /\ a \in landed' /\ Atomic(a)' => a \in landed \/ Recorded(a) = None
    BY <1>10, <2>1, <2>3
    DEF InsertRow, RowPending, RowInsertable, Undoable, ETypeOK, SessionOK,
        EffectOK, Atomic, InTransaction, Copy, Db
  <2> QED BY <2>2, <2>3, <2>4, <2>5, <2>6, <2>7, <2>8, <2>9, StepOK
<1>11. ASSUME NEW a \in Attempts, DuplicateRow(a) PROVE EInv'
  <2>1. ETypeOK /\ CallOK(a) /\ SessionOK(a) /\ EffectOK(a)
    BY DEF EInv, CallsInv
  <2>2. job[a] # None
    BY <1>11, <2>1 DEF DuplicateRow, CallOK, SessionOK, Working
  <2>3. Only(a) /\ job' = job
    BY <1>11, <2>1 DEF DuplicateRow, Only, ETypeOK
  <2>4. ETypeOK'
    BY <1>11, <2>1 DEF DuplicateRow, ETypeOK, PC, InSession, Working, Result
  <2>5. rows' = rows
    BY <1>11 DEF DuplicateRow
  <2>6. CallOK(a)'
    BY <1>11, <2>1, <2>3, NoneAssumption
    DEF DuplicateRow, CallOK, ETypeOK, Working, Result, Db
  <2>7. SessionOK(a)'
    BY <1>11, <2>1, <2>3
    DEF DuplicateRow, SessionOK, Undoable, ETypeOK, Working, Db, Copy, Atomic,
        InTransaction
  <2>8. EffectOK(a)'
    BY <1>11, <2>1, <2>2, <2>3, JobType, NoneAssumption
    DEF DuplicateRow, EffectOK, SessionOK, CallOK, Undoable, RowInsertable,
        ETypeOK, Working, Before, Result, Recorded, Db, Key, Sum, Copy,
        Atomic, InTransaction
  <2>9. /\ a \in held' => a \in held
        /\ RowPending(a)' => RowPending(a) \/ ~ RowContended(a)
        /\ a \in landed' /\ Atomic(a)' => a \in landed \/ Recorded(a) = None
    BY <1>11, <2>1, <2>3
    DEF DuplicateRow, RowPending, RowInsertable, Undoable, ETypeOK, SessionOK,
        EffectOK, Atomic, InTransaction, Copy, Db
  <2> QED BY <2>2, <2>3, <2>4, <2>5, <2>6, <2>7, <2>8, <2>9, StepOK
<1>12. ASSUME NEW a \in Attempts, CommitTx(a) PROVE EInv'
  <2>1. ETypeOK /\ CallOK(a) /\ SessionOK(a) /\ EffectOK(a)
    BY DEF EInv, CallsInv
  <2>2. job[a] # None
    BY <1>12, <2>1 DEF CommitTx, CallOK, SessionOK, Working
  <2>3. Only(a) /\ job' = job
    BY <1>12, <2>1 DEF CommitTx, Only, Record, ETypeOK
  <2>4. ETypeOK'
    <3>1. rows' \in [Databases -> [Keys -> Sums \cup {None}]]
      <4>1. rows' = rows \/ Record(a)
        BY <1>12 DEF CommitTx
      <4> QED BY <2>1, <2>2, <4>1, JobType DEF Record, ETypeOK
    <3> QED
      BY <1>12, <2>1, <3>1 DEF CommitTx, ETypeOK, PC, InSession, Working, Result
  <2>5. rows' = rows \/ Writes(a)
    BY <1>12, <2>1
    DEF CommitTx, Record, Writes, RowPending, RowInsertable, EffectOK, Only
  <2>6. CallOK(a)'
    BY <1>12, <2>1, <2>3, NoneAssumption
    DEF CommitTx, CallOK, ETypeOK, Working, Result, Db
  <2>7. SessionOK(a)'
    BY <1>12, <2>1, <2>3
    DEF CommitTx, SessionOK, Undoable, ETypeOK, Working, Db, Copy, Atomic,
        InTransaction
  <2>8. EffectOK(a)'
    <3>1. At(a, "commit") /\ job[a] \in Job /\ Sum(a) # None
      BY <1>12, <2>1, <2>2, JobType DEF CommitTx, Sends
    <3>2. /\ Recorded(a)' = Sum(a) /\ Sum(a)' = Sum(a) /\ a \in landed'
      <4>1. CASE a \in open
        BY <1>12, <2>1, <2>2, <2>3, <4>1, JobType
        DEF CommitTx, Record, Land, Recorded, ETypeOK, Db, Key, Sum, Copy
      <4>2. CASE a \notin open
        BY <1>12, <2>1, <2>3, <3>1, <4>2
        DEF CommitTx, EffectOK, Recorded, Db, Key, Sum, Copy
      <4> QED BY <4>1, <4>2
    <3>3. pc'[a] = "release" /\ result'[a] = "executed"
      BY <1>12, <2>1 DEF CommitTx, Return, Answer, Go, ETypeOK
    <3> QED BY <3>2, <3>3 DEF EffectOK, At, Before
  <2>9. /\ a \in held' => a \in held
        /\ RowPending(a)' => RowPending(a) \/ ~ RowContended(a)
        /\ a \in landed' /\ Atomic(a)' => a \in landed \/ Recorded(a) = None
    BY <1>12, <2>1, <2>3
    DEF CommitTx, RowPending, RowInsertable, Undoable, ETypeOK, SessionOK,
        EffectOK, Atomic, InTransaction, Copy, Db
  <2> QED BY <2>2, <2>3, <2>4, <2>5, <2>6, <2>7, <2>8, <2>9, StepOK
<1>13. ASSUME NEW a \in Attempts, StatementFails(a) PROVE EInv'
  <2>1. ETypeOK /\ CallOK(a) /\ SessionOK(a) /\ EffectOK(a)
    BY DEF EInv, CallsInv
  <2>2. job[a] # None
    BY <1>13, <2>1 DEF StatementFails, CallOK, SessionOK, Working
  <2>3. Only(a) /\ job' = job
    BY <1>13, <2>1 DEF StatementFails, Only, ETypeOK
  <2>4. ETypeOK'
    BY <1>13, <2>1 DEF StatementFails, ETypeOK, PC, InSession, Working, Result
  <2>5. rows' = rows
    BY <1>13 DEF StatementFails
  <2>6. CallOK(a)'
    BY <1>13, <2>1, <2>3, NoneAssumption
    DEF StatementFails, CallOK, ETypeOK, Working, Result, Db
  <2>7. SessionOK(a)'
    BY <1>13, <2>1, <2>3
    DEF StatementFails, SessionOK, Undoable, ETypeOK, Working, Db, Copy,
        Atomic, InTransaction
  <2>8. EffectOK(a)'
    BY <1>13, <2>1, <2>2, <2>3, JobType, NoneAssumption
    DEF StatementFails, EffectOK, SessionOK, CallOK, Undoable, RowInsertable,
        ETypeOK, Working, Before, Result, Recorded, Db, Key, Sum, Copy,
        Atomic, InTransaction
  <2>9. /\ a \in held' => a \in held
        /\ RowPending(a)' => RowPending(a) \/ ~ RowContended(a)
        /\ a \in landed' /\ Atomic(a)' => a \in landed \/ Recorded(a) = None
    BY <1>13, <2>1, <2>3
    DEF StatementFails, RowPending, RowInsertable, Undoable, ETypeOK,
        SessionOK, EffectOK, Atomic, InTransaction, Copy, Db
  <2> QED BY <2>2, <2>3, <2>4, <2>5, <2>6, <2>7, <2>8, <2>9, StepOK
<1>14. ASSUME NEW a \in Attempts, Release(a) PROVE EInv'
  <2>1. ETypeOK /\ CallOK(a) /\ SessionOK(a) /\ EffectOK(a)
    BY DEF EInv, CallsInv
  <2>2. job[a] # None
    BY <1>14, <2>1 DEF Release, CallOK, SessionOK, Working
  <2>3. Only(a) /\ job' = job
    BY <1>14, <2>1 DEF Release, Only, ETypeOK
  <2>4. ETypeOK'
    BY <1>14, <2>1 DEF Release, ETypeOK, PC, InSession, Working, Result
  <2>5. rows' = rows
    BY <1>14 DEF Release
  <2>6. CallOK(a)'
    BY <1>14, <2>1, <2>3, NoneAssumption
    DEF Release, CallOK, ETypeOK, Working, Result, Db
  <2>7. SessionOK(a)'
    BY <1>14, <2>1, <2>3
    DEF Release, SessionOK, Undoable, ETypeOK, Working, Db, Copy, Atomic,
        InTransaction
  <2>8. EffectOK(a)'
    BY <1>14, <2>1, <2>2, <2>3, JobType, NoneAssumption
    DEF Release, EffectOK, SessionOK, CallOK, Undoable, RowInsertable,
        ETypeOK, Working, Before, Result, Recorded, Db, Key, Sum, Copy,
        Atomic, InTransaction
  <2>9. /\ a \in held' => a \in held
        /\ RowPending(a)' => RowPending(a) \/ ~ RowContended(a)
        /\ a \in landed' /\ Atomic(a)' => a \in landed \/ Recorded(a) = None
    BY <1>14, <2>1, <2>3
    DEF Release, RowPending, RowInsertable, Undoable, ETypeOK, SessionOK,
        EffectOK, Atomic, InTransaction, Copy, Db
  <2> QED BY <2>2, <2>3, <2>4, <2>5, <2>6, <2>7, <2>8, <2>9, StepOK
<1>15. ASSUME NEW a \in Attempts, Abandon(a) PROVE EInv'
  <2>1. ETypeOK /\ CallOK(a) /\ SessionOK(a) /\ EffectOK(a)
    BY DEF EInv, CallsInv
  <2>2. job[a] # None
    BY <1>15, <2>1 DEF Abandon, CallOK, SessionOK, Working
  <2>3. Only(a) /\ job' = job
    BY <1>15, <2>1 DEF Abandon, Only, ETypeOK
  <2>4. ETypeOK'
    BY <1>15, <2>1 DEF Abandon, ETypeOK, PC, InSession, Working, Result
  <2>5. rows' = rows
    BY <1>15 DEF Abandon
  <2>6. CallOK(a)'
    BY <1>15, <2>1, <2>3, NoneAssumption
    DEF Abandon, CallOK, ETypeOK, Working, Result, Db
  <2>7. SessionOK(a)'
    BY <1>15, <2>1, <2>3
    DEF Abandon, SessionOK, Undoable, ETypeOK, Working, Db, Copy, Atomic,
        InTransaction
  <2>8. EffectOK(a)'
    BY <1>15, <2>1, <2>2, <2>3, JobType, NoneAssumption
    DEF Abandon, EffectOK, SessionOK, CallOK, Undoable, RowInsertable,
        ETypeOK, Working, Before, Result, Recorded, Db, Key, Sum, Copy,
        Atomic, InTransaction
  <2>9. /\ a \in held' => a \in held
        /\ RowPending(a)' => RowPending(a) \/ ~ RowContended(a)
        /\ a \in landed' /\ Atomic(a)' => a \in landed \/ Recorded(a) = None
    BY <1>15, <2>1, <2>3
    DEF Abandon, RowPending, RowInsertable, Undoable, ETypeOK, SessionOK,
        EffectOK, Atomic, InTransaction, Copy, Db
  <2> QED BY <2>2, <2>3, <2>4, <2>5, <2>6, <2>7, <2>8, <2>9, StepOK
<1>16. ASSUME NEW a \in Attempts, SessionEnds(a) PROVE EInv'
  <2>1. ETypeOK /\ CallOK(a) /\ SessionOK(a) /\ EffectOK(a)
    BY DEF EInv, CallsInv
  <2>2. job[a] # None
    BY <1>16, <2>1 DEF SessionEnds, CallOK, SessionOK, Working
  <2>3. Only(a) /\ job' = job
    BY <1>16, <2>1 DEF SessionEnds, Only, ETypeOK
  <2>4. ETypeOK'
    BY <1>16, <2>1 DEF SessionEnds, ETypeOK, PC, InSession, Working, Result
  <2>5. rows' = rows
    BY <1>16 DEF SessionEnds
  <2>6. CallOK(a)'
    BY <1>16, <2>1, <2>3, NoneAssumption
    DEF SessionEnds, CallOK, ETypeOK, Working, Result, Db
  <2>7. SessionOK(a)'
    BY <1>16, <2>1, <2>3
    DEF SessionEnds, SessionOK, Undoable, ETypeOK, Working, Db, Copy, Atomic,
        InTransaction
  <2>8. EffectOK(a)'
    BY <1>16, <2>1, <2>2, <2>3, JobType, NoneAssumption
    DEF SessionEnds, EffectOK, SessionOK, CallOK, Undoable, RowInsertable,
        ETypeOK, Working, Before, Result, Recorded, Db, Key, Sum, Copy,
        Atomic, InTransaction
  <2>9. /\ a \in held' => a \in held
        /\ RowPending(a)' => RowPending(a) \/ ~ RowContended(a)
        /\ a \in landed' /\ Atomic(a)' => a \in landed \/ Recorded(a) = None
    BY <1>16, <2>1, <2>3
    DEF SessionEnds, RowPending, RowInsertable, Undoable, ETypeOK, SessionOK,
        EffectOK, Atomic, InTransaction, Copy, Db
  <2> QED BY <2>2, <2>3, <2>4, <2>5, <2>6, <2>7, <2>8, <2>9, StepOK
<1>17. ASSUME NEW a \in Attempts, LateScript(a) PROVE EInv'
  <2>1. ETypeOK /\ CallOK(a) /\ SessionOK(a) /\ EffectOK(a)
    BY DEF EInv, CallsInv
  <2>2. job[a] # None
    BY <1>17, <2>1 DEF LateScript, CallOK, SessionOK, Working
  <2>3. Only(a) /\ job' = job
    BY <1>17, <2>1 DEF LateScript, Only, ETypeOK
  <2>4. ETypeOK'
    BY <1>17, <2>1 DEF LateScript, ETypeOK, PC, InSession, Working, Result
  <2>5. rows' = rows
    BY <1>17 DEF LateScript
  <2>6. CallOK(a)'
    BY <1>17, <2>1, <2>3, NoneAssumption
    DEF LateScript, CallOK, ETypeOK, Working, Result, Db
  <2>7. SessionOK(a)'
    BY <1>17, <2>1, <2>3
    DEF LateScript, SessionOK, Undoable, ETypeOK, Working, Db, Copy, Atomic,
        InTransaction
  <2>8. EffectOK(a)'
    BY <1>17, <2>1, <2>2, <2>3, JobType, NoneAssumption
    DEF LateScript, EffectOK, SessionOK, CallOK, Undoable, RowInsertable,
        ETypeOK, Working, Before, Result, Recorded, Db, Key, Sum, Copy,
        Atomic, InTransaction
  <2>9. /\ a \in held' => a \in held
        /\ RowPending(a)' => RowPending(a) \/ ~ RowContended(a)
        /\ a \in landed' /\ Atomic(a)' => a \in landed \/ Recorded(a) = None
    BY <1>17, <2>1, <2>3
    DEF LateScript, RowPending, RowInsertable, Undoable, ETypeOK, SessionOK,
        EffectOK, Atomic, InTransaction, Copy, Db
  <2> QED BY <2>2, <2>3, <2>4, <2>5, <2>6, <2>7, <2>8, <2>9, StepOK
<1>18. ASSUME NEW a \in Attempts, LateInsert(a) PROVE EInv'
  <2>1. ETypeOK /\ CallOK(a) /\ SessionOK(a) /\ EffectOK(a)
    BY DEF EInv, CallsInv
  <2>2. job[a] # None
    BY <1>18, <2>1 DEF LateInsert, CallOK, SessionOK, Working
  <2>3. Only(a) /\ job' = job
    BY <1>18, <2>1 DEF LateInsert, Only, Record, ETypeOK
  <2>4. ETypeOK'
    <3>1. rows' \in [Databases -> [Keys -> Sums \cup {None}]]
      <4>1. rows' = rows \/ Record(a)
        BY <1>18 DEF LateInsert
      <4> QED BY <2>1, <2>2, <4>1, JobType DEF Record, ETypeOK
    <3> QED
      BY <1>18, <2>1, <3>1
      DEF LateInsert, ETypeOK, PC, InSession, Working, Result
  <2>5. rows' = rows \/ Writes(a)
    BY <1>18, <2>1
    DEF LateInsert, Record, Writes, RowPending, RowInsertable, EffectOK, Only
  <2>6. CallOK(a)'
    BY <1>18, <2>1, <2>3, NoneAssumption
    DEF LateInsert, CallOK, ETypeOK, Working, Result, Db
  <2>7. SessionOK(a)'
    BY <1>18, <2>1, <2>3
    DEF LateInsert, SessionOK, Undoable, ETypeOK, Working, Db, Copy, Atomic,
        InTransaction
  <2>8. EffectOK(a)'
    BY <1>18, <2>1, <2>2, <2>3, JobType, NoneAssumption
    DEF LateInsert, Record, EffectOK, SessionOK, CallOK, Undoable,
        RowInsertable, ETypeOK, Working, Before, Result, Recorded, Db, Key,
        Sum, Copy, Atomic, InTransaction
  <2>9. /\ a \in held' => a \in held
        /\ RowPending(a)' => RowPending(a) \/ ~ RowContended(a)
        /\ a \in landed' /\ Atomic(a)' => a \in landed \/ Recorded(a) = None
    BY <1>18, <2>1, <2>3
    DEF LateInsert, RowPending, RowInsertable, Undoable, ETypeOK, SessionOK,
        EffectOK, Atomic, InTransaction, Copy, Db
  <2> QED BY <2>2, <2>3, <2>4, <2>5, <2>6, <2>7, <2>8, <2>9, StepOK
<1>19. ASSUME NEW a \in Attempts, LateCommit(a) PROVE EInv'
  <2>1. ETypeOK /\ CallOK(a) /\ SessionOK(a) /\ EffectOK(a)
    BY DEF EInv, CallsInv
  <2>2. job[a] # None
    BY <1>19, <2>1 DEF LateCommit, CallOK, SessionOK, Working
  <2>3. Only(a) /\ job' = job
    BY <1>19, <2>1 DEF LateCommit, Only, Record, ETypeOK
  <2>4. ETypeOK'
    <3>1. rows' \in [Databases -> [Keys -> Sums \cup {None}]]
      <4>1. rows' = rows \/ Record(a)
        BY <1>19 DEF LateCommit
      <4> QED BY <2>1, <2>2, <4>1, JobType DEF Record, ETypeOK
    <3> QED
      BY <1>19, <2>1, <3>1
      DEF LateCommit, ETypeOK, PC, InSession, Working, Result
  <2>5. rows' = rows \/ Writes(a)
    BY <1>19, <2>1
    DEF LateCommit, Record, Writes, RowPending, RowInsertable, EffectOK, Only
  <2>6. CallOK(a)'
    BY <1>19, <2>1, <2>3, NoneAssumption
    DEF LateCommit, CallOK, ETypeOK, Working, Result, Db
  <2>7. SessionOK(a)'
    BY <1>19, <2>1, <2>3
    DEF LateCommit, SessionOK, Undoable, ETypeOK, Working, Db, Copy, Atomic,
        InTransaction
  <2>8. EffectOK(a)'
    BY <1>19, <2>1, <2>2, <2>3, JobType, NoneAssumption
    DEF LateCommit, Record, EffectOK, SessionOK, CallOK, Undoable,
        RowInsertable, ETypeOK, Working, Before, Result, Recorded, Db, Key,
        Sum, Copy, Atomic, InTransaction
  <2>9. /\ a \in held' => a \in held
        /\ RowPending(a)' => RowPending(a) \/ ~ RowContended(a)
        /\ a \in landed' /\ Atomic(a)' => a \in landed \/ Recorded(a) = None
    BY <1>19, <2>1, <2>3
    DEF LateCommit, RowPending, RowInsertable, Undoable, ETypeOK, SessionOK,
        EffectOK, Atomic, InTransaction, Copy, Db
  <2> QED BY <2>2, <2>3, <2>4, <2>5, <2>6, <2>7, <2>8, <2>9, StepOK
<1>20. ASSUME NEW a \in Attempts, ReplaceConnection(a) PROVE EInv'
  <2>1. ETypeOK /\ CallOK(a) /\ SessionOK(a) /\ EffectOK(a)
    BY DEF EInv, CallsInv
  <2>2. job[a] # None
    BY <1>20, <2>1 DEF ReplaceConnection, CallOK, SessionOK, Working
  <2>3. Only(a) /\ job' = job
    BY <1>20, <2>1 DEF ReplaceConnection, Only, ETypeOK
  <2>4. ETypeOK'
    BY <1>20, <2>1
    DEF ReplaceConnection, ETypeOK, PC, InSession, Working, Result
  <2>5. rows' = rows
    BY <1>20 DEF ReplaceConnection
  <2>6. CallOK(a)'
    BY <1>20, <2>1, <2>3, NoneAssumption
    DEF ReplaceConnection, CallOK, ETypeOK, Working, Result, Db
  <2>7. SessionOK(a)'
    BY <1>20, <2>1, <2>3
    DEF ReplaceConnection, SessionOK, Undoable, ETypeOK, Working, Db, Copy,
        Atomic, InTransaction, Guarded
  <2>8. EffectOK(a)'
    BY <1>20, <2>1, <2>2, <2>3, JobType, NoneAssumption
    DEF ReplaceConnection, EffectOK, SessionOK, CallOK, Undoable,
        RowInsertable, ETypeOK, Working, Before, Result, Recorded, Db, Key,
        Sum, Copy, Atomic, InTransaction
  <2>9. /\ a \in held' => a \in held
        /\ RowPending(a)' => RowPending(a) \/ ~ RowContended(a)
        /\ a \in landed' /\ Atomic(a)' => a \in landed \/ Recorded(a) = None
    BY <1>20, <2>1, <2>3
    DEF ReplaceConnection, RowPending, RowInsertable, Undoable, ETypeOK,
        SessionOK, EffectOK, Atomic, InTransaction, Copy, Db
  <2> QED BY <2>2, <2>3, <2>4, <2>5, <2>6, <2>7, <2>8, <2>9, StepOK
<1>21. CASE UNCHANGED evars
  <2>1. /\ UNCHANGED <<job, result, rows, landed>>
        /\ UNCHANGED <<pc, open, held, gone>>
    BY <1>21 DEF evars, tvars
  <2>2. ETypeOK'
    BY <2>1 DEF EInv, ETypeOK
  <2>3. \A a \in Attempts : CallOK(a)' /\ SessionOK(a)' /\ EffectOK(a)'
    <3> SUFFICES ASSUME NEW a \in Attempts
                 PROVE  CallOK(a)' /\ SessionOK(a)' /\ EffectOK(a)'
      OBVIOUS
    <3>1. CallOK(a) /\ SessionOK(a) /\ EffectOK(a)
      BY DEF EInv, CallsInv
    <3>2. /\ Db(a)' = Db(a) /\ Copy(a)' = Copy(a) /\ Sum(a)' = Sum(a)
          /\ Atomic(a)' = Atomic(a) /\ Recorded(a)' = Recorded(a)
      BY <2>1 DEF Db, Copy, Sum, Atomic, Recorded, Key
    <3> QED BY <2>1, <3>1, <3>2 DEF CallOK, SessionOK, EffectOK, At
  <2>4. \A a, b \in Attempts : PairOK(a, b)'
    BY <2>1 DEF EInv, CallsInv, PairOK, SameSlot, RowPending, LockOf, Atomic,
       Key, Copy, Db, At
  <2>5. RowsOK'
    BY <2>1 DEF EInv, CallsInv, RowsOK, Sum, Key, Copy, Db
  <2> QED BY <2>2, <2>3, <2>4, <2>5 DEF EInv, CallsInv
<1> QED
  BY <1>1, <1>2, <1>3, <1>4, <1>5, <1>6, <1>7, <1>8, <1>9, <1>10, <1>11, <1>12,
     <1>13, <1>14, <1>15, <1>16, <1>17, <1>18, <1>19, <1>20, <1>21
  DEF ENext, Proceed, Disturb

\* The invariant holds in every behaviour.
THEOREM CallsInvariant == ESpec => []EInv
BY EInitOK, EStep, PTL DEF ESpec

\* Tables and sessions keep their types.
THEOREM CallTypes == ESpec => []ETypeOK
<1>1. EInv => ETypeOK
  BY DEF EInv
<1> QED BY <1>1, CallsInvariant, PTL

\* The advisory lock excludes on a Postgres database of one target, whatever
\* happens to contexts and connections.
THEOREM LockProtects == ESpec => []OneAtATime
<1>1. EInv => OneAtATime
  BY Alone DEF OneAtATime
<1> QED BY <1>1, CallsInvariant, PTL

\* Atomic scripts are applied once, and recorded when they are.
THEOREM AppliedOnce == ESpec => []AtomicAppliedOnce
<1>1. EInv => AtomicAppliedOnce
  <2> SUFFICES ASSUME EInv PROVE AtomicAppliedOnce
    OBVIOUS
  <2>1. landed \subseteq Attempts
    BY DEF EInv, ETypeOK
  <2>2. \A a, b \in landed :
          Atomic(a) /\ Atomic(b) /\ Db(a) = Db(b) /\ Key(a) = Key(b) => a = b
    BY <2>1 DEF EInv, CallsInv, PairOK, SameSlot
  <2>3. \A a \in landed : Atomic(a) => Recorded(a) = Sum(a)
    BY <2>1 DEF EInv, CallsInv, EffectOK
  <2> QED BY <2>2, <2>3 DEF AtomicAppliedOnce, EInv, CallsInv, RowsOK
<1> QED BY <1>1, CallsInvariant, PTL

\* What a call answers is what has happened on the database.
THEOREM TrueAnswers == ESpec => []AnswersAreTrue
<1>1. EInv => AnswersAreTrue
  BY DEF EInv, CallsInv, EffectOK, AnswersAreTrue
<1> QED BY <1>1, CallsInvariant, PTL

\* A script that runs outside a transaction, or escapes from it, does so on a
\* guarded database only while there is no record.
LEMMA LeakAllowed ==
  ASSUME EInv, NEW a \in Attempts, At(a, "script"), ~ Undoable(a)
  PROVE  MayLeak(a)
<1>1. SessionOK(a) /\ EffectOK(a)
  BY DEF EInv, CallsInv
<1>2. ~ Atomic(a)
  BY <1>1 DEF SessionOK, Undoable, Atomic
<1> QED BY <1>1, <1>2 DEF MayLeak, EffectOK, At

\* Every step of a call is a step of the ledger, or none.
LEMMA Simulation == EInv /\ [ENext]_evars => [Next]_tvars
<1> SUFFICES ASSUME EInv, [ENext]_evars PROVE [Next]_tvars
  OBVIOUS
<1>1. ASSUME NEW a \in Attempts, NEW j \in Job, ExecuteItem(a, j)
      PROVE  [Next]_tvars
  BY <1>1 DEF ExecuteItem, Next
<1>2. ASSUME NEW a \in Attempts, Proceed(a) PROVE [Next]_tvars
  <2> SUFFICES ASSUME ~ UNCHANGED tvars PROVE Next
    OBVIOUS
  <2>1. CallOK(a) /\ SessionOK(a) /\ EffectOK(a)
    BY DEF EInv, CallsInv
  <2>2. CASE CheckLedger(a)
    <3>1. Pending(a) /\ a \notin landed
      BY <2>1, <2>2 DEF CheckLedger, Sends, At, CallOK, EffectOK, Pending, Before
    <3>2. Skip(a) \/ Fail(a)
      BY <2>2, <3>1 DEF CheckLedger, Return, Skip, Fail, tvars
    <3> QED BY <3>2 DEF Next
  <2>3. CASE RunScript(a)
    <3>1. ~ Undoable(a) /\ MayLeak(a)
      BY <2>3, LeakAllowed DEF RunScript, Sends, tvars
    <3>2. Leak(a)
      BY <2>1, <2>3, <3>1 DEF RunScript, Sends, At, CallOK, Leak
    <3> QED BY <3>2 DEF Next
  <2>4. CASE InsertRow(a)
    <3>1. Pending(a) /\ Recorded(a) = None
      BY <2>1, <2>4 DEF InsertRow, Sends, At, CallOK, Pending, RowInsertable
    <3>2. CASE a \in open
      <4>1. InTransaction(Copy(a))
        BY <2>1, <3>2 DEF SessionOK
      <4> QED BY <2>4, <3>2, <4>1 DEF InsertRow, tvars
    <3>3. CASE a \notin open
      <4>1. a \in landed /\ ~ Atomic(a)
        BY <2>1, <2>4, <3>3 DEF InsertRow, Sends, SessionOK, EffectOK
      <4>2. RecordLeaked(a) \/ Succeed(a)
        BY <2>4, <3>1, <3>3, <4>1
        DEF InsertRow, Return, RecordLeaked, Succeed, Land, Pending
      <4> QED BY <4>2 DEF Next
    <3> QED BY <3>2, <3>3
  <2>5. CASE DuplicateRow(a)
    <3>1. Fail(a)
      BY <2>1, <2>5
      DEF DuplicateRow, Sends, At, CallOK, Return, Fail, Pending
    <3> QED BY <3>1 DEF Next
  <2>6. CASE CommitTx(a)
    <3>1. Pending(a)
      BY <2>1, <2>6 DEF CommitTx, Sends, At, CallOK, Pending
    <3>2. CASE a \in open
      <4>1. Succeed(a)
        BY <2>1, <2>6, <3>1, <3>2
        DEF CommitTx, Sends, At, EffectOK, Return, Succeed
      <4> QED BY <4>1 DEF Next
    <3>3. CASE a \notin open
      <4>1. a \in landed /\ ~ Atomic(a) /\ Recorded(a) = Sum(a)
        BY <2>1, <2>6, <3>3 DEF CommitTx, Sends, SessionOK, EffectOK
      <4>2. ConfirmLeaked(a)
        BY <2>6, <3>1, <3>3, <4>1 DEF CommitTx, Return, ConfirmLeaked
      <4> QED BY <4>2 DEF Next
    <3> QED BY <3>2, <3>3
  <2> QED BY <1>2, <2>2, <2>3, <2>4, <2>5, <2>6
          DEF Proceed, Connect, AcquireLock, EnsureTable, BeginTx, Release,
              SessionEnds
<1>3. ASSUME NEW a \in Attempts, Disturb(a) PROVE [Next]_tvars
  <2> SUFFICES ASSUME ~ UNCHANGED tvars PROVE Next
    OBVIOUS
  <2>1. CallOK(a) /\ SessionOK(a) /\ EffectOK(a)
    BY DEF EInv, CallsInv
  <2>2. CASE NoConnection(a) \/ LockTimeout(a) \/ Abandon(a)
    <3>1. Fail(a)
      BY <2>1, <2>2
      DEF NoConnection, LockTimeout, Abandon, Sends, At, CallOK, Return, Fail,
          Pending, Working
    <3> QED BY <3>1 DEF Next
  <2>3. CASE StatementFails(a)
    <3>1. Pending(a)
      BY <2>1, <2>3 DEF StatementFails, At, CallOK, Pending, Working
    <3>2. <<Copy(a), Db(a)>> \in Escapes /\ At(a, "script") => MayLeak(a)
      BY LeakAllowed DEF Undoable, Atomic
    <3>3. Fail(a)
      BY <2>3, <3>1, <3>2 DEF StatementFails, Return, Fail
    <3> QED BY <3>3 DEF Next
  <2>4. CASE LateScript(a)
    <3>1. MayLeak(a)
      BY <2>4, LeakAllowed DEF LateScript
    <3>2. Leak(a)
      BY <2>1, <2>4, <3>1 DEF LateScript, EndSession, At, CallOK, Leak
    <3> QED BY <3>2 DEF Next
  <2>5. CASE LateInsert(a)
    <3>1. a \in landed /\ ~ Atomic(a) /\ result[a] = "failed"
      BY <2>1, <2>5 DEF LateInsert, EndSession, SessionOK, EffectOK, CallOK
    <3>2. RecordLeaked(a)
      BY <2>5, <3>1 DEF LateInsert, RowInsertable, RecordLeaked
    <3> QED BY <3>2 DEF Next
  <2>6. CASE LateCommit(a)
    <3>1. Recorded(a) = None /\ result[a] = "failed"
      BY <2>1, <2>6 DEF LateCommit, EndSession, EffectOK, CallOK
    <3>2. SucceedUnheard(a)
      BY <2>6, <3>1 DEF LateCommit, SucceedUnheard
    <3> QED BY <3>2 DEF Next
  <2> QED BY <1>3, <2>2, <2>3, <2>4, <2>5, <2>6 DEF Disturb, ReplaceConnection
<1>4. CASE UNCHANGED evars
  BY <1>4 DEF evars
<1> QED BY <1>1, <1>2, <1>3, <1>4 DEF ENext

\* The statement-level calls implement the abstract ledger.
THEOREM Implementation == ESpec => ImplementsTargetLedger
<1>1. EInit => Init
  BY DEF EInit
<1> QED BY <1>1, CallsInvariant, Simulation, PTL
        DEF ESpec, ImplementsTargetLedger, Spec

=============================================================================
