------------------------- MODULE ToolMigratorProofs -------------------------
(***************************************************************************)
(* The safety properties of ToolMigrator, for any number of servers, files *)
(* and releases.                                                           *)
(***************************************************************************)
EXTENDS ToolMigrator, TLAPS

\* The files of a server that come before f are applied.
Prepared(s, f) ==
  /\ f \in Shipped[s]
  /\ \A g \in Shipped[s] : g < f => VersionOf[g] \in applied

\* What the place of a server in Up says of its loop.
LoopOK(s) ==
  /\ server[s].todo \subseteq Shipped[s]
  /\ server[s].pc \in {"pick", "body", "record", "commit", "serving"} =>
       \A f \in Shipped[s] \ server[s].todo : VersionOf[f] \in applied
  /\ At(s, "serving") => server[s].todo = {}
  /\ server[s].pc \in {"body", "record", "commit"} =>
       server[s].cur \in NextFile(server[s].todo)
  /\ server[s].pc \in {"ensure", "read", "pick"} => server[s].cur = NoFile

\* A key belongs to schema_migrations, to one transaction about to commit, or
\* to one session that was left.
KeysOK ==
  /\ \A s \in Servers : At(s, "commit") => CurVersion(s) \notin applied \cup orphans
  /\ \A s, o \in Servers :
       At(s, "commit") /\ At(o, "commit") /\ CurVersion(s) = CurVersion(o) => s = o
  /\ applied \cap orphans = {}

\* A session that was left still lands in order.
OrphansOK ==
  \A f \in Files : VersionOf[f] \in orphans => \E s \in Servers : Prepared(s, f)

MInv ==
  /\ TypeOK
  /\ AppliedExactly
  /\ \A s \in Servers : LoopOK(s)
  /\ KeysOK
  /\ OrphansOK

-----------------------------------------------------------------------------

\* A step of one server that leaves the keys alone keeps the invariant if it
\* keeps the server's own part of it.
LEMMA LocalStep ==
  ASSUME MInv, TypeOK', NEW s \in Servers,
         UNCHANGED <<applied, bodies, orphans>>, table => table',
         \A o \in Servers \ {s} : server'[o] = server[o],
         LoopOK(s)',
         At(s, "commit")' =>
           /\ CurVersion(s)' \notin applied \cup orphans
           /\ \A o \in Servers \ {s} :
                At(o, "commit") => CurVersion(o) # CurVersion(s)'
  PROVE  MInv'
<1>1. AppliedExactly'
  BY DEF MInv, AppliedExactly
<1>2. ASSUME NEW o \in Servers PROVE LoopOK(o)'
  <2>1. CASE o = s
    BY <2>1
  <2>2. CASE o # s
    BY <2>2 DEF MInv, LoopOK, At, CurVersion
  <2>. QED  BY <2>1, <2>2
<1>3. KeysOK'
  BY DEF MInv, KeysOK, At, CurVersion
<1>4. OrphansOK'
  BY DEF MInv, OrphansOK, Prepared
<1>. QED  BY <1>1, <1>2, <1>3, <1>4 DEF MInv

\* What Land does to the rest of the invariant: versions are only added, and
\* the file's own is new.
LEMMA LandStep ==
  ASSUME MInv, NEW f \in Files, VersionOf[f] \notin applied, Land(f)
  PROVE  AppliedExactly' /\ applied \subseteq applied' /\ VersionOf[f] \in applied'
<1>1. ASSUME NEW g \in Files
      PROVE  bodies'[g] = IF VersionOf[g] \in applied' THEN 1 ELSE 0
  <2>1. CASE g = f
    BY <2>1 DEF MInv, TypeOK, AppliedExactly, Land
  <2>2. CASE g # f
    BY <2>2, VersionAssumption DEF MInv, TypeOK, AppliedExactly, Land
  <2>. QED  BY <2>1, <2>2
<1>. QED  BY <1>1 DEF AppliedExactly, Land

-----------------------------------------------------------------------------
(***************************************************************************)
(* One lemma per kind of step.                                             *)
(***************************************************************************)

LEMMA StartSteps ==
  ASSUME MInv, NEW s \in Servers,
         Start(s) \/ EnsureTable(s) \/ EnsureCollides(s) \/ AppliedVersions(s)
  PROVE  MInv'
<1>. USE ShippedAssumption
<1>1. TypeOK'
  <2>1. CASE Start(s)
    BY <2>1 DEF MInv, TypeOK, Server, Starting, Becomes, Down, Start
  <2>2. CASE EnsureTable(s)
    BY <2>2 DEF MInv, TypeOK, Server, Starting, Becomes, Goes, EnsureTable
  <2>3. CASE EnsureCollides(s)
    BY <2>3 DEF MInv, TypeOK, Server, Becomes, Goes, EnsureCollides
  <2>4. CASE AppliedVersions(s)
    <3>1. Outstanding(s) \subseteq Files /\ server[s] \in Server
      BY DEF MInv, TypeOK, Outstanding
    <3>2. [server[s] EXCEPT !.pc = "pick", !.todo = Outstanding(s)] \in Server
      BY <3>1 DEF Server, Starting
    <3>. QED  BY <2>4, <3>2 DEF MInv, TypeOK, Becomes, AppliedVersions
  <2>. QED  BY <2>1, <2>2, <2>3, <2>4
<1>2. LoopOK(s)' /\ ~ At(s, "commit")'
  <2>1. CASE Start(s)
    BY <2>1 DEF MInv, TypeOK, LoopOK, At, Becomes, Down, Start
  <2>2. CASE EnsureTable(s)
    BY <2>2 DEF MInv, TypeOK, Server, LoopOK, At, Becomes, Goes, EnsureTable
  <2>3. CASE EnsureCollides(s)
    BY <2>3 DEF MInv, TypeOK, Server, LoopOK, At, Becomes, Goes, EnsureCollides
  <2>4. CASE AppliedVersions(s)
    BY <2>4 DEF MInv, TypeOK, Server, LoopOK, At, Becomes, AppliedVersions,
                Outstanding
  <2>. QED  BY <2>1, <2>2, <2>3, <2>4
<1>3. /\ UNCHANGED <<applied, bodies, orphans>>
      /\ table => table'
      /\ \A o \in Servers \ {s} : server'[o] = server[o]
  BY DEF MInv, TypeOK, Becomes, Goes, Start, EnsureTable, EnsureCollides,
         AppliedVersions
<1>. QED  BY <1>1, <1>2, <1>3, LocalStep

LEMMA FileSteps ==
  ASSUME MInv, NEW s \in Servers,
         BeginFile(s) \/ RunBody(s) \/ BodyCollides(s) \/ Record(s)
           \/ RecordCollides(s) \/ Serve(s)
  PROVE  MInv'
<1>1. TypeOK'
  <2>1. CASE BeginFile(s)
    <3>1. PICK f \in NextFile(server[s].todo) :
            server' = [server EXCEPT ![s] =
                         [server[s] EXCEPT !.pc = "body", !.cur = f]]
      BY <2>1 DEF BeginFile, Becomes
    <3>2. f \in Files /\ server[s] \in Server
      BY DEF MInv, TypeOK, Server, NextFile
    <3>3. [server[s] EXCEPT !.pc = "body", !.cur = f] \in Server
      BY <3>2 DEF Server, Starting
    <3>. QED  BY <2>1, <3>1, <3>3 DEF MInv, TypeOK, BeginFile
  <2>2. CASE RunBody(s) \/ Record(s)
    BY <2>2 DEF MInv, TypeOK, Server, Starting, Becomes, Goes, RunBody, Record
  <2>3. CASE BodyCollides(s) \/ RecordCollides(s)
    BY <2>3 DEF MInv, TypeOK, Server, Becomes, Goes, BodyCollides, RecordCollides
  <2>4. CASE Serve(s)
    BY <2>4 DEF MInv, TypeOK, Server, Becomes, Goes, Serve
  <2>. QED  BY <2>1, <2>2, <2>3, <2>4
<1>2. LoopOK(s)'
  <2>1. CASE BeginFile(s)
    <3>1. PICK f \in NextFile(server[s].todo) :
            server' = [server EXCEPT ![s] =
                         [server[s] EXCEPT !.pc = "body", !.cur = f]]
      BY <2>1 DEF BeginFile, Becomes
    <3>2. /\ server'[s].pc = "body" /\ server'[s].cur = f
          /\ server'[s].todo = server[s].todo
      BY <3>1 DEF MInv, TypeOK, Server
    <3>. QED  BY <2>1, <3>1, <3>2 DEF MInv, LoopOK, At, BeginFile
  <2>2. CASE RunBody(s)
    BY <2>2 DEF MInv, TypeOK, Server, LoopOK, At, Becomes, Goes, RunBody
  <2>3. CASE BodyCollides(s)
    BY <2>3 DEF MInv, TypeOK, Server, LoopOK, At, Becomes, Goes, BodyCollides
  <2>4. CASE Record(s)
    BY <2>4 DEF MInv, TypeOK, Server, LoopOK, At, Becomes, Goes, Record
  <2>5. CASE RecordCollides(s)
    BY <2>5 DEF MInv, TypeOK, Server, LoopOK, At, Becomes, Goes, RecordCollides
  <2>6. CASE Serve(s)
    BY <2>6 DEF MInv, TypeOK, Server, LoopOK, At, Becomes, Goes, Serve
  <2>. QED  BY <2>1, <2>2, <2>3, <2>4, <2>5, <2>6
<1>3. At(s, "commit")' =>
        /\ CurVersion(s)' \notin applied \cup orphans
        /\ \A o \in Servers \ {s} :
             At(o, "commit") => CurVersion(o) # CurVersion(s)'
  <2>1. CASE Record(s)
    <3>1. server'[s].cur = server[s].cur
      BY <2>1 DEF MInv, TypeOK, Server, Becomes, Goes, Record
    <3>. QED  BY <2>1, <3>1 DEF Record, Claimed, Taken, CurVersion
  <2>2. CASE ~ Record(s)
    BY <2>2 DEF MInv, TypeOK, Server, At, Becomes, Goes, BeginFile, RunBody,
                BodyCollides, RecordCollides, Serve
  <2>. QED  BY <2>1, <2>2
<1>4. /\ UNCHANGED <<applied, bodies, orphans>>
      /\ table => table'
      /\ \A o \in Servers \ {s} : server'[o] = server[o]
  BY DEF MInv, TypeOK, Becomes, Goes, BeginFile, RunBody, BodyCollides, Record,
         RecordCollides, Serve
<1>. QED  BY <1>1, <1>2, <1>3, <1>4, LocalStep

LEMMA CommitStep ==
  ASSUME MInv, NEW s \in Servers, Commit(s)
  PROVE  MInv'
<1>. DEFINE f == server[s].cur
<1>1. /\ f \in Files /\ f \in server[s].todo
      /\ At(s, "commit") /\ VersionOf[f] \notin applied \cup orphans
  BY DEF MInv, TypeOK, Server, LoopOK, KeysOK, NextFile, Commit, At, CurVersion
<1>2. /\ server' = [server EXCEPT ![s] =
                      [server[s] EXCEPT !.pc = "pick", !.cur = NoFile,
                                        !.todo = server[s].todo \ {f}]]
      /\ UNCHANGED <<table, orphans>>
      /\ Land(f)
  BY DEF Commit, Becomes
<1>3. TypeOK'
  <2>1. applied' \subseteq Versions /\ bodies' \in [Files -> Nat]
    BY <1>1, <1>2 DEF MInv, TypeOK, Land, Versions
  <2>2. server' \in [Servers -> Server]
    <3>1. server[s] \in Server /\ server[s].todo \ {f} \subseteq Files
      BY DEF MInv, TypeOK, Server
    <3>2. [server[s] EXCEPT !.pc = "pick", !.cur = NoFile,
                            !.todo = server[s].todo \ {f}] \in Server
      BY <3>1 DEF Server, Starting
    <3>. QED  BY <1>2, <3>2 DEF MInv, TypeOK
  <2>. QED  BY <1>2, <2>1, <2>2 DEF MInv, TypeOK
<1>4. /\ AppliedExactly' /\ applied \subseteq applied'
      /\ applied' = applied \cup {VersionOf[f]} /\ VersionOf[f] \in applied'
  BY <1>1, <1>2, LandStep DEF Land
<1>5. ASSUME NEW o \in Servers PROVE LoopOK(o)'
  <2>1. CASE o = s
    <3>1. /\ server'[s].pc = "pick" /\ server'[s].cur = NoFile
          /\ server'[s].todo = server[s].todo \ {f}
      BY <1>2 DEF MInv, TypeOK, Server
    <3>2. \A g \in Shipped[s] \ server[s].todo : VersionOf[g] \in applied
      BY <1>1 DEF MInv, LoopOK, At
    <3>3. server'[s].todo \subseteq Shipped[s]
      BY <3>1 DEF MInv, LoopOK
    <3>4. \A g \in Shipped[s] \ server'[s].todo : VersionOf[g] \in applied'
      BY <1>4, <3>1, <3>2
    <3>. QED  BY <2>1, <3>1, <3>3, <3>4 DEF LoopOK, At
  <2>2. CASE o # s
    <3>1. server'[o] = server[o] /\ table' = table /\ LoopOK(o)
      BY <1>2, <2>2 DEF MInv, TypeOK
    <3>. QED  BY <1>4, <3>1 DEF LoopOK, At, CurVersion
  <2>. QED  BY <2>1, <2>2
<1>6. KeysOK'
  BY <1>1, <1>2, <1>4 DEF MInv, TypeOK, Server, KeysOK, At, CurVersion
<1>7. OrphansOK'
  BY <1>2, <1>4 DEF MInv, OrphansOK, Prepared
<1>. QED  BY <1>3, <1>4, <1>5, <1>6, <1>7 DEF MInv

LEMMA StopStep ==
  ASSUME MInv, NEW s \in Servers, Stop(s)
  PROVE  MInv'
<1>1. server' = [server EXCEPT ![s] = Down] /\ UNCHANGED <<table, applied, bodies>>
  BY DEF Stop, Becomes
<1>2. ASSUME NEW o \in Servers PROVE LoopOK(o)'
  BY <1>1 DEF MInv, TypeOK, LoopOK, At, CurVersion, Down
<1>3. AppliedExactly'
  BY <1>1 DEF MInv, AppliedExactly
<1>4. CASE At(s, "commit")
  <2>. DEFINE f == server[s].cur
  <2>1. f \in Files /\ Prepared(s, f)
    <3>1. /\ f \in NextFile(server[s].todo) /\ server[s].todo \subseteq Shipped[s]
          /\ \A g \in Shipped[s] \ server[s].todo : VersionOf[g] \in applied
      BY <1>4 DEF MInv, LoopOK, At
    <3>2. f \in Files /\ f \in Shipped[s] /\ Shipped[s] \subseteq Int
      BY <3>1, ShippedAssumption, FilesAssumption DEF NextFile
    <3>3. \A g \in Shipped[s] : g < f => g \notin server[s].todo
      BY <3>1, <3>2 DEF NextFile
    <3>. QED  BY <3>1, <3>2, <3>3 DEF Prepared
  <2>2. orphans' = orphans \cup {VersionOf[f]}
    BY <1>4 DEF Stop, CurVersion
  <2>3. TypeOK'
    BY <1>1, <2>1, <2>2 DEF MInv, TypeOK, Server, Down, Versions
  <2>4. KeysOK'
    BY <1>1, <1>4, <2>2 DEF MInv, TypeOK, KeysOK, At, CurVersion, Down
  <2>5. OrphansOK'
    BY <1>1, <2>1, <2>2, VersionAssumption DEF MInv, OrphansOK, Prepared
  <2>. QED  BY <1>2, <1>3, <2>3, <2>4, <2>5 DEF MInv
<1>5. CASE ~ At(s, "commit")
  <2>1. orphans' = orphans
    BY <1>5 DEF Stop
  <2>2. TypeOK'
    BY <1>1, <2>1 DEF MInv, TypeOK, Server, Down
  <2>3. KeysOK'
    BY <1>1, <2>1 DEF MInv, TypeOK, KeysOK, At, CurVersion, Down
  <2>4. OrphansOK'
    BY <1>1, <2>1 DEF MInv, OrphansOK, Prepared
  <2>. QED  BY <1>2, <1>3, <2>2, <2>3, <2>4 DEF MInv
<1>. QED  BY <1>4, <1>5

LEMMA OrphanStep ==
  ASSUME MInv, NEW f \in Files, OrphanEnds(f)
  PROVE  MInv'
<1>1. VersionOf[f] \in orphans /\ VersionOf[f] \notin applied
  BY DEF OrphanEnds, MInv, KeysOK
<1>2. orphans' = orphans \ {VersionOf[f]} /\ UNCHANGED <<table, server>>
  BY DEF OrphanEnds
<1>3. AppliedExactly' /\ applied \subseteq applied'
        /\ applied' \subseteq applied \cup {VersionOf[f]}
  <2>1. CASE Land(f)
    BY <1>1, <2>1, LandStep DEF Land
  <2>2. CASE UNCHANGED <<applied, bodies>>
    BY <2>2 DEF MInv, AppliedExactly
  <2>. QED  BY <2>1, <2>2 DEF OrphanEnds
<1>4. TypeOK'
  BY <1>2, <1>3 DEF MInv, TypeOK, OrphanEnds, Land, Versions
<1>5. ASSUME NEW o \in Servers PROVE LoopOK(o)'
  BY <1>2, <1>3 DEF MInv, LoopOK, At, CurVersion
<1>6. KeysOK'
  BY <1>1, <1>2, <1>3 DEF MInv, KeysOK, At, CurVersion
<1>7. OrphansOK'
  BY <1>2, <1>3 DEF MInv, OrphansOK, Prepared
<1>. QED  BY <1>3, <1>4, <1>5, <1>6, <1>7 DEF MInv

-----------------------------------------------------------------------------
(***************************************************************************)
(* Theorems.                                                               *)
(***************************************************************************)

LEMMA Invariance == Spec => []MInv
<1>1. Init => MInv
  <2>. SUFFICES ASSUME Init PROVE MInv
    OBVIOUS
  <2>1. Down \in Server
    BY DEF Down, Server
  <2>2. TypeOK
    BY <2>1 DEF Init, TypeOK, Versions
  <2>3. AppliedExactly /\ KeysOK /\ OrphansOK
    BY DEF Init, Down, At, AppliedExactly, KeysOK, OrphansOK
  <2>4. ASSUME NEW s \in Servers PROVE LoopOK(s)
    BY DEF Init, Down, At, LoopOK
  <2>. QED  BY <2>2, <2>3, <2>4 DEF MInv
<1>2. MInv /\ [Next]_vars => MInv'
  <2>. SUFFICES ASSUME MInv, [Next]_vars PROVE MInv'
    OBVIOUS
  <2>1. CASE UNCHANGED vars
    BY <2>1 DEF vars, MInv, TypeOK, AppliedExactly, LoopOK, KeysOK, OrphansOK,
                Prepared, At, CurVersion
  <2>2. ASSUME NEW s \in Servers, Start(s) \/ Step(s) \/ Stop(s) PROVE MInv'
    BY <2>2, StartSteps, FileSteps, CommitStep, StopStep DEF Step
  <2>3. ASSUME NEW f \in Files, OrphanEnds(f) PROVE MInv'
    BY <2>3, OrphanStep
  <2>. QED  BY <2>1, <2>2, <2>3 DEF Next
<1>. QED  BY <1>1, <1>2, PTL DEF Spec

\* The types of Spec's variables (TypeOK).
THEOREM StartTypes == Spec => []TypeOK
<1>1. MInv => TypeOK
  BY DEF MInv
<1>. QED  BY <1>1, Invariance, PTL

\* However many servers start together, whichever die: a file of the tool's
\* schema takes effect once, exactly when it is listed (Runner.apply).
THEOREM FilesApplyOnce == Spec => []AppliedExactly
<1>1. MInv => AppliedExactly
  BY DEF MInv
<1>. QED  BY <1>1, Invariance, PTL

\* A server that listens finds the schema of its binary (main, Runner.Up).
THEOREM ServersFindTheirSchema == Spec => []ServingIsMigrated
<1>1. MInv => ServingIsMigrated
  BY DEF MInv, LoopOK, ServingIsMigrated, At
<1>. QED  BY <1>1, Invariance, PTL

\* Files land in the order of a release, also those of servers that died
\* before they heard of their COMMIT.
THEOREM FilesLandInOrder == Spec => LandsInOrder
<1>. DEFINE Ordered == \A f \in Files :
              bodies'[f] # bodies[f] => \E s \in Servers : Prepared(s, f)
<1>1. MInv /\ [Next]_vars => [Ordered]_vars
  <2>. SUFFICES ASSUME MInv, Next, NEW f \in Files, bodies'[f] # bodies[f]
                PROVE  \E s \in Servers : Prepared(s, f)
    BY DEF vars
  <2>1. ASSUME NEW s \in Servers, Commit(s) PROVE Prepared(s, f)
    <3>1. f = server[s].cur
      BY <2>1 DEF MInv, TypeOK, Commit, Land
    <3>2. f \in NextFile(server[s].todo)
      BY <2>1, <3>1 DEF MInv, LoopOK, Commit, At
    <3>. QED  BY <2>1, <3>2, ShippedAssumption, FilesAssumption
              DEF MInv, TypeOK, Server, LoopOK, Commit, At, NextFile, Prepared
  <2>2. ASSUME NEW g \in Files, OrphanEnds(g) PROVE \E s \in Servers : Prepared(s, f)
    <3>1. f = g
      BY <2>2 DEF MInv, TypeOK, OrphanEnds, Land
    <3>. QED  BY <2>2, <3>1 DEF MInv, OrphansOK, OrphanEnds
  <2>3. ASSUME NEW s \in Servers, Start(s) \/ Step(s) \/ Stop(s), ~ Commit(s)
        PROVE  FALSE
    BY <2>3 DEF Step, Start, EnsureTable, EnsureCollides, AppliedVersions,
                BeginFile, RunBody, BodyCollides, Record, RecordCollides, Serve,
                Stop
  <2>. QED  BY <2>1, <2>2, <2>3 DEF Next
<1>2. [Ordered]_vars => [\A f \in Files :
        bodies'[f] # bodies[f] =>
          \E s \in Servers :
            /\ f \in Shipped[s]
            /\ \A g \in Shipped[s] : g < f => VersionOf[g] \in applied]_vars
  BY DEF Prepared
<1>. QED  BY <1>1, <1>2, Invariance, PTL DEF Spec, LandsInOrder

=============================================================================
