---------------------------- MODULE ToolMigrator ----------------------------
(***************************************************************************)
(* The start of migrate-hub servers on one tool database: before it        *)
(* listens, every server runs migrate.Runner.Up, which applies the SQL     *)
(* files embedded in its binary that schema_migrations does not list yet.  *)
(*                                                                         *)
(* Nothing makes servers take turns.  Several may start together, with     *)
(* binaries of different releases, and a process may die between any two   *)
(* statements; its database session then ends later than it does.          *)
(*                                                                         *)
(* A file is named by its place in the order sort.Strings gives the file   *)
(* names, which is a number here.                                          *)
(***************************************************************************)
EXTENDS Integers

CONSTANTS
  Servers,
  Files,      \* the SQL files of all releases, as their places in the order
  Shipped,    \* the files embedded in the binary of a server
  VersionOf,  \* parseVersion: the number in front of a file's name
  NoFile

ASSUME FilesAssumption == Files \subseteq Int /\ NoFile \notin Files

ASSUME ShippedAssumption == Shipped \in [Servers -> SUBSET Files]

\* Two files of the repository never share a version.
ASSUME VersionAssumption ==
  \A f, g \in Files : VersionOf[f] = VersionOf[g] => f = g

VARIABLES
  table,    \* schema_migrations exists
  applied,  \* the versions it lists
  bodies,   \* history: how often a file's SQL has been committed
  server,   \* where a server is in Up
  orphans   \* versions inserted by sessions whose process is gone

vars == <<table, applied, bodies, server, orphans>>

Versions == {VersionOf[f] : f \in Files}

\* What Up does next: create the table, read it, pick a file, execute it,
\* insert its version, commit.
Starting == {"ensure", "read", "pick", "body", "record", "commit"}

\* todo is what is left of the loop, cur its file, and virgin remembers that
\* schema_migrations did not exist when the server began to create it.
Server ==
  [pc : Starting \cup {"down", "serving", "failed"},
   todo : SUBSET Files, cur : Files \cup {NoFile}, virgin : BOOLEAN]

Down == [pc |-> "down", todo |-> {}, cur |-> NoFile, virgin |-> FALSE]

At(s, label) == server[s].pc = label

Becomes(s, local) == server' = [server EXCEPT ![s] = local]
Goes(s, label)    == Becomes(s, [server[s] EXCEPT !.pc = label])

\* Mutant of CurVersion: the number is not parsed.
CurName(s) == server[s].cur

\* The version a server has inserted, or is about to.
CurVersion(s) == VersionOf[server[s].cur]

Init ==
  /\ table = FALSE
  /\ applied = {}
  /\ bodies = [f \in Files |-> 0]
  /\ server = [s \in Servers |-> Down]
  /\ orphans = {}

Start(s) ==
  /\ server[s].pc \in {"down", "failed"}
  /\ Becomes(s, [Down EXCEPT !.pc = "ensure", !.virgin = ~ table])
  /\ UNCHANGED <<table, applied, bodies, orphans>>

EnsureTable(s) ==
  /\ At(s, "ensure")
  /\ table' = TRUE
  /\ Goes(s, "read")
  /\ UNCHANGED <<applied, bodies, orphans>>

\* CREATE TABLE IF NOT EXISTS looks before it creates: it may fail when
\* another server creates the table in between.
EnsureCollides(s) ==
  /\ At(s, "ensure")
  /\ server[s].virgin /\ table
  /\ Goes(s, "failed")
  /\ UNCHANGED <<table, applied, bodies, orphans>>

\* Mutant of Outstanding: files below the newest version applied are taken
\* for applied.
AboveNewest(s) ==
  {f \in Shipped[s] : \A g \in Files : VersionOf[g] \in applied => g < f}

\* Mutant of Outstanding: nothing is skipped, the keys will tell.
AllShipped(s) == Shipped[s]

\* The files the loop will not skip.
Outstanding(s) == {f \in Shipped[s] : VersionOf[f] \notin applied}

\* The map of applied versions is read once, for the whole loop.
AppliedVersions(s) ==
  /\ At(s, "read")
  /\ Becomes(s, [server[s] EXCEPT !.pc = "pick", !.todo = Outstanding(s)])
  /\ UNCHANGED <<table, applied, bodies, orphans>>

\* Mutant of NextFile: the files come as the directory lists them.
AnyFile(todo) == todo

NextFile(todo) == {f \in todo : \A g \in todo : f <= g}

BeginFile(s) ==
  /\ At(s, "pick")
  /\ \E f \in NextFile(server[s].todo) :
       Becomes(s, [server[s] EXCEPT !.pc = "body", !.cur = f])
  /\ UNCHANGED <<table, applied, bodies, orphans>>

\* The SQL of the file, in the transaction; its effects are not visible yet.
RunBody(s) ==
  /\ At(s, "body")
  /\ Goes(s, "record")
  /\ UNCHANGED <<table, applied, bodies, orphans>>

\* Mutant of Taken: no PRIMARY KEY.
NeverTaken(s) == FALSE

\* Another server has committed the file since the map was read.
Taken(s) == CurVersion(s) \in applied

\* SQL that another server has committed meanwhile may fail to be executed
\* again.  SQL that fails for another reason is a fault, and part of Stop.
BodyCollides(s) ==
  /\ At(s, "body")
  /\ Taken(s)
  /\ Goes(s, "failed")
  /\ UNCHANGED <<table, applied, bodies, orphans>>

\* Mutant of Claimed: whoever has run the body keeps the others waiting.
ClaimedByBody(s) ==
  \E o \in Servers : /\ o # s /\ server[o].pc \in {"record", "commit"}
                     /\ CurVersion(o) = CurVersion(s)

\* An INSERT waits for an open transaction that has inserted the same key.
Claimed(s) ==
  \/ CurVersion(s) \in orphans
  \/ \E o \in Servers : o # s /\ At(o, "commit") /\ CurVersion(o) = CurVersion(s)

Record(s) ==
  /\ At(s, "record")
  /\ ~ Claimed(s) /\ ~ Taken(s)
  /\ Goes(s, "commit")
  /\ UNCHANGED <<table, applied, bodies, orphans>>

\* The key is there: the transaction is rolled back and the server exits.
RecordCollides(s) ==
  /\ At(s, "record")
  /\ Taken(s)
  /\ Goes(s, "failed")
  /\ UNCHANGED <<table, applied, bodies, orphans>>

\* The SQL and its row become visible together.
Land(f) ==
  /\ applied' = applied \cup {VersionOf[f]}
  /\ bodies' = [bodies EXCEPT ![f] = @ + 1]

Commit(s) ==
  LET f == server[s].cur IN
  /\ At(s, "commit")
  /\ Land(f)
  /\ Becomes(s, [server[s] EXCEPT !.pc = "pick", !.cur = NoFile,
                                  !.todo = @ \ {f}])
  /\ UNCHANGED <<table, orphans>>

\* Up returns nil and the server listens.
Serve(s) ==
  /\ At(s, "pick")
  /\ server[s].todo = {}
  /\ Goes(s, "serving")
  /\ UNCHANGED <<table, applied, bodies, orphans>>

\* A server is stopped.  Or its start is: a signal, a crash, a statement
\* that fails, a connection that breaks, with the session left to end on its
\* own, and with it what it has inserted.
Stop(s) ==
  /\ At(s, "serving") \/ server[s].pc \in Starting
  /\ orphans' = IF At(s, "commit") THEN orphans \cup {CurVersion(s)}
                                   ELSE orphans
  /\ Becomes(s, Down)
  /\ UNCHANGED <<table, applied, bodies>>

\* A session that was left is rolled back, or carries out the COMMIT it got.
OrphanEnds(f) ==
  /\ VersionOf[f] \in orphans
  /\ orphans' = orphans \ {VersionOf[f]}
  /\ Land(f) \/ UNCHANGED <<applied, bodies>>
  /\ UNCHANGED <<table, server>>

Step(s) ==
  \/ EnsureTable(s) \/ EnsureCollides(s) \/ AppliedVersions(s)
  \/ BeginFile(s) \/ RunBody(s) \/ BodyCollides(s)
  \/ Record(s) \/ RecordCollides(s) \/ Commit(s) \/ Serve(s)

Next ==
  \/ \E s \in Servers : Start(s) \/ Step(s) \/ Stop(s)
  \/ \E f \in Files : OrphanEnds(f)

Spec == Init /\ [][Next]_vars

\* A server that starts goes on, the database ends the sessions nobody uses
\* and grants a key in the order it was asked for (strong fairness: others
\* that take it first and die cannot do so for ever).  Nobody has to start a
\* server, and none has to be stopped.
FairSpec ==
  /\ Spec
  /\ \A s \in Servers : SF_vars(Step(s))
  /\ \A f \in Files : WF_vars(OrphanEnds(f))

-----------------------------------------------------------------------------
(***************************************************************************)
(* Properties.                                                             *)
(***************************************************************************)

\* Every variable keeps the type of the table, or of the Go value, it models.
TypeOK ==
  /\ table \in BOOLEAN
  /\ applied \subseteq Versions
  /\ bodies \in [Files -> Nat]
  /\ server \in [Servers -> Server]
  /\ orphans \subseteq Versions

\* A file takes effect once, and exactly when schema_migrations says so,
\* however many servers start together, die or lose the answer to a COMMIT
\* (Runner.apply: one transaction for the SQL and its row).
AppliedExactly ==
  \A f \in Files : bodies[f] = IF VersionOf[f] \in applied THEN 1 ELSE 0

\* A server that listens has the whole schema its binary was built for
\* (main: Up before Start), also when it joined a loop half done by another
\* release.
ServingIsMigrated ==
  \A s \in Servers :
    At(s, "serving") => \A f \in Shipped[s] : VersionOf[f] \in applied

\* A file lands on the schema it was written for: some release that ships it
\* has all its earlier files applied ("up migrations in order").
LandsInOrder ==
  [][\A f \in Files :
       bodies'[f] # bodies[f] =>
         \E s \in Servers :
           /\ f \in Shipped[s]
           /\ \A g \in Shipped[s] : g < f => VersionOf[g] \in applied]_vars

\* A server that starts ends up serving or gone: nobody waits for ever for
\* another's transaction.
StartsEnd ==
  \A s \in Servers : server[s].pc \in Starting ~> server[s].pc \notin Starting

\* A server that is started again and again collides with others only so
\* often: a collision costs one start, and the next one does not come back to
\* the same file, however the others start, die and compete with it.
CollisionsCease ==
  \A s \in Servers : <>[][At(s, "failed")' => At(s, "failed")]_vars

=============================================================================
