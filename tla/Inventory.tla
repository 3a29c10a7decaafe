----------------------------- MODULE Inventory -----------------------------
(***************************************************************************)
(* Projects, database sets and target databases, as rows of the tool       *)
(* database.  Rows are created, edited and disabled, and never deleted;    *)
(* nothing enables a row again.                                            *)
(*                                                                         *)
(* Every request carries the project its session has selected.  A session  *)
(* is a cookie, read and written back whole by whatever request of the     *)
(* browser comes last, so that project is any project: each action takes   *)
(* it as a parameter.  A row that a handler reads before it writes tells   *)
(* it only what never changes (the set of a target, the project of a set), *)
(* so reading and writing are one step, except where a target is edited:   *)
(* UpdateDBTarget reads the row, merges the form into it and writes the    *)
(* columns back in a second statement.                                     *)
(***************************************************************************)
CONSTANTS
  Editors,       \* requests that edit a target
  Projects, DBSets, Targets,
  ProjectOf,     \* the project of a set
  SetOf,         \* the set of a target
  Hosts, Names,  \* host:port, and dbname
  None           \* Go's nil, "no row", and a field left blank

VARIABLES
  projects,  \* table projects
  sets,      \* table db_sets
  targets,   \* table db_targets
  edits      \* the row each edit in flight is about to write

ivars == <<projects, sets, targets, edits>>

SetRow    == [active : BOOLEAN]
TargetRow == [host : Hosts, name : Names, active : BOOLEAN]
Form      == [host : Hosts \cup {None}, name : Names \cup {None}]
Edit      == [target : Targets, row : TargetRow]

Init ==
  /\ projects = {}
  /\ sets = [s \in DBSets |-> None]
  /\ targets = [t \in Targets |-> None]
  /\ edits = [e \in Editors |-> None]

-----------------------------------------------------------------------------
\* A project stands for its name, which is UNIQUE.
CreateProject(project) ==
  /\ project \notin projects
  /\ projects' = projects \cup {project}
  /\ UNCHANGED <<sets, targets, edits>>

\* A set stands for its project, environment and name, UNIQUE together.
CreateDBSet(project, s) ==
  /\ project \in projects                        \* REFERENCES projects
  /\ ProjectOf[s] = project
  /\ sets[s] = None
  /\ sets' = [sets EXCEPT ![s] = [active |-> TRUE]]
  /\ UNCHANGED <<projects, targets, edits>>

\* The API finds the set in the selected project only, the UI in any.
DisableDBSet(s) ==
  /\ sets[s] # None
  /\ sets' = [sets EXCEPT ![s].active = FALSE]
  /\ UNCHANGED <<projects, targets, edits>>

\* The set is there, and belongs to the selected project.
InProject(project, s) == sets[s] # None /\ ProjectOf[s] = project

\* is_active of the set is not looked at.
CreateDBTarget(project, t, host, name) ==
  /\ InProject(project, SetOf[t])
  /\ targets[t] = None
  /\ targets' = [targets EXCEPT ![t] =
                   [host |-> host, name |-> name, active |-> TRUE]]
  /\ UNCHANGED <<projects, sets, edits>>

DisableDBTarget(project, t) ==
  /\ targets[t] # None
  /\ InProject(project, SetOf[t])
  /\ targets' = [targets EXCEPT ![t].active = FALSE]
  /\ UNCHANGED <<projects, sets, edits>>

-----------------------------------------------------------------------------
\* Mutant of Filled: a blank field is written as well.
AsEntered(field, current) == field

\* A blank field keeps what the row says.
Filled(field, current) == IF field = None THEN current ELSE field

Merged(row, form) ==
  [row EXCEPT !.host = Filled(form.host, row.host),
              !.name = Filled(form.name, row.name)]

EditRead(e, project, t, form) ==
  /\ edits[e] = None
  /\ targets[t] # None
  /\ InProject(project, SetOf[t])
  /\ edits' = [edits EXCEPT ![e] =
                 [target |-> t, row |-> Merged(targets[t], form)]]
  /\ UNCHANGED <<projects, sets, targets>>

\* Mutant of Overwritten: the UPDATE writes every column of the row it read.
OverwrittenWhole(row, new) == new

\* UPDATE db_targets sets every column but is_active.
Overwritten(row, new) == [new EXCEPT !.active = row.active]

EditWrite(e) ==
  /\ edits[e] # None
  /\ LET t == edits[e].target IN
       targets' = [targets EXCEPT ![t] = Overwritten(targets[t], edits[e].row)]
  /\ edits' = [edits EXCEPT ![e] = None]
  /\ UNCHANGED <<projects, sets>>

\* The request ends between its statements.
EditGivenUp(e) ==
  /\ edits[e] # None
  /\ edits' = [edits EXCEPT ![e] = None]
  /\ UNCHANGED <<projects, sets, targets>>

Next ==
  \/ \E project \in Projects :
       \/ CreateProject(project)
       \/ \E s \in DBSets : CreateDBSet(project, s)
       \/ \E t \in Targets :
            \/ \E host \in Hosts, name \in Names :
                 CreateDBTarget(project, t, host, name)
            \/ DisableDBTarget(project, t)
            \/ \E e \in Editors, form \in Form : EditRead(e, project, t, form)
  \/ \E s \in DBSets : DisableDBSet(s)
  \/ \E e \in Editors : EditWrite(e) \/ EditGivenUp(e)

-----------------------------------------------------------------------------
\* What ListDBTargetsBySet, and the filter on is_active after it, find.
ActiveTargets(s) ==
  {t \in Targets : SetOf[t] = s /\ targets[t] # None /\ targets[t].active}

=============================================================================
