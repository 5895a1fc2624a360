----------------------------- MODULE SchemaControl -----------------------------
(***************************************************************************)
(* The schema of the database under migration: operators upgrade and       *)
(* downgrade it with alembic, one transaction for all the revisions of a   *)
(* command, or reset it with schema_control, while processes of the        *)
(* application that checked the revision when they started write rows.     *)
(* Every release of the application has the revisions up to its own.       *)
(***************************************************************************)
EXTENDS Naturals, Sequences

CONSTANTS
  Operators,  \* commands of alembic or of schema_control
  Clients,    \* processes of the application
  Followed,   \* the tables whose rows are followed
  Targets     \* the revisions an operator asks for

VARIABLES
  revision,  \* the revision that is committed, 0 for an empty schema
  rows,      \* tables that have rows
  operator,  \* per operator: step of its command and what its transaction has done
  client     \* per client: the revision of its release, and the table of its open insert

schemaVars == <<revision, rows, operator, client>>

-----------------------------------------------------------------------------
(* The revisions: groups of tables, and those that must be empty to go up or down *)

Baseline         == [creates |-> {"content"},      emptyUp |-> {},          emptyDown |-> {}]
UserSessions     == [creates |-> {"users"},        emptyUp |-> {},          emptyDown |-> {}]
ContentOwnership == [creates |-> {},               emptyUp |-> {"content"}, emptyDown |-> {"content"}]
CreditFoundation == [creates |-> {"accounts"},     emptyUp |-> {},          emptyDown |-> {"accounts"}]
CreditOperations == [creates |-> {"operations"},   emptyUp |-> {},          emptyDown |-> {"operations"}]
CreditAccounting == [creates |-> {"reservations"}, emptyUp |-> {},          emptyDown |-> {"reservations"}]
MasterAudit      == [creates |-> {"audit"},        emptyUp |-> {},          emptyDown |-> {"audit"}]

Migrations ==
  <<Baseline, UserSessions, ContentOwnership, CreditFoundation, CreditOperations,
    CreditAccounting, MasterAudit>>

Owned == 3  \* from this revision on content has an owner
CodeHead == Len(Migrations)
Revisions == 0 .. CodeHead

\* An operator names a revision that exists.
ASSUME SchemaAssumption == Targets \subseteq Revisions

TablesAt(r) == UNION {Migrations[i].creates : i \in 1 .. r}

-----------------------------------------------------------------------------
(* Commands *)

IdleOperator == [pc |-> "idle", read |-> 0, at |-> 0, to |-> 0, locks |-> {}, wrote |-> FALSE, reset |-> FALSE]

SchemaInit ==
  /\ revision = 0
  /\ rows = {}
  /\ operator = [o \in Operators |-> IdleOperator]
  /\ client = [c \in Clients |-> [release |-> 0, writes |-> "none"]]

OperatorAt(o, pc) == operator[o].pc = pc

\* Mutant: the lock lets open inserts be.
UnlockedByOperators(o, tables) == \A p \in Operators \ {o} : operator[p].locks \cap tables = {}

\* No transaction but o's has one of tables locked or written.
Unlocked(o, tables) ==
  /\ \A p \in Operators \ {o} : operator[p].locks \cap tables = {}
  /\ \A c \in Clients : client[c].writes \notin tables

Up(o) == operator[o].at < operator[o].to

RevisionStep(o) == IF Up(o) THEN Migrations[operator[o].at + 1] ELSE Migrations[operator[o].at]

MustBeEmpty(o) == IF Up(o) THEN RevisionStep(o).emptyUp ELSE RevisionStep(o).emptyDown

\* Mutant: tables are looked at without a lock.
LocksNothing(o) == {}

LocksFor(o) == MustBeEmpty(o)

\* The next revision of the command, or its end.
NextPc(at, to) == IF at = to THEN "commit" ELSE "lock"

Transaction(o, to, reset) ==
  operator' = [operator EXCEPT ![o] =
    [IdleOperator EXCEPT !.pc = NextPc(revision, to), !.read = revision, !.at = revision,
                         !.to = to, !.reset = reset]]

Migrate(o) ==
  /\ OperatorAt(o, "idle")
  /\ \E to \in Targets : to # revision /\ Transaction(o, to, FALSE)
  /\ UNCHANGED <<revision, rows, client>>

\* LOCK TABLE ... IN ACCESS EXCLUSIVE MODE waits for every writer.
LockTables(o) ==
  /\ OperatorAt(o, "lock") /\ Unlocked(o, LocksFor(o))
  /\ operator' = [operator EXCEPT ![o].pc = "check", ![o].locks = @ \cup LocksFor(o)]
  /\ UNCHANGED <<revision, rows, client>>

CheckEmpty(o) ==
  /\ OperatorAt(o, "check") /\ rows \cap MustBeEmpty(o) = {}
  /\ operator' = [operator EXCEPT ![o].pc = "apply"]
  /\ UNCHANGED <<revision, rows, client>>

\* Tables are created or dropped, and the row of alembic_version is updated: one command
\* at a time, and only if the revision is still the one the command read.
ApplyStep(o) ==
  LET at == IF Up(o) THEN operator[o].at + 1 ELSE operator[o].at - 1
      dropped == IF Up(o) THEN {} ELSE RevisionStep(o).creates
  IN /\ OperatorAt(o, "apply")
     /\ \A p \in Operators \ {o} : ~operator[p].wrote
     /\ revision = operator[o].read /\ Unlocked(o, dropped)
     /\ operator' = [operator EXCEPT ![o].pc = NextPc(at, operator[o].to), ![o].at = at,
                                     ![o].locks = @ \cup dropped, ![o].wrote = TRUE]
     /\ UNCHANGED <<revision, rows, client>>

CommitMigration(o) ==
  /\ OperatorAt(o, "commit")
  /\ revision' = IF operator[o].wrote THEN operator[o].at ELSE revision
  /\ rows' = IF operator[o].wrote THEN rows \cap TablesAt(operator[o].at) ELSE rows
  /\ operator' = [operator EXCEPT ![o] =
       IF operator[o].reset THEN [IdleOperator EXCEPT !.pc = "verify"] ELSE IdleOperator]
  /\ UNCHANGED client

\* A table is not empty, the lock timeout, the revision changed, a crash: all is rolled back.
\* A reset that fails between its transactions leaves what they committed.
CommandFails(o) ==
  /\ ~OperatorAt(o, "idle")
  /\ operator' = [operator EXCEPT ![o] = IdleOperator]
  /\ UNCHANGED <<revision, rows, client>>

-----------------------------------------------------------------------------
(* The reset of a local database *)

Settings == [env : {"local", "test", "other"}, postgres : BOOLEAN, local : BOOLEAN, expected : BOOLEAN]

ResetAllowed(s) == s.env \in {"local", "test"} /\ s.postgres /\ s.local /\ s.expected

\* The plan, the confirmation and the fresh plan; a preview ends before them.
ConfirmReset(o) ==
  /\ OperatorAt(o, "idle")
  /\ \E s \in Settings : ResetAllowed(s)
  /\ operator' = [operator EXCEPT ![o].pc = "drop"]
  /\ UNCHANGED <<revision, rows, client>>

\* DROP SCHEMA public CASCADE, in a transaction of its own.
DropPublic(o) ==
  /\ OperatorAt(o, "drop")
  /\ \A p \in Operators \ {o} : operator[p].locks = {} /\ ~operator[p].wrote
  /\ Unlocked(o, TablesAt(revision))
  /\ revision' = 0 /\ rows' = {}
  /\ operator' = [operator EXCEPT ![o].pc = "upgrade"]
  /\ UNCHANGED client

UpgradeToHead(o) ==
  /\ OperatorAt(o, "upgrade")
  /\ Transaction(o, CodeHead, TRUE)
  /\ UNCHANGED <<revision, rows, client>>

\* require_current_schema: one revision, and the code's.
SchemaCurrent(code) == code > 0 /\ revision = code

ResetEnds(o) ==
  /\ OperatorAt(o, "verify") /\ SchemaCurrent(CodeHead)
  /\ operator' = [operator EXCEPT ![o] = IdleOperator]
  /\ UNCHANGED <<revision, rows, client>>

-----------------------------------------------------------------------------
(* The application *)

\* A process starts if the schema is the one its release was built for, and never asks again.
StartClient(c) ==
  /\ client[c].release = 0
  /\ \E code \in Revisions : SchemaCurrent(code) /\ client' = [client EXCEPT ![c].release = code]
  /\ UNCHANGED <<revision, rows, operator>>

StopClient(c) ==
  /\ client[c].release # 0
  /\ client' = [client EXCEPT ![c] = [release |-> 0, writes |-> "none"]]
  /\ UNCHANGED <<revision, rows, operator>>

\* What the release writes fits the schema as it is now: content has an owner or it has not.
Fits(release, t) ==
  /\ t \in TablesAt(release) \cap TablesAt(revision)
  /\ t = "content" => (release >= Owned) = (revision >= Owned)

Insert(c, t) ==
  /\ client[c].release # 0 /\ client[c].writes = "none"
  /\ Fits(client[c].release, t)
  /\ \A o \in Operators : t \notin operator[o].locks
  /\ client' = [client EXCEPT ![c].writes = t]
  /\ UNCHANGED <<revision, rows, operator>>

CommitInsert(c) ==
  /\ client[c].writes # "none"
  /\ rows' = rows \cup {client[c].writes}
  /\ client' = [client EXCEPT ![c].writes = "none"]
  /\ UNCHANGED <<revision, operator>>

-----------------------------------------------------------------------------

OperatorStep(o) ==
  \/ Migrate(o) \/ LockTables(o) \/ CheckEmpty(o) \/ ApplyStep(o) \/ CommitMigration(o)
  \/ CommandFails(o) \/ ConfirmReset(o) \/ DropPublic(o) \/ UpgradeToHead(o) \/ ResetEnds(o)

ClientStep(c) ==
  \/ StartClient(c) \/ StopClient(c) \/ CommitInsert(c)
  \/ \E t \in Followed : Insert(c, t)

SchemaNext == (\E o \in Operators : OperatorStep(o)) \/ (\E c \in Clients : ClientStep(c))

SchemaSpec == SchemaInit /\ [][SchemaNext]_schemaVars

-----------------------------------------------------------------------------
(* Properties *)

\* The schema and its users stay within their types; rows are in tables that exist.
SchemaTypeOK ==
  /\ revision \in Revisions
  /\ rows \subseteq TablesAt(revision)
  /\ operator \in [Operators ->
       [pc : {"idle", "lock", "check", "apply", "commit", "drop", "upgrade", "verify"},
        read : Revisions, at : Revisions, to : Revisions, locks : SUBSET TablesAt(CodeHead),
        wrote : BOOLEAN, reset : BOOLEAN]]
  /\ client \in [Clients -> [release : Revisions, writes : Followed \cup {"none"}]]

\* The tables that some revision below protects: content that has an owner, credit, audit.
Protected(r) == UNION {Migrations[i].emptyDown : i \in 1 .. r}

\* Whatever the application writes while a migration runs, and whichever commands run at
\* the same time: no row of a protected table is lost but by a confirmed reset.
MigrationsKeepRows ==
  [][(\E o \in Operators : DropPublic(o)) \/ rows \cap Protected(revision) \subseteq rows']_schemaVars

=============================================================================
