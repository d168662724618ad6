----------------------------- MODULE ServerAdmin -----------------------------
(***************************************************************************)
(* One sigimora-server over its database: the start (db.rs migrations,     *)
(* main.rs bootstrap keys), the requests that manage API keys (auth.rs,    *)
(* routes/api_keys.rs, and network.rs, whose networks come with a key) and *)
(* the audit tasks they leave behind (audit.rs).                           *)
(*                                                                         *)
(* Every statement is a commit of its own.  The process may stop between   *)
(* any two, by a crash, a signal or an error that ends the start, and a    *)
(* request is dropped at any await when its client goes.  What committed   *)
(* survives the process (WAL); power failures are left out.                *)
(***************************************************************************)
EXTENDS Naturals, Sequences, FiniteSets, Functions

CONSTANTS
  Statements,  \* statements of each migration, in the order of their versions
  EnvKeys,     \* keys of SIGIMORA_BOOTSTRAP_KEYS; a default start has the empty one
  Short,       \* those that authenticate refuses for their length
  EnvLists,    \* the values the setting may have
  Requests,
  None,
  MaxStarts,   \* bounds: starts of the server,
  MaxRows      \* and rows ever inserted into api_keys

ASSUME AdminAssumption ==
  /\ Statements \in Seq(Nat \ {0}) \ {<<>>}
  /\ Short \subseteq EnvKeys /\ EnvLists \subseteq Seq(EnvKeys)
  /\ MaxStarts \in Nat /\ MaxRows \in Nat

VARIABLES
  tables,      \* statements of migrations whose tables and indexes exist
  versions,    \* schema_version
  keys,        \* api_keys
  auditLog,    \* audit_log
  phase,       \* where the process is
  starts,
  applied,     \* the versions this start has read
  migration,   \* the one its loop is at,
  next,        \* and the statement or the environment key that is next
  env,         \* the setting of this process
  req,         \* requests
  tasks,       \* audit entries still to be written
  rows,        \* rows ever inserted
  known,       \* raw keys that somebody was shown
  revoked,     \* rows deleted by requests
  gone         \* what became of admin keys: removed by requests, or never shown

db == <<tables, versions, keys, auditLog>>
start == <<starts, applied, migration, env>>
history == <<rows, known, revoked, gone>>
adminVars == <<db, phase, start, next, req, tasks, history>>

\* The text of a key: one of the environment, or the one generated for a row.
FromEnv(e) == <<"env", e>>
Generated(id) == <<"generated", id>>

Row(id, key, role) == [id |-> id, key |-> key, role |-> role, used |-> FALSE]

InsertApiKey(key, role) ==
  /\ rows < MaxRows
  /\ rows' = rows + 1
  /\ keys' = keys \cup {Row(rows + 1, key, role)}

ByHash(key) == {row \in keys : row.key = key}

-----------------------------------------------------------------------------
(* The start *)

Versions == DOMAIN Statements

\* The first statement creates schema_version, which the start reads.
Open(list) ==
  /\ phase = "down" /\ starts < MaxStarts
  /\ starts' = starts + 1 /\ env' = list
  /\ tables' = tables \cup {<<1, 1>>}
  /\ applied' = versions
  /\ phase' = "migrate" /\ migration' = 1 /\ next' = 1
  /\ known' = known \cup {FromEnv(e) : e \in Range(list)}
  /\ UNCHANGED <<versions, keys, auditLog, req, tasks, rows, revoked, gone>>

\* The loop over the migrations is at one that is not yet applied.
Applying == phase = "migrate" /\ migration \in Versions \ applied

SkipMigration ==
  /\ phase = "migrate" /\ migration \in Versions \cap applied
  /\ migration' = migration + 1
  /\ UNCHANGED <<db, phase, starts, applied, env, next, req, tasks, history>>

RunStatementRecordsFirst ==               \* the version's row goes before
  /\ Applying /\ next <= Statements[migration]
  /\ tables' = tables \cup {<<migration, next>>}
  /\ versions' = versions \cup {migration}
  /\ next' = next + 1
  /\ UNCHANGED <<keys, auditLog, phase, start, req, tasks, history>>

\* Each statement is executed on its own ...
RunStatement ==
  /\ Applying /\ next <= Statements[migration]
  /\ tables' = tables \cup {<<migration, next>>}
  /\ next' = next + 1
  /\ UNCHANGED <<versions, keys, auditLog, phase, start, req, tasks, history>>

\* ... and after them all the version is recorded.
RecordMigration ==
  /\ Applying /\ next > Statements[migration]
  /\ versions' = versions \cup {migration}
  /\ migration' = migration + 1 /\ next' = 1
  /\ UNCHANGED <<tables, keys, auditLog, phase, starts, applied, env, req, tasks, history>>

Migrate == SkipMigration \/ RunStatement \/ RecordMigration

\* The loop is through.
Migrated == phase = "migrate" /\ migration > Len(Statements)

BootstrapKeysFirstRun ==                  \* the environment's too only then
  /\ Migrated
  /\ IF keys = {}
       THEN /\ InsertApiKey(Generated(rows + 1), "admin")
            /\ phase' = "show" /\ next' = 1
            /\ gone' = gone \cup {<<"unseen", rows + 1>>}
       ELSE phase' = "env" /\ next' = Len(env) + 1 /\ UNCHANGED <<keys, rows, gone>>
  /\ UNCHANGED <<tables, versions, auditLog, start, req, tasks, known, revoked>>

\* A key is generated only when there is none at all.
BootstrapKey ==
  /\ Migrated
  /\ IF keys = {}
       THEN /\ InsertApiKey(Generated(rows + 1), "admin")
            /\ phase' = "show"
            /\ gone' = gone \cup {<<"unseen", rows + 1>>}
       ELSE phase' = "env" /\ UNCHANGED <<keys, rows, gone>>
  /\ next' = 1
  /\ UNCHANGED <<tables, versions, auditLog, start, req, tasks, known, revoked>>

\* And its text is logged once.
ShowKey ==
  /\ phase = "show"
  /\ known' = known \cup {Generated(rows)}
  /\ gone' = gone \ {<<"unseen", rows>>}
  /\ phase' = "env"
  /\ UNCHANGED <<db, start, next, req, tasks, rows, revoked>>

\* Keys of the environment are registered at every start.
EnvKey ==
  /\ phase = "env" /\ next <= Len(env)
  /\ IF ByHash(FromEnv(env[next])) = {}
       THEN InsertApiKey(FromEnv(env[next]), "admin")
       ELSE UNCHANGED <<keys, rows>>
  /\ next' = next + 1
  /\ UNCHANGED <<tables, versions, auditLog, phase, start, req, tasks, known, revoked, gone>>

Serve ==
  /\ phase = "env" /\ next = Len(env) + 1
  /\ phase' = "serving"
  /\ UNCHANGED <<db, start, next, req, tasks, history>>

-----------------------------------------------------------------------------
(* Requests *)

\* A key of the right length is looked up; without a row, or with another role
\* where only admins may go on, the request is refused and nothing changes.
Authenticate(r, key) ==
  \E row \in ByHash(key) :
    /\ phase = "serving" /\ req[r].pc = "idle"
    /\ key \notin {FromEnv(e) : e \in Short}
    /\ req' = [req EXCEPT ![r] = [pc |-> "touch", user |-> row, target |-> 0]]
    /\ UNCHANGED <<db, phase, start, next, tasks, history>>

TouchKeyInserts(r) ==                     \* an upsert instead of an update
  LET user == req[r].user
  IN  /\ req[r].pc = "touch"
      /\ keys' = {row \in keys : row.id # user.id} \cup {[user EXCEPT !.used = TRUE]}
      /\ req' = [req EXCEPT ![r].pc = "handle"]
      /\ UNCHANGED <<tables, versions, auditLog, phase, start, next, tasks, history>>

\* The last use is recorded, if the row is still there.
TouchKey(r) ==
  /\ req[r].pc = "touch"
  /\ keys' = {IF row.id = req[r].user.id THEN [row EXCEPT !.used = TRUE] ELSE row : row \in keys}
  /\ req' = [req EXCEPT ![r].pc = "handle"]
  /\ UNCHANGED <<tables, versions, auditLog, phase, start, next, tasks, history>>

IsAdmin(r) == req[r].user.role = "admin"

NewKey(r, role) ==
  /\ req[r].pc = "handle"
  /\ InsertApiKey(Generated(rows + 1), role)
  /\ req' = [req EXCEPT ![r].pc = "created", ![r].target = rows + 1]
  /\ UNCHANGED <<tables, versions, auditLog, phase, start, next, tasks, known, revoked, gone>>

CreateKey(r, role) == NewKey(r, role) /\ IsAdmin(r)

\* A new network comes with an admin key, whoever creates it.
CreateNetwork(r) == NewKey(r, "admin")

\* The answer is the only place the key is shown.
AnswerCreated(r) ==
  /\ req[r].pc = "created"
  /\ known' = known \cup {Generated(req[r].target)}
  /\ req' = [req EXCEPT ![r].pc = "done"]
  /\ UNCHANGED <<db, phase, start, next, tasks, rows, revoked, gone>>

DeleteKeyUnchecked(r, id) ==              \* whether or not a row was affected
  LET found == {row \in keys : row.id = id}
  IN  /\ req[r].pc = "handle" /\ IsAdmin(r)
      /\ keys' = keys \ found
      /\ revoked' = revoked \cup {row.id : row \in found}
      /\ gone' = gone \cup {<<"deleted", row.id>> : row \in {k \in found : k.role = "admin"}}
      /\ req' = [req EXCEPT ![r].pc = "removed", ![r].target = id]
      /\ UNCHANGED <<tables, versions, auditLog, phase, start, next, tasks, rows, known>>

DeleteKey(r, id) ==
  LET found == {row \in keys : row.id = id}
  IN  /\ req[r].pc = "handle" /\ IsAdmin(r)
      /\ keys' = keys \ found
      /\ revoked' = revoked \cup {row.id : row \in found}
      /\ gone' = gone \cup {<<"deleted", row.id>> : row \in {k \in found : k.role = "admin"}}
      /\ req' = [req EXCEPT ![r].pc = IF found = {} THEN "done" ELSE "removed", ![r].target = id]
      /\ UNCHANGED <<tables, versions, auditLog, phase, start, next, tasks, rows, known>>

\* A task is spawned for the audit entry, and the request answered.
AnswerDeleted(r) ==
  /\ req[r].pc = "removed"
  /\ tasks' = Append(tasks, [actor |-> req[r].user.id, target |-> req[r].target])
  /\ req' = [req EXCEPT ![r].pc = "deleted"]
  /\ UNCHANGED <<db, phase, start, next, history>>

\* The tasks run in any order.
WriteAudit(i) ==
  /\ phase = "serving" /\ i \in DOMAIN tasks
  /\ auditLog' = Append(auditLog, tasks[i])
  /\ tasks' = SubSeq(tasks, 1, i - 1) \o SubSeq(tasks, i + 1, Len(tasks))
  /\ UNCHANGED <<tables, versions, keys, phase, start, next, req, history>>

Answered == {"idle", "deleted", "done"}

\* The client goes, and what the request had still to do is not done.
DropRequest(r) ==
  /\ req[r].pc \notin Answered
  /\ req' = [req EXCEPT ![r].pc = "done"]
  /\ UNCHANGED <<db, phase, start, next, tasks, history>>

Stop ==
  /\ phase # "down"
  /\ phase' = "down"
  /\ req' = [r \in Requests |-> IF req[r].pc \in Answered THEN req[r]
                                ELSE [req[r] EXCEPT !.pc = "done"]]
  /\ tasks' = <<>>
  /\ UNCHANGED <<db, start, next, history>>

-----------------------------------------------------------------------------

AdminInit ==
  /\ tables = {} /\ versions = {} /\ keys = {} /\ auditLog = <<>>
  /\ phase = "down" /\ starts = 0 /\ applied = {} /\ migration = 1 /\ next = 1 /\ env = <<>>
  /\ req = [r \in Requests |-> [pc |-> "idle", user |-> None, target |-> 0]] /\ tasks = <<>>
  /\ rows = 0 /\ known = {} /\ revoked = {} /\ gone = {}

AdminNext ==
  \/ \E list \in EnvLists : Open(list)
  \/ Migrate \/ BootstrapKey \/ ShowKey \/ EnvKey \/ Serve \/ Stop
  \/ \E r \in Requests :
       \/ \E key \in known : Authenticate(r, key)
       \/ TouchKey(r) \/ AnswerCreated(r) \/ AnswerDeleted(r) \/ DropRequest(r)
       \/ CreateNetwork(r) \/ \E role \in {"admin", "user"} : CreateKey(r, role)
       \/ \E id \in 1..rows : DeleteKey(r, id)
  \/ \E i \in DOMAIN tasks : WriteAudit(i)

AdminSpec == AdminInit /\ [][AdminNext]_adminVars

-----------------------------------------------------------------------------
(* Properties. *)

\* Whichever statement an earlier start stopped at, the server goes on only with
\* every table and index of every version (db.rs:159-185).
SchemaComplete ==
  phase \in {"show", "env", "serving"} =>
    /\ versions = Versions
    /\ tables = UNION {{v} \X (1..Statements[v]) : v \in Versions}

\* A server that serves knows every key of its environment, and some admin key
\* can be used, unless requests deleted them or the process once stopped before
\* it showed the generated key (main.rs:281-308).  Neither is repaired by a
\* restart: any row, also the one of the empty default setting (config.rs:36),
\* keeps another key from being generated.
LockedOutOnlyByRequests ==
  LET usable == {row \in keys : row.role = "admin" /\ row.key \in known
                                /\ row.key \notin {FromEnv(e) : e \in Short}}
  IN  phase = "serving" =>
        /\ \A i \in DOMAIN env :
             \/ ByHash(FromEnv(env[i])) # {}
             \/ \E id \in revoked : <<"deleted", id>> \in gone
        /\ usable # {} \/ gone # {}

\* Of several requests that delete the same key one is answered that it did, and
\* the audit log has at most one entry for it, and none for a key that is there
\* (db.rs:273-278, api_keys.rs:91-97).
OneDeletion ==
  /\ \A r, s \in Requests :
       req[r].pc = "deleted" /\ req[s].pc = "deleted" /\ req[r].target = req[s].target => r = s
  /\ \A i, j \in DOMAIN auditLog : auditLog[i].target = auditLog[j].target => i = j
  /\ \A i \in DOMAIN auditLog :
       auditLog[i].target \in revoked /\ auditLog[i].target \notin {row.id : row \in keys}

\* How a row may be in the table after a step: it was there; or it is new, with
\* a new text, or with one that a start takes from its environment.
Accounted(row) ==
  \/ \E old \in keys : old.id = row.id /\ old.key = row.key
  \/ row.id > rows /\ row.key = Generated(row.id)
  \/ row.id > rows /\ phase = "env" /\ row.key \in {FromEnv(e) : e \in Range(env)}

\* A row that was deleted does not come back, not by a request that had found it
\* before and records its use after (auth.rs:124-134), nor by a restart.  A text
\* that no row has any more comes back in one way only: a start registers the
\* keys of its environment, also those that were deleted (main.rs:293-308).
RevokedStaysRevoked ==
  [][\A row \in keys' : row.id \notin revoked' /\ Accounted(row)]_adminVars
=============================================================================
