-------------------------- MODULE ServerAdminProofs --------------------------
(***************************************************************************)
(* Proofs about ServerAdmin, for any number of starts, requests and rows   *)
(* and any settings: what is deleted stays deleted, is answered and        *)
(* audited once, and nobody is locked out but by requests or a start that  *)
(* stopped before it showed its key.                                       *)
(***************************************************************************)
EXTENDS ServerAdmin, TLAPS

KeyTexts == {FromEnv(e) : e \in EnvKeys} \cup {Generated(id) : id \in Nat}

Rows == [id : Nat, key : KeyTexts, role : {"admin", "user"}, used : BOOLEAN]

Entries == [actor : Nat, target : Nat]

Pcs == {"idle", "touch", "handle", "created", "removed", "deleted", "done"}

Frames == [pc : Pcs, user : Rows \cup {None}, target : Nat]

TypeInv ==
  /\ keys \subseteq Rows /\ rows \in Nat /\ revoked \subseteq 1..rows
  /\ req \in [Requests -> Frames]
  /\ auditLog \in Seq(Entries) /\ tasks \in Seq(Entries)
  /\ next \in Nat \ {0} /\ env \in Seq(EnvKeys)

\* Only a request that found a row goes on, and only while the server serves.
ActiveInv ==
  \A r \in Requests :
    /\ req[r].pc \in {"touch", "handle", "removed"} => req[r].user \in Rows
    /\ req[r].pc \notin Answered => phase = "serving"

\* Rows are numbered as they are inserted, and a key of the environment is an
\* admin's.
RowsInv ==
  \A row \in keys :
    /\ row.id \in 1..rows /\ row.id \notin revoked
    /\ \/ row.key = Generated(row.id)
       \/ row.role = "admin" /\ row.key \in {FromEnv(e) : e \in EnvKeys}

-----------------------------------------------------------------------------
(* Facts about the operators. *)

\* The texts of keys differ as their sources do.
LEMMA TextsDiffer ==
  /\ \A e, id : FromEnv(e) # Generated(id)
  /\ \A i, j : Generated(i) = Generated(j) => i = j
  BY DEF FromEnv, Generated

\* A row whose use is recorded is otherwise as it was.
LEMMA UsedRow ==
  ASSUME NEW row \in Rows
  PROVE  LET u == [row EXCEPT !.used = TRUE]
         IN  u \in Rows /\ u.id = row.id /\ u.key = row.key /\ u.role = row.role
  BY DEF Rows

\* A new row has the next number, and is like no other.
LEMMA NewRow ==
  ASSUME rows \in Nat, NEW key \in KeyTexts, NEW role \in {"admin", "user"}
  PROVE  LET n == Row(rows + 1, key, role)
         IN  n \in Rows /\ n.id = rows + 1 /\ n.key = key /\ n.role = role
  BY DEF Rows, Row

\* The locals of a request that goes on.
GoTo(r, pc) == [req EXCEPT ![r].pc = pc]
GoToWith(r, pc, id) == [req EXCEPT ![r].pc = pc, ![r].target = id]

LEMMA GoToFrame ==
  ASSUME req \in [Requests -> Frames], NEW r \in Requests, NEW pc \in Pcs
  PROVE  /\ GoTo(r, pc) \in [Requests -> Frames]
         /\ \A s \in Requests \ {r} : GoTo(r, pc)[s] = req[s]
         /\ GoTo(r, pc)[r].pc = pc /\ GoTo(r, pc)[r].user = req[r].user
         /\ GoTo(r, pc)[r].target = req[r].target
  BY DEF Frames, GoTo

LEMMA GoToWithFrame ==
  ASSUME req \in [Requests -> Frames], NEW r \in Requests, NEW pc \in Pcs, NEW id \in Nat
  PROVE  /\ GoToWith(r, pc, id) \in [Requests -> Frames]
         /\ \A s \in Requests \ {r} : GoToWith(r, pc, id)[s] = req[s]
         /\ GoToWith(r, pc, id)[r].pc = pc /\ GoToWith(r, pc, id)[r].user = req[r].user
         /\ GoToWith(r, pc, id)[r].target = id
  BY DEF Frames, GoToWith

\* What the steps of requests do to their locals.
LEMMA Moves ==
  ASSUME NEW r \in Requests
  PROVE  /\ TouchKey(r) => req' = GoTo(r, "handle")
         /\ AnswerCreated(r) => req' = GoTo(r, "done")
         /\ AnswerDeleted(r) => req' = GoTo(r, "deleted")
         /\ DropRequest(r) => req' = GoTo(r, "done")
         /\ \A role : NewKey(r, role) => req' = GoToWith(r, "created", rows + 1)
         /\ \A id : DeleteKey(r, id) =>
              req' = GoToWith(r, IF {row \in keys : row.id = id} = {} THEN "done" ELSE "removed",
                              id)
  BY DEF GoTo, GoToWith, TouchKey, AnswerCreated, AnswerDeleted, DropRequest, NewKey, DeleteKey

\* Removing an element leaves the others, in order.
LEMMA Without ==
  ASSUME NEW S, NEW s \in Seq(S), NEW i \in DOMAIN s
  PROVE  LET w == SubSeq(s, 1, i - 1) \o SubSeq(s, i + 1, Len(s))
         IN  /\ w \in Seq(S) /\ Len(w) = Len(s) - 1
             /\ \A k \in 1..Len(w) : w[k] = s[IF k < i THEN k ELSE k + 1]
<1> DEFINE a == SubSeq(s, 1, i - 1)
           b == SubSeq(s, i + 1, Len(s))
<1>1. i \in 1..Len(s) /\ Len(s) \in Nat
  OBVIOUS
<1>2. a \in Seq(S) /\ Len(a) = i - 1 /\ \A k \in 1..(i - 1) : a[k] = s[k]
  BY <1>1
<1>3. b \in Seq(S) /\ Len(b) = Len(s) - i /\ \A k \in 1..(Len(s) - i) : b[k] = s[i + k]
  BY <1>1
<1> HIDE DEF a, b
<1>4. /\ a \o b \in Seq(S) /\ Len(a \o b) = Len(s) - 1
      /\ \A k \in 1..(Len(s) - 1) :
           (a \o b)[k] = IF k <= Len(a) THEN a[k] ELSE b[k - Len(a)]
  BY <1>1, <1>2, <1>3
<1>5. ASSUME NEW k \in 1..(Len(s) - 1) PROVE (a \o b)[k] = s[IF k < i THEN k ELSE k + 1]
  <2>1. CASE k < i
    BY <1>1, <1>2, <1>4, <2>1
  <2>2. CASE ~(k < i)
    <3>1. k - (i - 1) \in 1..(Len(s) - i) /\ i + (k - (i - 1)) = k + 1
      BY <1>1, <2>2
    <3>2. b[k - (i - 1)] = s[k + 1]
      BY <1>3, <3>1
    <3>3. ~(k <= Len(a)) /\ k - Len(a) = k - (i - 1) /\ ~(k < i)
      BY <1>1, <1>2, <2>2
    <3>4. QED
      BY <1>4, <3>2, <3>3
  <2>3. QED
    BY <2>1, <2>2
<1>6. QED
  BY <1>4, <1>5 DEF a, b

-----------------------------------------------------------------------------
(* Types, and where requests are. *)

LEMMA InitType == AdminInit => TypeInv /\ ActiveInv /\ RowsInv
<1> SUFFICES ASSUME AdminInit PROVE TypeInv /\ ActiveInv /\ RowsInv
  OBVIOUS
<1>1. req \in [Requests -> Frames] /\ \A r \in Requests : req[r].pc = "idle"
  BY DEF AdminInit, Frames, Pcs
<1>2. QED
  BY <1>1 DEF AdminInit, TypeInv, ActiveInv, RowsInv, Answered

\* The loop over the migrations leaves the keys and everything about them alone.
LEMMA MigrateFrame ==
  ASSUME Migrate
  PROVE  /\ phase = "migrate" /\ phase' = phase /\ next' \in {1, next, next + 1}
         /\ UNCHANGED <<keys, rows, known, revoked, gone, req, auditLog, tasks, env>>
  BY DEF Migrate, SkipMigration, RunStatement, RecordMigration, Applying, db, start, history

\* Every step keeps the types.
LEMMA NextType == ASSUME TypeInv, ActiveInv, RowsInv, AdminNext PROVE TypeInv'
<1> USE AdminAssumption DEF TypeInv, db, start, history
<1>1. ASSUME NEW list \in EnvLists, Open(list) PROVE TypeInv'
  BY <1>1 DEF Open
<1>2. CASE Migrate
  <2>1. /\ next' \in {1, next, next + 1}
        /\ UNCHANGED <<keys, rows, revoked, req, auditLog, tasks, env>>
    BY <1>2, MigrateFrame
  <2>2. QED
    BY <2>1
<1>3. CASE BootstrapKey
  <2>0. rows + 1 \in Nat
    OBVIOUS
  <2>1. Generated(rows + 1) \in KeyTexts
    BY <2>0 DEF KeyTexts
  <2>2. keys' \subseteq Rows /\ rows' \in Nat /\ rows' >= rows
    BY <1>3, <2>1, NewRow DEF BootstrapKey, InsertApiKey
  <2>3. QED
    BY <1>3, <2>2 DEF BootstrapKey
<1>4. CASE ShowKey
  BY <1>4 DEF ShowKey
<1>5. CASE EnvKey
  <2>1. FromEnv(env[next]) \in KeyTexts
    BY <1>5 DEF KeyTexts, EnvKey
  <2>2. keys' \subseteq Rows /\ rows' \in Nat /\ rows' >= rows
    BY <1>5, <2>1, NewRow DEF EnvKey, InsertApiKey
  <2>3. QED
    BY <1>5, <2>2 DEF EnvKey
<1>6. CASE Serve
  BY <1>6 DEF Serve
<1>7. CASE Stop
  <2>1. \A r \in Requests : [req[r] EXCEPT !.pc = "done"] \in Frames
    BY DEF Frames, Pcs
  <2>2. req' \in [Requests -> Frames]
    BY <1>7, <2>1 DEF Stop
  <2>3. QED
    BY <1>7, <2>2 DEF Stop
<1>8. ASSUME NEW r \in Requests, NEW key, Authenticate(r, key) PROVE TypeInv'
  <2>1. PICK row \in keys : req' = [req EXCEPT ![r] = [pc |-> "touch", user |-> row, target |-> 0]]
    BY <1>8 DEF Authenticate, ByHash
  <2>2. [pc |-> "touch", user |-> row, target |-> 0] \in Frames
    BY <2>1 DEF Frames, Pcs
  <2>3. req' \in [Requests -> Frames]
    BY <2>1, <2>2
  <2>4. QED
    BY <1>8, <2>3 DEF Authenticate
<1>9. ASSUME NEW r \in Requests, TouchKey(r) PROVE TypeInv'
  <2>1. keys' \subseteq Rows
    BY <1>9, UsedRow DEF TouchKey
  <2>2. req' \in [Requests -> Frames]
    BY <1>9, Moves, GoToFrame DEF Pcs
  <2>3. QED
    BY <1>9, <2>1, <2>2 DEF TouchKey
<1>10. ASSUME NEW r \in Requests, NEW role \in {"admin", "user"}, NewKey(r, role)
       PROVE  TypeInv'
  <2>0. rows + 1 \in Nat
    OBVIOUS
  <2>1. Generated(rows + 1) \in KeyTexts
    BY <2>0 DEF KeyTexts
  <2>2. keys' \subseteq Rows /\ rows' \in Nat /\ rows' >= rows
    BY <1>10, <2>1, NewRow DEF NewKey, InsertApiKey
  <2>3. req' \in [Requests -> Frames]
    <3>1. "created" \in Pcs /\ rows + 1 \in Nat /\ req' = GoToWith(r, "created", rows + 1)
      BY <1>10, Moves DEF Pcs
    <3>2. QED
      BY <3>1, GoToWithFrame
  <2>4. QED
    BY <1>10, <2>2, <2>3 DEF NewKey
<1>11. ASSUME NEW r \in Requests, AnswerCreated(r) PROVE TypeInv'
  <2>1. req' \in [Requests -> Frames]
    BY <1>11, Moves, GoToFrame DEF Pcs
  <2>2. QED
    BY <1>11, <2>1 DEF AnswerCreated
<1>12. ASSUME NEW r \in Requests, NEW id \in 1..rows, DeleteKey(r, id)
       PROVE  TypeInv'
  <2> DEFINE pc == IF {row \in keys : row.id = id} = {} THEN "done" ELSE "removed"
  <2>0. pc \in Pcs /\ id \in Nat /\ req' = GoToWith(r, pc, id)
    <3>1. req' = GoToWith(r, pc, id)
      BY <1>12, Moves
    <3>2. pc \in Pcs
      BY DEF Pcs
    <3>3. id \in Nat
      OBVIOUS
    <3>4. QED
      BY <3>1, <3>2, <3>3
  <2>1. req' \in [Requests -> Frames]
    BY <2>0, GoToWithFrame
  <2>2. keys' \subseteq Rows /\ revoked' \subseteq 1..rows'
    BY <1>12 DEF DeleteKey, RowsInv
  <2>3. QED
    BY <1>12, <2>1, <2>2 DEF DeleteKey
<1>13. ASSUME NEW r \in Requests, AnswerDeleted(r) PROVE TypeInv'
  <2>1. req' \in [Requests -> Frames]
    BY <1>13, Moves, GoToFrame DEF Pcs
  <2>2. [actor |-> req[r].user.id, target |-> req[r].target] \in Entries
    BY <1>13 DEF AnswerDeleted, ActiveInv, Rows, Frames, Entries
  <2>3. tasks' \in Seq(Entries)
    BY <1>13, <2>2 DEF AnswerDeleted
  <2>4. QED
    BY <1>13, <2>1, <2>3 DEF AnswerDeleted
<1>14. ASSUME NEW r \in Requests, DropRequest(r) PROVE TypeInv'
  <2>1. req' \in [Requests -> Frames]
    BY <1>14, Moves, GoToFrame DEF Pcs
  <2>2. QED
    BY <1>14, <2>1 DEF DropRequest
<1>15. ASSUME NEW i \in DOMAIN tasks, WriteAudit(i) PROVE TypeInv'
  <2>1. tasks' \in Seq(Entries)
    BY <1>15, Without DEF WriteAudit
  <2>3. tasks[i] \in Entries
    BY <1>15
  <2>4. auditLog' \in Seq(Entries)
    BY <1>15, <2>3 DEF WriteAudit
  <2>5. QED
    BY <1>15, <2>1, <2>4 DEF WriteAudit
<1>16. QED
  BY <1>1, <1>2, <1>3, <1>4, <1>5, <1>6, <1>7, <1>8, <1>9, <1>10, <1>11, <1>12, <1>13, <1>14,
     <1>15 DEF AdminNext, CreateKey, CreateNetwork
\* Only the serving process has requests that go on.
LEMMA NextActive == ASSUME TypeInv, ActiveInv, AdminNext PROVE ActiveInv'
<1> USE DEF ActiveInv, Answered, db, start, history
<1>0. req \in [Requests -> Frames] /\ keys \subseteq Rows
  BY DEF TypeInv
<1>1. ASSUME \/ \E list \in EnvLists : Open(list)
             \/ Migrate \/ BootstrapKey \/ ShowKey \/ EnvKey \/ Serve
      PROVE  ActiveInv'
  <2>1. req' = req /\ phase # "serving"
    BY <1>1, MigrateFrame DEF Open, BootstrapKey, Migrated, ShowKey, EnvKey, Serve
  <2>2. QED
    BY <2>1
<1>2. CASE Stop
  <2>1. ASSUME NEW r \in Requests PROVE req'[r].pc \in Answered
    <3>1. CASE req[r].pc \in Answered
      BY <1>0, <1>2, <3>1 DEF Stop
    <3>2. CASE req[r].pc \notin Answered
      BY <1>0, <1>2, <3>2 DEF Stop, Frames
    <3>3. QED
      BY <3>1, <3>2
  <2>2. QED
    BY <2>1
<1>3. ASSUME NEW r \in Requests, NEW key, Authenticate(r, key) PROVE ActiveInv'
  <2>1. PICK row \in keys :
          /\ req' = [req EXCEPT ![r] = [pc |-> "touch", user |-> row, target |-> 0]]
          /\ phase = "serving" /\ phase' = phase
    BY <1>3 DEF Authenticate, ByHash
  <2>2. req'[r].user \in Rows /\ \A s \in Requests \ {r} : req'[s] = req[s]
    BY <1>0, <2>1
  <2>3. QED
    BY <2>1, <2>2
<1>4. ASSUME NEW r \in Requests, TouchKey(r) PROVE ActiveInv'
  <2>1. req[r].pc = "touch" /\ phase' = phase /\ req' = GoTo(r, "handle")
    BY <1>4, Moves DEF TouchKey
  <2>2. req'[r].user = req[r].user /\ \A s \in Requests \ {r} : req'[s] = req[s]
    BY <1>0, <2>1, GoToFrame DEF Pcs
  <2>3. QED
    BY <2>1, <2>2
<1>5. ASSUME NEW r \in Requests, AnswerCreated(r) \/ AnswerDeleted(r) \/ DropRequest(r)
      PROVE  ActiveInv'
  <2>1. PICK pc \in {"done", "deleted"} : req' = GoTo(r, pc) /\ phase' = phase
    BY <1>5, Moves DEF AnswerCreated, AnswerDeleted, DropRequest
  <2>2. req'[r].pc = pc /\ \A s \in Requests \ {r} : req'[s] = req[s]
    BY <1>0, <2>1, GoToFrame DEF Pcs
  <2>3. QED
    BY <2>1, <2>2
<1>6. ASSUME NEW r \in Requests, NEW role \in {"admin", "user"}, NewKey(r, role)
      PROVE  ActiveInv'
  <2>0. req' = GoToWith(r, "created", rows + 1)
    BY <1>6, Moves
  <2>1. req[r].pc = "handle" /\ phase' = phase /\ rows + 1 \in Nat
    BY <1>6 DEF NewKey, TypeInv
  <2>2. req'[r].pc = "created" /\ \A s \in Requests \ {r} : req'[s] = req[s]
    BY <1>0, <2>0, <2>1, GoToWithFrame DEF Pcs
  <2>3. QED
    BY <2>1, <2>2
<1>7. ASSUME NEW r \in Requests, NEW id \in 1..rows, DeleteKey(r, id) PROVE ActiveInv'
  <2> DEFINE pc == IF {row \in keys : row.id = id} = {} THEN "done" ELSE "removed"
  <2>0. pc \in Pcs /\ req' = GoToWith(r, pc, id)
    BY <1>7, Moves DEF Pcs
  <2>1. req[r].pc = "handle" /\ phase' = phase /\ id \in Nat
    BY <1>7 DEF DeleteKey, TypeInv
  <2>2. req'[r].user = req[r].user /\ \A s \in Requests \ {r} : req'[s] = req[s]
    BY <1>0, <2>0, <2>1, GoToWithFrame
  <2>3. QED
    BY <2>1, <2>2
<1>8. ASSUME NEW i \in DOMAIN tasks, WriteAudit(i) PROVE ActiveInv'
  BY <1>8 DEF WriteAudit
<1>9. QED
  BY <1>1, <1>2, <1>3, <1>4, <1>5, <1>6, <1>7, <1>8 DEF AdminNext, CreateKey, CreateNetwork

-----------------------------------------------------------------------------
(* Rows. *)

\* A step that inserts a row gives it a number of its own.
LEMMA InsertKeeps ==
  ASSUME TypeInv, RowsInv, NEW key, NEW role \in {"admin", "user"}, InsertApiKey(key, role),
         revoked' = revoked,
         \/ key = Generated(rows + 1)
         \/ role = "admin" /\ key \in {FromEnv(e) : e \in EnvKeys}
  PROVE  RowsInv'
<1>1. key \in KeyTexts /\ rows \in Nat /\ rows + 1 \in Nat
  BY DEF KeyTexts, TypeInv
<1>2. PICK row : /\ row.id = rows + 1 /\ row.key = key /\ row.role = role
                 /\ keys' = keys \cup {row} /\ rows' = rows + 1
  BY <1>1, NewRow DEF InsertApiKey
<1>3. rows + 1 \notin revoked /\ 1..rows \subseteq 1..rows' /\ rows + 1 \in 1..rows'
  BY <1>1, <1>2 DEF TypeInv
<1>4. QED
  BY <1>2, <1>3 DEF RowsInv

\* Every step keeps rows numbered, and what is deleted away.
LEMMA NextRows == ASSUME TypeInv, RowsInv, AdminNext PROVE RowsInv'
<1> USE DEF db, start, history
<1>1. CASE UNCHANGED <<keys, rows, revoked>>
  BY <1>1 DEF RowsInv
<1>2. ASSUME BootstrapKey, keys = {} PROVE RowsInv'
  BY <1>2, InsertKeeps DEF BootstrapKey
<1>3. ASSUME EnvKey, ByHash(FromEnv(env[next])) = {} PROVE RowsInv'
  <2>1. env[next] \in EnvKeys
    BY <1>3 DEF EnvKey, TypeInv
  <2>2. QED
    BY <1>3, <2>1, InsertKeeps DEF EnvKey
<1>4. ASSUME NEW r \in Requests, NEW role \in {"admin", "user"}, NewKey(r, role)
      PROVE  RowsInv'
  BY <1>4, InsertKeeps DEF NewKey
<1>5. ASSUME NEW r \in Requests, TouchKey(r) PROVE RowsInv'
  <2>1. ASSUME NEW row \in keys'
        PROVE  \E old \in keys : old.id = row.id /\ old.key = row.key /\ old.role = row.role
    <3>1. PICK old \in keys : row = old \/ row = [old EXCEPT !.used = TRUE]
      BY <1>5 DEF TouchKey
    <3>2. old \in Rows
      BY DEF TypeInv
    <3>3. QED
      BY <3>1, <3>2, UsedRow
  <2>2. rows' = rows /\ revoked' = revoked
    BY <1>5 DEF TouchKey
  <2>3. QED
    BY <2>1, <2>2 DEF RowsInv
<1>6. ASSUME NEW r \in Requests, NEW id \in 1..rows, DeleteKey(r, id) PROVE RowsInv'
  <2>1. /\ keys' = {row \in keys : row.id # id} /\ rows' = rows
        /\ \A i \in revoked' : i \in revoked \/ i = id
    BY <1>6 DEF DeleteKey
  <2>2. QED
    BY <2>1 DEF RowsInv
<1>7. QED
  <2>1. ASSUME BootstrapKey, keys # {} PROVE UNCHANGED <<keys, rows, revoked>>
    BY <2>1 DEF BootstrapKey
  <2>2. ASSUME EnvKey, ByHash(FromEnv(env[next])) # {} PROVE UNCHANGED <<keys, rows, revoked>>
    BY <2>2 DEF EnvKey
  <2>3. ASSUME NEW list \in EnvLists, Open(list) PROVE UNCHANGED <<keys, rows, revoked>>
    BY <2>3 DEF Open
  <2>4. ASSUME Migrate \/ ShowKey \/ Serve \/ Stop PROVE UNCHANGED <<keys, rows, revoked>>
    BY <2>4, MigrateFrame DEF ShowKey, Serve, Stop
  <2>5. ASSUME NEW r \in Requests, NEW key,
               Authenticate(r, key) \/ AnswerCreated(r) \/ AnswerDeleted(r) \/ DropRequest(r)
        PROVE  UNCHANGED <<keys, rows, revoked>>
    BY <2>5 DEF Authenticate, AnswerCreated, AnswerDeleted, DropRequest
  <2>6. ASSUME NEW i \in DOMAIN tasks, WriteAudit(i) PROVE UNCHANGED <<keys, rows, revoked>>
    BY <2>6 DEF WriteAudit
  <2>7. QED
    BY <1>1, <1>2, <1>3, <1>4, <1>5, <1>6, <2>1, <2>2, <2>3, <2>4, <2>5, <2>6
       DEF AdminNext, CreateKey, CreateNetwork
-----------------------------------------------------------------------------
(* Deletions and their audit entries. *)

Deleting(r) == req[r].pc \in {"removed", "deleted"}

\* Requests that deleted a row did not delete the same one.
DeletingInv ==
  \A r \in Requests : Deleting(r) =>
    /\ req[r].target \in revoked
    /\ \A s \in Requests : Deleting(s) /\ req[s].target = req[r].target => r = s

\* The rows whose deletion was answered.
Claims == {req[r].target : r \in {s \in Requests : req[s].pc = "deleted"}}

\* Every entry is that of an answered request, and no two are of the same row.
EntriesInv ==
  /\ \A i \in DOMAIN auditLog : auditLog[i].target \in Claims
  /\ \A i \in DOMAIN tasks : tasks[i].target \in Claims
  /\ \A i, j \in DOMAIN auditLog : auditLog[i].target = auditLog[j].target => i = j
  /\ \A i, j \in DOMAIN tasks : tasks[i].target = tasks[j].target => i = j
  /\ \A i \in DOMAIN auditLog, j \in DOMAIN tasks : auditLog[i].target # tasks[j].target

\* A request that neither deletes nor answers leaves every claim alone.
LEMMA ClaimsKept ==
  ASSUME DeletingInv, EntriesInv, revoked' = revoked, auditLog' = auditLog,
         tasks' = tasks \/ tasks' = <<>>,
         \A r \in Requests :
           \/ req'[r].pc = req[r].pc /\ req'[r].target = req[r].target
           \/ req[r].pc # "deleted" /\ req'[r].pc \notin {"removed", "deleted"}
  PROVE  DeletingInv' /\ EntriesInv'
<1>1. \A r \in Requests : Deleting(r)' => Deleting(r) /\ req'[r].target = req[r].target
  BY DEF Deleting
<1>2. DeletingInv'
  BY <1>1 DEF DeletingInv
<1>3. Claims \subseteq Claims'
  <2>1. \A r \in Requests : req[r].pc = "deleted" =>
          req'[r].pc = "deleted" /\ req'[r].target = req[r].target
    OBVIOUS
  <2>2. QED
    BY <2>1 DEF Claims
<1>4. EntriesInv'
  <2>1. CASE tasks' = tasks
    <3>1. \A i \in DOMAIN auditLog' : auditLog'[i].target \in Claims'
      BY <1>3 DEF EntriesInv
    <3>2. \A i \in DOMAIN tasks' : tasks'[i].target \in Claims'
      BY <1>3, <2>1 DEF EntriesInv
    <3>3. QED
      BY <2>1, <3>1, <3>2 DEF EntriesInv
  <2>2. CASE tasks' = <<>>
    <3>1. \A i \in DOMAIN auditLog' : auditLog'[i].target \in Claims'
      BY <1>3 DEF EntriesInv
    <3>2. DOMAIN tasks' = {}
      BY <2>2
    <3>3. QED
      BY <3>1, <3>2 DEF EntriesInv
  <2>3. QED
    BY <2>1, <2>2
<1>5. QED
  BY <1>2, <1>4

\* DELETE finds a row that nobody has deleted.
LEMMA DeleteKeeps ==
  ASSUME TypeInv, RowsInv, DeletingInv, EntriesInv, NEW r \in Requests, NEW id \in 1..rows,
         DeleteKey(r, id)
  PROVE  DeletingInv' /\ EntriesInv'
<1> DEFINE found == {row \in keys : row.id = id}
           pc == IF found = {} THEN "done" ELSE "removed"
<1>1. pc \in Pcs /\ id \in Nat /\ req' = GoToWith(r, pc, id)
  BY Moves DEF Pcs, TypeInv
<1>2. /\ req'[r].pc = pc /\ req'[r].target = id /\ req[r].pc = "handle"
      /\ \A s \in Requests \ {r} : req'[s] = req[s]
  BY <1>1, GoToWithFrame DEF TypeInv, DeleteKey
<1>3. auditLog' = auditLog /\ tasks' = tasks /\ revoked' = revoked \cup {row.id : row \in found}
  BY DEF DeleteKey
<1>4. CASE found = {}
  BY <1>2, <1>3, <1>4, ClaimsKept
<1>5. CASE found # {}
  <2>1. id \notin revoked /\ id \in revoked'
    BY <1>3, <1>5 DEF RowsInv
  <2>2. \A s \in Requests \ {r} : /\ Deleting(s)' <=> Deleting(s)
                                 /\ req'[s].target = req[s].target
    BY <1>2 DEF Deleting
  <2>3. \A s \in Requests \ {r} : Deleting(s)' => req'[s].target \in revoked /\ req'[s].target # id
    BY <2>1, <2>2 DEF DeletingInv
  <2>4. DeletingInv'
    <3>1. ASSUME NEW s \in Requests, NEW u \in Requests, Deleting(s)', Deleting(u)',
                 req'[u].target = req'[s].target
          PROVE  s = u
      <4>1. CASE s = r \/ u = r
        BY <1>2, <2>3, <3>1, <4>1
      <4>2. CASE s # r /\ u # r
        BY <2>2, <3>1, <4>2 DEF DeletingInv
      <4>3. QED
        BY <4>1, <4>2
    <3>2. ASSUME NEW s \in Requests, Deleting(s)' PROVE req'[s].target \in revoked'
      BY <1>2, <1>3, <2>1, <2>3, <3>2
    <3>3. QED
      BY <3>1, <3>2 DEF DeletingInv
  <2>5. Claims \subseteq Claims'
    <3>1. \A s \in Requests : req[s].pc = "deleted" =>
            req'[s].pc = "deleted" /\ req'[s].target = req[s].target
      BY <1>2
    <3>2. QED
      BY <3>1 DEF Claims
  <2>6. EntriesInv'
    <3>1. \A i \in DOMAIN auditLog' : auditLog'[i].target \in Claims'
      BY <1>3, <2>5 DEF EntriesInv
    <3>2. \A i \in DOMAIN tasks' : tasks'[i].target \in Claims'
      BY <1>3, <2>5 DEF EntriesInv
    <3>3. QED
      BY <1>3, <3>1, <3>2 DEF EntriesInv
  <2>7. QED
    BY <2>4, <2>6
<1>6. QED
  BY <1>4, <1>5

\* The answer adds an entry for a row that has none.
LEMMA AnswerKeeps ==
  ASSUME TypeInv, DeletingInv, EntriesInv, NEW r \in Requests, AnswerDeleted(r)
  PROVE  DeletingInv' /\ EntriesInv'
<1> DEFINE entry == [actor |-> req[r].user.id, target |-> req[r].target]
<1>1. /\ req'[r].pc = "deleted" /\ req'[r].target = req[r].target /\ req[r].pc = "removed"
      /\ \A s \in Requests \ {r} : req'[s] = req[s]
  BY Moves, GoToFrame DEF TypeInv, AnswerDeleted, Pcs
<1>2. /\ auditLog' = auditLog /\ revoked' = revoked /\ tasks' = Append(tasks, entry)
  BY DEF AnswerDeleted, db, history
<1>3. \A s \in Requests : /\ Deleting(s)' <=> Deleting(s)
                         /\ req'[s].target = req[s].target
  BY <1>1 DEF Deleting
<1>4. DeletingInv'
  BY <1>2, <1>3 DEF DeletingInv
<1>5. Claims \subseteq Claims' /\ entry.target \in Claims'
  <2>1. req'[r].pc = "deleted" /\ req'[r].target = entry.target
    BY <1>1
  <2>2. \A s \in Requests : req[s].pc = "deleted" =>
          req'[s].pc = "deleted" /\ req'[s].target = req[s].target
    BY <1>1
  <2>3. QED
    BY <2>1, <2>2 DEF Claims
<1>6. entry.target \notin Claims
  BY <1>1 DEF Claims, DeletingInv, Deleting
<1>7. /\ DOMAIN tasks' = 1..(Len(tasks) + 1) /\ DOMAIN tasks = 1..Len(tasks) /\ Len(tasks) \in Nat
      /\ tasks'[Len(tasks) + 1] = entry
      /\ \A i \in DOMAIN tasks : tasks'[i] = tasks[i]
  BY <1>2 DEF TypeInv
<1> HIDE DEF entry
<1>8. \A i \in DOMAIN tasks' : i \in DOMAIN tasks \/ i = Len(tasks) + 1
  BY <1>7
<1>9. \A i \in DOMAIN auditLog' :
        /\ auditLog'[i].target \in Claims'
        /\ auditLog'[i].target # entry.target
  BY <1>2, <1>5, <1>6 DEF EntriesInv
<1>10. \A i \in DOMAIN tasks :
         /\ tasks'[i].target \in Claims'
         /\ tasks[i].target # entry.target
  BY <1>5, <1>6, <1>7 DEF EntriesInv
<1>11. \A i \in DOMAIN tasks' : tasks'[i].target \in Claims'
  BY <1>5, <1>7, <1>8, <1>10
<1>12. \A i, j \in DOMAIN tasks' : tasks'[i].target = tasks'[j].target => i = j
  BY <1>7, <1>8, <1>10 DEF EntriesInv
<1>13. \A i \in DOMAIN auditLog', j \in DOMAIN tasks' : auditLog'[i].target # tasks'[j].target
  BY <1>2, <1>7, <1>8, <1>9 DEF EntriesInv
<1>14. \A i, j \in DOMAIN auditLog' : auditLog'[i].target = auditLog'[j].target => i = j
  BY <1>2 DEF EntriesInv
<1>15. EntriesInv'
  BY <1>9, <1>11, <1>12, <1>13, <1>14 DEF EntriesInv
<1>16. QED
  BY <1>4, <1>15

\* Writing an entry moves it from the tasks to the log.
LEMMA WriteKeeps ==
  ASSUME TypeInv, DeletingInv, EntriesInv, NEW k \in DOMAIN tasks, WriteAudit(k)
  PROVE  DeletingInv' /\ EntriesInv'
<1>1. req' = req /\ revoked' = revoked /\ auditLog' = Append(auditLog, tasks[k])
  BY DEF WriteAudit, history
<1>2. DeletingInv'
  BY <1>1 DEF DeletingInv, Deleting
<1>3. Claims' = Claims
  BY <1>1 DEF Claims
<1> DEFINE Old(i) == IF i < k THEN i ELSE i + 1
<1>4. /\ tasks' \in Seq(Entries) /\ Len(tasks') = Len(tasks) - 1
      /\ \A i \in 1..Len(tasks') : tasks'[i] = tasks[Old(i)]
  <2>1. tasks \in Seq(Entries)
    BY DEF TypeInv
  <2>2. QED
    BY <2>1, Without DEF WriteAudit
<1>5. /\ k \in 1..Len(tasks) /\ Len(tasks) \in Nat /\ DOMAIN tasks = 1..Len(tasks)
      /\ DOMAIN tasks' = 1..(Len(tasks) - 1)
  BY <1>4 DEF TypeInv
<1>6. \A i \in DOMAIN tasks' : tasks'[i] = tasks[Old(i)] /\ Old(i) \in DOMAIN tasks /\ Old(i) # k
  BY <1>4, <1>5
<1>7. \A i, j \in DOMAIN tasks' : Old(i) = Old(j) => i = j
  BY <1>5
<1>8. /\ DOMAIN auditLog' = 1..(Len(auditLog) + 1) /\ DOMAIN auditLog = 1..Len(auditLog)
      /\ Len(auditLog) \in Nat /\ auditLog'[Len(auditLog) + 1] = tasks[k]
      /\ \A i \in DOMAIN auditLog : auditLog'[i] = auditLog[i]
  <2>1. auditLog \in Seq(Entries) /\ tasks[k] \in Entries
    BY <1>5 DEF TypeInv
  <2>2. QED
    BY <1>1, <2>1
<1>9. \A i \in DOMAIN auditLog' : i \in DOMAIN auditLog \/ i = Len(auditLog) + 1
  BY <1>8
<1> HIDE DEF Old
<1>10. \A i \in DOMAIN auditLog' : auditLog'[i].target \in Claims'
  BY <1>3, <1>8, <1>9 DEF EntriesInv
<1>11. \A i \in DOMAIN tasks' : tasks'[i].target \in Claims'
  BY <1>3, <1>6 DEF EntriesInv
<1>12. \A i, j \in DOMAIN auditLog' : auditLog'[i].target = auditLog'[j].target => i = j
  BY <1>8, <1>9 DEF EntriesInv
<1>13. \A i, j \in DOMAIN tasks' : tasks'[i].target = tasks'[j].target => i = j
  BY <1>6, <1>7 DEF EntriesInv
<1>14. \A i \in DOMAIN auditLog', j \in DOMAIN tasks' : auditLog'[i].target # tasks'[j].target
  BY <1>6, <1>8, <1>9 DEF EntriesInv
<1>15. EntriesInv'
  BY <1>10, <1>11, <1>12, <1>13, <1>14 DEF EntriesInv
<1>16. QED
  BY <1>2, <1>15
\* Every step keeps deletions and their entries apart.
LEMMA NextDeletions ==
  ASSUME TypeInv, ActiveInv, RowsInv, DeletingInv, EntriesInv, AdminNext
  PROVE  DeletingInv' /\ EntriesInv'
<1> USE DEF db, start, history
<1>0. req \in [Requests -> Frames]
  BY DEF TypeInv
<1>1. ASSUME \/ \E list \in EnvLists : Open(list)
             \/ Migrate \/ BootstrapKey \/ ShowKey \/ EnvKey \/ Serve
      PROVE  DeletingInv' /\ EntriesInv'
  <2>1. req' = req /\ revoked' = revoked /\ auditLog' = auditLog /\ tasks' = tasks
    BY <1>1, MigrateFrame DEF Open, BootstrapKey, Migrated, ShowKey, EnvKey, Serve
  <2>2. QED
    BY <2>1, ClaimsKept
<1>2. CASE Stop
  <2>1. ASSUME NEW r \in Requests
        PROVE  \/ req'[r] = req[r]
               \/ req[r].pc \notin Answered /\ req'[r].pc = "done"
    <3>1. req'[r] = IF req[r].pc \in Answered THEN req[r] ELSE [req[r] EXCEPT !.pc = "done"]
      BY <1>2 DEF Stop
    <3>2. req[r] \in Frames
      BY <1>0
    <3>3. [req[r] EXCEPT !.pc = "done"].pc = "done"
      BY <3>2 DEF Frames
    <3>4. CASE req[r].pc \in Answered
      BY <3>1, <3>4
    <3>5. CASE req[r].pc \notin Answered
      <4>1. req'[r].pc = "done"
        BY <3>1, <3>3, <3>5
      <4>2. QED
        BY <3>5, <4>1
    <3>6. QED
      BY <3>4, <3>5
  <2>2. revoked' = revoked /\ auditLog' = auditLog /\ tasks' = <<>>
    BY <1>2 DEF Stop
  <2>3. QED
    BY <2>1, <2>2, ClaimsKept DEF Answered
<1>3. ASSUME NEW r \in Requests, NEW key, Authenticate(r, key)
      PROVE  DeletingInv' /\ EntriesInv'
  <2>1. PICK row \in keys :
          /\ req' = [req EXCEPT ![r] = [pc |-> "touch", user |-> row, target |-> 0]]
          /\ req[r].pc = "idle" /\ revoked' = revoked /\ auditLog' = auditLog /\ tasks' = tasks
    BY <1>3 DEF Authenticate, ByHash
  <2>2. req'[r].pc = "touch" /\ \A s \in Requests \ {r} : req'[s] = req[s]
    BY <1>0, <2>1
  <2>3. QED
    BY <2>1, <2>2, ClaimsKept
<1>4. ASSUME NEW r \in Requests, TouchKey(r) \/ AnswerCreated(r) \/ DropRequest(r)
      PROVE  DeletingInv' /\ EntriesInv'
  <2>1. PICK pc \in {"handle", "done"} : req' = GoTo(r, pc)
    BY <1>4, Moves
  <2>2. req'[r].pc = pc /\ \A s \in Requests \ {r} : req'[s] = req[s]
    BY <1>0, <2>1, GoToFrame DEF Pcs
  <2>3. /\ req[r].pc # "deleted"
        /\ revoked' = revoked /\ auditLog' = auditLog /\ tasks' = tasks
    BY <1>4 DEF TouchKey, AnswerCreated, DropRequest, Answered
  <2>4. QED
    BY <2>2, <2>3, ClaimsKept
<1>5. ASSUME NEW r \in Requests, NEW role \in {"admin", "user"}, NewKey(r, role)
      PROVE  DeletingInv' /\ EntriesInv'
  <2>1. req' = GoToWith(r, "created", rows + 1) /\ rows + 1 \in Nat
    BY <1>5, Moves DEF TypeInv
  <2>2. req'[r].pc = "created" /\ \A s \in Requests \ {r} : req'[s] = req[s]
    BY <1>0, <2>1, GoToWithFrame DEF Pcs
  <2>3. /\ req[r].pc # "deleted"
        /\ revoked' = revoked /\ auditLog' = auditLog /\ tasks' = tasks
    BY <1>5 DEF NewKey
  <2>4. QED
    BY <2>2, <2>3, ClaimsKept
<1>6. QED
  BY <1>1, <1>2, <1>3, <1>4, <1>5, DeleteKeeps, AnswerKeeps, WriteKeeps
     DEF AdminNext, CreateKey, CreateNetwork

-----------------------------------------------------------------------------
(* Keys that can be used. *)

ShortTexts == {FromEnv(e) : e \in Short}

Usable(row) == row.role = "admin" /\ row.key \in known /\ row.key \notin ShortTexts

\* Once there was a row, an admin key can be used or has gone.
UsableInv == rows # 0 => gone # {} \/ \E row \in keys : Usable(row)

\* A start past its migrations has rows, and a key it is about to show.
StartInv ==
  /\ phase \in {"show", "env", "serving"} => rows # 0
  /\ phase = "show" =>
       /\ next = 1 /\ gone # {}
       /\ \E row \in keys : row.role = "admin" /\ row.key = Generated(rows)
  /\ phase = "serving" => next = Len(env) + 1

DeletedSome == \E id \in revoked : <<"deleted", id>> \in gone

\* The keys of the environment that were reached are there, or were deleted.
EnvInv ==
  phase \in {"env", "serving"} =>
    \A i \in DOMAIN env : i < next =>
      DeletedSome \/ \E row \in keys : row.key = FromEnv(env[i])

KnownInv == UsableInv /\ StartInv /\ EnvInv

\* A step that only adds rows and keys that are known takes nothing away.
LEMMA GrowthKeeps ==
  ASSUME keys \subseteq keys', known \subseteq known', gone \subseteq gone',
         revoked \subseteq revoked'
  PROVE  /\ (gone # {} \/ \E row \in keys : Usable(row)) =>
              (gone' # {} \/ \E row \in keys' : Usable(row)')
         /\ DeletedSome => DeletedSome'
  BY DEF Usable, DeletedSome

LEMMA NextKnown == ASSUME TypeInv, ActiveInv, RowsInv, KnownInv, AdminNext PROVE KnownInv'
<1> USE DEF db, start, history, KnownInv
<1>0. /\ rows \in Nat /\ next \in Nat \ {0} /\ keys \subseteq Rows
      /\ env \in Seq(EnvKeys) /\ Len(env) \in Nat
  BY DEF TypeInv
<1>1. ASSUME NEW list \in EnvLists, Open(list) PROVE KnownInv'
  <2>1. /\ phase' = "migrate" /\ rows' = rows /\ keys' = keys /\ gone' = gone
        /\ revoked' = revoked /\ known \subseteq known'
    BY <1>1 DEF Open
  <2>2. UsableInv'
    BY <2>1, GrowthKeeps DEF UsableInv
  <2>3. QED
    BY <2>1, <2>2 DEF StartInv, EnvInv
<1>2. CASE Migrate
  BY <1>2, MigrateFrame DEF UsableInv, StartInv, EnvInv, Usable
<1>3. CASE BootstrapKey
  <2>1. CASE keys = {}
    <3>1. /\ phase' = "show" /\ gone' = gone \cup {<<"unseen", rows + 1>>} /\ rows' = rows + 1
          /\ keys' = keys \cup {Row(rows + 1, Generated(rows + 1), "admin")} /\ next' = 1
      BY <1>3, <2>1 DEF BootstrapKey, InsertApiKey
    <3>2. <<"unseen", rows + 1>> \in gone'
      BY <3>1
    <3>3. rows' # 0 /\ next' = 1 /\ phase' = "show"
      BY <1>0, <3>1
    <3>4. Row(rows + 1, Generated(rows + 1), "admin") \in keys'
      BY <3>1
    <3>5. \E row \in keys' : row.role = "admin" /\ row.key = Generated(rows')
      BY <3>1, <3>4 DEF Row
    <3>6. StartInv'
      BY <3>2, <3>3, <3>5 DEF StartInv
    <3>7. UsableInv' /\ EnvInv'
      BY <3>2, <3>3 DEF UsableInv, EnvInv
    <3>8. QED
      BY <3>6, <3>7
  <2>2. CASE keys # {}
    <3>1. phase' = "env" /\ next' = 1 /\ UNCHANGED <<keys, rows, gone, known, revoked, env>>
      BY <1>3, <2>2 DEF BootstrapKey
    <3>2. rows # 0
      BY <1>0, <2>2 DEF RowsInv
    <3>3. EnvInv'
      <4>1. \A i \in DOMAIN env' : ~(i < next')
        BY <1>0, <3>1
      <4>2. QED
        BY <4>1 DEF EnvInv
    <3>4. QED
      BY <3>1, <3>2, <3>3 DEF UsableInv, StartInv, Usable
  <2>3. QED
    BY <2>1, <2>2
<1>4. CASE ShowKey
  <2>1. /\ phase = "show" /\ phase' = "env" /\ known' = known \cup {Generated(rows)}
        /\ UNCHANGED <<keys, rows, next, env, revoked>>
    BY <1>4 DEF ShowKey
  <2>2. PICK row \in keys : row.role = "admin" /\ row.key = Generated(rows)
    BY <2>1 DEF StartInv
  <2>3. Generated(rows) \notin ShortTexts
    BY TextsDiffer DEF ShortTexts
  <2>4. Usable(row)'
    BY <2>1, <2>2, <2>3 DEF Usable, ShortTexts
  <2>5. QED
    BY <1>0, <2>1, <2>2, <2>4 DEF UsableInv, StartInv, EnvInv
<1>5. CASE EnvKey
  <2>1. /\ phase = "env" /\ phase' = phase /\ next <= Len(env) /\ next' = next + 1
        /\ UNCHANGED <<env, known, revoked, gone>>
    BY <1>5 DEF EnvKey
  <2>2. keys \subseteq keys' /\ rows' >= rows /\ rows' \in Nat
    BY <1>0, <1>5 DEF EnvKey, InsertApiKey
  <2>3. \E row \in keys' : row.key = FromEnv(env[next])
    <3>1. CASE ByHash(FromEnv(env[next])) = {}
      <4>1. keys' = keys \cup {Row(rows + 1, FromEnv(env[next]), "admin")}
        BY <1>5, <3>1 DEF EnvKey, InsertApiKey
      <4>2. Row(rows + 1, FromEnv(env[next]), "admin").key = FromEnv(env[next])
        BY DEF Row
      <4>3. QED
        BY <4>1, <4>2
    <3>2. CASE ByHash(FromEnv(env[next])) # {}
      BY <2>2, <3>2 DEF ByHash
    <3>3. QED
      BY <3>1, <3>2
  <2>4. UsableInv'
    BY <1>0, <2>1, <2>2, GrowthKeeps DEF UsableInv, StartInv
  <2>5. EnvInv'
    <3>1. ASSUME NEW i \in DOMAIN env, i < next + 1
          PROVE  DeletedSome' \/ \E row \in keys' : row.key = FromEnv(env[i])
      <4>1. CASE i = next
        BY <2>3, <4>1
      <4>2. CASE i # next
        <5>1. i < next
          BY <1>0, <3>1, <4>2
        <5>2. QED
          BY <2>1, <2>2, <5>1, GrowthKeeps DEF EnvInv
      <4>3. QED
        BY <4>1, <4>2
    <3>2. QED
      BY <2>1, <3>1 DEF EnvInv
  <2>6. QED
    BY <1>0, <2>1, <2>2, <2>4, <2>5 DEF StartInv
<1>6. CASE Serve
  BY <1>6 DEF Serve, UsableInv, StartInv, EnvInv, Usable, DeletedSome
<1>7. CASE Stop
  BY <1>7 DEF Stop, UsableInv, StartInv, EnvInv, Usable
<1>8. ASSUME phase = "serving", phase' = phase, UNCHANGED <<next, env>>,
             rows' >= rows, rows' \in Nat,
             known \subseteq known', gone \subseteq gone', revoked \subseteq revoked',
             DeletedSome' \/ \A row \in keys : \E new \in keys' :
                               new.key = row.key /\ new.role = row.role,
             gone' # {} \/ \A row \in keys : row.role = "admin" =>
                              \E new \in keys' : new.key = row.key /\ new.role = row.role
      PROVE  KnownInv'
  <2>1. UsableInv'
    BY <1>8 DEF UsableInv, StartInv, Usable, ShortTexts
  <2>2. DeletedSome => DeletedSome'
    BY <1>8 DEF DeletedSome
  <2>3. EnvInv'
    BY <1>8, <2>2 DEF EnvInv
  <2>4. StartInv'
    BY <1>0, <1>8 DEF StartInv
  <2>5. QED
    BY <2>1, <2>3, <2>4
<1>9. ASSUME NEW r \in Requests, NEW id \in 1..rows, DeleteKey(r, id) PROVE KnownInv'
  <2>1. /\ phase = "serving" /\ phase' = phase
        /\ UNCHANGED <<next, env, rows, known>>
    BY <1>9 DEF DeleteKey, ActiveInv, Answered
  <2>2. /\ keys' = {row \in keys : row.id # id}
        /\ gone \subseteq gone' /\ revoked \subseteq revoked'
        /\ \A row \in keys : row.id = id => id \in revoked'
        /\ \A row \in keys : row.id = id /\ row.role = "admin" => <<"deleted", id>> \in gone'
    BY <1>9 DEF DeleteKey
  <2>3. CASE \E row \in keys : row.id = id /\ row.role = "admin"
    <3>1. DeletedSome' /\ gone' # {}
      BY <2>2, <2>3 DEF DeletedSome
    <3>2. QED
      BY <1>0, <1>8, <2>1, <2>2, <3>1
  <2>4. CASE \A row \in keys : row.id = id => row.role # "admin"
    <3>1. \A row \in keys : row.role = "admin" => row \in keys'
      BY <2>2, <2>4
    <3>2. UsableInv'
      BY <2>1, <2>2, <3>1 DEF UsableInv, StartInv, Usable, ShortTexts
    <3>3. DeletedSome => DeletedSome'
      BY <2>2 DEF DeletedSome
    <3>4. ASSUME NEW i \in DOMAIN env, NEW row \in keys, row.key = FromEnv(env[i])
          PROVE  row \in keys'
      <4>1. row.key # Generated(row.id)
        BY <3>4, TextsDiffer
      <4>2. QED
        BY <3>1, <4>1 DEF RowsInv
    <3>5. EnvInv'
      BY <2>1, <3>3, <3>4 DEF EnvInv
    <3>6. QED
      BY <2>1, <3>2, <3>5 DEF StartInv
  <2>5. QED
    BY <2>3, <2>4
<1>10. ASSUME NEW r \in Requests, TouchKey(r) PROVE KnownInv'
  <2>1. /\ phase = "serving" /\ phase' = phase
        /\ UNCHANGED <<next, env, rows, known, gone, revoked>>
    BY <1>10 DEF TouchKey, ActiveInv, Answered
  <2>2. ASSUME NEW row \in keys
        PROVE  \E new \in keys' : new.key = row.key /\ new.role = row.role
    <3>1. row \in keys' \/ [row EXCEPT !.used = TRUE] \in keys'
      BY <1>10 DEF TouchKey
    <3>2. QED
      BY <1>0, <3>1, UsedRow
  <2>3. QED
    BY <1>0, <1>8, <2>1, <2>2
<1>11. ASSUME NEW r \in Requests, NEW role \in {"admin", "user"}, NewKey(r, role)
       PROVE  KnownInv'
  <2>1. /\ phase = "serving" /\ phase' = phase /\ UNCHANGED <<next, env, known, gone, revoked>>
    BY <1>11 DEF NewKey, ActiveInv, Answered
  <2>2. keys \subseteq keys' /\ rows' >= rows /\ rows' \in Nat
    BY <1>0, <1>11 DEF NewKey, InsertApiKey
  <2>3. QED
    BY <1>8, <2>1, <2>2
<1>12. ASSUME NEW r \in Requests, NEW key,
              Authenticate(r, key) \/ AnswerCreated(r) \/ AnswerDeleted(r) \/ DropRequest(r)
       PROVE  KnownInv'
  <2>1. /\ phase = "serving" /\ phase' = phase
        /\ UNCHANGED <<next, env, rows, keys, gone, revoked>> /\ known \subseteq known'
    BY <1>12 DEF Authenticate, AnswerCreated, AnswerDeleted, DropRequest, ActiveInv, Answered
  <2>2. QED
    BY <1>0, <1>8, <2>1
<1>13. ASSUME NEW i \in DOMAIN tasks, WriteAudit(i) PROVE KnownInv'
  BY <1>13 DEF WriteAudit, UsableInv, StartInv, EnvInv, Usable, DeletedSome
<1>14. QED
  BY <1>1, <1>2, <1>3, <1>4, <1>5, <1>6, <1>7, <1>9, <1>10, <1>11, <1>12, <1>13
     DEF AdminNext, CreateKey, CreateNetwork

-----------------------------------------------------------------------------
(* The invariant, and the properties it implies. *)

AdminInv ==
  TypeInv /\ ActiveInv /\ RowsInv /\ DeletingInv /\ EntriesInv /\ KnownInv

LEMMA InitAdmin == AdminInit => AdminInv
<1> SUFFICES ASSUME AdminInit PROVE AdminInv
  OBVIOUS
<1>1. TypeInv /\ ActiveInv /\ RowsInv
  BY InitType
<1>2. \A r \in Requests : req[r].pc = "idle"
  BY DEF AdminInit
<1>3. DeletingInv /\ EntriesInv
  BY <1>2 DEF AdminInit, DeletingInv, EntriesInv, Deleting
<1>4. KnownInv
  BY DEF AdminInit, KnownInv, UsableInv, StartInv, EnvInv
<1>5. QED
  BY <1>1, <1>3, <1>4 DEF AdminInv

LEMMA NextAdmin == AdminInv /\ [AdminNext]_adminVars => AdminInv'
<1> SUFFICES ASSUME AdminInv, [AdminNext]_adminVars PROVE AdminInv'
  OBVIOUS
<1>1. CASE AdminNext
  BY <1>1, NextType, NextActive, NextRows, NextDeletions, NextKnown DEF AdminInv
<1>2. CASE UNCHANGED adminVars
  <2>1. UNCHANGED <<keys, rows, revoked, req, auditLog, tasks, next, env, phase, known, gone>>
    BY <1>2 DEF adminVars, db, start, history
  <2>2. TypeInv' /\ ActiveInv' /\ RowsInv'
    BY <2>1 DEF AdminInv, TypeInv, ActiveInv, RowsInv
  <2>3. DeletingInv' /\ EntriesInv'
    BY <2>1, ClaimsKept DEF AdminInv
  <2>4. KnownInv'
    BY <2>1 DEF AdminInv, KnownInv, UsableInv, StartInv, EnvInv, Usable, DeletedSome
  <2>5. QED
    BY <2>2, <2>3, <2>4 DEF AdminInv
<1>3. QED
  BY <1>1, <1>2

\* The inductive invariant of the server's keys and their deletions.
THEOREM AdminInvHolds == AdminSpec => []AdminInv
  BY InitAdmin, NextAdmin, PTL DEF AdminSpec

\* No request and no restart brings back a row that was deleted, and of the texts
\* that no row has any more only those of the environment come back, when a
\* start registers them (auth.rs:124-134, main.rs:293-308).
THEOREM RevokedForEver == AdminSpec => RevokedStaysRevoked
<1> DEFINE Stays == \A row \in keys' : row.id \notin revoked' /\ Accounted(row)
<1>1. AdminInv /\ AdminInv' /\ [AdminNext]_adminVars => [Stays]_adminVars
  <2> SUFFICES ASSUME AdminInv, AdminInv', AdminNext, NEW row \in keys'
               PROVE  row.id \notin revoked' /\ Accounted(row)
    OBVIOUS
  <2> USE DEF db, start, history
  <2>1. row.id \notin revoked'
    BY DEF AdminInv, RowsInv
  <2> SUFFICES Accounted(row)
    BY <2>1
  <2>2. /\ rows \in Nat /\ keys \subseteq Rows /\ next \in Nat \ {0} /\ env \in Seq(EnvKeys)
    BY DEF AdminInv, TypeInv
  <2>3. CASE keys' \subseteq keys
    BY <2>3 DEF Accounted
  <2>4. ASSUME NEW key \in KeyTexts, NEW role \in {"admin", "user"}, InsertApiKey(key, role),
               \/ key = Generated(rows + 1)
               \/ phase = "env" /\ key \in {FromEnv(e) : e \in Range(env)}
        PROVE  Accounted(row)
    <3>1. row \in keys \/ (row.id = rows + 1 /\ row.key = key)
      BY <2>2, <2>4, NewRow DEF InsertApiKey
    <3> QED
      BY <2>2, <2>4, <3>1 DEF Accounted
  <2>5. ASSUME NEW r \in Requests, TouchKey(r)
        PROVE  Accounted(row)
    <3>1. PICK old \in keys :
             row = IF old.id = req[r].user.id THEN [old EXCEPT !.used = TRUE] ELSE old
      BY <2>5 DEF TouchKey
    <3> QED
      BY <2>2, <3>1, UsedRow DEF Accounted
  <2>6. CASE BootstrapKey
    <3>1. keys' = keys \/ InsertApiKey(Generated(rows + 1), "admin")
      BY <2>6 DEF BootstrapKey
    <3>2. Generated(rows + 1) \in KeyTexts
      BY <2>2 DEF KeyTexts
    <3>3. CASE InsertApiKey(Generated(rows + 1), "admin")
      BY <2>4, <3>2, <3>3, Zenon
    <3> QED
      BY <2>3, <3>1, <3>3
  <2>7. CASE EnvKey
    <3>1. next <= Len(env) /\ env[next] \in EnvKeys /\ env[next] \in Range(env)
      BY <2>2, <2>7 DEF EnvKey, Range
    <3>2. /\ FromEnv(env[next]) \in KeyTexts
          /\ FromEnv(env[next]) \in {FromEnv(e) : e \in Range(env)}
      BY <3>1 DEF KeyTexts
    <3>3. keys' = keys \/ InsertApiKey(FromEnv(env[next]), "admin")
      BY <2>7 DEF EnvKey
    <3>4. phase = "env"
      BY <2>7 DEF EnvKey
    <3>5. CASE InsertApiKey(FromEnv(env[next]), "admin")
      BY <2>4, <3>2, <3>4, <3>5, Zenon
    <3> QED
      BY <2>3, <3>3, <3>5
  <2>8. ASSUME NEW r \in Requests, NEW role \in {"admin", "user"}, NewKey(r, role)
        PROVE  Accounted(row)
    BY <2>2, <2>4, <2>8 DEF NewKey, KeyTexts
  <2>9. CASE \E r \in Requests : \/ CreateNetwork(r)
                                 \/ \E role \in {"admin", "user"} : CreateKey(r, role)
    BY <2>8, <2>9 DEF CreateNetwork, CreateKey
  <2>10. CASE \E r \in Requests, id \in 1..rows : DeleteKey(r, id)
    BY <2>3, <2>10 DEF DeleteKey
  <2>11. CASE \E r \in Requests : \/ \E key \in known : Authenticate(r, key)
                                 \/ AnswerCreated(r) \/ AnswerDeleted(r) \/ DropRequest(r)
    BY <2>3, <2>11 DEF Authenticate, AnswerCreated, AnswerDeleted, DropRequest
  <2>12. CASE \/ \E list \in EnvLists : Open(list)
             \/ ShowKey \/ Serve \/ Stop \/ \E i \in DOMAIN tasks : WriteAudit(i)
    BY <2>3, <2>12 DEF Open, ShowKey, Serve, Stop, WriteAudit
  <2>13. CASE Migrate
    BY <2>3, <2>13, MigrateFrame
  <2> QED
    BY <2>5, <2>6, <2>7, <2>9, <2>10, <2>11, <2>12, <2>13 DEF AdminNext
<1>2. AdminSpec => [][Stays]_adminVars
  BY <1>1, AdminInvHolds, PTL DEF AdminSpec
<1> QED
  BY <1>2 DEF RevokedStaysRevoked

\* A row's deletion is answered once and has at most one audit entry, which is
\* written only for rows that were deleted (db.rs:273-278, api_keys.rs:91-97).
THEOREM DeletedOnce == AdminSpec => []OneDeletion
<1>1. AdminInv => OneDeletion
  <2> SUFFICES ASSUME AdminInv PROVE OneDeletion
    OBVIOUS
  <2>1. \A r, s \in Requests :
          req[r].pc = "deleted" /\ req[s].pc = "deleted" /\ req[r].target = req[s].target => r = s
    BY DEF AdminInv, DeletingInv, Deleting
  <2>2. \A i \in DOMAIN auditLog : auditLog[i].target \in revoked
    BY DEF AdminInv, EntriesInv, Claims, DeletingInv, Deleting
  <2>3. \A row \in keys : row.id \notin revoked
    BY DEF AdminInv, RowsInv
  <2>4. \A i, j \in DOMAIN auditLog : auditLog[i].target = auditLog[j].target => i = j
    BY DEF AdminInv, EntriesInv
  <2>5. QED
    BY <2>1, <2>2, <2>3, <2>4 DEF OneDeletion
<1>2. QED
  BY AdminInvHolds, <1>1, PTL

\* A server that serves has the keys of its environment and an admin key that
\* can be used, unless requests deleted them or a start stopped before it
\* showed its key (main.rs:281-308).
THEOREM NotLockedOut == AdminSpec => []LockedOutOnlyByRequests
<1>1. AdminInv => LockedOutOnlyByRequests
  <2> SUFFICES ASSUME AdminInv, phase = "serving"
               PROVE  /\ \A i \in DOMAIN env : ByHash(FromEnv(env[i])) # {} \/ DeletedSome
                      /\ gone # {} \/ \E row \in keys : Usable(row)
    BY DEF LockedOutOnlyByRequests, DeletedSome, Usable, ShortTexts
  <2>1. next = Len(env) + 1 /\ rows # 0 /\ env \in Seq(EnvKeys)
    BY DEF AdminInv, KnownInv, StartInv, TypeInv
  <2>2. \A i \in DOMAIN env : i < next
    BY <2>1
  <2>3. \A i \in DOMAIN env : ByHash(FromEnv(env[i])) # {} \/ DeletedSome
    BY <2>2 DEF AdminInv, KnownInv, EnvInv, ByHash
  <2>4. gone # {} \/ \E row \in keys : Usable(row)
    BY <2>1 DEF AdminInv, KnownInv, UsableInv
  <2>5. QED
    BY <2>3, <2>4
<1>2. QED
  BY AdminInvHolds, <1>1, PTL

-----------------------------------------------------------------------------
(* Migrations. *)

Tables(v) == {v} \X (1..Statements[v])

\* A version is recorded only with all its tables, and the loop leaves nothing
\* behind it that is not recorded.  This holds at any stop: what an earlier
\* start has done of a version that it did not record is done again.
SchemaInv ==
  /\ versions \subseteq Versions
  /\ tables \subseteq UNION {Tables(v) : v \in Versions}
  /\ \A v \in versions : Tables(v) \subseteq tables
  /\ phase = "migrate" =>
       /\ applied \subseteq versions
       /\ migration \in Nat \ {0} /\ next \in Nat \ {0}
       /\ \A v \in Versions : v < migration => v \in versions
       /\ migration \in applied => next = 1
       /\ migration \in Versions \ applied =>
            /\ next <= Statements[migration] + 1
            /\ \A i \in 1..(next - 1) : <<migration, i>> \in tables
  /\ phase \in {"show", "env", "serving"} => versions = Versions

\* There is a first version, and it has a first statement.
LEMMA VersionFacts ==
  /\ Versions = 1..Len(Statements) /\ 1 \in Versions
  /\ \A v \in Versions : Statements[v] \in Nat \ {0}
  BY AdminAssumption DEF Versions

\* What the steps of the loop do.
LEMMA MigrateKeeps == ASSUME SchemaInv, Migrate PROVE SchemaInv'
<1> USE VersionFacts DEF SchemaInv, Tables
<1>1. /\ phase = "migrate" /\ phase' = "migrate" /\ applied' = applied
      /\ migration \in Nat \ {0} /\ next \in Nat \ {0}
  BY DEF Migrate, SkipMigration, RunStatement, RecordMigration, Applying, start
<1>2. CASE SkipMigration
  <2>1. /\ migration \in versions /\ migration' = migration + 1 /\ next' = 1
        /\ UNCHANGED <<tables, versions>>
    BY <1>2 DEF SkipMigration, db
  <2>2. \A v \in Versions : v < migration + 1 => v < migration \/ v = migration
    BY <1>1
  <2>3. migration' \in Versions => Statements[migration'] \in Nat
    BY <1>1, <2>1
  <2>4. QED
    BY <1>1, <2>1, <2>2, <2>3
<1>3. CASE RunStatement
  <2>1. /\ migration \in Versions \ applied /\ migration' = migration /\ next' = next + 1
        /\ next <= Statements[migration]
        /\ tables' = tables \cup {<<migration, next>>} /\ versions' = versions
    BY <1>3 DEF RunStatement, Applying, start
  <2>2. <<migration, next>> \in Tables(migration)
    BY <1>1, <2>1
  <2>3. \A i \in 1..((next + 1) - 1) : i = next \/ i \in 1..(next - 1)
    BY <1>1
  <2>4. QED
    BY <1>1, <2>1, <2>2, <2>3
<1>4. CASE RecordMigration
  <2>1. /\ migration \in Versions \ applied /\ migration' = migration + 1 /\ next' = 1
        /\ next > Statements[migration] /\ tables' = tables
        /\ versions' = versions \cup {migration}
    BY <1>4 DEF RecordMigration, Applying
  <2>2. Tables(migration) \subseteq tables
    BY <1>1, <2>1
  <2>3. \A v \in Versions : v < migration + 1 => v < migration \/ v = migration
    BY <1>1
  <2>4. QED
    BY <1>1, <2>1, <2>2, <2>3
<1>5. QED
  BY <1>2, <1>3, <1>4 DEF Migrate

LEMMA NextSchema == SchemaInv /\ [AdminNext]_adminVars => SchemaInv'
<1> SUFFICES ASSUME SchemaInv, [AdminNext]_adminVars PROVE SchemaInv'
  OBVIOUS
<1> USE DEF db, start, history
<1>1. ASSUME NEW list \in EnvLists, Open(list) PROVE SchemaInv'
  <2>1. <<1, 1>> \in Tables(1)
    BY VersionFacts DEF Tables
  <2>2. QED
    BY <1>1, <2>1, VersionFacts DEF Open, SchemaInv
<1>2. CASE Migrate
  BY <1>2, MigrateKeeps
<1>3. CASE BootstrapKey
  <2>1. \A v \in Versions : v < migration
    BY <1>3, VersionFacts DEF BootstrapKey, Migrated, SchemaInv
  <2>2. versions = Versions /\ phase' \in {"show", "env"} /\ UNCHANGED <<tables, versions>>
    BY <1>3, <2>1 DEF BootstrapKey, Migrated, SchemaInv
  <2>3. QED
    BY <2>2 DEF SchemaInv
<1>4. CASE ShowKey \/ EnvKey \/ Serve \/ Stop
  <2>1. /\ phase \in {"show", "env", "serving"} \/ phase' = "down"
        /\ phase' \in {"show", "env", "serving", "down"} /\ UNCHANGED <<tables, versions>>
    BY <1>4 DEF ShowKey, EnvKey, Serve, Stop
  <2>2. QED
    BY <2>1 DEF SchemaInv
<1>5. ASSUME UNCHANGED <<tables, versions, phase, applied, migration, next>>
      PROVE  SchemaInv'
  BY <1>5 DEF SchemaInv
<1>6. ASSUME NEW r \in Requests,
             \/ \E key \in known : Authenticate(r, key)
             \/ TouchKey(r) \/ AnswerCreated(r) \/ AnswerDeleted(r) \/ DropRequest(r)
             \/ CreateNetwork(r) \/ \E role \in {"admin", "user"} : CreateKey(r, role)
             \/ \E id \in 1..rows : DeleteKey(r, id)
      PROVE  SchemaInv'
  BY <1>5, <1>6 DEF Authenticate, TouchKey, AnswerCreated, AnswerDeleted, DropRequest,
                    CreateNetwork, CreateKey, NewKey, DeleteKey
<1>7. ASSUME NEW i \in DOMAIN tasks, WriteAudit(i) PROVE SchemaInv'
  BY <1>5, <1>7 DEF WriteAudit
<1>8. CASE UNCHANGED adminVars
  BY <1>5, <1>8 DEF adminVars
<1>9. QED
  BY <1>1, <1>2, <1>3, <1>4, <1>6, <1>7, <1>8 DEF AdminNext

\* Whichever statement earlier starts stopped at, the server shows a key,
\* registers keys and serves only with all tables and indexes of all versions
\* (db.rs:159-185).
THEOREM SchemaAlwaysComplete == AdminSpec => []SchemaComplete
<1>1. AdminInit => SchemaInv
  BY DEF AdminInit, SchemaInv
<1>2. SchemaInv => SchemaComplete
  <2> SUFFICES ASSUME SchemaInv, phase \in {"show", "env", "serving"}
               PROVE  tables = UNION {Tables(v) : v \in Versions}
    BY DEF SchemaInv, SchemaComplete, Tables
  <2>1. QED
    BY DEF SchemaInv
<1>3. QED
  BY <1>1, <1>2, NextSchema, PTL DEF AdminSpec
=============================================================================
