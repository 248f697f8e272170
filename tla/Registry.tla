------------------------------ MODULE Registry ------------------------------
(***************************************************************************)
(* The registry service (internal/registry) over the SQLite store          *)
(* (internal/store/sqlite).  Every HTTP request is a client that takes its *)
(* handler's steps: each query of the store is a step of its own, needs    *)
(* the one database connection (SetMaxOpenConns(1)) and interleaves with   *)
(* the other requests.  A transaction holds the connection from BEGIN to   *)
(* COMMIT or ROLLBACK and works on a copy of the database until then.      *)
(***************************************************************************)
EXTENDS PolicyRules, VersionOrder

CONSTANTS
  Clients,      \* the requests in flight
  Principals,   \* who may be authenticated
  Skills,       \* [namespace, name]
  Files,        \* bundle files; a digest stands for the set it is computed from
  Requests,     \* the requests clients may make
  Rules,        \* the policy
  Latest,       \* the version "latest"
  None,         \* no row, no connection, no reply
  MaxRequests,  \* bound on the number of requests
  MaxFaults     \* bound on lost clients, database errors and restarts

Keys == Skills \X Versions
Digests == (SUBSET Files) \ {{}}
Row == [status: {"published", "deprecated"}, digest: Digests, publisher: Principals]
Ids == 1..MaxRequests
Event == [id: Ids, action: {"publish", "deprecate", "fetch"}, who: Principals,
          key: Keys, outcome: {"ok", "denied"}]
Database == [rows: [Keys -> Row \cup {None}], files: [Keys -> SUBSET Files],
             log: Seq(Event)]

\* valid: the bundle parses and carries the digest the client sent; content:
\* its files; audited: a get that reads content and not only the manifest.
Request == [op: {"publish", "deprecate", "get", "versions", "export"}, who: Principals,
            skill: Skills, version: Versions \cup {Latest},
            content: Digests, valid: BOOLEAN, audited: BOOLEAN]
Codes == {"ok", "not_found", "forbidden", "version_exists", "invalid", "internal"}
Reply == [code: Codes, row: Row \cup {None}, files: SUBSET Files,
          listed: SUBSET [version: Versions, status: {"published", "deprecated"}]]

ASSUME RegistryAssumption ==
  /\ Versions \subseteq Nat \ {NoVersion}
  /\ Stable \subseteq Versions
  /\ Latest \notin Versions
  /\ Requests \subseteq Request
  /\ Requests # {}
  /\ None \notin Row \cup Clients
  /\ MaxRequests \in Nat /\ MaxFaults \in Nat
\* Only get resolves "latest": it is no semantic version, so publish rejects
\* it (ValidVersion), and there is no such version to deprecate.
ASSUME LatestAssumption ==
  \A q \in Requests : q.op \in {"publish", "deprecate"} => q.version \in Versions

VARIABLES
  db,       \* the committed database
  conn,     \* the client whose transaction holds the connection
  work,     \* that transaction's view of the database
  pc,       \* the next step of each client's handler
  req,      \* its request
  id,       \* its request id
  ver,      \* its version, `latest` resolved
  reply,    \* what it is told, as far as the handler knows yet
  served,   \* requests so far
  faults

dbVars == <<db, conn, work>>
taskVars == <<req, id, ver>>
vars == <<db, conn, work, pc, req, id, ver, reply, served, faults>>

Steps == {"idle", "resolve", "decide", "audit", "validate", "begin", "put",
          "putFiles", "status", "record", "commit", "row", "files", "content",
          "versions", "export", "done"}

EmptyDb == [rows |-> [k \in Keys |-> None], files |-> [k \in Keys |-> {}], log |-> <<>>]
NoReply == [code |-> "internal", row |-> None, files |-> {}, listed |-> {}]
NoRequest == CHOOSE q \in Requests : TRUE

TypeOK ==
  /\ db \in Database
  /\ conn \in Clients \cup {None}
  /\ work \in Database
  /\ pc \in [Clients -> Steps]
  /\ req \in [Clients -> Requests]
  /\ id \in [Clients -> 0..MaxRequests]
  /\ ver \in [Clients -> Versions \cup {Latest}]
  /\ reply \in [Clients -> Reply]
  /\ served \in 0..MaxRequests
  /\ faults \in 0..MaxFaults

Init ==
  /\ db = EmptyDb
  /\ conn = None
  /\ work = EmptyDb
  /\ pc = [c \in Clients |-> "idle"]
  /\ req = [c \in Clients |-> NoRequest]
  /\ id = [c \in Clients |-> 0]
  /\ ver = [c \in Clients |-> Latest]
  /\ reply = [c \in Clients |-> NoReply]
  /\ served = 0
  /\ faults = 0

Key(c) == <<req[c].skill, ver[c]>>

Allowed(who, action, resource) ==
  Permits(Rules, [who |-> who, action |-> action, resource |-> resource])
Resource(skill, version) ==
  [namespace |-> skill.namespace, name |-> skill.name, version |-> version]
Everything == [namespace |-> "*", name |-> "*", version |-> NoVersion]

MayFetch(who, skill, v) == Allowed(who, "fetch", Resource(skill, v))

\* The action a request is decided and recorded under.
Action(c) == IF req[c].op = "get" THEN "fetch" ELSE req[c].op

Goto(c, step) == pc' = [pc EXCEPT ![c] = step]
Code(c, code) == reply' = [reply EXCEPT ![c].code = code]

\* Outside a transaction a query waits for the connection and returns it.
Free == conn = None
InTx(c) == conn = c

NewEvent(c, outcome) ==
  [id |-> id[c], action |-> Action(c), who |-> req[c].who, key |-> Key(c),
   outcome |-> outcome]

-----------------------------------------------------------------------------
(* A request arrives and is decided.                                       *)

Receive(c) ==
  /\ pc[c] = "idle"
  /\ served < MaxRequests
  /\ served' = served + 1
  /\ id' = [id EXCEPT ![c] = served + 1]
  /\ \E q \in Requests :
       /\ req' = [req EXCEPT ![c] = q]
       /\ ver' = [ver EXCEPT ![c] = q.version]
       /\ Goto(c, CASE q.op = "versions" -> "versions"
                    [] q.op = "get" /\ q.version = Latest -> "resolve"
                    [] OTHER -> "decide")
  /\ UNCHANGED <<dbVars, reply, faults>>

Published(skill) ==
  {v \in Versions : /\ db.rows[<<skill, v>>] # None
                    /\ db.rows[<<skill, v>>].status = "published"}

\* "latest" is the best published version the caller may fetch.
Resolve(c) ==
  LET mine == {v \in Published(req[c].skill) : MayFetch(req[c].who, req[c].skill, v)}
  IN
  /\ pc[c] = "resolve"
  /\ Free
  /\ \E v \in mine : IsBest(v, mine) /\ ver' = [ver EXCEPT ![c] = v]
  /\ Goto(c, "decide")
  /\ UNCHANGED <<dbVars, req, id, reply, served, faults>>

\* Mutant: the record of a hidden `latest` names no version.
ResolveFailsUnnamed(c) ==
  LET all == Published(req[c].skill)
  IN
  /\ pc[c] = "resolve"
  /\ Free
  /\ ~\E v \in all : MayFetch(req[c].who, req[c].skill, v)
  /\ Goto(c, IF all = {} THEN "done" ELSE "audit")
  /\ Code(c, "not_found")
  /\ UNCHANGED <<dbVars, taskVars, served, faults>>

\* Without one the answer is 404.  If the policy hides every published
\* version, the best of them goes into the record of the denial.
ResolveFails(c) ==
  LET all == Published(req[c].skill)
  IN
  /\ pc[c] = "resolve"
  /\ Free
  /\ ~\E v \in all : MayFetch(req[c].who, req[c].skill, v)
  /\ IF all = {}
     THEN Goto(c, "done") /\ UNCHANGED ver
     ELSE /\ Goto(c, "audit")
          /\ \E v \in all : IsBest(v, all) /\ ver' = [ver EXCEPT ![c] = v]
  /\ Code(c, "not_found")
  /\ UNCHANGED <<dbVars, req, id, served, faults>>

Permitted(c) ==
  IF req[c].op = "export" THEN Allowed(req[c].who, "admin", Everything)
  ELSE Allowed(req[c].who, Action(c), Resource(req[c].skill, ver[c]))

Permit(c) ==
  /\ pc[c] = "decide"
  /\ Permitted(c)
  /\ Goto(c, CASE req[c].op = "publish"   -> "validate"
               [] req[c].op = "deprecate" -> "begin"
               [] req[c].op = "get"       -> "row"
               [] req[c].op = "export"    -> "export")
  /\ UNCHANGED <<dbVars, taskVars, reply, served, faults>>

\* Mutant: denials are answered without a record.
RefuseSilently(c) ==
  /\ pc[c] = "decide"
  /\ ~Permitted(c)
  /\ Code(c, IF req[c].op = "get" THEN "not_found" ELSE "forbidden")
  /\ Goto(c, "done")
  /\ UNCHANGED <<dbVars, taskVars, served, faults>>

\* A denied mutation or fetch is put on record first; a denied export is not.
Refuse(c) ==
  /\ pc[c] = "decide"
  /\ ~Permitted(c)
  /\ Code(c, IF req[c].op = "get" THEN "not_found" ELSE "forbidden")
  /\ Goto(c, IF req[c].op = "export" THEN "done" ELSE "audit")
  /\ UNCHANGED <<dbVars, taskVars, served, faults>>

\* audit: one insert outside any transaction.
Audit(c) ==
  /\ pc[c] = "audit"
  /\ Free
  /\ db' = [db EXCEPT !.log = Append(@,
              NewEvent(c, IF reply[c].code = "ok" THEN "ok" ELSE "denied"))]
  /\ Goto(c, IF reply[c].code = "ok" THEN "content" ELSE "done")
  /\ UNCHANGED <<conn, work, taskVars, reply, served, faults>>

-----------------------------------------------------------------------------
(* Publish and Deprecate: validate, then one transaction.                  *)

Validate(c) ==
  /\ pc[c] = "validate"
  /\ IF req[c].valid THEN Goto(c, "begin") /\ UNCHANGED reply
                     ELSE Goto(c, "done") /\ Code(c, "invalid")
  /\ UNCHANGED <<dbVars, taskVars, served, faults>>

Begin(c) ==
  /\ pc[c] = "begin"
  /\ Free
  /\ conn' = c
  /\ work' = db
  /\ Goto(c, IF req[c].op = "publish" THEN "put" ELSE "status")
  /\ UNCHANGED <<db, taskVars, reply, served, faults>>

Rollback(c, code) ==
  /\ conn' = None
  /\ work' = EmptyDb
  /\ Code(c, code)
  /\ Goto(c, "done")

PublishedRow(c) ==
  [status |-> "published", digest |-> req[c].content, publisher |-> req[c].who]

\* Mutant: INSERT OR REPLACE.
PutReplaces(c) ==
  /\ pc[c] = "put" /\ InTx(c)
  /\ work' = [work EXCEPT !.rows[Key(c)] = PublishedRow(c)]
  /\ Goto(c, "putFiles")
  /\ UNCHANGED <<db, conn, taskVars, reply, served, faults>>

\* Mutant: the row is inserted outside the transaction.
PutUncommitted(c) ==
  /\ pc[c] = "put" /\ InTx(c)
  /\ work.rows[Key(c)] = None
  /\ work' = [work EXCEPT !.rows[Key(c)] = PublishedRow(c)]
  /\ db' = work'
  /\ Goto(c, "putFiles")
  /\ UNCHANGED <<conn, taskVars, reply, served, faults>>

\* PutVersion: the primary key refuses a second row.
Put(c) ==
  /\ pc[c] = "put" /\ InTx(c)
  /\ work.rows[Key(c)] = None
  /\ work' = [work EXCEPT !.rows[Key(c)] = PublishedRow(c)]
  /\ Goto(c, "putFiles")
  /\ UNCHANGED <<db, conn, taskVars, reply, served, faults>>

PutExists(c) ==
  /\ pc[c] = "put" /\ InTx(c)
  /\ work.rows[Key(c)] # None
  /\ Rollback(c, "version_exists")
  /\ UNCHANGED <<db, taskVars, served, faults>>

PutFiles(c) ==
  /\ pc[c] = "putFiles" /\ InTx(c)
  /\ work' = [work EXCEPT !.files[Key(c)] = req[c].content]
  /\ Goto(c, "record")
  /\ UNCHANGED <<db, conn, taskVars, reply, served, faults>>

StatusMissing(c) ==
  /\ pc[c] = "status" /\ InTx(c)
  /\ work.rows[Key(c)] = None
  /\ Rollback(c, "not_found")
  /\ UNCHANGED <<db, taskVars, served, faults>>

\* Mutant: the status is not looked at first.
SetStatusAgain(c) ==
  /\ pc[c] = "status" /\ InTx(c)
  /\ work.rows[Key(c)] # None
  /\ work' = [work EXCEPT !.rows[Key(c)].status = "deprecated"]
  /\ Goto(c, "record")
  /\ UNCHANGED <<db, conn, taskVars, reply, served, faults>>

\* Deprecating a deprecated version changes nothing and is not recorded.
SetStatus(c) ==
  /\ pc[c] = "status" /\ InTx(c)
  /\ work.rows[Key(c)] # None
  /\ IF work.rows[Key(c)].status = "deprecated"
     THEN Goto(c, "commit") /\ UNCHANGED work
     ELSE /\ work' = [work EXCEPT !.rows[Key(c)].status = "deprecated"]
          /\ Goto(c, "record")
  /\ UNCHANGED <<db, conn, taskVars, reply, served, faults>>

\* Mutant: s.Store.AppendAudit inside the transaction, on the one connection.
RecordOutside(c) ==
  /\ pc[c] = "record"
  /\ Free
  /\ db' = [db EXCEPT !.log = Append(@, NewEvent(c, "ok"))]
  /\ Goto(c, "commit")
  /\ UNCHANGED <<conn, work, taskVars, reply, served, faults>>

\* tx.AppendAudit: the record is part of the transaction.
Record(c) ==
  /\ pc[c] = "record" /\ InTx(c)
  /\ work' = [work EXCEPT !.log = Append(@, NewEvent(c, "ok"))]
  /\ Goto(c, "commit")
  /\ UNCHANGED <<db, conn, taskVars, reply, served, faults>>

Commit(c) ==
  /\ pc[c] = "commit" /\ InTx(c)
  /\ db' = work
  /\ conn' = None
  /\ work' = EmptyDb
  /\ reply' = [reply EXCEPT ![c] = [NoReply EXCEPT
       !.code = "ok", !.row = work.rows[Key(c)], !.files = work.files[Key(c)]]]
  /\ Goto(c, "done")
  /\ UNCHANGED <<taskVars, served, faults>>

-----------------------------------------------------------------------------
(* Get, Versions and ExportAudit.                                          *)

ReadRow(c) ==
  LET row == db.rows[Key(c)]
  IN
  /\ pc[c] = "row"
  /\ Free
  /\ IF row = None THEN Goto(c, "done") /\ Code(c, "not_found")
                   ELSE Goto(c, "files") /\ reply' = [reply EXCEPT ![c].row = row]
  /\ UNCHANGED <<dbVars, taskVars, served, faults>>

\* The file manifest comes from a query of its own; a manifest alone is
\* answered without a record.
ReadFiles(c) ==
  /\ pc[c] = "files"
  /\ Free
  /\ reply' = [reply EXCEPT ![c].files = db.files[Key(c)], ![c].code = "ok"]
  /\ Goto(c, IF req[c].audited THEN "audit" ELSE "done")
  /\ UNCHANGED <<dbVars, taskVars, served, faults>>

\* Files: the content of every file of the manifest.
ReadContent(c) ==
  /\ pc[c] = "content"
  /\ Free
  /\ IF reply[c].files \subseteq db.files[Key(c)] THEN UNCHANGED reply
                                                  ELSE Code(c, "not_found")
  /\ Goto(c, "done")
  /\ UNCHANGED <<dbVars, taskVars, served, faults>>

\* Versions: those the caller may fetch, whatever their status; the policy is
\* asked after the query, for each of its rows, and nothing is recorded.
ListVersions(c) ==
  LET skill == req[c].skill
      mine == {v \in Versions : db.rows[<<skill, v>>] # None /\ MayFetch(req[c].who, skill, v)}
  IN
  /\ pc[c] = "versions"
  /\ Free
  /\ reply' = [reply EXCEPT
       ![c].code = IF mine = {} THEN "not_found" ELSE "ok",
       ![c].listed = {[version |-> v, status |-> db.rows[<<skill, v>>].status] : v \in mine}]
  /\ Goto(c, "done")
  /\ UNCHANGED <<dbVars, taskVars, served, faults>>

\* ExportAudit: one query streams the log.
Export(c) ==
  /\ pc[c] = "export"
  /\ Free
  /\ Code(c, "ok")
  /\ Goto(c, "done")
  /\ UNCHANGED <<dbVars, taskVars, served, faults>>

-----------------------------------------------------------------------------
(* Ends, errors and restarts.                                              *)

Forget(c) ==
  /\ pc' = [pc EXCEPT ![c] = "idle"]
  /\ req' = [req EXCEPT ![c] = NoRequest]
  /\ id' = [id EXCEPT ![c] = 0]
  /\ ver' = [ver EXCEPT ![c] = Latest]
  /\ reply' = [reply EXCEPT ![c] = NoReply]

\* The answer is sent.
Leave(c) ==
  /\ pc[c] = "done"
  /\ Forget(c)
  /\ UNCHANGED <<dbVars, served, faults>>

Querying(c) == pc[c] \notin {"idle", "decide", "validate", "done"}

ReleaseConn(c) ==
  /\ conn' = IF InTx(c) THEN None ELSE conn
  /\ work' = IF InTx(c) THEN EmptyDb ELSE work

\* Mutant: errors inside the transaction are dropped.
QueryFailsUnnoticed(c) ==
  /\ Querying(c) /\ InTx(c)
  /\ faults < MaxFaults
  /\ faults' = faults + 1
  /\ ReleaseConn(c)
  /\ Goto(c, "done")
  /\ Code(c, "ok")
  /\ UNCHANGED <<db, taskVars, served>>

\* The database refuses a query: a failed audit is ignored, any other error
\* rolls back and is answered with 500.
QueryFails(c) ==
  /\ Querying(c)
  /\ faults < MaxFaults
  /\ faults' = faults + 1
  /\ ReleaseConn(c)
  /\ IF pc[c] = "audit"
     THEN /\ Goto(c, IF reply[c].code = "ok" THEN "content" ELSE "done")
          /\ UNCHANGED reply
     ELSE /\ Goto(c, "done")
          /\ reply' = [reply EXCEPT ![c] = NoReply]
  /\ UNCHANGED <<db, taskVars, served>>

\* The caller disconnects: its context is cancelled, which rolls back.
Cancel(c) ==
  /\ pc[c] # "idle"
  /\ faults < MaxFaults
  /\ faults' = faults + 1
  /\ ReleaseConn(c)
  /\ Forget(c)
  /\ UNCHANGED <<db, served>>

\* The server dies and starts again with what was committed.
Restart ==
  /\ \E c \in Clients : pc[c] # "idle"
  /\ faults < MaxFaults
  /\ faults' = faults + 1
  /\ conn' = None
  /\ work' = EmptyDb
  /\ pc' = [c \in Clients |-> "idle"]
  /\ req' = [c \in Clients |-> NoRequest]
  /\ id' = [c \in Clients |-> 0]
  /\ ver' = [c \in Clients |-> Latest]
  /\ reply' = [c \in Clients |-> NoReply]
  /\ UNCHANGED <<db, served>>

Handle(c) ==
  \/ Resolve(c) \/ ResolveFails(c) \/ Permit(c) \/ Refuse(c) \/ Audit(c)
  \/ Validate(c) \/ Begin(c) \/ Put(c) \/ PutExists(c) \/ PutFiles(c)
  \/ StatusMissing(c) \/ SetStatus(c) \/ Record(c) \/ Commit(c)
  \/ ReadRow(c) \/ ReadFiles(c) \/ ReadContent(c) \/ ListVersions(c)
  \/ Export(c) \/ Leave(c)

Next ==
  \/ \E c \in Clients : Receive(c) \/ Handle(c) \/ QueryFails(c) \/ Cancel(c)
  \/ Restart

Spec == Init /\ [][Next]_vars

\* A handler that can go on does; a query that waits for the connection gets
\* it once the transaction in front of it ends.
FairSpec == Spec /\ \A c \in Clients : WF_vars(Handle(c))

-----------------------------------------------------------------------------
Rows == [k \in {j \in Keys : db.rows[j] # None} |-> db.rows[k]]

C == INSTANCE Catalog WITH rows <- Rows, log <- db.log

\* Whatever requests interleave, however transactions fail and whenever the
\* server restarts, the committed database is a catalogue of immutable
\* versions whose changes and their records appear in one step, one record
\* per request (Tx, sqlite.go:104-117; Publish and Deprecate).
ImplementsCatalog == C!Spec

Answered(c) == pc[c] = "done"

\* An answer tells the truth about the committed catalogue, which no later
\* request can make false: a successful publish is there with the bundle and
\* publisher of the request, a successful deprecation is there, and a fetched
\* version has the committed digest, exactly the files of that digest, and
\* may be fetched by the caller; so may every version that is listed, which
\* is there and, once listed as deprecated, stays so (registry.go:87-130,
\* 201-262, 310-338).
RepliesAreTrue == \A c \in Clients :
  /\ Answered(c) => \A l \in reply[c].listed :
       LET now == db.rows[<<req[c].skill, l.version>>]
       IN /\ now # None /\ now.status \in {l.status, "deprecated"}
          /\ MayFetch(req[c].who, req[c].skill, l.version)
  /\ Answered(c) /\ reply[c].code = "ok" /\ req[c].op \in {"publish", "deprecate", "get"} =>
    LET now == db.rows[Key(c)]
        told == reply[c].row
    IN /\ now # None /\ told # None
       /\ told.digest = now.digest /\ told.publisher = now.publisher
       /\ reply[c].files = now.digest
       /\ req[c].op = "publish" =>
            now.digest = req[c].content /\ now.publisher = req[c].who
       /\ req[c].op = "deprecate" => now.status = "deprecated"
       /\ req[c].op = "get" => MayFetch(req[c].who, req[c].skill, ver[c])

Recorded(c, outcome) ==
  \E i \in DOMAIN db.log : db.log[i] = NewEvent(c, outcome)

Mutations == {"publish", "deprecate"}

\* While the database accepts writes, a caller learns that a mutation was
\* denied only after the denial is on record, and gets content only after the
\* fetch is (registry.go:95-98, 209-213, 224-226, 315-318).
AnsweredAfterRecord ==
  faults = 0 => \A c \in Clients : Answered(c) =>
    /\ reply[c].code = "forbidden" /\ req[c].op \in Mutations => Recorded(c, "denied")
    /\ reply[c].code = "ok" /\ req[c].op = "get" /\ req[c].audited => Recorded(c, "ok")

\* Every request is answered, lost or ended by a restart: no handler waits
\* for the only connection while it or another handler holds it for good
\* (SetMaxOpenConns(1), sqlite.go:92; nested Tx, 105-107).
EveryRequestEnds == \A c \in Clients : pc[c] # "idle" ~> pc[c] = "idle"

\* A deprecated version is never resolved by `latest`
\* (docs/spec/skills-gateway-protocol.md:71): what `latest` returns is
\* published.
LatestIsPublished ==
  \A c \in Clients :
    Answered(c) /\ reply[c].code = "ok" /\ req[c].op = "get" /\ req[c].version = Latest
      => reply[c].row.status = "published"

\* Every denied request is recorded (README.md:39), while the database
\* accepts writes.
EveryDenialIsRecorded ==
  faults = 0 => \A c \in Clients :
    Answered(c) /\ reply[c].code = "forbidden" => Recorded(c, "denied")

\* Every denied mutation is recorded, whether or not the database accepts
\* the record (docs/spec/skills-gateway-protocol.md:106).
DeniedMutationsAreRecorded ==
  \A c \in Clients :
    Answered(c) /\ reply[c].code = "forbidden" /\ req[c].op \in Mutations
      => Recorded(c, "denied")
=============================================================================
