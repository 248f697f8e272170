--------------------------- MODULE RegistryProofs ---------------------------
(***************************************************************************)
(* The registry implements the catalogue, and its answers are true, for    *)
(* every number of clients, requests, errors and restarts, and every       *)
(* policy.                                                                 *)
(***************************************************************************)
EXTENDS Registry, TLAPS

-----------------------------------------------------------------------------
(* Types, and what the step of a handler tells of its request.             *)

\* The steps at which the version is known, `latest` resolved.
Keyed == {"audit", "validate", "begin", "put", "putFiles", "status", "record",
          "commit", "row", "files", "content"}

HandlerOK(c) ==
  /\ pc[c] # "idle" => id[c] \in 1..served
  /\ pc[c] \in {"resolve", "row", "files", "content"} => req[c].op = "get"
  /\ pc[c] \in {"validate", "put", "putFiles"} => req[c].op = "publish"
  /\ pc[c] = "status" => req[c].op = "deprecate"
  /\ pc[c] \in {"begin", "record", "commit"} => req[c].op \in Mutations
  /\ pc[c] = "decide" =>
       req[c].op # "versions" /\ (req[c].op # "export" => ver[c] \in Versions)
  /\ pc[c] = "audit" => /\ req[c].op \in Mutations \cup {"get"}
                        /\ reply[c].code = "ok" => req[c].op = "get"
  /\ pc[c] \in Keyed => ver[c] \in Versions

Typed == TypeOK /\ \A c \in Clients : HandlerOK(c)

\* A step of c leaves the other handlers where they are.
Others(c) ==
  \A d \in Clients \ {c} : /\ pc'[d] = pc[d] /\ req'[d] = req[d] /\ id'[d] = id[d]
                           /\ ver'[d] = ver[d] /\ reply'[d] = reply[d]

LEMMA OtherHandlers ==
  ASSUME Typed, NEW c \in Clients, Others(c), served' \in Nat, served' >= served,
         HandlerOK(c)'
  PROVE  \A d \in Clients : HandlerOK(d)'
<1> SUFFICES ASSUME NEW d \in Clients, d # c PROVE HandlerOK(d)'
  OBVIOUS
<1>1. /\ pc'[d] = pc[d] /\ req'[d] = req[d] /\ id'[d] = id[d]
      /\ ver'[d] = ver[d] /\ reply'[d] = reply[d]
  BY DEF Others
<1>2. HandlerOK(d) /\ served \in Nat
  BY RegistryAssumption DEF Typed, TypeOK
<1>3. pc'[d] # "idle" => id'[d] \in 1..served'
  BY <1>1, <1>2 DEF HandlerOK
<1> QED
  BY <1>1, <1>2, <1>3 DEF HandlerOK

LEMMA GotoStep ==
  ASSUME TypeOK, NEW c \in Clients, NEW step \in Steps, Goto(c, step)
  PROVE  /\ pc' \in [Clients -> Steps] /\ pc'[c] = step
         /\ \A d \in Clients \ {c} : pc'[d] = pc[d]
BY DEF TypeOK, Goto

LEMMA CodeStep ==
  ASSUME TypeOK, NEW c \in Clients, NEW code \in Codes, Code(c, code)
  PROVE  /\ reply' \in [Clients -> Reply] /\ reply'[c] = [reply[c] EXCEPT !.code = code]
         /\ reply'[c].code = code
         /\ \A d \in Clients \ {c} : reply'[d] = reply[d]
<1>1. reply' = [reply EXCEPT ![c].code = code]
  BY DEF Code
<1>2. reply[c] \in Reply
  BY DEF TypeOK
<1>3. [reply[c] EXCEPT !.code = code] \in Reply
      /\ [reply[c] EXCEPT !.code = code].code = code
  BY <1>2 DEF Reply
<1> QED
  BY <1>1, <1>3 DEF TypeOK

LEMMA RequestType ==
  ASSUME TypeOK, NEW c \in Clients
  PROVE  /\ req[c] \in Requests /\ req[c] \in Request
         /\ req[c].op \in {"publish", "deprecate", "get", "versions", "export"}
         /\ req[c].who \in Principals /\ req[c].skill \in Skills
         /\ req[c].content \in Digests
         /\ ver[c] \in Versions => Key(c) \in Keys
         /\ req[c].op \in Mutations => req[c].version \in Versions
<1>1. req[c] \in Requests /\ req[c] \in Request
  BY RegistryAssumption DEF TypeOK
<1> QED
  BY <1>1, LatestAssumption DEF Request, Key, Keys, Mutations

LEMMA EventType ==
  ASSUME TypeOK, NEW c \in Clients, HandlerOK(c), pc[c] # "idle", ver[c] \in Versions,
         req[c].op \in Mutations \cup {"get"}, NEW outcome \in {"ok", "denied"}
  PROVE  NewEvent(c, outcome) \in Event
<1>1. Key(c) \in Keys /\ req[c].who \in Principals
  BY RequestType
<1>2. id[c] \in Ids
  BY RegistryAssumption DEF TypeOK, HandlerOK, Ids
<1>3. Action(c) \in {"publish", "deprecate", "fetch"}
  BY DEF Action, Mutations
<1> QED
  BY <1>1, <1>2, <1>3 DEF NewEvent, Event

LEMMA EmptyType == EmptyDb \in Database
BY DEF EmptyDb, Database

LEMMA AddEvent ==
  ASSUME NEW b \in Database, NEW e \in Event, NEW n, n = [b EXCEPT !.log = Append(@, e)]
  PROVE  n \in Database /\ n.rows = b.rows /\ n.log = Append(b.log, e)
<1>1. Append(b.log, e) \in Seq(Event)
  BY DEF Database
<1> QED
  BY <1>1 DEF Database

LEMMA SetRow ==
  ASSUME NEW b \in Database, NEW k \in Keys, NEW r \in Row, NEW n,
         n = [b EXCEPT !.rows[k] = r]
  PROVE  n \in Database /\ n.log = b.log /\ n.rows = [b.rows EXCEPT ![k] = r]
<1>1. [b.rows EXCEPT ![k] = r] \in [Keys -> Row \cup {None}]
  BY DEF Database
<1> QED
  BY <1>1 DEF Database

LEMMA SetFiles ==
  ASSUME NEW b \in Database, NEW k \in Keys, NEW s \in SUBSET Files, NEW n,
         n = [b EXCEPT !.files[k] = s]
  PROVE  n \in Database /\ n.log = b.log /\ n.rows = b.rows
<1>1. [b.files EXCEPT ![k] = s] \in [Keys -> SUBSET Files]
  BY DEF Database
<1> QED
  BY <1>1 DEF Database

\* A step that only moves on, perhaps with a code for the answer.
LEMMA MoveStep ==
  ASSUME Typed, NEW c \in Clients, NEW step \in Steps, Goto(c, step),
         UNCHANGED reply \/ \E code \in Codes : Code(c, code),
         UNCHANGED <<req, id, ver, served>>
  PROVE  /\ pc' \in [Clients -> Steps] /\ reply' \in [Clients -> Reply] /\ pc'[c] = step
         /\ Others(c)
<1>1. pc' \in [Clients -> Steps] /\ pc'[c] = step /\ \A d \in Clients \ {c} : pc'[d] = pc[d]
  BY GotoStep DEF Typed
<1>2. reply' \in [Clients -> Reply] /\ \A d \in Clients \ {c} : reply'[d] = reply[d]
  BY CodeStep DEF Typed, TypeOK
<1> QED
  BY <1>1, <1>2 DEF Others

LEMMA ForgetStep ==
  ASSUME TypeOK, NEW c \in Clients, Forget(c)
  PROVE  /\ pc' \in [Clients -> Steps] /\ req' \in [Clients -> Requests]
         /\ id' \in [Clients -> 0..MaxRequests] /\ ver' \in [Clients -> Versions \cup {Latest}]
         /\ reply' \in [Clients -> Reply]
         /\ pc'[c] = "idle" /\ Others(c)
<1>1. NoRequest \in Requests
  BY RegistryAssumption DEF NoRequest
<1>2. NoReply \in Reply
  BY DEF NoReply, Reply, Codes
<1>3. pc' \in [Clients -> Steps] /\ pc'[c] = "idle"
  BY DEF TypeOK, Forget, Steps
<1>4. req' \in [Clients -> Requests]
  BY <1>1 DEF TypeOK, Forget
<1>5. id' \in [Clients -> 0..MaxRequests] /\ ver' \in [Clients -> Versions \cup {Latest}]
  BY RegistryAssumption DEF TypeOK, Forget
<1>6. reply' \in [Clients -> Reply]
  BY <1>2 DEF TypeOK, Forget
<1>7. Others(c)
  BY DEF TypeOK, Forget, Others
<1> QED
  BY <1>3, <1>4, <1>5, <1>6, <1>7

\* What is shown of every step of a handler.
Kept(c) == TypeOK' /\ HandlerOK(c)' /\ Others(c)

LEMMA ReceiveKept ==
  ASSUME Typed, NEW c \in Clients, Receive(c)
  PROVE  Kept(c)
<1>1. PICK q \in Requests :
        /\ req' = [req EXCEPT ![c] = q]
        /\ ver' = [ver EXCEPT ![c] = q.version]
        /\ Goto(c, CASE q.op = "versions" -> "versions"
                     [] q.op = "get" /\ q.version = Latest -> "resolve"
                     [] OTHER -> "decide")
  BY DEF Receive
<1>2. /\ q \in Request /\ q.version \in Versions \cup {Latest}
      /\ q.op \in {"publish", "deprecate", "get", "versions", "export"}
      /\ q.op \in Mutations => q.version \in Versions
  BY RegistryAssumption, LatestAssumption DEF Request, Mutations
<1>3. PICK step \in {"versions", "resolve", "decide"} :
        /\ Goto(c, step)
        /\ step = "resolve" => q.op = "get"
        /\ step = "decide" => q.op # "versions" /\ (q.op = "get" => q.version # Latest)
  BY <1>1
<1>4. pc' \in [Clients -> Steps] /\ pc'[c] = step /\ \A d \in Clients \ {c} : pc'[d] = pc[d]
  BY <1>3, GotoStep DEF Typed, Steps
<1>5. /\ served' \in 0..MaxRequests /\ id' \in [Clients -> 0..MaxRequests]
      /\ id'[c] = served + 1 /\ served' = served + 1 /\ served \in Nat
  BY RegistryAssumption DEF Receive, Typed, TypeOK
<1>6. /\ req' \in [Clients -> Requests] /\ req'[c] = q
      /\ ver' \in [Clients -> Versions \cup {Latest}] /\ ver'[c] = q.version
  BY <1>1, <1>2 DEF Typed, TypeOK
<1>7. TypeOK'
  BY <1>4, <1>5, <1>6 DEF Receive, Typed, TypeOK, dbVars
<1>8. HandlerOK(c)'
  BY <1>2, <1>3, <1>4, <1>5, <1>6 DEF HandlerOK, Keyed, Mutations
<1>9. Others(c)
  BY <1>1, <1>4 DEF Receive, Typed, TypeOK, Others
<1> QED
  BY <1>7, <1>8, <1>9 DEF Kept

LEMMA ResolveKept ==
  ASSUME Typed, NEW c \in Clients, Resolve(c) \/ ResolveFails(c)
  PROVE  Kept(c)
<1>1. TypeOK /\ HandlerOK(c) /\ pc[c] = "resolve" /\ req[c].op = "get"
  BY DEF Typed, HandlerOK, Resolve, ResolveFails
<1>2. PICK step \in {"decide", "done", "audit"} :
        /\ Goto(c, step)
        /\ UNCHANGED reply \/ Code(c, "not_found")
        /\ step = "audit" => Code(c, "not_found")
        /\ \/ step = "done" /\ UNCHANGED ver
           \/ \E v \in Versions : ver' = [ver EXCEPT ![c] = v]
        /\ UNCHANGED <<dbVars, req, id, served, faults>>
  BY DEF Resolve, ResolveFails, Published
<1>3. pc' \in [Clients -> Steps] /\ pc'[c] = step /\ \A d \in Clients \ {c} : pc'[d] = pc[d]
  BY <1>1, <1>2, GotoStep DEF Steps
<1>4. /\ reply' \in [Clients -> Reply] /\ \A d \in Clients \ {c} : reply'[d] = reply[d]
      /\ step = "audit" => reply'[c].code = "not_found"
  <2>1. CASE UNCHANGED reply /\ step # "audit"
    BY <1>1, <2>1 DEF TypeOK
  <2>2. CASE Code(c, "not_found")
    BY <1>1, <2>2, CodeStep DEF Codes
  <2> QED
    BY <1>2, <2>1, <2>2
<1>5. /\ ver' \in [Clients -> Versions \cup {Latest}]
      /\ step # "done" => ver'[c] \in Versions
      /\ \A d \in Clients \ {c} : ver'[d] = ver[d]
  BY <1>1, <1>2 DEF TypeOK
<1>6. TypeOK'
  BY <1>1, <1>2, <1>3, <1>4, <1>5 DEF TypeOK, dbVars
<1>7. HandlerOK(c)'
  BY <1>1, <1>2, <1>3, <1>4, <1>5 DEF HandlerOK, Keyed, Mutations
<1>8. Others(c)
  BY <1>2, <1>3, <1>4, <1>5 DEF Others
<1> QED
  BY <1>6, <1>7, <1>8 DEF Kept

LEMMA DecideKept ==
  ASSUME Typed, NEW c \in Clients,
         Permit(c) \/ Refuse(c) \/ Validate(c) \/ Export(c)
  PROVE  Kept(c)
<1>1. TypeOK /\ HandlerOK(c) /\ c \in Clients
  BY DEF Typed
<1>2. req[c].op \in {"publish", "deprecate", "get", "versions", "export"}
  BY <1>1, RequestType
<1>3. PICK step \in {"validate", "begin", "row", "export", "done", "audit"} :
        /\ Goto(c, step)
        /\ \/ UNCHANGED reply /\ step # "audit"
           \/ \E code \in Codes \ {"ok"} : Code(c, code)
           \/ Code(c, "ok") /\ step = "done"
        /\ step = "validate" => pc[c] = "decide" /\ req[c].op = "publish"
        /\ step = "begin" =>
             \/ pc[c] = "decide" /\ req[c].op = "deprecate"
             \/ pc[c] = "validate"
        /\ step = "row" => pc[c] = "decide" /\ req[c].op = "get"
        /\ step = "audit" => pc[c] = "decide" /\ req[c].op # "export"
        /\ UNCHANGED <<dbVars, taskVars, served, faults>>
  <2>1. CASE Permit(c)
    <3>1. req[c].op \in {"publish", "deprecate", "get", "export"}
      BY <1>1, <1>2, <2>1 DEF HandlerOK, Permit
    <3> QED
      BY <2>1, <3>1 DEF Permit
  <2>2. CASE Refuse(c)
    BY <2>2 DEF Refuse, Codes
  <2>3. CASE Validate(c)
    BY <2>3 DEF Validate, Codes
  <2>4. CASE Export(c)
    BY <2>4 DEF Export
  <2> QED
    BY <2>1, <2>2, <2>3, <2>4
<1>4. /\ pc' \in [Clients -> Steps] /\ reply' \in [Clients -> Reply] /\ pc'[c] = step
      /\ Others(c)
  BY <1>3, MoveStep DEF Steps, Codes, taskVars
<1>5. step = "audit" => reply'[c].code # "ok"
  BY <1>1, <1>3, CodeStep DEF Codes
<1>6. TypeOK'
  BY <1>1, <1>3, <1>4 DEF TypeOK, dbVars, taskVars
<1>7. HandlerOK(c)'
  <2>1. /\ req'[c] = req[c] /\ id'[c] = id[c] /\ ver'[c] = ver[c] /\ served' = served
        /\ pc[c] # "idle"
    BY <1>3 DEF taskVars, Permit, Refuse, Validate, Export
  <2> QED
    BY <1>1, <1>2, <1>3, <1>4, <1>5, <2>1 DEF HandlerOK, Keyed, Mutations
<1> QED
  BY <1>4, <1>6, <1>7 DEF Kept

LEMMA AuditKept ==
  ASSUME Typed, NEW c \in Clients, Audit(c)
  PROVE  /\ Kept(c)
         /\ \E e \in Event :
              /\ e.id = id[c] /\ (e.outcome = "ok" => e.action = "fetch")
              /\ db'.rows = db.rows /\ db'.log = Append(db.log, e)
<1>1. TypeOK /\ HandlerOK(c) /\ pc[c] = "audit" /\ ver[c] \in Versions
  BY DEF Typed, Audit, HandlerOK, Keyed
<1> DEFINE e == NewEvent(c, IF reply[c].code = "ok" THEN "ok" ELSE "denied")
<1>2. e \in Event
  BY <1>1, EventType DEF HandlerOK
<1>3. db \in Database /\ db' = [db EXCEPT !.log = Append(@, e)]
  BY <1>1 DEF Audit, TypeOK
<1>4. e.id = id[c] /\ (e.outcome = "ok" => e.action = "fetch")
  BY <1>1 DEF NewEvent, HandlerOK, Action
<1> HIDE DEF e
<1>5. db' \in Database /\ db'.rows = db.rows /\ db'.log = Append(db.log, e)
  BY <1>2, <1>3, AddEvent
<1>6. PICK step \in {"content", "done"} :
        Goto(c, step) /\ (step = "content" => reply[c].code = "ok")
  BY DEF Audit
<1>7. /\ pc' \in [Clients -> Steps] /\ reply' \in [Clients -> Reply] /\ pc'[c] = step
      /\ Others(c)
  BY <1>6, MoveStep DEF Audit, Steps, taskVars
<1>8. TypeOK'
  BY <1>1, <1>5, <1>7 DEF TypeOK, Audit, taskVars
<1>9. HandlerOK(c)'
  BY <1>1, <1>6, <1>7 DEF HandlerOK, Keyed, Audit, taskVars
<1> QED
  BY <1>2, <1>4, <1>5, <1>7, <1>8, <1>9 DEF Kept

LEMMA BeginKept ==
  ASSUME Typed, NEW c \in Clients, Begin(c)
  PROVE  Kept(c)
<1>1. TypeOK /\ HandlerOK(c) /\ pc[c] = "begin"
  BY DEF Typed, Begin
<1>2. PICK step \in {"put", "status"} :
        Goto(c, step) /\ step = IF req[c].op = "publish" THEN "put" ELSE "status"
  BY DEF Begin
<1>3. /\ pc' \in [Clients -> Steps] /\ reply' \in [Clients -> Reply] /\ pc'[c] = step
      /\ Others(c)
  BY <1>2, MoveStep DEF Begin, Steps, taskVars
<1>4. TypeOK'
  BY <1>1, <1>3 DEF TypeOK, Begin, taskVars
<1>5. HandlerOK(c)'
  BY <1>1, <1>2, <1>3 DEF HandlerOK, Keyed, Mutations, Begin, taskVars
<1> QED
  BY <1>3, <1>4, <1>5 DEF Kept

\* The steps of a transaction that end it, and those that go on.
LEMMA RollbackKept ==
  ASSUME Typed, NEW c \in Clients, PutExists(c) \/ StatusMissing(c)
  PROVE  Kept(c)
<1>1. TypeOK /\ HandlerOK(c) /\ pc[c] # "idle"
  BY DEF Typed, PutExists, StatusMissing
<1>2. PICK code \in Codes : Rollback(c, code)
  BY DEF PutExists, StatusMissing, Codes
<1>3. /\ pc' \in [Clients -> Steps] /\ reply' \in [Clients -> Reply] /\ pc'[c] = "done"
      /\ Others(c)
  BY <1>2, MoveStep DEF Rollback, PutExists, StatusMissing, Steps, taskVars
<1>4. UNCHANGED <<db, taskVars, served, faults>> /\ conn' = None /\ work' = EmptyDb
  BY <1>2 DEF Rollback, PutExists, StatusMissing
<1>5. TypeOK'
  BY <1>1, <1>3, <1>4, EmptyType DEF TypeOK, taskVars
<1>6. HandlerOK(c)'
  BY <1>1, <1>3, <1>4 DEF HandlerOK, Keyed, taskVars
<1> QED
  BY <1>3, <1>5, <1>6 DEF Kept

LEMMA PutKept ==
  ASSUME Typed, NEW c \in Clients, Put(c)
  PROVE  /\ Kept(c) /\ PublishedRow(c) \in Row /\ Key(c) \in Keys
         /\ work'.rows = [work.rows EXCEPT ![Key(c)] = PublishedRow(c)]
         /\ work'.log = work.log
<1>1. TypeOK /\ HandlerOK(c) /\ pc[c] = "put"
  BY DEF Typed, Put
<1>2. Key(c) \in Keys /\ PublishedRow(c) \in Row
  BY <1>1, RequestType DEF HandlerOK, Keyed, PublishedRow, Row
<1>3. /\ work' \in Database
      /\ work'.rows = [work.rows EXCEPT ![Key(c)] = PublishedRow(c)]
      /\ work'.log = work.log
  <2>1. work \in Database /\ work' = [work EXCEPT !.rows[Key(c)] = PublishedRow(c)]
    BY <1>1 DEF TypeOK, Put
  <2>2. [work.rows EXCEPT ![Key(c)] = PublishedRow(c)] \in [Keys -> Row \cup {None}]
    BY <1>2, <2>1 DEF Database
  <2> QED
    BY <2>1, <2>2 DEF Database
<1>4. /\ pc' \in [Clients -> Steps] /\ reply' \in [Clients -> Reply] /\ pc'[c] = "putFiles"
      /\ Others(c)
  BY MoveStep DEF Put, Steps, taskVars
<1>5. TypeOK'
  BY <1>1, <1>3, <1>4 DEF TypeOK, Put, taskVars
<1>6. HandlerOK(c)'
  BY <1>1, <1>4 DEF HandlerOK, Keyed, Put, taskVars
<1> QED
  BY <1>2, <1>3, <1>4, <1>5, <1>6 DEF Kept

LEMMA PutFilesKept ==
  ASSUME Typed, NEW c \in Clients, PutFiles(c)
  PROVE  Kept(c) /\ work'.rows = work.rows /\ work'.log = work.log
<1>1. TypeOK /\ HandlerOK(c) /\ pc[c] = "putFiles"
  BY DEF Typed, PutFiles
<1>2. Key(c) \in Keys /\ req[c].content \in SUBSET Files
  BY <1>1, RequestType DEF HandlerOK, Keyed, Digests
<1>3. /\ work' \in Database
      /\ work'.rows = work.rows /\ work'.log = work.log
  <2>1. work \in Database /\ work' = [work EXCEPT !.files[Key(c)] = req[c].content]
    BY <1>1 DEF TypeOK, PutFiles
  <2> QED
    BY <1>2, <2>1, SetFiles
<1>4. /\ pc' \in [Clients -> Steps] /\ reply' \in [Clients -> Reply] /\ pc'[c] = "record"
      /\ Others(c)
  BY MoveStep DEF PutFiles, Steps, taskVars
<1>5. TypeOK'
  BY <1>1, <1>3, <1>4 DEF TypeOK, PutFiles, taskVars
<1>6. HandlerOK(c)'
  BY <1>1, <1>4 DEF HandlerOK, Keyed, PutFiles, Mutations, taskVars
<1> QED
  BY <1>3, <1>4, <1>5, <1>6 DEF Kept

LEMMA SetStatusKept ==
  ASSUME Typed, NEW c \in Clients, SetStatus(c)
  PROVE  /\ Kept(c) /\ Key(c) \in Keys
         /\ \/ pc'[c] = "commit" /\ UNCHANGED work
            \/ /\ pc'[c] = "record" /\ work.rows[Key(c)].status = "published"
               /\ work.rows[Key(c)] # None
               /\ work'.rows = [work.rows EXCEPT ![Key(c)].status = "deprecated"]
               /\ work'.log = work.log
<1>1. TypeOK /\ HandlerOK(c) /\ pc[c] = "status" /\ Key(c) \in Keys
  BY RequestType DEF Typed, SetStatus, HandlerOK, Keyed
<1>2. work.rows[Key(c)] \in Row /\ work.rows[Key(c)] # None
  BY <1>1 DEF TypeOK, SetStatus, Database
<1> DEFINE new == [work.rows[Key(c)] EXCEPT !.status = "deprecated"]
<1>3. new \in Row /\ work.rows[Key(c)].status \in {"published", "deprecated"}
  BY <1>2 DEF Row
<1>4. PICK step \in {"commit", "record"} :
        /\ Goto(c, step)
        /\ \/ step = "commit" /\ UNCHANGED work
           \/ /\ step = "record" /\ work.rows[Key(c)].status # "deprecated"
              /\ work' = [work EXCEPT !.rows[Key(c)] = new]
  <2>1. [work EXCEPT !.rows[Key(c)].status = "deprecated"] = [work EXCEPT !.rows[Key(c)] = new]
    OBVIOUS
  <2> QED
    BY <2>1 DEF SetStatus
<1>5. /\ pc' \in [Clients -> Steps] /\ reply' \in [Clients -> Reply] /\ pc'[c] = step
      /\ Others(c)
  BY <1>4, MoveStep DEF SetStatus, Steps, taskVars
<1>6. [work.rows EXCEPT ![Key(c)].status = "deprecated"] = [work.rows EXCEPT ![Key(c)] = new]
  OBVIOUS
<1> HIDE DEF new
<1>7. /\ work' \in Database
      /\ step = "record" => /\ work'.rows = [work.rows EXCEPT ![Key(c)] = new]
                            /\ work'.log = work.log
  BY <1>1, <1>3, <1>4, SetRow DEF TypeOK
<1>8. TypeOK'
  BY <1>1, <1>5, <1>7 DEF TypeOK, SetStatus, taskVars
<1>9. HandlerOK(c)'
  BY <1>1, <1>5 DEF HandlerOK, Keyed, SetStatus, Mutations, taskVars
<1> QED
  BY <1>1, <1>2, <1>3, <1>4, <1>5, <1>6, <1>7, <1>8, <1>9 DEF Kept

LEMMA RecordKept ==
  ASSUME Typed, NEW c \in Clients, Record(c)
  PROVE  Kept(c) /\ work'.rows = work.rows /\ work'.log = Append(work.log, NewEvent(c, "ok"))
<1>1. TypeOK /\ HandlerOK(c) /\ pc[c] = "record"
  BY DEF Typed, Record
<1>2. NewEvent(c, "ok") \in Event
  BY <1>1, EventType DEF HandlerOK, Keyed
<1>3. /\ work' \in Database
      /\ work'.rows = work.rows /\ work'.log = Append(work.log, NewEvent(c, "ok"))
  BY <1>1, <1>2, AddEvent DEF TypeOK, Record
<1>4. /\ pc' \in [Clients -> Steps] /\ reply' \in [Clients -> Reply] /\ pc'[c] = "commit"
      /\ Others(c)
  BY MoveStep DEF Record, Steps, taskVars
<1>5. TypeOK'
  BY <1>1, <1>3, <1>4 DEF TypeOK, Record, taskVars
<1>6. HandlerOK(c)'
  BY <1>1, <1>4 DEF HandlerOK, Keyed, Record, taskVars
<1> QED
  BY <1>3, <1>4, <1>5, <1>6 DEF Kept

LEMMA CommitKept ==
  ASSUME Typed, NEW c \in Clients, Commit(c)
  PROVE  Kept(c)
<1>1. TypeOK /\ HandlerOK(c) /\ pc[c] = "commit" /\ Key(c) \in Keys
  BY RequestType DEF Typed, Commit, HandlerOK, Keyed
<1> DEFINE told == [NoReply EXCEPT !.code = "ok", !.row = work.rows[Key(c)],
                                   !.files = work.files[Key(c)]]
<1>2. told \in Reply
  <2>1. /\ work.rows[Key(c)] \in Row \cup {None}
        /\ work.files[Key(c)] \in SUBSET Files
    BY <1>1 DEF TypeOK, Database
  <2> QED
    BY <2>1 DEF NoReply, Reply, Codes
<1>3. reply' = [reply EXCEPT ![c] = told]
  BY DEF Commit
<1> HIDE DEF told
<1>4. reply' \in [Clients -> Reply] /\ \A d \in Clients \ {c} : reply'[d] = reply[d]
  BY <1>1, <1>2, <1>3 DEF TypeOK
<1>5. pc' \in [Clients -> Steps] /\ pc'[c] = "done" /\ \A d \in Clients \ {c} : pc'[d] = pc[d]
  BY <1>1, GotoStep DEF Commit, Steps
<1>6. TypeOK'
  BY <1>1, <1>4, <1>5, EmptyType DEF TypeOK, Commit, taskVars
<1>7. HandlerOK(c)'
  BY <1>1, <1>5 DEF HandlerOK, Keyed, Commit, taskVars
<1>8. Others(c)
  BY <1>4, <1>5 DEF Commit, Others, taskVars
<1> QED
  BY <1>6, <1>7, <1>8 DEF Kept

\* The reads change nothing but the answer.
LEMMA ReadKept ==
  ASSUME Typed, NEW c \in Clients,
         ReadRow(c) \/ ReadFiles(c) \/ ReadContent(c) \/ ListVersions(c)
  PROVE  Kept(c)
<1>1. TypeOK /\ HandlerOK(c) /\ pc[c] # "idle" /\ db \in Database /\ reply[c] \in Reply
  BY DEF Typed, TypeOK, ReadRow, ReadFiles, ReadContent, ListVersions
<1>2. UNCHANGED <<dbVars, taskVars, served, faults>>
  BY DEF ReadRow, ReadFiles, ReadContent, ListVersions
<1>3. PICK step \in {"done", "files", "audit"} :
        /\ Goto(c, step)
        /\ step = "files" => pc[c] = "row"
        /\ step = "audit" => pc[c] = "files"
  BY DEF ReadRow, ReadFiles, ReadContent, ListVersions
<1>4. \E told \in Reply : reply' = [reply EXCEPT ![c] = told]
  <2>1. CASE ReadRow(c)
    <3> DEFINE row == db.rows[Key(c)]
    <3>1. row \in Row \cup {None}
      BY <1>1, <2>1, RequestType DEF Database, ReadRow, HandlerOK, Keyed
    <3>2. [reply[c] EXCEPT !.code = "not_found"] \in Reply /\ [reply[c] EXCEPT !.row = row] \in Reply
      BY <1>1, <3>1 DEF Reply, Codes
    <3>3. \/ reply' = [reply EXCEPT ![c] = [reply[c] EXCEPT !.code = "not_found"]]
          \/ reply' = [reply EXCEPT ![c] = [reply[c] EXCEPT !.row = row]]
      BY <2>1 DEF ReadRow, Code
    <3> QED
      BY <3>2, <3>3
  <2>2. CASE ReadFiles(c)
    <3> DEFINE told == [reply[c] EXCEPT !.files = db.files[Key(c)], !.code = "ok"]
    <3>1. db.files[Key(c)] \in SUBSET Files
      BY <1>1, <2>2, RequestType DEF Database, ReadFiles, HandlerOK, Keyed
    <3>2. told \in Reply
      BY <1>1, <3>1 DEF Reply, Codes
    <3>3. reply' = [reply EXCEPT ![c] = told]
      BY <1>1, <2>2 DEF ReadFiles, TypeOK
    <3> QED
      BY <3>2, <3>3
  <2>3. CASE ReadContent(c)
    <3>1. [reply[c] EXCEPT !.code = "not_found"] \in Reply
      BY <1>1 DEF Reply, Codes
    <3>2. \/ reply' = [reply EXCEPT ![c] = reply[c]]
          \/ reply' = [reply EXCEPT ![c] = [reply[c] EXCEPT !.code = "not_found"]]
      BY <1>1, <2>3 DEF ReadContent, Code, TypeOK
    <3> QED
      BY <1>1, <3>1, <3>2
  <2>4. CASE ListVersions(c)
    <3> DEFINE skill == req[c].skill
               mine == {v \in Versions : db.rows[<<skill, v>>] # None
                                         /\ MayFetch(req[c].who, skill, v)}
               item(v) == [version |-> v, status |-> db.rows[<<skill, v>>].status]
               listed == {item(v) : v \in mine}
               code == IF mine = {} THEN "not_found" ELSE "ok"
               told == [reply[c] EXCEPT !.code = code, !.listed = listed]
    <3>1. listed \in SUBSET [version: Versions, status: {"published", "deprecated"}]
      <4>1. skill \in Skills
        BY <1>1, RequestType
      <4> HIDE DEF skill
      <4>2. \A v \in mine : v \in Versions /\ db.rows[<<skill, v>>] \in Row
        BY <1>1, <4>1 DEF Database, Keys
      <4>3. \A v \in mine : db.rows[<<skill, v>>].status \in {"published", "deprecated"}
        BY <4>2 DEF Row
      <4>4. \A v \in mine :
              item(v) \in [version: Versions, status: {"published", "deprecated"}]
        BY <4>2, <4>3
      <4> HIDE DEF mine, item
      <4> QED
        BY <4>4
    <3>2. code \in Codes
      BY DEF Codes
    <3>3. reply' = [reply EXCEPT ![c] = told]
      BY <1>1, <2>4 DEF ListVersions, TypeOK
    <3> HIDE DEF listed, code, mine, item
    <3>4. told \in Reply
      BY <1>1, <3>1, <3>2 DEF Reply
    <3> QED
      BY <3>3, <3>4
  <2> QED
    BY <2>1, <2>2, <2>3, <2>4
<1>5. reply' \in [Clients -> Reply] /\ \A d \in Clients \ {c} : reply'[d] = reply[d]
  BY <1>1, <1>4 DEF TypeOK
<1>6. pc' \in [Clients -> Steps] /\ pc'[c] = step /\ \A d \in Clients \ {c} : pc'[d] = pc[d]
  BY <1>1, <1>3, GotoStep DEF Steps
<1>7. TypeOK'
  BY <1>1, <1>2, <1>5, <1>6 DEF TypeOK, dbVars, taskVars
<1>8. HandlerOK(c)'
  BY <1>1, <1>2, <1>3, <1>6 DEF HandlerOK, Keyed, taskVars
<1>9. Others(c)
  BY <1>2, <1>5, <1>6 DEF Others, taskVars
<1> QED
  BY <1>7, <1>8, <1>9 DEF Kept

LEMMA EndKept ==
  ASSUME Typed, NEW c \in Clients, Leave(c) \/ Cancel(c)
  PROVE  Kept(c)
<1>1. TypeOK /\ Forget(c) /\ served' = served
  BY DEF Typed, Leave, Cancel
<1>2. /\ pc' \in [Clients -> Steps] /\ req' \in [Clients -> Requests]
      /\ id' \in [Clients -> 0..MaxRequests] /\ ver' \in [Clients -> Versions \cup {Latest}]
      /\ reply' \in [Clients -> Reply]
      /\ pc'[c] = "idle" /\ Others(c)
  BY <1>1, ForgetStep
<1>3. /\ db' \in Database /\ conn' \in Clients \cup {None} /\ work' \in Database
      /\ faults' \in 0..MaxFaults
  BY <1>1, EmptyType, RegistryAssumption DEF Leave, Cancel, ReleaseConn, TypeOK, dbVars
<1>4. TypeOK'
  BY <1>1, <1>2, <1>3 DEF TypeOK
<1>5. HandlerOK(c)'
  BY <1>2 DEF HandlerOK, Keyed
<1> QED
  BY <1>2, <1>4, <1>5 DEF Kept

LEMMA QueryFailsKept ==
  ASSUME Typed, NEW c \in Clients, QueryFails(c)
  PROVE  Kept(c) /\ pc'[c] \in {"content", "done"}
<1>1. TypeOK /\ HandlerOK(c) /\ pc[c] # "idle"
  BY DEF Typed, QueryFails, Querying
<1>2. PICK step \in {"content", "done"} :
        /\ Goto(c, step)
        /\ step = "content" => pc[c] = "audit" /\ reply[c].code = "ok"
  BY DEF QueryFails
<1>3. pc' \in [Clients -> Steps] /\ pc'[c] = step /\ \A d \in Clients \ {c} : pc'[d] = pc[d]
  BY <1>1, <1>2, GotoStep DEF Steps
<1>4. NoReply \in Reply
  BY DEF NoReply, Reply, Codes
<1>5. reply' \in [Clients -> Reply] /\ \A d \in Clients \ {c} : reply'[d] = reply[d]
  BY <1>1, <1>4 DEF QueryFails, TypeOK
<1>6. /\ conn' \in Clients \cup {None} /\ work' \in Database /\ faults' \in 0..MaxFaults
  BY <1>1, EmptyType, RegistryAssumption DEF QueryFails, ReleaseConn, TypeOK
<1>7. TypeOK'
  BY <1>1, <1>3, <1>5, <1>6 DEF TypeOK, QueryFails, taskVars
<1>8. HandlerOK(c)'
  BY <1>1, <1>2, <1>3 DEF HandlerOK, Keyed, QueryFails, taskVars
<1>9. Others(c)
  BY <1>3, <1>5 DEF Others, QueryFails, taskVars
<1> QED
  BY <1>2, <1>3, <1>7, <1>8, <1>9 DEF Kept

LEMMA RestartTyped ==
  ASSUME Typed, Restart
  PROVE  Typed'
<1>1. NoRequest \in Requests /\ NoReply \in Reply
  BY RegistryAssumption DEF NoRequest, NoReply, Reply, Codes
<1>2. TypeOK'
  BY <1>1, EmptyType, RegistryAssumption DEF Typed, TypeOK, Restart, Steps
<1>3. \A c \in Clients : HandlerOK(c)'
  BY DEF Restart, HandlerOK, Keyed
<1> QED
  BY <1>2, <1>3 DEF Typed

LEMMA HandleKept ==
  ASSUME Typed, NEW c \in Clients, Receive(c) \/ Handle(c) \/ QueryFails(c) \/ Cancel(c)
  PROVE  Kept(c)
BY ReceiveKept, ResolveKept, DecideKept, AuditKept, BeginKept, RollbackKept, PutKept,
   PutFilesKept, SetStatusKept, RecordKept, CommitKept, ReadKept, EndKept,
   QueryFailsKept
DEF Handle

LEMMA TypedInit == Init => Typed
<1> SUFFICES ASSUME Init PROVE Typed
  OBVIOUS
<1>1. NoRequest \in Requests /\ NoReply \in Reply
  BY RegistryAssumption DEF NoRequest, NoReply, Reply, Codes
<1>2. TypeOK
  BY <1>1, EmptyType, RegistryAssumption DEF Init, TypeOK, Steps
<1>3. \A c \in Clients : HandlerOK(c)
  BY DEF Init, HandlerOK, Keyed
<1> QED
  BY <1>2, <1>3 DEF Typed

LEMMA TypedStep == Typed /\ [Next]_vars => Typed'
<1> SUFFICES ASSUME Typed, [Next]_vars PROVE Typed'
  OBVIOUS
<1>1. ASSUME NEW c \in Clients, Receive(c) \/ Handle(c) \/ QueryFails(c) \/ Cancel(c)
      PROVE  Typed'
  <2>1. Kept(c)
    BY <1>1, HandleKept
  <2>2. served' \in Nat /\ served' >= served
    <3>1. CASE Receive(c)
      BY <3>1, RegistryAssumption DEF Typed, TypeOK, Receive
    <3>2. CASE Handle(c)
      <4>1. served' = served
        BY <3>2 DEF Handle, Resolve, ResolveFails, Permit, Refuse, Audit, Validate, Begin,
           Put, PutExists, PutFiles, StatusMissing, SetStatus, Record, Commit, ReadRow,
           ReadFiles, ReadContent, ListVersions, Export, Leave
      <4> QED
        BY <4>1, RegistryAssumption DEF Typed, TypeOK
    <3>3. CASE QueryFails(c) \/ Cancel(c)
      BY <3>3, RegistryAssumption DEF Typed, TypeOK, QueryFails, Cancel
    <3> QED
      BY <1>1, <3>1, <3>2, <3>3
  <2> QED
    BY <2>1, <2>2, OtherHandlers DEF Kept, Typed
<1>2. CASE UNCHANGED vars
  BY <1>2 DEF vars, dbVars, taskVars, Typed, TypeOK, HandlerOK
<1> QED
  BY <1>1, <1>2, RestartTyped DEF Next

\* Every variable keeps its type, whatever the constants.
THEOREM TypeCorrect == Spec => []TypeOK
<1>1. Typed => TypeOK
  BY DEF Typed
<1> QED
  BY <1>1, TypedInit, TypedStep, PTL DEF Spec

-----------------------------------------------------------------------------
(* The invariant of the transactions and of the request ids.               *)

TxSteps == {"put", "putFiles", "status", "record", "commit"}

\* The transaction of c has made the change that c asked for.
Changed(c) ==
  \/ /\ req[c].op = "publish"
     /\ db.rows[Key(c)] = None
     /\ work.rows = [db.rows EXCEPT ![Key(c)] = PublishedRow(c)]
  \/ /\ req[c].op = "deprecate"
     /\ db.rows[Key(c)] # None /\ db.rows[Key(c)].status = "published"
     /\ work.rows = [db.rows EXCEPT ![Key(c)].status = "deprecated"]

Unchanged == work.rows = db.rows /\ work.log = db.log

\* Exactly the handler that is in a transaction holds the connection, and its
\* view is the committed database with the change, and then its record, in it.
TxOK(c) ==
  /\ conn = c <=> pc[c] \in TxSteps
  /\ pc[c] \in {"put", "status"} => Unchanged
  /\ pc[c] \in {"putFiles", "record"} => Changed(c) /\ work.log = db.log
  /\ pc[c] = "commit" =>
       \/ Unchanged
       \/ Changed(c) /\ work.log = Append(db.log, NewEvent(c, "ok"))

Logged(i) == \E j \in DOMAIN db.log : db.log[j].id = i

\* The steps of a request that has no record yet.
Unrecorded == Steps \ {"idle", "content", "done"}

IdsOK ==
  /\ \A c, d \in Clients : pc[c] # "idle" /\ pc[d] # "idle" /\ c # d => id[c] # id[d]
  /\ \A i : Logged(i) => i \in 1..served
  /\ \A c \in Clients : pc[c] \in Unrecorded => ~Logged(id[c])

Inv == Typed /\ IdsOK /\ \A c \in Clients : TxOK(c)

\* Handlers outside the transaction of c stay outside any.
LEMMA OutsideTx ==
  ASSUME Inv, NEW c \in Clients, Others(c), conn \in {c, None}, conn' \in {c, None}
  PROVE  \A d \in Clients \ {c} : TxOK(d)'
<1> SUFFICES ASSUME NEW d \in Clients, d # c PROVE TxOK(d)'
  OBVIOUS
<1>1. conn # d /\ conn' # d
  BY RegistryAssumption
<1>2. pc'[d] \notin TxSteps
  BY <1>1 DEF Inv, TxOK, Others
<1> QED
  BY <1>1, <1>2 DEF TxOK, TxSteps

\* A step that leaves the database alone leaves the other transactions alone.
LEMMA OtherTx ==
  ASSUME Inv, NEW c \in Clients, Others(c), UNCHANGED dbVars
  PROVE  \A d \in Clients \ {c} : TxOK(d)'
<1> SUFFICES ASSUME NEW d \in Clients, d # c PROVE TxOK(d)'
  OBVIOUS
<1>1. /\ db' = db /\ conn' = conn /\ work' = work
      /\ pc'[d] = pc[d] /\ req'[d] = req[d] /\ id'[d] = id[d] /\ ver'[d] = ver[d]
  BY DEF Others, dbVars
<1>2. TxOK(d)
  BY DEF Inv
<1>3. Key(d)' = Key(d) /\ PublishedRow(d)' = PublishedRow(d)
      /\ NewEvent(d, "ok")' = NewEvent(d, "ok")
  BY <1>1 DEF Key, PublishedRow, NewEvent, Action
<1>4. (Unchanged' <=> Unchanged) /\ (Changed(d)' <=> Changed(d))
  BY <1>1, <1>3 DEF Unchanged, Changed
<1> QED
  BY <1>1, <1>2, <1>3, <1>4 DEF TxOK

\* A step that records nothing and does not begin a request.
LEMMA NothingLogged ==
  ASSUME Inv, NEW c \in Clients, Others(c), db'.log = db.log, served' = served,
         pc'[c] # "idle" => pc[c] # "idle" /\ id'[c] = id[c],
         pc'[c] \in Unrecorded => pc[c] \in Unrecorded
  PROVE  IdsOK'
<1>1. \A i : Logged(i)' <=> Logged(i)
  BY DEF Logged
<1>2. \A d \in Clients : /\ pc'[d] # "idle" => pc[d] # "idle" /\ id'[d] = id[d]
                         /\ pc'[d] \in Unrecorded => pc[d] \in Unrecorded
  BY DEF Others
<1>3. \A d \in Clients : pc'[d] \in Unrecorded => pc'[d] # "idle"
  BY DEF Unrecorded
<1> QED
  BY <1>1, <1>2, <1>3 DEF Inv, IdsOK

\* A step that records the request of c, after which c has done with it.
LEMMA OneLogged ==
  ASSUME Inv, NEW c \in Clients, Others(c), served' = served, id'[c] = id[c],
         NEW e \in Event, e.id = id[c], db'.log = Append(db.log, e),
         pc[c] # "idle", pc'[c] \notin Unrecorded
  PROVE  IdsOK'
<1>1. db.log \in Seq(Event)
  BY DEF Inv, Typed, TypeOK, Database
<1>2. \A i : Logged(i)' <=> Logged(i) \/ i = id[c]
  <2>1. /\ DOMAIN db.log = 1..Len(db.log) /\ Len(db.log) \in Nat
        /\ DOMAIN db'.log = 1..(Len(db.log) + 1)
        /\ \A j \in 1..Len(db.log) : db'.log[j] = db.log[j]
        /\ db'.log[Len(db.log) + 1] = e
    BY <1>1
  <2>2. 1..(Len(db.log) + 1) = 1..Len(db.log) \cup {Len(db.log) + 1}
    BY <2>1
  <2> QED
    BY <2>1, <2>2 DEF Logged
<1>3. id[c] \in 1..served
  BY DEF Inv, Typed, HandlerOK
<1>4. \A d \in Clients \ {c} : pc'[d] = pc[d] /\ id'[d] = id[d]
  BY DEF Others
<1>5. \A d \in Clients : pc[d] \in Unrecorded => pc[d] # "idle"
  BY DEF Unrecorded
<1> QED
  BY <1>2, <1>3, <1>4, <1>5 DEF Inv, IdsOK

LEMMA InvInit == Init => Inv
<1> SUFFICES ASSUME Init PROVE Inv
  OBVIOUS
<1>1. Typed
  BY TypedInit
<1>2. db.log = <<>> /\ \A c \in Clients : pc[c] = "idle" /\ conn # c
  BY RegistryAssumption DEF Init, EmptyDb
<1>3. \A i : ~Logged(i)
  BY <1>2 DEF Logged
<1>4. IdsOK
  BY <1>2, <1>3 DEF IdsOK
<1>5. \A c \in Clients : TxOK(c)
  BY <1>2 DEF TxOK, TxSteps
<1> QED
  BY <1>1, <1>4, <1>5 DEF Inv

-----------------------------------------------------------------------------
(* The steps keep the invariant, and each is one of the catalogue or none. *)

Sound == IdsOK' /\ \A d \in Clients : TxOK(d)'

Stutter == UNCHANGED <<Rows, db.log>>

LEMMA SameDb ==
  ASSUME UNCHANGED db
  PROVE  Stutter
BY DEF Stutter, Rows

\* Steps outside transactions that change nothing in the database.
LEMMA OutsideSound ==
  ASSUME Inv, NEW c \in Clients, Others(c), UNCHANGED dbVars, served' = served,
         pc[c] \notin TxSteps, pc'[c] \notin TxSteps,
         pc'[c] # "idle" => pc[c] # "idle" /\ id'[c] = id[c],
         pc'[c] \in Unrecorded => pc[c] \in Unrecorded
  PROVE  Sound /\ Stutter
<1>1. IdsOK'
  BY NothingLogged DEF dbVars
<1>2. TxOK(c)'
  <2>1. TxOK(c)
    BY DEF Inv
  <2> QED
    BY <2>1 DEF dbVars, TxOK, TxSteps
<1>3. \A d \in Clients : TxOK(d)'
  BY <1>2, OtherTx
<1> QED
  BY <1>1, <1>3, SameDb DEF Sound, dbVars

LEMMA ReceiveSound ==
  ASSUME Inv, NEW c \in Clients, Receive(c)
  PROVE  Sound /\ Stutter
<1>1. Kept(c) /\ served \in Nat
  BY ReceiveKept, RegistryAssumption DEF Inv, Typed, TypeOK
<1>2. /\ pc[c] = "idle" /\ served' = served + 1 /\ id'[c] = served + 1
      /\ UNCHANGED dbVars
  BY DEF Receive, Inv, Typed, TypeOK
<1>3. pc'[c] \notin TxSteps
  <2>1. \E q \in Requests :
          Goto(c, CASE q.op = "versions" -> "versions"
                    [] q.op = "get" /\ q.version = Latest -> "resolve"
                    [] OTHER -> "decide")
    BY DEF Receive
  <2>2. PICK step \in {"versions", "resolve", "decide"} : Goto(c, step)
    BY <2>1
  <2> QED
    BY <2>2, GotoStep DEF Inv, Typed, TxSteps, Steps
<1>4. TxOK(c)'
  <2>1. TxOK(c)
    BY DEF Inv
  <2> QED
    BY <1>2, <1>3, <2>1 DEF dbVars, TxOK, TxSteps
<1>5. \A d \in Clients : TxOK(d)'
  BY <1>1, <1>2, <1>4, OtherTx DEF Kept
<1>6. IdsOK'
  <2>1. \A i : Logged(i)' <=> Logged(i)
    BY <1>2 DEF Logged, dbVars
  <2>2. \A d \in Clients \ {c} : pc'[d] = pc[d] /\ id'[d] = id[d]
    BY <1>1 DEF Kept, Others
  <2>3. \A d \in Clients : pc[d] # "idle" => id[d] \in 1..served
    BY DEF Inv, Typed, HandlerOK
  <2>4. \A i \in 1..served : i \in 1..served' /\ i # served + 1
    BY <1>1, <1>2
  <2>5. served + 1 \notin 1..served
    BY <1>1
  <2>6. ~Logged(served + 1) /\ \A i : Logged(i)' => i \in 1..served'
    BY <2>1, <2>4, <2>5 DEF Inv, IdsOK
  <2>7. \A d \in Clients : pc'[d] \in Unrecorded => ~Logged(id[d])'
    <3> SUFFICES ASSUME NEW d \in Clients, pc'[d] \in Unrecorded PROVE ~Logged(id[d])'
      OBVIOUS
    <3>1. CASE d = c
      BY <1>2, <2>6, <3>1 DEF Logged, dbVars
    <3>2. CASE d # c
      <4>1. ~Logged(id[d]) /\ id'[d] = id[d]
        BY <2>2, <3>2 DEF Inv, IdsOK
      <4> QED
        BY <1>2, <4>1 DEF Logged, dbVars
    <3> QED
      BY <3>1, <3>2
  <2>8. \A d, e \in Clients : pc'[d] # "idle" /\ pc'[e] # "idle" /\ d # e => id'[d] # id'[e]
    BY <1>2, <2>2, <2>3, <2>4 DEF Inv, IdsOK
  <2> QED
    BY <2>6, <2>7, <2>8 DEF IdsOK
<1> QED
  BY <1>2, <1>5, <1>6, SameDb DEF Sound, dbVars

\* A denial or a fetch is noted in the log.
LEMMA AuditSound ==
  ASSUME Inv, NEW c \in Clients, Audit(c)
  PROVE  Sound /\ C!Note
<1>1. PICK e \in Event :
        /\ e.id = id[c] /\ (e.outcome = "ok" => e.action = "fetch")
        /\ db'.rows = db.rows /\ db'.log = Append(db.log, e)
  BY AuditKept DEF Inv
<1>2. Kept(c) /\ pc[c] = "audit" /\ conn = None /\ conn' = conn /\ served' = served /\ id' = id
  BY AuditKept DEF Inv, Audit, Free, taskVars
<1>3. pc'[c] \in {"content", "done"}
  BY GotoStep DEF Inv, Typed, Audit, Steps
<1>4. IdsOK'
  BY <1>1, <1>2, <1>3, OneLogged DEF Kept, Unrecorded
<1>5. TxOK(c)'
  BY <1>2, <1>3, RegistryAssumption DEF TxOK, TxSteps
<1>6. \A d \in Clients : TxOK(d)'
  BY <1>2, <1>5, OutsideTx DEF Kept
<1>7. e.id \in C!FreshIds
  <2>1. ~Logged(e.id)
    BY <1>1, <1>2 DEF Inv, IdsOK, Unrecorded, Steps
  <2>2. e.id \in Ids
    BY DEF Event
  <2> QED
    BY <2>1, <2>2 DEF C!FreshIds, Logged
<1>8. C!Note
  <2>1. e \in C!Event /\ ~C!IsChange(e)
    BY <1>1 DEF Event, C!Event, C!IsChange
  <2> QED
    BY <1>1, <1>7, <2>1 DEF C!Note, Rows
<1> QED
  BY <1>4, <1>6, <1>8 DEF Sound

LEMMA BeginSound ==
  ASSUME Inv, NEW c \in Clients, Begin(c)
  PROVE  Sound /\ Stutter
<1>1. /\ Kept(c) /\ conn = None /\ conn' = c /\ work' = db /\ db' = db
      /\ pc[c] = "begin" /\ served' = served /\ id' = id
  BY BeginKept DEF Inv, Begin, Free, taskVars
<1>2. pc'[c] \in {"put", "status"}
  BY GotoStep DEF Inv, Typed, Begin, Steps
<1>3. IdsOK'
  BY <1>1, <1>2, NothingLogged DEF Kept, Unrecorded, Steps
<1>4. TxOK(c)'
  BY <1>1, <1>2 DEF TxOK, TxSteps, Unchanged
<1>5. \A d \in Clients : TxOK(d)'
  BY <1>1, <1>4, OutsideTx DEF Kept
<1> QED
  BY <1>1, <1>3, <1>5, SameDb DEF Sound

\* Steps within a transaction change only its own view.
LEMMA InsideSound ==
  ASSUME Inv, NEW c \in Clients, Others(c), db' = db, conn = c, conn' = c, served' = served,
         id'[c] = id[c], pc[c] \in TxSteps, pc'[c] \in TxSteps, TxOK(c)'
  PROVE  Sound /\ Stutter
<1>1. IdsOK'
  BY NothingLogged DEF TxSteps, Unrecorded, Steps
<1> QED
  BY <1>1, OutsideTx, SameDb DEF Sound

LEMMA PutSound ==
  ASSUME Inv, NEW c \in Clients, Put(c)
  PROVE  Sound /\ Stutter
<1>1. /\ Kept(c) /\ Key(c) \in Keys
      /\ work'.rows = [work.rows EXCEPT ![Key(c)] = PublishedRow(c)]
      /\ work'.log = work.log
  BY PutKept DEF Inv
<1>2. /\ pc[c] = "put" /\ pc'[c] = "putFiles" /\ conn = c /\ conn' = c /\ db' = db
      /\ UNCHANGED taskVars /\ served' = served /\ work.rows[Key(c)] = None
  BY GotoStep DEF Inv, Typed, Put, InTx, Steps
<1>3. Unchanged /\ req[c].op = "publish"
  BY <1>2 DEF Inv, TxOK, Typed, HandlerOK
<1>4. Changed(c)' /\ work'.log = db'.log
  BY <1>1, <1>2, <1>3 DEF Unchanged, Changed, Key, PublishedRow, taskVars
<1>5. TxOK(c)'
  BY <1>2, <1>4 DEF TxOK, TxSteps
<1> QED
  BY <1>1, <1>2, <1>5, InsideSound DEF Kept, TxSteps, taskVars

LEMMA PutFilesSound ==
  ASSUME Inv, NEW c \in Clients, PutFiles(c)
  PROVE  Sound /\ Stutter
<1>1. Kept(c) /\ work'.rows = work.rows /\ work'.log = work.log
  BY PutFilesKept DEF Inv
<1>2. /\ pc[c] = "putFiles" /\ pc'[c] = "record" /\ conn = c /\ conn' = c /\ db' = db
      /\ UNCHANGED taskVars /\ served' = served
  BY GotoStep DEF Inv, Typed, PutFiles, InTx, Steps
<1>3. Changed(c) /\ work.log = db.log
  BY <1>2 DEF Inv, TxOK
<1>4. Changed(c)' /\ work'.log = db'.log
  BY <1>1, <1>2, <1>3 DEF Changed, Key, PublishedRow, taskVars
<1>5. TxOK(c)'
  BY <1>2, <1>4 DEF TxOK, TxSteps
<1> QED
  BY <1>1, <1>2, <1>5, InsideSound DEF Kept, TxSteps, taskVars

LEMMA SetStatusSound ==
  ASSUME Inv, NEW c \in Clients, SetStatus(c)
  PROVE  Sound /\ Stutter
<1>1. /\ Kept(c)
      /\ \/ pc'[c] = "commit" /\ UNCHANGED work
         \/ /\ pc'[c] = "record" /\ work.rows[Key(c)].status = "published"
            /\ work.rows[Key(c)] # None
            /\ work'.rows = [work.rows EXCEPT ![Key(c)].status = "deprecated"]
            /\ work'.log = work.log
  BY SetStatusKept DEF Inv
<1>2. /\ pc[c] = "status" /\ conn = c /\ conn' = c /\ db' = db
      /\ UNCHANGED taskVars /\ served' = served
  BY DEF SetStatus, InTx
<1>3. Unchanged /\ req[c].op = "deprecate"
  BY <1>2 DEF Inv, TxOK, Typed, HandlerOK
<1>4. Key(c)' = Key(c) /\ req'[c] = req[c]
  BY <1>2 DEF Key, taskVars
<1>5. TxOK(c)'
  <2>1. CASE pc'[c] = "commit" /\ UNCHANGED work
    <3>1. Unchanged'
      BY <1>2, <1>3, <2>1 DEF Unchanged
    <3> QED
      BY <1>2, <2>1, <3>1 DEF TxOK, TxSteps
  <2>2. CASE pc'[c] # "commit"
    <3>1. Changed(c)' /\ work'.log = db'.log
      BY <1>1, <1>2, <1>3, <1>4, <2>2 DEF Unchanged, Changed
    <3> QED
      BY <1>1, <1>2, <2>2, <3>1 DEF TxOK, TxSteps
  <2> QED
    BY <1>1, <2>1, <2>2
<1> QED
  BY <1>1, <1>2, <1>5, InsideSound DEF Kept, TxSteps, taskVars

LEMMA RecordSound ==
  ASSUME Inv, NEW c \in Clients, Record(c)
  PROVE  Sound /\ Stutter
<1>1. /\ Kept(c) /\ work'.rows = work.rows
      /\ work'.log = Append(work.log, NewEvent(c, "ok"))
  BY RecordKept DEF Inv
<1>2. /\ pc[c] = "record" /\ pc'[c] = "commit" /\ conn = c /\ conn' = c /\ db' = db
      /\ UNCHANGED taskVars /\ served' = served
  BY GotoStep DEF Inv, Typed, Record, InTx, Steps
<1>3. Changed(c) /\ work.log = db.log
  BY <1>2 DEF Inv, TxOK
<1>4. Changed(c)' /\ NewEvent(c, "ok")' = NewEvent(c, "ok")
  BY <1>1, <1>2, <1>3 DEF Changed, Key, PublishedRow, NewEvent, Action, taskVars
<1>5. TxOK(c)'
  BY <1>1, <1>2, <1>3, <1>4 DEF TxOK, TxSteps
<1> QED
  BY <1>1, <1>2, <1>5, InsideSound DEF Kept, TxSteps, taskVars

\* A transaction that ends without a commit leaves nothing behind.
LEMMA EndSound ==
  ASSUME Inv, NEW c \in Clients, Others(c), db' = db, conn = c, conn' = None,
         served' = served, pc'[c] \notin TxSteps \cup Unrecorded,
         pc'[c] # "idle" => id'[c] = id[c]
  PROVE  Sound /\ Stutter
<1>1. pc[c] # "idle"
  BY DEF Inv, TxOK, TxSteps
<1>2. IdsOK'
  BY <1>1, NothingLogged
<1>3. TxOK(c)'
  BY RegistryAssumption DEF TxOK, TxSteps
<1> QED
  BY <1>2, <1>3, OutsideTx, SameDb DEF Sound

\* Setting a row of the database sets that version of the catalogue.
LEMMA RowSet ==
  ASSUME TypeOK, NEW k \in Keys, NEW r \in Row,
         db'.rows = [db.rows EXCEPT ![k] = r]
  PROVE  /\ Rows' = [j \in DOMAIN Rows \cup {k} |-> IF j = k THEN r ELSE Rows[j]]
         /\ k \in DOMAIN Rows <=> db.rows[k] # None
         /\ k \in DOMAIN Rows => Rows[k] = db.rows[k]
<1>1. db.rows \in [Keys -> Row \cup {None}] /\ r # None
  BY RegistryAssumption DEF TypeOK, Database
<1>2. \A j \in Keys : db'.rows[j] = IF j = k THEN r ELSE db.rows[j]
  BY <1>1
<1>3. {j \in Keys : db'.rows[j] # None} = {j \in Keys : db.rows[j] # None} \cup {k}
  BY <1>1, <1>2
<1>4. DOMAIN Rows = {j \in Keys : db.rows[j] # None}
      /\ \A j \in DOMAIN Rows : Rows[j] = db.rows[j]
  BY DEF Rows
<1>5. Rows' = [j \in {i \in Keys : db'.rows[i] # None} |-> db'.rows[j]]
  BY DEF Rows
<1>6. \A j \in DOMAIN Rows \cup {k} : db'.rows[j] = IF j = k THEN r ELSE Rows[j]
  BY <1>2, <1>4
<1> QED
  BY <1>3, <1>4, <1>5, <1>6

\* A commit publishes, deprecates or changes nothing.
LEMMA CommitSound ==
  ASSUME Inv, NEW c \in Clients, Commit(c)
  PROVE  Sound /\ (Stutter \/ C!Publish(Key(c)) \/ C!Deprecate(Key(c)))
<1>1. /\ Kept(c) /\ pc[c] = "commit" /\ pc'[c] = "done" /\ conn = c /\ conn' = None
      /\ db' = work /\ UNCHANGED taskVars /\ served' = served /\ TypeOK
  BY CommitKept, GotoStep DEF Inv, Typed, Commit, InTx, Steps
<1>2. TxOK(c)'
  BY <1>1, RegistryAssumption DEF TxOK, TxSteps
<1>3. \A d \in Clients : TxOK(d)'
  BY <1>1, <1>2, OutsideTx DEF Kept
<1>4. CASE Unchanged
  <2>1. db'.rows = db.rows /\ db'.log = db.log
    BY <1>1, <1>4 DEF Unchanged
  <2>2. IdsOK'
    BY <1>1, <2>1, NothingLogged DEF Kept, Unrecorded, taskVars
  <2>3. Stutter
    BY <2>1 DEF Stutter, Rows
  <2> QED
    BY <1>3, <2>2, <2>3 DEF Sound
<1>5. CASE ~Unchanged
  <2> DEFINE e == NewEvent(c, "ok")
             k == Key(c)
  <2>1. Changed(c) /\ db'.log = Append(db.log, e)
    BY <1>1, <1>5 DEF Inv, TxOK
  <2>2. /\ e \in Event /\ e.id = id[c] /\ k \in Keys
        /\ req[c].who \in Principals /\ req[c].content \in Digests
    BY <1>1, EventType, RequestType DEF Inv, Typed, HandlerOK, Keyed, Mutations, NewEvent
  <2>3. IdsOK'
    BY <1>1, <2>1, <2>2, OneLogged DEF Kept, Unrecorded, taskVars
  <2>4. id[c] \in C!FreshIds
    <3>1. ~Logged(id[c])
      BY <1>1 DEF Inv, IdsOK, Unrecorded, Steps
    <3>2. id[c] \in Ids
      BY <2>2 DEF Event
    <3> QED
      BY <3>1, <3>2 DEF C!FreshIds, Logged
  <2>5. ASSUME req[c].op = "publish" PROVE C!Publish(k)
    <3>1. /\ db.rows[k] = None /\ PublishedRow(c) \in Row
          /\ db'.rows = [db.rows EXCEPT ![k] = PublishedRow(c)]
      BY <1>1, <2>1, <2>2, <2>5 DEF Changed, PublishedRow, Row
    <3>2. /\ k \notin DOMAIN Rows
          /\ Rows' = [j \in DOMAIN Rows \cup {k} |->
                        IF j = k THEN PublishedRow(c) ELSE Rows[j]]
      BY <1>1, <2>2, <3>1, RowSet
    <3>3. e = [id |-> id[c], action |-> "publish", who |-> req[c].who,
               key |-> k, outcome |-> "ok"]
      BY <2>5 DEF NewEvent, Action
    <3> QED
      BY <2>1, <2>2, <2>4, <3>2, <3>3 DEF C!Publish, PublishedRow
  <2>6. ASSUME req[c].op = "deprecate" PROVE C!Deprecate(k)
    <3> DEFINE new == [db.rows[k] EXCEPT !.status = "deprecated"]
    <3>1. /\ db.rows[k] # None /\ db.rows[k].status = "published"
          /\ db'.rows = [db.rows EXCEPT ![k] = new]
      BY <1>1, <2>1, <2>6 DEF Changed
    <3>2. db.rows[k] \in Row
      BY <1>1, <2>2, <3>1 DEF TypeOK, Database
    <3>3. new \in Row
      BY <3>2 DEF Row
    <3> HIDE DEF new
    <3>4. /\ k \in DOMAIN Rows /\ Rows[k] = db.rows[k]
          /\ Rows' = [j \in DOMAIN Rows \cup {k} |-> IF j = k THEN new ELSE Rows[j]]
      BY <1>1, <2>2, <3>1, <3>3, RowSet
    <3>5. DOMAIN Rows \cup {k} = DOMAIN Rows /\ Rows = [j \in DOMAIN Rows |-> Rows[j]]
      BY <3>4 DEF Rows
    <3>6. Rows' = [Rows EXCEPT ![k] = new]
      BY <3>4, <3>5
    <3>7. Rows' = [Rows EXCEPT ![k].status = "deprecated"]
      BY <3>4, <3>6 DEF new
    <3>8. e = [id |-> id[c], action |-> "deprecate", who |-> req[c].who,
               key |-> k, outcome |-> "ok"]
      BY <2>6 DEF NewEvent, Action
    <3>9. \E p \in Principals, i \in C!FreshIds :
            db'.log = Append(db.log, [id |-> i, action |-> "deprecate", who |-> p,
                                      key |-> k, outcome |-> "ok"])
      BY <2>1, <2>2, <2>4, <3>8
    <3>10. Rows[k].status = "published"
      BY <3>1, <3>4
    <3> HIDE DEF k, e
    <3> QED
      BY <3>4, <3>7, <3>9, <3>10, Zenon DEF C!Deprecate
  <2> QED
    BY <1>3, <2>1, <2>3, <2>5, <2>6 DEF Sound, Changed
<1> QED
  BY <1>4, <1>5

LEMMA OutsideSteps ==
  ASSUME Inv, NEW c \in Clients,
         \/ Resolve(c) \/ ResolveFails(c) \/ Permit(c) \/ Refuse(c) \/ Validate(c)
         \/ Export(c) \/ ReadRow(c) \/ ReadFiles(c) \/ ReadContent(c)
         \/ ListVersions(c) \/ Leave(c)
  PROVE  Sound /\ Stutter
<1>1. Kept(c) /\ TypeOK
  BY ResolveKept, DecideKept, ReadKept, EndKept DEF Inv, Typed
<1>2. /\ UNCHANGED dbVars /\ served' = served
      /\ pc[c] \in {"resolve", "decide", "validate", "export", "row", "files",
                    "content", "versions", "done"}
  BY DEF Resolve, ResolveFails, Permit, Refuse, Validate, Export, ReadRow, ReadFiles,
         ReadContent, ListVersions, Leave
<1>3. CASE Leave(c)
  <2>1. pc'[c] = "idle"
    BY <1>1, <1>3, ForgetStep DEF Leave
  <2> QED
    BY <1>1, <1>2, <2>1, OutsideSound DEF Kept, TxSteps, Unrecorded
<1>4. CASE ~Leave(c)
  <2>1. UNCHANGED id
    BY <1>4 DEF Resolve, ResolveFails, Permit, Refuse, Validate, Export, ReadRow, ReadFiles,
         ReadContent, ListVersions, taskVars
  <2>2. PICK step \in {"decide", "done", "audit", "validate", "begin", "row", "export",
                       "files"} :
          Goto(c, step) /\ (pc[c] \in {"content", "done"} => step = "done")
    <3>1. CASE Permit(c)
      <4>1. req[c].op \in {"publish", "deprecate", "get", "export"}
        BY <1>1, <3>1, RequestType DEF Permit, Inv, Typed, HandlerOK
      <4> QED
        BY <3>1, <4>1 DEF Permit
    <3>2. CASE ~Permit(c)
      BY <1>4, <3>2 DEF Resolve, ResolveFails, Refuse, Validate, Export, ReadRow,
         ReadFiles, ReadContent, ListVersions
    <3> QED
      BY <3>1, <3>2
  <2>3. pc'[c] = step
    BY <1>1, <2>2, GotoStep DEF Steps
  <2> QED
    BY <1>1, <1>2, <2>1, <2>2, <2>3, OutsideSound DEF Kept, TxSteps, Unrecorded, Steps
<1> QED
  BY <1>3, <1>4

\* A rollback, whatever ends the transaction.
LEMMA FailureSound ==
  ASSUME Inv, NEW c \in Clients,
         PutExists(c) \/ StatusMissing(c) \/ QueryFails(c) \/ Cancel(c)
  PROVE  Sound /\ Stutter
<1>1. Kept(c) /\ TypeOK /\ db' = db /\ served' = served /\ pc[c] # "idle" /\ TxOK(c)
  BY RollbackKept, QueryFailsKept, EndKept
  DEF Inv, Typed, PutExists, StatusMissing, QueryFails, Cancel, Querying
<1>2. /\ pc'[c] \in {"done", "content", "idle"} /\ (pc'[c] # "idle" => id'[c] = id[c])
  <2>1. CASE PutExists(c) \/ StatusMissing(c)
    BY <1>1, <2>1, GotoStep DEF PutExists, StatusMissing, Rollback, Steps, taskVars
  <2>2. CASE QueryFails(c)
    BY <2>2, QueryFailsKept DEF Inv, QueryFails, taskVars
  <2>3. CASE Cancel(c)
    BY <1>1, <2>3, ForgetStep DEF Cancel
  <2> QED
    BY <2>1, <2>2, <2>3
<1>3. CASE conn = c
  <2>1. conn' = None
    BY <1>3 DEF PutExists, StatusMissing, QueryFails, Cancel, Rollback, ReleaseConn, InTx
  <2> QED
    BY <1>1, <1>2, <1>3, <2>1, EndSound DEF Kept, TxSteps, Unrecorded
<1>4. CASE conn # c
  <2>1. UNCHANGED dbVars
    BY <1>1, <1>4 DEF PutExists, StatusMissing, QueryFails, Cancel, ReleaseConn, InTx, dbVars
  <2>2. pc[c] \notin TxSteps
    BY <1>1, <1>4 DEF TxOK
  <2> QED
    BY <1>1, <1>2, <2>1, <2>2, OutsideSound DEF Kept, TxSteps, Unrecorded
<1> QED
  BY <1>3, <1>4

LEMMA RestartSound ==
  ASSUME Inv, Restart
  PROVE  Sound /\ Stutter
<1>1. /\ db' = db /\ served' = served
      /\ \A c \in Clients : pc'[c] = "idle" /\ conn' # c
  BY RegistryAssumption DEF Restart
<1>2. \A i : Logged(i)' <=> Logged(i)
  BY <1>1 DEF Logged
<1>3. IdsOK'
  BY <1>1, <1>2 DEF Inv, IdsOK, Unrecorded
<1>4. \A c \in Clients : TxOK(c)'
  BY <1>1 DEF TxOK, TxSteps
<1> QED
  BY <1>1, <1>3, <1>4, SameDb DEF Sound

LEMMA InvStep == Inv /\ [Next]_vars => Inv' /\ [C!Next]_(C!vars)
<1> SUFFICES ASSUME Inv, [Next]_vars PROVE Inv' /\ [C!Next]_(C!vars)
  OBVIOUS
<1>1. Typed'
  BY TypedStep DEF Inv
<1>2. Stutter => [C!Next]_(C!vars)
  BY DEF Stutter, C!vars
<1>3. ASSUME NEW c \in Clients, Receive(c) \/ Handle(c) \/ QueryFails(c) \/ Cancel(c)
      PROVE  Sound /\ [C!Next]_(C!vars)
  <2>1. CASE Audit(c)
    BY <2>1, AuditSound DEF C!Next
  <2>2. CASE Commit(c)
    <3>1. Key(c) \in Keys
      BY <2>2, RequestType DEF Commit, Inv, Typed, HandlerOK, Keyed
    <3> QED
      BY <1>2, <2>2, <3>1, CommitSound DEF C!Next
  <2>3. CASE ~Audit(c) /\ ~Commit(c)
    BY <1>2, <1>3, <2>3, ReceiveSound, OutsideSteps, BeginSound, PutSound, PutFilesSound,
       SetStatusSound, RecordSound, FailureSound
    DEF Handle
  <2> QED
    BY <2>1, <2>2, <2>3
<1>4. CASE Restart
  BY <1>1, <1>2, <1>4, RestartSound DEF Inv, Sound
<1>5. CASE UNCHANGED vars
  <2>1. Stutter
    BY <1>5, SameDb DEF vars, dbVars
  <2>2. IdsOK' /\ \A c \in Clients : TxOK(c)'
    BY ZenonT(30), <1>5
    DEF vars, dbVars, taskVars, Inv, IdsOK, Logged, TxOK, Unchanged, Changed, Key,
       PublishedRow, NewEvent, Action
  <2> QED
    BY <1>1, <1>2, <2>1, <2>2 DEF Inv
<1> QED
  BY <1>1, <1>3, <1>4, <1>5 DEF Next, Inv, Sound

\* Whatever requests interleave, however transactions fail and whenever the
\* server restarts, the committed database is a catalogue whose changes and
\* their records appear in one step, one record per request (Tx,
\* sqlite.go:104-117; Publish and Deprecate, registry.go:112-130, 320-338).
THEOREM RegistryImplementsCatalog == Spec => ImplementsCatalog
<1>1. Init => C!Init
  <2> SUFFICES ASSUME Init PROVE C!Init
    OBVIOUS
  <2>1. db.log = <<>> /\ \A k \in Keys : db.rows[k] = None
    BY DEF Init, EmptyDb
  <2>2. {j \in Keys : db.rows[j] # None} = {}
    BY <2>1
  <2> QED
    BY <2>1, <2>2 DEF C!Init, Rows
<1> QED
  BY <1>1, InvInit, InvStep, PTL DEF Spec, ImplementsCatalog, C!Spec

-----------------------------------------------------------------------------
(* The log of a catalogue tells its history: each change adds its record    *)
(* to the records of its version, and nothing else adds any.                *)

CatalogInv == C!TypeOK /\ C!LogMatchesRows

SaysOk(e, action, k) == e.action = action /\ e.outcome = "ok" /\ e.key = k

\* Appending an event adds its position to the records it belongs to.
LEMMA RecordsOfAppend ==
  ASSUME db.log \in Seq(C!Event), NEW e \in C!Event, db.log' = Append(db.log, e)
  PROVE  /\ db.log' \in Seq(C!Event)
         /\ Len(db.log) \in Nat
         /\ \A i \in 1..Len(db.log) : db.log'[i] = db.log[i]
         /\ db.log'[Len(db.log) + 1] = e
         /\ \A action, k :
              /\ C!Records(action, k) \subseteq 1..Len(db.log)
              /\ C!Records(action, k)' =
                   C!Records(action, k)
                     \cup (IF SaysOk(e, action, k) THEN {Len(db.log) + 1} ELSE {})
<1>1. /\ db.log' \in Seq(C!Event) /\ Len(db.log) \in Nat
      /\ DOMAIN db.log = 1..Len(db.log) /\ DOMAIN db.log' = 1..(Len(db.log) + 1)
      /\ \A i \in 1..Len(db.log) : db.log'[i] = db.log[i]
      /\ db.log'[Len(db.log) + 1] = e
  OBVIOUS
<1>2. ASSUME NEW action, NEW k
      PROVE  /\ C!Records(action, k) \subseteq 1..Len(db.log)
             /\ C!Records(action, k)' =
                  C!Records(action, k) \cup (IF SaysOk(e, action, k) THEN {Len(db.log) + 1} ELSE {})
  <2>1. C!Records(action, k) = {i \in 1..Len(db.log) : SaysOk(db.log[i], action, k)}
    BY <1>1 DEF C!Records, SaysOk
  <2>2. C!Records(action, k)' = {i \in 1..(Len(db.log) + 1) : SaysOk(db.log'[i], action, k)}
    BY <1>1 DEF C!Records, SaysOk
  <2>3. 1..(Len(db.log) + 1) = 1..Len(db.log) \cup {Len(db.log) + 1}
    BY <1>1
  <2> QED
    BY <1>1, <2>1, <2>2, <2>3
<1> QED
  BY <1>1, <1>2

LEMMA CatalogInit == C!Init => CatalogInv
<1> SUFFICES ASSUME C!Init PROVE CatalogInv
  OBVIOUS
<1>1. db.log = <<>> /\ DOMAIN Rows = {} /\ Rows \in [DOMAIN Rows -> C!Row]
  BY DEF C!Init
<1>2. DOMAIN db.log = {}
  BY <1>1
<1>3. C!TypeOK
  BY <1>1 DEF C!TypeOK
<1>4. \A k \in Keys : /\ k \notin DOMAIN Rows
                    /\ C!Records("publish", k) = {} /\ C!Records("deprecate", k) = {}
  BY <1>1, <1>2 DEF C!Records
<1> QED
  BY <1>3, <1>4 DEF CatalogInv, C!LogMatchesRows, C!AtMostOne

LEMMA CatalogPublishes ==
  ASSUME CatalogInv, NEW k \in Keys, C!Publish(k)
  PROVE  CatalogInv'
<1>1. PICK d \in Digests, p \in Principals, i \in C!FreshIds :
        /\ Rows' = [j \in DOMAIN Rows \cup {k} |->
                     IF j = k THEN [status |-> "published", digest |-> d, publisher |-> p]
                              ELSE Rows[j]]
        /\ db.log' = Append(db.log, [id |-> i, action |-> "publish", who |-> p,
                               key |-> k, outcome |-> "ok"])
  BY DEF C!Publish
<1> DEFINE e == [id |-> i, action |-> "publish", who |-> p, key |-> k, outcome |-> "ok"]
           new == [status |-> "published", digest |-> d, publisher |-> p]
           n == Len(db.log) + 1
<1>2. e \in C!Event /\ new \in C!Row
  BY DEF C!Event, C!Row, C!FreshIds
<1>3. /\ DOMAIN Rows \subseteq Keys /\ Rows \in [DOMAIN Rows -> C!Row]
      /\ db.log \in Seq(C!Event) /\ k \notin DOMAIN Rows
  BY DEF CatalogInv, C!TypeOK, C!Publish
<1>4. DOMAIN Rows' \subseteq Keys /\ Rows' \in [DOMAIN Rows' -> C!Row]
  BY <1>1, <1>2, <1>3
<1>5. /\ DOMAIN Rows' = DOMAIN Rows \cup {k}
      /\ \A j \in DOMAIN Rows' : Rows'[j] = IF j = k THEN new ELSE Rows[j]
  BY <1>1, <1>3
<1>6. /\ db.log' \in Seq(C!Event) /\ Len(db.log) \in Nat
      /\ \A j \in 1..Len(db.log) : db.log'[j] = db.log[j]
      /\ db.log'[n] = e
      /\ \A a, q : /\ C!Records(a, q) \subseteq 1..Len(db.log)
                   /\ C!Records(a, q)' = C!Records(a, q) \cup
                                         (IF SaysOk(e, a, q) THEN {n} ELSE {})
  BY <1>1, <1>2, <1>3, RecordsOfAppend
<1>7. /\ C!Records("publish", k)' = C!Records("publish", k) \cup {n}
      /\ \A q \in Keys : /\ q # k => C!Records("publish", q)' = C!Records("publish", q)
                         /\ C!Records("deprecate", q)' = C!Records("deprecate", q)
  BY <1>6 DEF SaysOk
<1>8. /\ C!Records("publish", k) = {} /\ C!Records("deprecate", k) = {}
  BY <1>3 DEF CatalogInv, C!LogMatchesRows
<1>9. C!LogMatchesRows'
  <2> SUFFICES ASSUME NEW q \in Keys
               PROVE  /\ (q \in DOMAIN Rows' <=> C!Records("publish", q)' # {})
                      /\ C!AtMostOne(C!Records("publish", q)')
                      /\ \A j \in C!Records("publish", q)' : db.log'[j].who = Rows'[q].publisher
                      /\ C!AtMostOne(C!Records("deprecate", q)')
                      /\ (C!Records("deprecate", q)' # {}
                            <=> q \in DOMAIN Rows' /\ Rows'[q].status = "deprecated")
                      /\ \A x \in C!Records("publish", q)', y \in C!Records("deprecate", q)' : x < y
    BY DEF C!LogMatchesRows, C!AtMostOne
  <2> HIDE DEF e, new
  <2>1. CASE q = k
    <3>1. C!Records("publish", k)' = {n} /\ C!Records("deprecate", k)' = {}
      BY <1>7, <1>8
    <3>2. Rows'[k] = new /\ new.status = "published" /\ db.log'[n].who = new.publisher
      BY <1>5, <1>6 DEF e, new
    <3> QED
      BY <2>1, <3>1, <3>2, <1>5 DEF C!AtMostOne
  <2>2. CASE q # k
    <3>1. /\ C!Records("publish", q)' = C!Records("publish", q)
          /\ C!Records("deprecate", q)' = C!Records("deprecate", q)
          /\ q \in DOMAIN Rows' <=> q \in DOMAIN Rows
          /\ q \in DOMAIN Rows => Rows'[q] = Rows[q]
          /\ \A j \in C!Records("publish", q) : db.log'[j] = db.log[j]
      BY <1>5, <1>6, <1>7, <2>2
    <3> QED
      BY <3>1 DEF CatalogInv, C!LogMatchesRows, C!AtMostOne
  <2> QED
    BY <2>1, <2>2
<1> QED
  BY <1>4, <1>6, <1>9 DEF CatalogInv, C!TypeOK

LEMMA CatalogDeprecates ==
  ASSUME CatalogInv, NEW k \in Keys, C!Deprecate(k)
  PROVE  CatalogInv'
<1>1. PICK p \in Principals, i \in C!FreshIds :
        db.log' = Append(db.log, [id |-> i, action |-> "deprecate", who |-> p,
                            key |-> k, outcome |-> "ok"])
  BY DEF C!Deprecate
<1> DEFINE e == [id |-> i, action |-> "deprecate", who |-> p, key |-> k, outcome |-> "ok"]
           new == [Rows[k] EXCEPT !.status = "deprecated"]
           n == Len(db.log) + 1
<1>2. /\ DOMAIN Rows \subseteq Keys /\ Rows \in [DOMAIN Rows -> C!Row]
      /\ db.log \in Seq(C!Event) /\ k \in DOMAIN Rows /\ Rows[k] \in C!Row
  BY DEF CatalogInv, C!TypeOK, C!Deprecate
<1>3. e \in C!Event /\ new \in C!Row
      /\ new.status = "deprecated" /\ new.publisher = Rows[k].publisher
  BY <1>2 DEF C!Event, C!Row, C!FreshIds
<1>4. Rows' = [Rows EXCEPT ![k] = new]
  BY <1>2 DEF C!Deprecate
<1>5. /\ DOMAIN Rows' = DOMAIN Rows /\ Rows' \in [DOMAIN Rows' -> C!Row]
      /\ \A j \in DOMAIN Rows : Rows'[j] = IF j = k THEN new ELSE Rows[j]
  BY <1>2, <1>3, <1>4
<1>6. /\ db.log' \in Seq(C!Event) /\ Len(db.log) \in Nat
      /\ \A j \in 1..Len(db.log) : db.log'[j] = db.log[j]
      /\ \A a, q : /\ C!Records(a, q) \subseteq 1..Len(db.log)
                   /\ C!Records(a, q)' = C!Records(a, q) \cup
                                         (IF SaysOk(e, a, q) THEN {n} ELSE {})
  BY <1>1, <1>2, <1>3, RecordsOfAppend
<1>7. /\ C!Records("deprecate", k)' = C!Records("deprecate", k) \cup {n}
      /\ \A q \in Keys : /\ q # k => C!Records("deprecate", q)' = C!Records("deprecate", q)
                         /\ C!Records("publish", q)' = C!Records("publish", q)
  BY <1>6 DEF SaysOk
<1>8. k \in DOMAIN Rows /\ Rows[k].status = "published"
  BY DEF C!Deprecate
<1>9. C!Records("deprecate", k) = {}
  BY <1>8 DEF CatalogInv, C!LogMatchesRows
<1>10. \A q \in Keys : \A j \in C!Records("publish", q) : j < n /\ db.log'[j] = db.log[j]
  BY <1>6
<1>11. C!LogMatchesRows'
  <2> SUFFICES ASSUME NEW q \in Keys
               PROVE  /\ (q \in DOMAIN Rows' <=> C!Records("publish", q)' # {})
                      /\ C!AtMostOne(C!Records("publish", q)')
                      /\ \A j \in C!Records("publish", q)' : db.log'[j].who = Rows'[q].publisher
                      /\ C!AtMostOne(C!Records("deprecate", q)')
                      /\ (C!Records("deprecate", q)' # {}
                            <=> q \in DOMAIN Rows' /\ Rows'[q].status = "deprecated")
                      /\ \A x \in C!Records("publish", q)', y \in C!Records("deprecate", q)' : x < y
    BY DEF C!LogMatchesRows, C!AtMostOne
  <2> HIDE DEF e, new
  <2>1. CASE q = k
    <3>1. /\ C!Records("deprecate", k)' = {n}
          /\ C!Records("publish", k)' = C!Records("publish", k)
          /\ k \in DOMAIN Rows' /\ Rows'[k] = new
      BY <1>5, <1>7, <1>8, <1>9
    <3>2. C!Records("publish", k) # {} /\ C!AtMostOne(C!Records("publish", k))
          /\ \A j \in C!Records("publish", k) : db.log[j].who = Rows[k].publisher
      BY <1>8 DEF CatalogInv, C!LogMatchesRows
    <3>3. \A j \in C!Records("publish", k)' : db.log'[j].who = Rows'[k].publisher
      BY <3>1, <3>2, <1>3, <1>10
    <3>4. /\ C!AtMostOne(C!Records("publish", k)')
          /\ C!AtMostOne(C!Records("deprecate", k)')
          /\ C!Records("deprecate", k)' # {} /\ Rows'[k].status = "deprecated"
      BY <3>1, <3>2, <1>3 DEF C!AtMostOne
    <3>5. \A x \in C!Records("publish", k)', y \in C!Records("deprecate", k)' : x < y
      BY <3>1, <1>10
    <3> QED
      BY <2>1, <3>1, <3>2, <3>3, <3>4, <3>5
  <2>2. CASE q # k
    <3>1. /\ C!Records("publish", q)' = C!Records("publish", q)
          /\ C!Records("deprecate", q)' = C!Records("deprecate", q)
          /\ q \in DOMAIN Rows' <=> q \in DOMAIN Rows
          /\ q \in DOMAIN Rows => Rows'[q] = Rows[q]
      BY <1>5, <1>7, <2>2
    <3> QED
      BY <3>1, <1>10 DEF CatalogInv, C!LogMatchesRows, C!AtMostOne
  <2> QED
    BY <2>1, <2>2
<1> QED
  BY <1>2, <1>5, <1>6, <1>11 DEF CatalogInv, C!TypeOK

LEMMA CatalogNotes ==
  ASSUME CatalogInv, C!Note
  PROVE  CatalogInv'
<1>1. PICK e \in C!Event : ~C!IsChange(e) /\ db.log' = Append(db.log, e)
  BY DEF C!Note
<1>2. /\ Rows' = Rows /\ DOMAIN Rows \subseteq Keys
      /\ Rows \in [DOMAIN Rows -> C!Row] /\ db.log \in Seq(C!Event)
  BY DEF C!Note, CatalogInv, C!TypeOK
<1>3. /\ db.log' \in Seq(C!Event) /\ Len(db.log) \in Nat
      /\ \A j \in 1..Len(db.log) : db.log'[j] = db.log[j]
      /\ \A a, q : /\ C!Records(a, q) \subseteq 1..Len(db.log)
                   /\ C!Records(a, q)' = C!Records(a, q) \cup
                        (IF SaysOk(e, a, q) THEN {Len(db.log) + 1} ELSE {})
  BY <1>1, <1>2, RecordsOfAppend
<1>4. \A q \in Keys : ~SaysOk(e, "publish", q) /\ ~SaysOk(e, "deprecate", q)
  BY <1>1 DEF C!IsChange, SaysOk
<1>5. \A q \in Keys : /\ C!Records("publish", q)' = C!Records("publish", q)
                      /\ C!Records("deprecate", q)' = C!Records("deprecate", q)
                      /\ \A j \in C!Records("publish", q) : db.log'[j] = db.log[j]
  BY <1>3, <1>4
<1>6. C!LogMatchesRows'
  BY <1>2, <1>5 DEF CatalogInv, C!LogMatchesRows, C!AtMostOne
<1> QED
  BY <1>2, <1>3, <1>6 DEF CatalogInv, C!TypeOK

LEMMA CatalogStep == CatalogInv /\ [C!Next]_(C!vars) => CatalogInv'
<1> SUFFICES ASSUME CatalogInv, [C!Next]_(C!vars) PROVE CatalogInv'
  OBVIOUS
<1>1. CASE C!Next
  BY <1>1, CatalogPublishes, CatalogDeprecates, CatalogNotes DEF C!Next
<1>2. CASE UNCHANGED C!vars
  <2>1. Rows' = Rows /\ db.log' = db.log
    BY <1>2 DEF C!vars
  <2>2. \A action, k : C!Records(action, k)' = C!Records(action, k)
    BY <2>1 DEF C!Records
  <2> QED
    BY <2>1, <2>2 DEF CatalogInv, C!TypeOK, C!LogMatchesRows, C!AtMostOne
<1> QED
  BY <1>1, <1>2

\* In the committed database itself the log tells the history: publications,
\* deprecations and their records never come apart and nothing is recorded
\* twice (registry.go:120-125, 320-334, sqlite.go:104-117).
THEOREM AuditTellsTheHistory == Spec => []C!LogMatchesRows
<1>1. CatalogInv => C!LogMatchesRows
  BY DEF CatalogInv
<1> QED
  BY CatalogInit, CatalogStep, <1>1, RegistryImplementsCatalog, PTL
     DEF ImplementsCatalog, C!Spec

-----------------------------------------------------------------------------
(* The answers: what a handler has been told so far stays true.            *)

\* Every version has exactly the files of its digest.
Matching(b) == \A k \in Keys : b.rows[k] # None => b.files[k] = b.rows[k].digest

\* What the row of c's version must be for its mutation to have succeeded.
Wanted(c, row) ==
  /\ row # None
  /\ req[c].op = "publish" => row.digest = req[c].content /\ row.publisher = req[c].who
  /\ req[c].op = "deprecate" => row.status = "deprecated"

WorkOK(c) ==
  /\ pc[c] \in {"put", "putFiles", "status"} => work.files = db.files
  /\ pc[c] \in {"putFiles", "record", "commit"} => Wanted(c, work.rows[Key(c)])
  /\ pc[c] \in {"record", "commit"} => Matching(work)

\* The row that c was told is, but for its status, still the committed one.
Told(c) ==
  LET now == db.rows[Key(c)]
  IN /\ now # None /\ reply[c].row # None
     /\ reply[c].row.digest = now.digest /\ reply[c].row.publisher = now.publisher

ReplyOK(c) ==
  /\ pc[c] # "done" => reply[c].listed = {}
  /\ \A l \in reply[c].listed :
       LET now == db.rows[<<req[c].skill, l.version>>]
       IN /\ l.version \in Versions
          /\ now # None /\ now.status \in {l.status, "deprecated"}
          /\ MayFetch(req[c].who, req[c].skill, l.version)
  /\ pc[c] = "versions" => req[c].op = "versions"
  /\ pc[c] = "export" => req[c].op = "export"
  /\ pc[c] \in {"row", "files"} => MayFetch(req[c].who, req[c].skill, ver[c])
  /\ pc[c] = "files" => Told(c)
  /\ \/ pc[c] \in {"audit", "content"}
     \/ pc[c] = "done" /\ req[c].op \in {"publish", "deprecate", "get"}
     => (reply[c].code = "ok" =>
           /\ ver[c] \in Versions
           /\ Told(c) /\ reply[c].files = db.rows[Key(c)].digest
           /\ Wanted(c, db.rows[Key(c)])
           /\ req[c].op = "get" => MayFetch(req[c].who, req[c].skill, ver[c]))

\* While the database accepts writes, who is past the record has one.
RecordOK(c) ==
  faults = 0 =>
    /\ pc[c] = "content" => Recorded(c, "ok")
    /\ pc[c] = "done" /\ reply[c].code = "forbidden" /\ req[c].op \in Mutations
         => Recorded(c, "denied")
    /\ pc[c] = "done" /\ reply[c].code = "ok" /\ req[c].op = "get" /\ req[c].audited
         => Recorded(c, "ok")

AnswersOK(c) == WorkOK(c) /\ ReplyOK(c) /\ RecordOK(c)

TruthInv == Inv /\ Matching(db) /\ \A c \in Clients : AnswersOK(c)

\* Of a row only the status changes, and what is in the log stays there.
Aged ==
  \A k \in Keys : db.rows[k] # None =>
    /\ db'.rows[k] # None
    /\ db'.rows[k].digest = db.rows[k].digest
    /\ db'.rows[k].publisher = db.rows[k].publisher
    /\ db'.rows[k].status \in {db.rows[k].status, "deprecated"}

Grown == \A i \in DOMAIN db.log : i \in DOMAIN db'.log /\ db'.log[i] = db.log[i]

LEMMA CatalogueAges ==
  ASSUME TypeOK, TypeOK', [C!Next]_(C!vars)
  PROVE  Aged /\ Grown
<1>1. /\ \A k \in Keys : (db.rows[k] # None <=> k \in DOMAIN Rows)
                         /\ (k \in DOMAIN Rows => Rows[k] = db.rows[k] /\ Rows[k] \in Row)
      /\ \A k \in Keys : (db'.rows[k] # None <=> k \in DOMAIN Rows')
                         /\ (k \in DOMAIN Rows' => Rows'[k] = db'.rows[k])
      /\ db.log \in Seq(Event)
  BY DEF Rows, TypeOK, Database
<1>2. CASE C!Note
  <2>1. PICK e \in C!Event : db'.log = Append(db.log, e)
    BY <1>2 DEF C!Note
  <2>2. Rows' = Rows
    BY <1>2 DEF C!Note
  <2>3. Aged
    BY <1>1, <2>2 DEF Aged
  <2>4. Grown
    BY <1>1, <2>1 DEF Grown
  <2> QED
    BY <2>3, <2>4
<1>3. ASSUME NEW k \in Keys, C!Publish(k) PROVE Aged /\ Grown
  <2>1. \A j \in DOMAIN Rows : j \in DOMAIN Rows' /\ Rows'[j] = Rows[j]
    BY <1>3 DEF C!Publish
  <2>2. \E e : db'.log = Append(db.log, e)
    BY <1>3 DEF C!Publish
  <2>3. Aged
    BY <1>1, <2>1 DEF Aged
  <2>4. Grown
    BY <1>1, <2>2 DEF Grown
  <2> QED
    BY <2>3, <2>4
<1>4. ASSUME NEW k \in Keys, C!Deprecate(k) PROVE Aged /\ Grown
  <2>1. /\ k \in DOMAIN Rows
        /\ Rows' = [Rows EXCEPT ![k] = [Rows[k] EXCEPT !.status = "deprecated"]]
    BY <1>4 DEF C!Deprecate
  <2>2. \E e : db'.log = Append(db.log, e)
    BY <1>4 DEF C!Deprecate
  <2>3. \A j \in DOMAIN Rows : /\ j \in DOMAIN Rows' /\ Rows'[j].digest = Rows[j].digest
                               /\ Rows'[j].publisher = Rows[j].publisher
                               /\ Rows'[j].status \in {Rows[j].status, "deprecated"}
    <3> DEFINE new == [Rows[k] EXCEPT !.status = "deprecated"]
    <3>1. Rows[k] \in Row
      BY <1>1, <2>1
    <3>2. /\ new.digest = Rows[k].digest /\ new.publisher = Rows[k].publisher
          /\ new.status = "deprecated"
      BY <3>1 DEF Row
    <3>3. Rows' = [Rows EXCEPT ![k] = new]
      BY <2>1
    <3> HIDE DEF new
    <3>4. \A j \in DOMAIN Rows : j \in DOMAIN Rows' /\ Rows'[j] = IF j = k THEN new ELSE Rows[j]
      BY <3>3
    <3> QED
      BY <3>2, <3>4
  <2>4. Aged
    BY <1>1, <2>3 DEF Aged
  <2>5. Grown
    BY <1>1, <2>2 DEF Grown
  <2> QED
    BY <2>4, <2>5
<1>5. CASE UNCHANGED C!vars
  <2>1. Rows' = Rows /\ db'.log = db.log
    BY <1>5 DEF C!vars
  <2>2. Aged
    BY <1>1, <2>1 DEF Aged
  <2>3. Grown
    BY <2>1 DEF Grown
  <2> QED
    BY <2>2, <2>3
<1> QED
  BY <1>2, <1>3, <1>4, <1>5 DEF C!Next

\* What was recorded of d's request stays recorded.
LEMMA RecordStays ==
  ASSUME Grown, NEW d \in Clients, NEW outcome, Recorded(d, outcome),
         req'[d] = req[d], id'[d] = id[d], ver'[d] = ver[d]
  PROVE  Recorded(d, outcome)'
<1>1. NewEvent(d, outcome)' = NewEvent(d, outcome)
  BY DEF NewEvent, Action, Key
<1>2. PICK i \in DOMAIN db.log : db.log[i] = NewEvent(d, outcome)
  BY DEF Recorded
<1>3. i \in DOMAIN db'.log /\ db'.log[i] = NewEvent(d, outcome)'
  BY <1>1, <1>2 DEF Grown
<1> QED
  BY <1>3 DEF Recorded

\* Where the handler of d is and what it was told stays as it is.
LEMMA AnswerStays ==
  ASSUME Inv, Aged, Grown, NEW d \in Clients, AnswersOK(d),
         pc'[d] = pc[d], req'[d] = req[d], id'[d] = id[d], ver'[d] = ver[d],
         reply'[d] = reply[d], faults' = 0 => faults = 0,
         pc[d] \notin TxSteps \/ UNCHANGED dbVars
  PROVE  AnswersOK(d)'
<1>1. TypeOK /\ HandlerOK(d) /\ Key(d)' = Key(d)
  BY DEF Inv, Typed, Key
<1>2. WorkOK(d)'
  <2>1. CASE UNCHANGED dbVars
    BY <1>1, <2>1 DEF AnswersOK, WorkOK, Wanted, Matching, dbVars
  <2>2. CASE pc[d] \notin TxSteps
    BY <2>2 DEF WorkOK, TxSteps
  <2> QED
    BY <2>1, <2>2
<1>3. RecordOK(d)'
  <2>1. \A outcome \in {"ok", "denied"} : Recorded(d, outcome) => Recorded(d, outcome)'
    BY RecordStays
  <2> QED
    BY <2>1 DEF AnswersOK, RecordOK
<1>4. \A l \in reply[d].listed :
        LET now == db'.rows[<<req[d].skill, l.version>>]
        IN /\ l.version \in Versions
           /\ now # None /\ now.status \in {l.status, "deprecated"}
           /\ MayFetch(req[d].who, req[d].skill, l.version)
  <2> SUFFICES ASSUME NEW l \in reply[d].listed
               PROVE  LET now == db'.rows[<<req[d].skill, l.version>>]
                      IN /\ l.version \in Versions
                         /\ now # None /\ now.status \in {l.status, "deprecated"}
                         /\ MayFetch(req[d].who, req[d].skill, l.version)
    OBVIOUS
  <2>1. /\ l.version \in Versions
        /\ db.rows[<<req[d].skill, l.version>>] # None
        /\ db.rows[<<req[d].skill, l.version>>].status \in {l.status, "deprecated"}
        /\ MayFetch(req[d].who, req[d].skill, l.version)
    BY DEF AnswersOK, ReplyOK
  <2>2. <<req[d].skill, l.version>> \in Keys
    BY <1>1, <2>1, RequestType DEF Keys
  <2> QED
    BY <2>1, <2>2 DEF Aged
<1>5. ver[d] \in Versions =>
        /\ Told(d) => Told(d)'
        /\ Wanted(d, db.rows[Key(d)]) => Wanted(d, db.rows[Key(d)])'
        /\ db.rows[Key(d)] # None => db'.rows[Key(d)].digest = db.rows[Key(d)].digest
  <2> SUFFICES ASSUME ver[d] \in Versions, db.rows[Key(d)] # None
               PROVE  /\ Told(d) => Told(d)'
                      /\ Wanted(d, db.rows[Key(d)]) => Wanted(d, db.rows[Key(d)])'
                      /\ db'.rows[Key(d)].digest = db.rows[Key(d)].digest
    BY DEF Told, Wanted
  <2>1. Key(d) \in Keys
    BY <1>1, RequestType
  <2> QED
    BY <1>1, <2>1 DEF Told, Wanted, Aged
<1>6. pc[d] = "files" => ver[d] \in Versions
  BY <1>1 DEF HandlerOK, Keyed
<1>7. ReplyOK(d)'
  <2>1. pc[d] = "files" => Told(d)'
    BY <1>5, <1>6 DEF AnswersOK, ReplyOK
  <2>2. ASSUME \/ pc[d] \in {"audit", "content"}
               \/ pc[d] = "done" /\ req[d].op \in {"publish", "deprecate", "get"},
               reply[d].code = "ok"
        PROVE  /\ ver[d] \in Versions
               /\ Told(d)' /\ reply[d].files = db'.rows[Key(d)].digest
               /\ Wanted(d, db.rows[Key(d)])'
               /\ req[d].op = "get" => MayFetch(req[d].who, req[d].skill, ver[d])
    <3>1. /\ ver[d] \in Versions
          /\ Told(d) /\ reply[d].files = db.rows[Key(d)].digest
          /\ Wanted(d, db.rows[Key(d)])
          /\ req[d].op = "get" => MayFetch(req[d].who, req[d].skill, ver[d])
      BY <2>2 DEF AnswersOK, ReplyOK
    <3>2. db.rows[Key(d)] # None
      BY <3>1 DEF Told
    <3> QED
      BY <1>5, <3>1, <3>2
  <2>3. /\ pc[d] # "done" => reply[d].listed = {}
        /\ pc[d] = "versions" => req[d].op = "versions"
        /\ pc[d] = "export" => req[d].op = "export"
        /\ pc[d] \in {"row", "files"} => MayFetch(req[d].who, req[d].skill, ver[d])
    BY DEF AnswersOK, ReplyOK
  <2> QED
    BY <1>1, <1>4, <2>1, <2>2, <2>3 DEF ReplyOK
<1> QED
  BY <1>2, <1>3, <1>7 DEF AnswersOK

LEMMA CodeKeeps ==
  ASSUME TypeOK, NEW c \in Clients, NEW code \in Codes, Code(c, code)
  PROVE  /\ reply'[c].code = code /\ reply'[c].row = reply[c].row
         /\ reply'[c].files = reply[c].files /\ reply'[c].listed = reply[c].listed
<1>1. reply[c] \in Reply
  BY DEF TypeOK
<1>2. reply'[c] = [reply[c] EXCEPT !.code = code]
  BY CodeStep
<1> QED
  BY <1>1, <1>2 DEF Reply

\* A handler that has promised nothing yet, or answers with an error.
LEMMA NothingTold ==
  ASSUME NEW c \in Clients,
         pc'[c] \in {"idle", "resolve", "decide", "audit", "validate", "begin", "done"},
         reply'[c].listed = {},
         pc'[c] \in {"audit", "done"} => reply'[c].code # "ok",
         pc'[c] = "done" /\ reply'[c].code = "forbidden" => req'[c].op \notin Mutations
  PROVE  AnswersOK(c)'
BY DEF AnswersOK, WorkOK, ReplyOK, RecordOK

LEMMA BeforeDone ==
  ASSUME NEW c \in Clients, AnswersOK(c), pc[c] # "done"
  PROVE  reply[c].listed = {}
BY DEF AnswersOK, ReplyOK

LEMMA ReceiveTold ==
  ASSUME Inv, NEW c \in Clients, AnswersOK(c), Receive(c)
  PROVE  AnswersOK(c)'
<1>1. PICK q \in Requests :
        /\ req' = [req EXCEPT ![c] = q]
        /\ Goto(c, CASE q.op = "versions" -> "versions"
                     [] q.op = "get" /\ q.version = Latest -> "resolve"
                     [] OTHER -> "decide")
  BY DEF Receive
<1>2. PICK step \in {"versions", "resolve", "decide"} :
        Goto(c, step) /\ (step = "versions" => q.op = "versions")
  BY <1>1
<1>3. pc'[c] = step /\ req'[c] = q /\ reply'[c] = reply[c] /\ reply[c].listed = {}
  BY <1>1, <1>2, GotoStep, BeforeDone DEF Receive, Steps, Inv, Typed, TypeOK
<1>4. CASE step = "versions"
  BY <1>2, <1>3, <1>4 DEF AnswersOK, WorkOK, ReplyOK, RecordOK
<1>5. CASE step # "versions"
  BY <1>3, <1>5, NothingTold
<1> QED
  BY <1>4, <1>5

LEMMA ResolveTold ==
  ASSUME Inv, NEW c \in Clients, AnswersOK(c), Resolve(c) \/ ResolveFails(c)
  PROVE  AnswersOK(c)'
<1>1. TypeOK /\ pc[c] = "resolve" /\ reply[c].listed = {}
  BY BeforeDone DEF Inv, Typed, Resolve, ResolveFails
<1>2. PICK step \in {"decide", "done", "audit"} :
        /\ Goto(c, step)
        /\ IF step = "decide" THEN UNCHANGED reply ELSE Code(c, "not_found")
  BY DEF Resolve, ResolveFails
<1>3. pc'[c] = step
  BY <1>1, <1>2, GotoStep DEF Steps
<1>4. reply'[c].listed = {} /\ (step # "decide" => reply'[c].code = "not_found")
  BY <1>1, <1>2, CodeKeeps DEF Codes
<1> QED
  BY <1>3, <1>4, NothingTold

LEMMA PermitTold ==
  ASSUME Inv, NEW c \in Clients, AnswersOK(c), Permit(c)
  PROVE  AnswersOK(c)'
<1>1. TypeOK /\ HandlerOK(c) /\ pc[c] = "decide" /\ reply[c].listed = {}
  BY BeforeDone DEF Inv, Typed, Permit
<1>2. req[c].op \in {"publish", "deprecate", "get", "export"}
  BY <1>1, RequestType DEF HandlerOK
<1>3. PICK step \in {"validate", "begin", "row", "export"} :
        /\ Goto(c, step)
        /\ step = "row" => req[c].op = "get"
        /\ step = "export" => req[c].op = "export"
  BY <1>2 DEF Permit
<1>4. pc'[c] = step
  BY <1>1, <1>3, GotoStep DEF Steps
<1>5. req'[c] = req[c] /\ ver'[c] = ver[c] /\ reply'[c] = reply[c]
  BY DEF Permit, taskVars
<1>6. step = "row" => MayFetch(req[c].who, req[c].skill, ver[c])
  BY <1>3 DEF Permit, Permitted, Action, MayFetch
<1>7. CASE step \in {"validate", "begin"}
  BY <1>1, <1>4, <1>5, <1>7, NothingTold
<1>8. CASE step = "row"
  BY <1>1, <1>3, <1>4, <1>5, <1>6, <1>8 DEF AnswersOK, WorkOK, ReplyOK, RecordOK
<1>9. CASE step = "export"
  BY <1>1, <1>3, <1>4, <1>5, <1>9 DEF AnswersOK, WorkOK, ReplyOK, RecordOK
<1> QED
  BY <1>7, <1>8, <1>9

LEMMA RefuseTold ==
  ASSUME Inv, NEW c \in Clients, AnswersOK(c), Refuse(c) \/ Validate(c)
  PROVE  AnswersOK(c)'
<1>1. TypeOK /\ reply[c].listed = {} /\ req'[c] = req[c]
  BY BeforeDone DEF Inv, Typed, Refuse, Validate, taskVars
<1>2. PICK step \in {"done", "audit", "begin"} :
        /\ Goto(c, step)
        /\ \/ step = "begin" /\ UNCHANGED reply
           \/ Code(c, "invalid") \/ Code(c, "not_found")
           \/ Code(c, "forbidden") /\ (step = "done" => req[c].op = "export")
  BY DEF Refuse, Validate
<1>3. pc'[c] = step
  BY <1>1, <1>2, GotoStep DEF Steps
<1>4. /\ reply'[c].listed = {} /\ (step # "begin" => reply'[c].code # "ok")
      /\ step = "done" /\ reply'[c].code = "forbidden" => req[c].op = "export"
  BY <1>1, <1>2, CodeKeeps DEF Codes
<1> QED
  BY <1>1, <1>3, <1>4, NothingTold DEF Mutations

LEMMA ExportTold ==
  ASSUME Inv, NEW c \in Clients, AnswersOK(c), Export(c)
  PROVE  AnswersOK(c)'
<1>1. TypeOK /\ reply[c].listed = {} /\ req[c].op = "export" /\ req'[c] = req[c]
  BY BeforeDone DEF Inv, Typed, Export, AnswersOK, ReplyOK, taskVars
<1>2. pc'[c] = "done"
  BY <1>1, GotoStep DEF Export, Steps
<1>3. reply'[c].listed = {} /\ reply'[c].code = "ok"
  BY <1>1, CodeKeeps DEF Export, Codes
<1> QED
  BY <1>1, <1>2, <1>3 DEF AnswersOK, WorkOK, ReplyOK, RecordOK, Mutations

LEMMA AuditTold ==
  ASSUME Inv, NEW c \in Clients, AnswersOK(c), Audit(c)
  PROVE  AnswersOK(c)' /\ db'.rows = db.rows /\ db'.files = db.files
<1>1. /\ TypeOK /\ HandlerOK(c) /\ pc[c] = "audit" /\ reply[c].listed = {}
      /\ req'[c] = req[c] /\ id'[c] = id[c] /\ ver'[c] = ver[c] /\ reply'[c] = reply[c]
  BY BeforeDone DEF Inv, Typed, Audit, taskVars
<1> DEFINE o == IF reply[c].code = "ok" THEN "ok" ELSE "denied"
<1>2. Key(c)' = Key(c) /\ NewEvent(c, o)' = NewEvent(c, o)
  BY <1>1 DEF Key, NewEvent, Action
<1>3. NewEvent(c, o) \in Event
  BY <1>1, EventType DEF HandlerOK, Keyed
<1>4. /\ db'.rows = db.rows /\ db'.files = db.files
      /\ db'.log = Append(db.log, NewEvent(c, o)) /\ db.log \in Seq(Event)
  BY <1>1 DEF Audit, TypeOK, Database
<1>5. Recorded(c, o)'
  <2> DEFINE e == NewEvent(c, o)
  <2>1. e \in Event /\ db'.log = Append(db.log, e) /\ db.log \in Seq(Event)
    BY <1>3, <1>4
  <2> HIDE DEF e
  <2>2. Len(db.log) + 1 \in DOMAIN db'.log /\ db'.log[Len(db.log) + 1] = e
    BY <2>1
  <2> QED
    BY <1>2, <2>2 DEF e, Recorded
<1>6. PICK step \in {"content", "done"} :
        Goto(c, step) /\ (step = "content" <=> reply[c].code = "ok")
  BY DEF Audit
<1>7. pc'[c] = step
  BY <1>1, <1>6, GotoStep DEF Steps
<1>8. CASE step = "content"
  <2>1. Recorded(c, "ok")' /\ req[c].op = "get"
    BY <1>1, <1>5, <1>6, <1>8 DEF HandlerOK
  <2>2. /\ ver[c] \in Versions
        /\ Told(c) /\ reply[c].files = db.rows[Key(c)].digest
        /\ Wanted(c, db.rows[Key(c)])
        /\ req[c].op = "get" => MayFetch(req[c].who, req[c].skill, ver[c])
    BY <1>1, <1>6, <1>8 DEF AnswersOK, ReplyOK
  <2>3. Told(c)' /\ Wanted(c, db.rows[Key(c)])'
    BY <1>1, <1>2, <1>4, <2>2 DEF Told, Wanted
  <2> QED
    BY <1>1, <1>2, <1>4, <1>7, <1>8, <2>1, <2>2, <2>3
    DEF AnswersOK, WorkOK, ReplyOK, RecordOK
<1>9. CASE step = "done"
  <2>1. reply[c].code # "ok" /\ Recorded(c, "denied")'
    BY <1>1, <1>5, <1>6, <1>9
  <2>2. RecordOK(c)'
    BY <1>1, <1>7, <1>9, <2>1 DEF RecordOK
  <2>3. WorkOK(c)' /\ ReplyOK(c)'
    BY <1>1, <1>7, <1>9, <2>1 DEF WorkOK, ReplyOK
  <2> QED
    BY <1>4, <2>2, <2>3 DEF AnswersOK
<1> QED
  BY <1>4, <1>8, <1>9

LEMMA BeginTold ==
  ASSUME Inv, NEW c \in Clients, AnswersOK(c), Begin(c)
  PROVE  AnswersOK(c)'
<1>1. /\ TypeOK /\ reply[c].listed = {}
      /\ work' = db /\ db' = db /\ reply' = reply
  BY BeforeDone DEF Inv, Typed, Begin
<1>2. pc'[c] \in {"put", "status"}
  BY <1>1, GotoStep DEF Begin, Steps
<1> QED
  BY <1>1, <1>2 DEF AnswersOK, WorkOK, ReplyOK, RecordOK

\* Inside the transaction only the view changes.
LEMMA WorkTold ==
  ASSUME Inv, NEW c \in Clients, AnswersOK(c), pc[c] # "done",
         UNCHANGED <<taskVars, reply>>,
         pc'[c] \in {"putFiles", "record", "commit"}, WorkOK(c)'
  PROVE  AnswersOK(c)'
<1>1. reply'[c].listed = {}
  BY BeforeDone
<1> QED
  BY <1>1 DEF AnswersOK, ReplyOK, RecordOK

LEMMA PutTold ==
  ASSUME Inv, NEW c \in Clients, AnswersOK(c), Put(c)
  PROVE  AnswersOK(c)'
<1>1. /\ TypeOK /\ HandlerOK(c) /\ pc[c] = "put" /\ req[c].op = "publish"
      /\ db' = db /\ req' = req /\ ver' = ver /\ Key(c)' = Key(c) /\ Key(c) \in Keys
  BY RequestType DEF Inv, Typed, HandlerOK, Keyed, Put, taskVars, Key
<1>2. pc'[c] = "putFiles"
  BY <1>1, GotoStep DEF Put, Steps
<1>3. PublishedRow(c) \in Row
  BY <1>1, RequestType DEF PublishedRow, Row
<1>4. work'.files = work.files /\ work'.rows[Key(c)] = PublishedRow(c)
  BY <1>1 DEF Put, TypeOK, Database
<1>5. work.files = db.files
  BY <1>1 DEF AnswersOK, WorkOK
<1>6. Wanted(c, work.rows[Key(c)])'
  <2>1. PublishedRow(c) # None
    BY <1>3, RegistryAssumption
  <2>2. PublishedRow(c).digest = req[c].content /\ PublishedRow(c).publisher = req[c].who
    BY DEF PublishedRow
  <2> QED
    BY <1>1, <1>4, <2>1, <2>2 DEF Wanted
<1>7. WorkOK(c)'
  BY <1>1, <1>2, <1>4, <1>5, <1>6 DEF WorkOK
<1> QED
  BY <1>1, <1>2, <1>7, WorkTold DEF Put

LEMMA PutFilesTold ==
  ASSUME Inv, NEW c \in Clients, AnswersOK(c), PutFiles(c), Matching(db)
  PROVE  AnswersOK(c)'
<1>1. /\ TypeOK /\ HandlerOK(c) /\ pc[c] = "putFiles" /\ req[c].op = "publish"
      /\ req' = req /\ ver' = ver /\ Key(c)' = Key(c) /\ Key(c) \in Keys
  BY RequestType DEF Inv, Typed, HandlerOK, Keyed, PutFiles, taskVars, Key
<1>2. pc'[c] = "record"
  BY <1>1, GotoStep DEF PutFiles, Steps
<1>3. /\ work'.rows = work.rows
      /\ work'.files = [work.files EXCEPT ![Key(c)] = req[c].content]
  BY <1>1 DEF PutFiles, TypeOK, Database
<1>4. /\ work.files = db.files /\ Wanted(c, work.rows[Key(c)])
      /\ work.rows = [db.rows EXCEPT ![Key(c)] = PublishedRow(c)]
  BY <1>1 DEF AnswersOK, WorkOK, Inv, TxOK, Changed
<1>5. Matching(work)'
  <2> SUFFICES ASSUME NEW k \in Keys, work'.rows[k] # None
               PROVE  work'.files[k] = work'.rows[k].digest
    BY DEF Matching
  <2>1. db.rows \in [Keys -> Row \cup {None}] /\ db.files \in [Keys -> SUBSET Files]
    BY <1>1 DEF TypeOK, Database
  <2>2. CASE k = Key(c)
    BY <1>3, <1>4, <2>1, <2>2 DEF PublishedRow
  <2>3. CASE k # Key(c)
    BY <1>3, <1>4, <2>1, <2>3 DEF Matching
  <2> QED
    BY <2>2, <2>3
<1>6. Wanted(c, work.rows[Key(c)])'
  BY <1>1, <1>3, <1>4 DEF Wanted
<1>7. WorkOK(c)'
  BY <1>2, <1>5, <1>6 DEF WorkOK
<1> QED
  BY <1>1, <1>2, <1>7, WorkTold DEF PutFiles

LEMMA SetStatusTold ==
  ASSUME Inv, NEW c \in Clients, AnswersOK(c), SetStatus(c), Matching(db)
  PROVE  AnswersOK(c)'
<1>1. /\ TypeOK /\ HandlerOK(c) /\ pc[c] = "status" /\ req[c].op = "deprecate"
      /\ req' = req /\ ver' = ver /\ Key(c)' = Key(c) /\ Key(c) \in Keys
      /\ work.rows[Key(c)] # None
  BY RequestType DEF Inv, Typed, HandlerOK, Keyed, SetStatus, taskVars, Key
<1>2. work.rows = db.rows /\ work.files = db.files
  BY <1>1 DEF AnswersOK, WorkOK, Inv, TxOK, Unchanged
<1>3. /\ pc'[c] \in {"commit", "record"}
      /\ \/ work' = work /\ work.rows[Key(c)].status = "deprecated"
         \/ work' = [work EXCEPT !.rows[Key(c)].status = "deprecated"]
  BY <1>1, GotoStep DEF SetStatus, Steps
<1>4. CASE work' = work /\ work.rows[Key(c)].status = "deprecated"
  <2>1. Matching(work)'
    BY <1>2, <1>4 DEF Matching
  <2>2. Wanted(c, work.rows[Key(c)])'
    BY <1>1, <1>4 DEF Wanted
  <2>3. WorkOK(c)'
    BY <1>3, <2>1, <2>2 DEF WorkOK
  <2> QED
    BY <1>1, <1>3, <2>3, WorkTold DEF SetStatus
<1>5. CASE work' = [work EXCEPT !.rows[Key(c)].status = "deprecated"]
  <2> DEFINE new == [work.rows[Key(c)] EXCEPT !.status = "deprecated"]
  <2>1. /\ work \in Database /\ work.rows \in [Keys -> Row \cup {None}]
        /\ work.rows[Key(c)] \in Row
    BY <1>1 DEF TypeOK, Database
  <2>2. new \in Row /\ new.status = "deprecated" /\ new.digest = work.rows[Key(c)].digest
    BY <2>1 DEF Row
  <2>3. work' = [work EXCEPT !.rows = [work.rows EXCEPT ![Key(c)] = new]]
    BY <1>5
  <2> HIDE DEF new
  <2>4. work'.files = work.files /\ work'.rows = [work.rows EXCEPT ![Key(c)] = new]
    BY <2>1, <2>3 DEF Database
  <2>5. \A k \in Keys : work'.rows[k] = IF k = Key(c) THEN new ELSE work.rows[k]
    BY <2>1, <2>4
  <2>6. Matching(work)'
    BY <1>1, <1>2, <2>2, <2>4, <2>5 DEF Matching
  <2>7. Wanted(c, work.rows[Key(c)])'
    BY <1>1, <2>2, <2>5, RegistryAssumption DEF Wanted
  <2>8. WorkOK(c)'
    BY <1>3, <2>6, <2>7 DEF WorkOK
  <2> QED
    BY <1>1, <1>3, <2>8, WorkTold DEF SetStatus
<1> QED
  BY <1>3, <1>4, <1>5

LEMMA RecordTold ==
  ASSUME Inv, NEW c \in Clients, AnswersOK(c), Record(c)
  PROVE  AnswersOK(c)'
<1>1. /\ TypeOK /\ pc[c] = "record" /\ req' = req /\ Key(c)' = Key(c)
  BY DEF Inv, Typed, Record, taskVars, Key
<1>2. pc'[c] = "commit"
  BY <1>1, GotoStep DEF Record, Steps
<1>3. work'.rows = work.rows /\ work'.files = work.files
  BY <1>1 DEF Record, TypeOK, Database
<1>4. Matching(work) /\ Wanted(c, work.rows[Key(c)])
  BY <1>1 DEF AnswersOK, WorkOK
<1>5. Matching(work)' /\ Wanted(c, work.rows[Key(c)])'
  BY <1>1, <1>3, <1>4 DEF Matching, Wanted
<1>6. WorkOK(c)'
  BY <1>2, <1>5 DEF WorkOK
<1> QED
  BY <1>1, <1>2, <1>6, WorkTold DEF Record

LEMMA CommitTold ==
  ASSUME Inv, NEW c \in Clients, AnswersOK(c), Commit(c)
  PROVE  AnswersOK(c)' /\ Matching(db)'
<1>1. /\ TypeOK /\ HandlerOK(c) /\ pc[c] = "commit" /\ req[c].op \in Mutations
      /\ req' = req /\ ver' = ver /\ Key(c)' = Key(c) /\ Key(c) \in Keys
      /\ ver[c] \in Versions /\ db' = work
  BY RequestType DEF Inv, Typed, HandlerOK, Keyed, Commit, taskVars, Key
<1>2. pc'[c] = "done"
  BY <1>1, GotoStep DEF Commit, Steps
<1>3. reply'[c] = [code |-> "ok", row |-> work.rows[Key(c)], files |-> work.files[Key(c)],
                   listed |-> {}]
  BY <1>1 DEF Commit, TypeOK, NoReply
<1>4. Matching(work) /\ Wanted(c, work.rows[Key(c)])
  BY <1>1 DEF AnswersOK, WorkOK
<1>5. Matching(db)' /\ Wanted(c, db.rows[Key(c)])'
  BY <1>1, <1>4 DEF Matching, Wanted
<1>6. Told(c)' /\ reply'[c].files = db'.rows[Key(c)].digest
  BY <1>1, <1>3, <1>4 DEF Told, Wanted, Matching
<1> QED
  BY <1>1, <1>2, <1>3, <1>5, <1>6 DEF AnswersOK, WorkOK, ReplyOK, RecordOK, Mutations

LEMMA RollbackTold ==
  ASSUME Inv, NEW c \in Clients, AnswersOK(c), PutExists(c) \/ StatusMissing(c)
  PROVE  AnswersOK(c)'
<1>1. TypeOK /\ reply[c].listed = {}
  BY BeforeDone DEF Inv, Typed, PutExists, StatusMissing
<1>2. PICK code \in {"version_exists", "not_found"} : Goto(c, "done") /\ Code(c, code)
  BY DEF PutExists, StatusMissing, Rollback
<1>3. pc'[c] = "done"
  BY <1>1, <1>2, GotoStep DEF Steps
<1>4. reply'[c].listed = {} /\ reply'[c].code \in {"version_exists", "not_found"}
  BY <1>1, <1>2, CodeKeeps DEF Codes
<1> QED
  BY <1>3, <1>4, NothingTold

LEMMA ReadRowTold ==
  ASSUME Inv, NEW c \in Clients, AnswersOK(c), ReadRow(c)
  PROVE  AnswersOK(c)'
<1>1. /\ TypeOK /\ pc[c] = "row" /\ reply[c].listed = {} /\ reply[c] \in Reply
      /\ req' = req /\ ver' = ver /\ Key(c)' = Key(c) /\ db' = db
      /\ MayFetch(req[c].who, req[c].skill, ver[c])
  BY BeforeDone DEF Inv, Typed, TypeOK, ReadRow, AnswersOK, ReplyOK, taskVars, dbVars, Key
<1>2. CASE db.rows[Key(c)] = None
  <2>1. Goto(c, "done") /\ Code(c, "not_found")
    BY <1>2 DEF ReadRow
  <2>2. pc'[c] = "done" /\ reply'[c].listed = {} /\ reply'[c].code = "not_found"
    BY <1>1, <2>1, GotoStep, CodeKeeps DEF Steps, Codes
  <2> QED
    BY <2>2, NothingTold
<1>3. CASE db.rows[Key(c)] # None
  <2> DEFINE row == db.rows[Key(c)]
  <2>1. Goto(c, "files") /\ reply' = [reply EXCEPT ![c].row = row]
    BY <1>3 DEF ReadRow
  <2>2. pc'[c] = "files"
    BY <1>1, <2>1, GotoStep DEF Steps
  <2>3. reply'[c] = [reply[c] EXCEPT !.row = row]
    BY <1>1, <2>1 DEF TypeOK
  <2> HIDE DEF row
  <2>4. reply'[c].row = row /\ reply'[c].listed = {}
    BY <1>1, <2>3 DEF Reply
  <2>5. Told(c)'
    BY <1>1, <1>3, <2>4 DEF Told, row
  <2> QED
    BY <1>1, <2>2, <2>4, <2>5 DEF AnswersOK, WorkOK, ReplyOK, RecordOK
<1> QED
  BY <1>2, <1>3

LEMMA ReadFilesTold ==
  ASSUME Inv, NEW c \in Clients, AnswersOK(c), ReadFiles(c), Matching(db)
  PROVE  AnswersOK(c)'
<1>1. /\ TypeOK /\ HandlerOK(c) /\ pc[c] = "files" /\ reply[c] \in Reply
      /\ req' = req /\ ver' = ver /\ Key(c)' = Key(c) /\ db' = db
  BY DEF Inv, Typed, TypeOK, ReadFiles, taskVars, dbVars, Key
<1>2. reply[c].listed = {} /\ Told(c) /\ MayFetch(req[c].who, req[c].skill, ver[c])
  BY <1>1, BeforeDone DEF AnswersOK, ReplyOK
<1>3. req[c].op = "get" /\ ver[c] \in Versions /\ Key(c) \in Keys
  BY <1>1, RequestType DEF HandlerOK, Keyed
<1> DEFINE files == db.files[Key(c)]
<1>4. reply'[c] = [reply[c] EXCEPT !.files = files, !.code = "ok"]
  BY <1>1 DEF ReadFiles, TypeOK
<1>5. files = db.rows[Key(c)].digest
  BY <1>2, <1>3 DEF Matching, Told
<1> HIDE DEF files
<1>6. /\ reply'[c].row = reply[c].row /\ reply'[c].files = files
      /\ reply'[c].listed = {} /\ reply'[c].code = "ok"
  BY <1>1, <1>2, <1>4 DEF Reply
<1>7. Told(c)' /\ Wanted(c, db.rows[Key(c)])'
  BY <1>1, <1>2, <1>3, <1>6 DEF Told, Wanted
<1>8. pc'[c] \in {"audit", "done"} /\ (pc'[c] = "done" => ~req[c].audited)
  BY <1>1, GotoStep DEF ReadFiles, Steps
<1> QED
  BY <1>1, <1>2, <1>3, <1>5, <1>6, <1>7, <1>8 DEF AnswersOK, WorkOK, ReplyOK, RecordOK

LEMMA ReadContentTold ==
  ASSUME Inv, NEW c \in Clients, AnswersOK(c), ReadContent(c)
  PROVE  AnswersOK(c)'
<1>1. /\ TypeOK /\ HandlerOK(c) /\ pc[c] = "content" /\ reply[c].listed = {}
      /\ req' = req /\ ver' = ver /\ id' = id /\ db' = db /\ faults' = faults
      /\ Key(c)' = Key(c) /\ req[c].op = "get"
  BY BeforeDone DEF Inv, Typed, HandlerOK, ReadContent, taskVars, dbVars, Key
<1>2. pc'[c] = "done"
  BY <1>1, GotoStep DEF ReadContent, Steps
<1>3. CASE Code(c, "not_found")
  <2>1. reply'[c].listed = {} /\ reply'[c].code = "not_found"
    BY <1>1, <1>3, CodeKeeps DEF Codes
  <2> QED
    BY <1>2, <2>1, NothingTold
<1>4. CASE UNCHANGED reply
  <2>1. Recorded(c, "ok")' <=> Recorded(c, "ok")
    BY <1>1 DEF Recorded, NewEvent, Action, Key
  <2>2. RecordOK(c)'
    BY <1>1, <1>2, <1>4, <2>1 DEF AnswersOK, RecordOK, Mutations
  <2>3. Told(c)' <=> Told(c)
    BY <1>1, <1>4 DEF Told
  <2>4. Wanted(c, db.rows[Key(c)])' <=> Wanted(c, db.rows[Key(c)])
    BY <1>1 DEF Wanted
  <2>5. ReplyOK(c)'
    BY <1>1, <1>2, <1>4, <2>3, <2>4 DEF AnswersOK, ReplyOK
  <2> QED
    BY <1>2, <2>2, <2>5 DEF AnswersOK, WorkOK
<1> QED
  BY <1>3, <1>4 DEF ReadContent

LEMMA ListVersionsTold ==
  ASSUME Inv, NEW c \in Clients, AnswersOK(c), ListVersions(c)
  PROVE  AnswersOK(c)'
<1>1. /\ TypeOK /\ pc[c] = "versions" /\ req[c].op = "versions" /\ reply[c] \in Reply
      /\ req' = req /\ db' = db
  BY DEF Inv, Typed, TypeOK, ListVersions, AnswersOK, ReplyOK, taskVars, dbVars
<1>2. pc'[c] = "done"
  BY <1>1, GotoStep DEF ListVersions, Steps
<1> DEFINE mine == {v \in Versions : /\ db.rows[<<req[c].skill, v>>] # None
                                     /\ MayFetch(req[c].who, req[c].skill, v)}
           list == {[version |-> v, status |-> db.rows[<<req[c].skill, v>>].status]
                      : v \in mine}
           code == IF mine = {} THEN "not_found" ELSE "ok"
<1>3. \A l \in list : /\ l.version \in mine
                      /\ l.status = db.rows[<<req[c].skill, l.version>>].status
  <2> HIDE DEF mine
  <2> SUFFICES ASSUME NEW l \in list
               PROVE  /\ l.version \in mine
                      /\ l.status = db.rows[<<req[c].skill, l.version>>].status
    OBVIOUS
  <2>1. PICK v \in mine :
          l = [version |-> v, status |-> db.rows[<<req[c].skill, v>>].status]
    OBVIOUS
  <2> QED
    BY <2>1
<1>4. \A v \in mine : /\ v \in Versions /\ db.rows[<<req[c].skill, v>>] # None
                      /\ MayFetch(req[c].who, req[c].skill, v)
  OBVIOUS
<1>5. reply'[c] = [reply[c] EXCEPT !.code = code, !.listed = list]
  BY <1>1 DEF ListVersions, TypeOK
<1> HIDE DEF mine, list, code
<1>6. reply'[c].listed = list
  BY <1>1, <1>5 DEF Reply
<1>7. \A l \in reply'[c].listed :
        LET now == db'.rows[<<req'[c].skill, l.version>>]
        IN /\ l.version \in Versions
           /\ now # None /\ now.status \in {l.status, "deprecated"}
           /\ MayFetch(req'[c].who, req'[c].skill, l.version)
  BY <1>1, <1>3, <1>4, <1>6
<1> QED
  BY <1>1, <1>2, <1>7 DEF AnswersOK, WorkOK, ReplyOK, RecordOK, Mutations

LEMMA EndTold ==
  ASSUME Inv, NEW c \in Clients, Leave(c) \/ Cancel(c)
  PROVE  AnswersOK(c)'
<1>1. TypeOK /\ Forget(c)
  BY DEF Inv, Typed, Leave, Cancel
<1>2. pc'[c] = "idle" /\ reply'[c] = NoReply
  BY <1>1 DEF Forget, TypeOK
<1> QED
  BY <1>2, NothingTold DEF NoReply

LEMMA QueryFailsTold ==
  ASSUME Inv, NEW c \in Clients, AnswersOK(c), QueryFails(c)
  PROVE  AnswersOK(c)'
<1>1. /\ TypeOK /\ HandlerOK(c) /\ reply[c].listed = {} /\ faults' # 0
      /\ req' = req /\ ver' = ver /\ db' = db /\ Key(c)' = Key(c)
  BY BeforeDone, RegistryAssumption DEF Inv, Typed, TypeOK, QueryFails, Querying, taskVars, Key
<1>2. CASE pc[c] = "audit" /\ reply[c].code = "ok"
  <2>1. pc'[c] = "content" /\ reply' = reply
    BY <1>1, <1>2, GotoStep DEF QueryFails, Steps
  <2>2. Told(c)' <=> Told(c)
    BY <1>1, <2>1 DEF Told
  <2>3. Wanted(c, db.rows[Key(c)])' <=> Wanted(c, db.rows[Key(c)])
    BY <1>1 DEF Wanted
  <2> QED
    BY <1>1, <1>2, <2>1, <2>2, <2>3 DEF AnswersOK, WorkOK, ReplyOK, RecordOK
<1>3. CASE ~(pc[c] = "audit" /\ reply[c].code = "ok")
  <2>1. pc'[c] = "done"
    BY <1>1, <1>3, GotoStep DEF QueryFails, Steps
  <2>2. reply'[c].listed = {} /\ reply'[c].code # "ok"
    BY <1>1, <1>3 DEF QueryFails, TypeOK, NoReply
  <2> QED
    BY <1>1, <2>1, <2>2 DEF AnswersOK, WorkOK, ReplyOK, RecordOK
<1> QED
  BY <1>2, <1>3

LEMMA HandleTold ==
  ASSUME Inv, Matching(db), NEW c \in Clients, AnswersOK(c),
         Receive(c) \/ Handle(c) \/ QueryFails(c) \/ Cancel(c)
  PROVE  AnswersOK(c)'
BY ReceiveTold, ResolveTold, PermitTold, RefuseTold, ExportTold, AuditTold, BeginTold,
   PutTold, PutFilesTold, SetStatusTold, RecordTold, CommitTold, RollbackTold,
   ReadRowTold, ReadFilesTold, ReadContentTold, ListVersionsTold, EndTold,
   QueryFailsTold
DEF Handle

\* The transaction of one handler is not touched by a step of another.
LEMMA TxAlone ==
  ASSUME Inv, NEW c \in Clients, Receive(c) \/ Handle(c) \/ QueryFails(c) \/ Cancel(c),
         NEW d \in Clients, d # c
  PROVE  pc[d] \notin TxSteps \/ UNCHANGED dbVars
<1>1. TxOK(d)
  BY DEF Inv
<1>2. CASE conn = d
  <2>1. conn # c /\ conn # None
    BY <1>2, RegistryAssumption
  <2> QED
    BY <2>1 DEF Receive, Handle, QueryFails, Cancel, Resolve, ResolveFails,
       Permit, Refuse, Audit, Validate, Begin, Put, PutExists, PutFiles, StatusMissing,
       SetStatus, Record, Commit, ReadRow, ReadFiles, ReadContent, ListVersions, Export, Leave,
       ReleaseConn, Free, InTx, dbVars
<1>3. CASE conn # d
  BY <1>1, <1>3 DEF TxOK
<1> QED
  BY <1>2, <1>3

LEMMA TruthInit == Init => TruthInv
<1> SUFFICES ASSUME Init PROVE TruthInv
  OBVIOUS
<1>1. Matching(db)
  BY DEF Init, EmptyDb, Matching
<1>2. \A c \in Clients : AnswersOK(c)
  BY DEF Init, NoReply, AnswersOK, WorkOK, ReplyOK, RecordOK
<1> QED
  BY <1>1, <1>2, InvInit DEF TruthInv

LEMMA TruthStep == TruthInv /\ [Next]_vars => TruthInv'
<1> SUFFICES ASSUME TruthInv, [Next]_vars PROVE TruthInv'
  OBVIOUS
<1>1. Inv /\ Inv' /\ TypeOK /\ TypeOK' /\ [C!Next]_(C!vars)
  BY InvStep DEF TruthInv, Inv, Typed
<1>2. Aged /\ Grown
  BY <1>1, CatalogueAges
<1>3. ASSUME NEW c \in Clients, Receive(c) \/ Handle(c) \/ QueryFails(c) \/ Cancel(c)
      PROVE  TruthInv'
  <2>1. Kept(c)
    BY <1>1, <1>3, HandleKept DEF Inv
  <2>2. AnswersOK(c)'
    BY <1>1, <1>3, HandleTold DEF TruthInv
  <2>3. faults' = 0 => faults = 0
    <3>1. CASE Handle(c)
      BY <3>1 DEF Handle, Resolve, ResolveFails, Permit, Refuse, Audit, Validate, Begin,
         Put, PutExists, PutFiles, StatusMissing, SetStatus, Record, Commit, ReadRow,
         ReadFiles, ReadContent, ListVersions, Export, Leave
    <3>2. CASE Receive(c)
      BY <3>2 DEF Receive
    <3>3. CASE QueryFails(c) \/ Cancel(c)
      <4>1. faults \in Nat /\ faults' = faults + 1
        BY <1>1, <3>3, RegistryAssumption DEF TypeOK, QueryFails, Cancel
      <4> QED
        BY <4>1
    <3> QED
      BY <1>3, <3>1, <3>2, <3>3
  <2>4. ASSUME NEW d \in Clients, d # c PROVE AnswersOK(d)'
    <3>1. pc[d] \notin TxSteps \/ UNCHANGED dbVars
      BY <1>1, <1>3, <2>4, TxAlone
    <3>2. /\ pc'[d] = pc[d] /\ req'[d] = req[d] /\ id'[d] = id[d]
          /\ ver'[d] = ver[d] /\ reply'[d] = reply[d]
      BY <2>1, <2>4 DEF Kept, Others
    <3> QED
      BY <1>1, <1>2, <2>3, <3>1, <3>2, AnswerStays DEF TruthInv
  <2>5. Matching(db)'
    <3>1. CASE Audit(c)
      BY <1>1, <3>1, AuditTold DEF TruthInv, Matching
    <3>2. CASE Commit(c)
      BY <1>1, <3>2, CommitTold DEF TruthInv
    <3>3. CASE ~Audit(c) /\ ~Commit(c)
      <4>1. db' = db
        BY <1>3, <3>3 DEF Receive, Handle, QueryFails, Cancel, Resolve, ResolveFails,
           Permit, Refuse, Validate, Begin, Put, PutExists, PutFiles, StatusMissing,
           SetStatus, Record, ReadRow, ReadFiles, ReadContent, ListVersions, Export, Leave,
           dbVars
      <4> QED
        BY <4>1 DEF TruthInv, Matching
    <3> QED
      BY <3>1, <3>2, <3>3
  <2> QED
    BY <1>1, <2>2, <2>4, <2>5 DEF TruthInv
<1>4. CASE Restart
  <2>1. db' = db /\ \A c \in Clients : pc'[c] = "idle" /\ reply'[c].listed = {}
    BY <1>4 DEF Restart, NoReply
  <2>2. \A c \in Clients : AnswersOK(c)'
    BY <2>1, NothingTold
  <2> QED
    BY <1>1, <2>1, <2>2 DEF TruthInv, Matching
<1>5. CASE UNCHANGED vars
  <2>1. \A c \in Clients : AnswersOK(c)'
    BY <1>1, <1>2, <1>5, AnswerStays DEF TruthInv, vars, dbVars
  <2> QED
    BY <1>1, <1>5, <2>1 DEF TruthInv, Matching, vars
<1> QED
  BY <1>3, <1>4, <1>5 DEF Next

\* Whatever other requests do between the queries of a handler, and after it
\* has answered, its answer is true of the committed catalogue: what was
\* published or deprecated is there, what was fetched or listed is there, is
\* the content of its digest and may be fetched by the caller (Get, Publish,
\* Versions and Deprecate, registry.go:87-130, 201-262, 310-338).
THEOREM AnswersAreTrue == Spec => []RepliesAreTrue
<1>1. TruthInv => RepliesAreTrue
  BY DEF TruthInv, AnswersOK, ReplyOK, Told, Wanted, RepliesAreTrue, Answered
<1> QED
  BY <1>1, TruthInit, TruthStep, PTL DEF Spec

\* While the database accepts writes, a denied mutation and a fetch of content
\* are on record before they are answered, and stay there (registry.go:95-98,
\* 209-213, 224-226, 315-318).
THEOREM RecordsPrecedeAnswers == Spec => []AnsweredAfterRecord
<1>1. TruthInv => AnsweredAfterRecord
  BY DEF TruthInv, AnswersOK, RecordOK, AnsweredAfterRecord, Answered
<1> QED
  BY <1>1, TruthInit, TruthStep, PTL DEF Spec

-----------------------------------------------------------------------------
(* What the end of every request rests on besides fairness: a request only *)
(* comes nearer its end, and waits at most for one that waits for nobody.  *)

\* How many steps may be left.
Left(step) ==
  CASE step = "idle"                                     -> 0
    [] step = "done"                                     -> 1
    [] step \in {"content", "commit", "export", "versions"} -> 2
    [] step \in {"audit", "record"}                      -> 3
    [] step \in {"files", "putFiles", "status"}          -> 4
    [] step \in {"row", "put"}                           -> 5
    [] step = "begin"                                    -> 6
    [] step = "validate"                                 -> 7
    [] step = "decide"                                   -> 8
    [] step = "resolve"                                  -> 9

\* Whatever others do, a request under way stays where it is or comes nearer
\* its end: no handler has a loop, retries a query or starts over.
OnlyNearer ==
  \A c \in Clients : pc[c] # "idle" => pc'[c] = pc[c] \/ Left(pc'[c]) < Left(pc[c])

\* The handler's next query is kept waiting.
WaitsForConn(c) ==
  /\ Querying(c)
  /\ IF pc[c] \in TxSteps THEN ~InTx(c) ELSE ~Free

\* A handler that waits for the connection waits for another request, whose
\* transaction holds it and goes on without waiting for anything.
WaitingIsForOneThatGoesOn ==
  \A c \in Clients : WaitsForConn(c) =>
    /\ conn \in Clients \ {c}
    /\ pc[conn] \in TxSteps /\ ~WaitsForConn(conn)

LEMMA HandleNearer ==
  ASSUME Typed, NEW c \in Clients, Handle(c)
  PROVE  pc[c] # "idle" /\ Left(pc'[c]) < Left(pc[c])
<1>1. TypeOK /\ HandlerOK(c)
  BY DEF Typed
<1>2. \A step : Goto(c, step) => pc'[c] = step
  BY <1>1 DEF TypeOK, Goto
<1>3. CASE Resolve(c) \/ ResolveFails(c) \/ Refuse(c) \/ Validate(c) \/ Audit(c)
  BY <1>2, <1>3 DEF Resolve, ResolveFails, Refuse, Validate, Audit, Left
<1>4. CASE Permit(c)
  <2>1. pc[c] = "decide" /\ req[c].op \in {"publish", "deprecate", "get", "export"}
    BY <1>1, <1>4, RequestType DEF Permit, HandlerOK
  <2>2. pc'[c] \in {"validate", "begin", "row", "export"}
    BY <1>2, <1>4, <2>1 DEF Permit
  <2> QED
    BY <2>1, <2>2 DEF Left
<1>5. CASE Begin(c) \/ Put(c) \/ PutExists(c) \/ PutFiles(c) \/ StatusMissing(c)
  BY <1>2, <1>5 DEF Begin, Put, PutExists, PutFiles, StatusMissing, Rollback, Left
<1>6. CASE SetStatus(c) \/ Record(c) \/ Commit(c)
  BY <1>2, <1>6 DEF SetStatus, Record, Commit, Left
<1>7. CASE ReadRow(c) \/ ReadFiles(c) \/ ReadContent(c) \/ ListVersions(c) \/ Export(c)
  BY <1>2, <1>7 DEF ReadRow, ReadFiles, ReadContent, ListVersions, Export, Left
<1>8. CASE Leave(c)
  BY <1>1, <1>8, ForgetStep DEF Leave, Left
<1> QED
  BY <1>3, <1>4, <1>5, <1>6, <1>7, <1>8 DEF Handle

LEMMA FailureNearer ==
  ASSUME Typed, NEW c \in Clients, QueryFails(c) \/ Cancel(c)
  PROVE  Left(pc'[c]) < Left(pc[c])
<1>1. TypeOK /\ pc[c] \in Steps
  BY DEF Typed, TypeOK
<1>2. CASE QueryFails(c)
  <2>1. pc[c] \notin {"idle", "done"}
    BY <1>2 DEF QueryFails, Querying
  <2>2. pc'[c] = "done" \/ (pc[c] = "audit" /\ pc'[c] = "content")
    BY <1>1, <1>2 DEF TypeOK, QueryFails, Goto
  <2> QED
    BY <1>1, <2>1, <2>2 DEF Left, Steps
<1>3. CASE Cancel(c)
  <2>1. pc[c] # "idle" /\ pc'[c] = "idle"
    BY <1>1, <1>3, ForgetStep DEF Cancel
  <2> QED
    BY <1>1, <2>1 DEF Left, Steps
<1> QED
  BY <1>2, <1>3

LEMMA NearerStep == Typed /\ [Next]_vars => [OnlyNearer]_vars
<1> SUFFICES ASSUME Typed, Next, NEW d \in Clients, pc[d] # "idle"
             PROVE  pc'[d] = pc[d] \/ Left(pc'[d]) < Left(pc[d])
  BY DEF OnlyNearer
<1>1. ASSUME NEW c \in Clients, Receive(c) \/ Handle(c) \/ QueryFails(c) \/ Cancel(c)
      PROVE  pc'[d] = pc[d] \/ Left(pc'[d]) < Left(pc[d])
  <2>1. CASE d # c
    BY <1>1, <2>1, HandleKept DEF Kept, Others
  <2>2. CASE d = c
    <3>1. ~Receive(c)
      BY <2>2 DEF Receive
    <3> QED
      BY <1>1, <2>2, <3>1, HandleNearer, FailureNearer
  <2> QED
    BY <2>1, <2>2
<1>2. CASE Restart
  <2>1. pc'[d] = "idle" /\ pc[d] \in Steps
    BY <1>2 DEF Restart, Typed, TypeOK
  <2>2. Left("idle") = 0 /\ (pc[d] = "idle" \/ 0 < Left(pc[d]))
    BY <2>1 DEF Left, Steps
  <2> QED
    BY <2>1, <2>2
<1> QED
  BY <1>1, <1>2 DEF Next

\* Every step of a request brings it nearer its end, so that none takes more
\* than nine steps, whatever requests interleave, queries fail or the server
\* restarts (every handler of registry.go is straight-line code).
THEOREM RequestsOnlyComeNearer == Spec => [][OnlyNearer]_vars
BY TypedInit, TypedStep, NearerStep, PTL DEF Spec

\* A request that waits for the one database connection waits for another,
\* whose transaction holds it and waits for nobody: the transaction writes its
\* audit record through itself and opens no other one (SetMaxOpenConns(1),
\* sqlite.go:92; Tx, 104-117).
THEOREM NobodyWaitsForAWaiter == Spec => []WaitingIsForOneThatGoesOn
<1>1. Inv => WaitingIsForOneThatGoesOn
  <2> SUFFICES ASSUME Inv, NEW c \in Clients, WaitsForConn(c)
               PROVE  /\ conn \in Clients \ {c}
                      /\ pc[conn] \in TxSteps /\ ~WaitsForConn(conn)
    BY DEF WaitingIsForOneThatGoesOn
  <2>1. conn \in Clients \cup {None} /\ \A d \in Clients : conn = d <=> pc[d] \in TxSteps
    BY DEF Inv, Typed, TypeOK, TxOK
  <2>2. pc[c] \notin TxSteps /\ conn # None
    BY <2>1 DEF WaitsForConn, InTx, Free
  <2> QED
    BY <2>1, <2>2 DEF WaitsForConn, InTx
<1>2. Inv /\ [Next]_vars => Inv'
  BY InvStep
<1> QED
  BY <1>1, <1>2, InvInit, PTL DEF Spec
=============================================================================
