-------------------------------- MODULE Reads --------------------------------
(***************************************************************************)
(* A client that reads versions over HTTP with If-None-Match, or over MCP  *)
(* once it has agreed on an era (Mcp), and keeps copies, while others      *)
(* publish and deprecate.  The handlers                                    *)
(* (internal/server, internal/mcp) resolve `latest`, read the row, compare *)
(* the entity tag and read the content, each a query of its own.  Who may  *)
(* fetch what, and the records of it, are in Registry.                     *)
(***************************************************************************)
EXTENDS VersionOrder, Mcp

CONSTANTS
  Digest,      \* the digest of every version's bundle
  Hash,        \* the hash of every version's SKILL.md, which is its content
  Resources    \* what clients ask for

None == 0                  \* no version, and the path `latest`
\* The MCP calls: get_skill, which names the version, and resources/read.
Calls == {"skill", "resource"}
Kinds == {"metadata", "bundle", "file"} \cup Calls
Resource == [kind : Kinds, path : Versions \cup {None}]

ASSUME ReadsAssumption ==
  /\ Versions \subseteq Nat \ {None} /\ Stable \subseteq Versions
  /\ Digest \in [Versions -> Nat \ {None}] /\ Hash \in [Versions -> Nat \ {None}]
  \* Equal digests are of equal files.
  /\ \A v, w \in Versions : Digest[v] = Digest[w] => Hash[v] = Hash[w]
  /\ Resources \subseteq Resource
  /\ \A c \in Clients : c.asks \subseteq Resources /\ c.asks # {}
  \* Only REST paths name a version.
  /\ \A r \in Resources : r.kind \in Calls => r.path = None

VARIABLES
  rows,                     \* the status of every version
  pc, want,                 \* the request and where its handler is
  version, status, content, \* what the handler has read
  copies                    \* what the client keeps

readVars == <<rows, pc, want, version, status, content, copies>>
vars == <<readVars, mcpVars>>

Statuses == {"none", "published", "deprecated"}
Tag == [of : Nat, status : Statuses]
Body == [version : Versions \cup {None}, status : Statuses, content : Nat]
NoTag == [of |-> None, status |-> "none"]
NoBody == [version |-> None, status |-> "none", content |-> None]
NoCopy == [tag |-> NoTag, body |-> NoBody]

TypeOK ==
  /\ McpTypeOK
  /\ rows \in [Versions -> Statuses]
  /\ pc \in {"idle", "resolve", "row", "tag", "content", "reply", "answered"}
  /\ want \in Resources
  /\ version \in Versions \cup {None} /\ status \in Statuses /\ content \in Nat
  /\ copies \in [Resources -> [tag : Tag, body : Body]]
  \* An answer is of a version that was published.
  /\ pc \in {"tag", "content", "reply", "answered"} => version # None /\ status # "none"

Init ==
  /\ McpInit
  /\ rows = [v \in Versions |-> "none"]
  /\ pc = "idle" /\ want \in client.asks
  /\ version = None /\ status = "none" /\ content = None
  /\ copies = [r \in Resources |-> NoCopy]

-----------------------------------------------------------------------------
Published == {v \in Versions : rows[v] = "published"}

\* What a full answer says: metadata names the version and its status, the
\* MCP tool get_skill names the version beside the content of SKILL.md.
Says(kind, v, st, c) ==
  [version |-> IF kind \in {"metadata", "skill"} THEN v ELSE None,
   status  |-> IF kind = "metadata" THEN st ELSE "none",
   content |-> IF kind = "metadata" THEN None ELSE c]

ContentOf(kind, v) == IF kind = "bundle" THEN Digest[v] ELSE Hash[v]

\* Mutant: the validator leaves the status out.
EtagOfDigest(kind, v, st) == [of |-> ContentOf(kind, v), status |-> "none"]

\* "status is not [immutable], so the validator must change with it".
Etag(kind, v, st) ==
  [of |-> IF kind = "metadata" THEN Digest[v] ELSE ContentOf(kind, v),
   status |-> IF kind = "metadata" THEN st ELSE "none"]

\* MCP has no conditional requests.
Conditional(kind) == kind \notin Calls

-----------------------------------------------------------------------------
Method(kind) == IF kind = "skill" THEN "tools/call" ELSE "resources/read"

Ask(r) ==
  /\ pc = "idle"
  /\ r.kind \in Calls => CallAnswered(Method(r.kind))
  /\ want' = r
  /\ version' = r.path
  /\ pc' = IF r.path = None THEN "resolve" ELSE "row"
  /\ UNCHANGED <<rows, status, content, copies>>

Forget == version' = None /\ status' = "none" /\ content' = None

NotFound ==
  /\ pc' = "idle"
  /\ Forget
  /\ UNCHANGED <<rows, want, copies>>

Resolve ==
  /\ pc = "resolve"
  /\ IF Published = {} THEN NotFound
     ELSE /\ version' = Best(Published)
          /\ pc' = "row"
          /\ UNCHANGED <<rows, want, status, content, copies>>

\* Mutant: a version that is not there is served.
ReadRowUnchecked ==
  /\ pc = "row"
  /\ status' = rows[version]
  /\ pc' = "tag"
  /\ UNCHANGED <<rows, want, version, content, copies>>

ReadRow ==
  /\ pc = "row"
  /\ IF rows[version] = "none" THEN NotFound
     ELSE /\ status' = rows[version]
          /\ pc' = "tag"
          /\ UNCHANGED <<rows, want, version, content, copies>>

\* notModified: the client keeps its copy and the content is not read.
Revalidate ==
  /\ pc = "tag"
  /\ pc' = IF Conditional(want.kind) /\ copies[want].tag = Etag(want.kind, version, status)
           THEN "answered"
           ELSE IF want.kind = "metadata" THEN "reply" ELSE "content"
  /\ UNCHANGED <<rows, want, version, status, content, copies>>

\* The content is that of the version whose row was read.
ReadContent ==
  /\ pc = "content"
  /\ content' = ContentOf(want.kind, version)
  /\ pc' = "reply"
  /\ UNCHANGED <<rows, want, version, status, copies>>

Reply ==
  /\ pc = "reply"
  /\ copies' = [copies EXCEPT ![want] =
       [tag |-> IF Conditional(want.kind) THEN Etag(want.kind, version, status) ELSE NoTag,
        body |-> Says(want.kind, version, status, content)]]
  /\ pc' = "answered"
  /\ UNCHANGED <<rows, want, version, status, content>>

Leave ==
  /\ pc = "answered"
  /\ pc' = "idle"
  /\ Forget
  /\ UNCHANGED <<rows, want, copies>>

Publish(v) ==
  /\ rows[v] = "none"
  /\ rows' = [rows EXCEPT ![v] = "published"]
  /\ UNCHANGED <<pc, want, version, status, content, copies>>

Deprecate(v) ==
  /\ rows[v] = "published"
  /\ rows' = [rows EXCEPT ![v] = "deprecated"]
  /\ UNCHANGED <<pc, want, version, status, content, copies>>

Serve ==
  \/ \E r \in client.asks : Ask(r)
  \/ Resolve \/ ReadRow \/ Revalidate \/ ReadContent \/ Reply \/ Leave
  \/ \E v \in Versions : Publish(v) \/ Deprecate(v)

Next ==
  \/ Serve /\ UNCHANGED mcpVars
  \/ Negotiate /\ UNCHANGED readVars

Spec == Init /\ [][Next]_vars

\* A client goes on with what it has begun.
FairSpec == Spec /\ WF_mcpVars(Negotiate)

-----------------------------------------------------------------------------
\* Whether the answer was in full or "not modified", and whatever the client
\* asked for in the meantime, its copy then says what the catalogue says of
\* the version that answered: its status, and its content beside its own
\* version (server.go:213-241, mcp.go:360-377, tools.go:81-104).
CopiesAreCurrent ==
  pc = "answered" =>
    copies[want].body = Says(want.kind, version, status, ContentOf(want.kind, version))
=============================================================================
