------------------------------- MODULE Publish -------------------------------
(***************************************************************************)
(* One request to a gateway, from the caller's token to the bundle that a  *)
(* client has downloaded: the server starts (cmd/sgw/main.go), the caller  *)
(* is authenticated (internal/auth, internal/server), the policy decides   *)
(* (Policy), an upload is read entry by entry and checked                  *)
(* (internal/bundle, internal/registry), and what was stored is encoded,   *)
(* sent and read once more (internal/client).  The network may alter an    *)
(* archive on its way.  Who wins when two publish is in Registry.          *)
(***************************************************************************)
EXTENDS Policy, Bundle

CONSTANTS
  Cases,       \* lists of the <<setup, rules, request>> to look at, a request
               \* being [bearer, token, action, resource, named, size, packs,
               \* folder, archive, digest]; size is that of the compressed
               \* upload, and how far an archive is compressed is left open
  Trimmed,     \* a group or role without its leading slash
  NoToken,
  NoOne,       \* the principal of a request that is not authenticated
  NoDigest,    \* no X-Bundle-Digest header
  NotAString,  \* a claim's element of another type
  MaxBody,     \* bound of the compressed upload (max_upload_bytes)
  MaxFaults    \* bound on altered transmissions

VARIABLES
  setup, request,
  phase, reply,
  stream, pos, files,   \* the archive being read, by the server or the client
  stored,               \* the version that was published
  faults

wireVars == <<stream, pos, files>>
requestVars == <<setup, request, phase, reply, wireVars, stored, faults>>
publishVars == <<vars, requestVars>>

Nothing == [files |-> {}, digest |-> NoDigest]

PublishInit ==
  /\ \E i \in DOMAIN Cases : \E c \in Cases[i] :
       setup = c[1] /\ rules = c[2] /\ request = c[3]
  /\ query = [who |-> NoOne, action |-> request.action, resource |-> request.resource]
  /\ next = 1 /\ allow = 0 /\ decision = Undecided
  /\ phase = "start" /\ reply = "none"
  /\ stream = <<>> /\ pos = 1 /\ files = {}
  /\ stored = Nothing
  /\ faults = 0

\* An upload is a list of entries.  A folder has one file or link at a path,
\* and a walk names it from the folder on.
ASSUME RequestAssumption ==
  /\ MaxBody \in Nat /\ MaxFaults \in Nat
  /\ \A i \in DOMAIN Cases : \A c \in Cases[i] :
       LET q == c[3]
       IN /\ q.named \in BOOLEAN /\ q.packs \in BOOLEAN /\ q.size \in Nat
          /\ q.archive \in Seq(Entries)
          /\ IsFiniteSet(q.folder)
          /\ q.folder \subseteq [kind: {"file", "link"}, path: Seq(STRING), data: Contents]
          /\ \A e, f \in q.folder : e.path = f.path => e = f
          /\ \A e \in q.folder : \A j \in DOMAIN e.path : e.path[j] # "."
          /\ Digest(Packed(q.folder)) # NoDigest

-----------------------------------------------------------------------------
(* Starting the server and authenticating the caller.                      *)

\* Parse: what a policy file must satisfy to be loaded.
WellFormed(rs) ==
  /\ \A i, j \in DOMAIN rs : rs[i].id = rs[j].id => i = j
  /\ \A i \in DOMAIN rs :
       LET s == rs[i].subject
       IN /\ rs[i].id # NoRule
          /\ rs[i].effect \in {"allow", "deny"}
          /\ rs[i].actions # {}
          /\ s.any \/ s.users \cup s.teams \cup s.roles \cup s.agents # {}

ASSUME PublishAssumption ==
  \A i \in DOMAIN Cases : \A c \in Cases[i] : WellFormed(c[2]) => c[2] \in Policies

\* validate and buildAuth: every request is trusted only when asked for twice.
Starts ==
  /\ setup.mode = "static" => DOMAIN setup.table # {}
  /\ setup.mode = "none" => setup.insecure
  /\ WellFormed(rules)

Serve ==
  /\ phase = "start"
  /\ phase' = IF Starts THEN "send" ELSE "exit"
  /\ UNCHANGED <<vars, setup, request, reply, wireVars, stored, faults>>

\* `sgw publish` packs a folder and announces its digest; others send what
\* they like.
Archive == IF request.packs THEN Encode(Packed(request.folder)) ELSE request.archive
Announced == IF request.packs THEN Digest(Packed(request.folder)) ELSE request.digest

\* A link in the folder ends the command before anything is sent.
Send ==
  /\ phase = "send"
  /\ phase' = IF request.packs /\ ~NoLinks(request.folder) THEN "unsent" ELSE "authenticate"
  /\ UNCHANGED <<vars, setup, request, reply, wireVars, stored, faults>>

ClaimString(claim) == IF claim.kind = "string" THEN claim.value ELSE ""

ClaimStrings(claim) ==
  CASE claim.kind = "string" -> {Trimmed[claim.value]}
    [] claim.kind = "list"   -> {Trimmed[s] : s \in claim.value \ {NotAString}}
    [] OTHER                 -> {}

\* The library verifies signature, issuer, audience and expiry; the claims
\* make the principal, which must have a subject.
Claimed(token) ==
  LET p == [user  |-> ClaimString(token.sub),    teams |-> ClaimStrings(token.groups),
            roles |-> ClaimStrings(token.roles), agent |-> ClaimString(token.agent)]
  IN IF token.verified /\ p.user # "" THEN p ELSE NoOne

\* The table of static tokens, and the one principal of mode "none".
Listed(token) == IF token \in DOMAIN setup.table THEN setup.table[token] ELSE NoOne
Fixed == [setup.none EXCEPT !.user = IF @ = "" THEN "anonymous" ELSE @]

\* The token of a header "bearer <token>"; without one only "none" lets in.
Bearer == IF request.bearer THEN request.token ELSE NoToken
Principal ==
  CASE setup.mode = "none" -> Fixed
    [] setup.mode # "none" /\ Bearer = NoToken -> NoOne
    [] setup.mode = "static" /\ Bearer # NoToken -> Listed(Bearer)
    [] setup.mode = "oidc" /\ Bearer # NoToken -> Claimed(Bearer)

Answer(r) == phase' = "answered" /\ reply' = r

\* An upload is read whole, in a bounded buffer, before it is looked at, and
\* names are checked before the policy is asked.
Authenticate ==
  /\ phase = "authenticate"
  /\ query' = [query EXCEPT !.who = Principal]
  /\ CASE Principal = NoOne -> Answer("unauthenticated")
       [] Principal # NoOne /\ request.size > MaxBody -> Answer("payload_too_large")
       [] Principal # NoOne /\ request.size <= MaxBody /\ ~request.named -> Answer("invalid_request")
       [] OTHER -> phase' = "decide" /\ UNCHANGED reply
  /\ UNCHANGED <<rules, next, allow, decision, setup, request, wireVars, stored, faults>>

Decide ==
  /\ phase = "decide"
  /\ Skip \/ Deny \/ Allow \/ Finish
  /\ UNCHANGED requestVars

-----------------------------------------------------------------------------
(* Reading an archive, at the server and at the client.                    *)

\* What may arrive in place of an archive: it ends early, or a file in it
\* has other bytes.
Alterations(a) ==
  {[a EXCEPT ![i].type = "broken"] : i \in DOMAIN a}
  \cup {[a EXCEPT ![i].data = c] : i \in DOMAIN a, c \in Contents}

Arrives(a) ==
  \/ stream' = a /\ UNCHANGED faults
  \/ /\ faults < MaxFaults
     /\ faults' = faults + 1
     /\ stream' \in Alterations(a) \ {a}

Begin(p, a) ==
  /\ phase' = p
  /\ pos' = 1 /\ files' = {}
  /\ Arrives(a)

\* Only an upload is read; the other requests are answered elsewhere.
Proceed ==
  /\ phase = "decide" /\ decision.done
  /\ CASE ~decision.allow -> Answer("forbidden") /\ UNCHANGED <<wireVars, faults>>
       [] decision.allow /\ query.action # "publish" ->
            Answer("allowed") /\ UNCHANGED <<wireVars, faults>>
       [] OTHER -> Begin("read", Archive) /\ UNCHANGED reply
  /\ UNCHANGED <<vars, setup, request, stored>>

\* The digests and limits are checked again by whoever downloads.
Refuse == IF phase = "read" THEN Answer("invalid_request")
                            ELSE phase' = "refused" /\ UNCHANGED reply

\* Mutant: the limit of files is looked at after the file was added.
FitsLate(e) ==
  /\ CleanPath(e.name) \notin {Unsafe} \cup {f.path : f \in files}
  /\ Cardinality(files) <= Limits.files
  /\ Size[e.data] <= Limits.file
  /\ Total(files) + Size[e.data] <= Limits.total

\* One regular file against the files before it.
Fits(e) ==
  /\ CleanPath(e.name) \notin {Unsafe} \cup {f.path : f \in files}
  /\ Cardinality(files) < Limits.files
  /\ Size[e.data] <= Limits.file
  /\ Total(files) + Size[e.data] <= Limits.total

\* The reader takes its bound for the end of the archive when it falls between
\* two entries, and for damage within one.
AtEnd == pos > Len(stream) \/ Held(stream, pos - 1) = Bound

\* One entry, while the archive keeps within its bound.
Passes(e) ==
  /\ Held(stream, pos) <= Bound
  /\ \/ e.type = "dir" /\ DirIsSafe(e.name)
     \/ e.type = "global"
     \/ e.type = "reg" /\ Fits(e)

ReadEntry ==
  /\ phase \in {"read", "download"}
  /\ ~AtEnd
  /\ LET e == stream[pos]
     IN IF Passes(e)
        THEN /\ pos' = pos + 1
             /\ files' = IF e.type = "reg" THEN files \cup {File(CleanPath(e.name), e.data)}
                                           ELSE files
             /\ UNCHANGED <<phase, reply>>
        ELSE Refuse /\ UNCHANGED <<pos, files>>
  /\ UNCHANGED <<vars, setup, request, stream, stored, faults>>

EndArchive ==
  /\ phase \in {"read", "download"}
  /\ AtEnd
  /\ IF \E f \in files : f.path = SkillFile
     THEN phase' = (IF phase = "read" THEN "check" ELSE "verify") /\ UNCHANGED reply
     ELSE Refuse
  /\ UNCHANGED <<vars, setup, request, wireVars, stored, faults>>

DigestIsExpected == Announced \in {NoDigest, Digest(files)}

\* Publish, once the archive is read: digest, SKILL.md, name.
Check ==
  /\ phase = "check"
  /\ LET doc == Document[DataAt(files, SkillFile)]
     IN CASE ~DigestIsExpected -> Answer("digest_mismatch") /\ UNCHANGED stored
          [] DigestIsExpected /\ ~(Parses(doc) /\ doc.name = query.resource.name) ->
               Answer("invalid_request") /\ UNCHANGED stored
          [] OTHER -> /\ Answer("created")
                      /\ stored' = [files |-> files, digest |-> Digest(files)]
  /\ UNCHANGED <<vars, setup, request, wireVars, faults>>

-----------------------------------------------------------------------------
\* getBundle and Client.Bundle: the archive is made anew from the files.
Download ==
  /\ phase = "answered" /\ reply = "created"
  /\ Begin("download", Encode(stored.files))
  /\ UNCHANGED <<vars, setup, request, reply, stored>>

\* Mutant: an archive that could be read is taken.
VerifyNothing ==
  /\ phase = "verify"
  /\ phase' = "fetched"
  /\ UNCHANGED <<vars, setup, request, reply, wireVars, stored, faults>>

\* The computed digest must be the one the server advertises.
Verify ==
  /\ phase = "verify"
  /\ phase' = IF Digest(files) = stored.digest THEN "fetched" ELSE "refused"
  /\ UNCHANGED <<vars, setup, request, reply, wireVars, stored, faults>>

PublishNext ==
  \/ Serve \/ Send \/ Authenticate \/ Decide \/ Proceed
  \/ ReadEntry \/ EndArchive \/ Check \/ Download \/ Verify

PublishSpec == PublishInit /\ [][PublishNext]_publishVars

-----------------------------------------------------------------------------
(* What publishing promises.                                               *)

\* The bound falls between two entries of an archive.
CutBetween(a) == \E n \in 0..(Len(a) - 1) : Held(a, n) = Bound

\* The bundles that are valid, said of the whole archive.
ValidArchive(a) ==
  LET regs == Regs(a, Len(a))
      path(i) == CleanPath(a[i].name)
  IN /\ \A i \in DOMAIN a : a[i].type \in {"dir", "reg", "global"}
     /\ \A i \in DOMAIN a : a[i].type = "dir" => DirIsSafe(a[i].name)
     /\ \A i, j \in regs : path(i) # Unsafe /\ (path(i) = path(j) => i = j)
     /\ \E i \in regs : path(i) = SkillFile
     /\ Cardinality(regs) <= Limits.files
     /\ \A i \in regs : Size[a[i].data] <= Limits.file
     /\ SumOver(Sizes(a), regs) <= Limits.total
     /\ Held(a, Len(a)) <= Bound

\* A version is created exactly when the server may run at all, the caller's
\* token makes a principal whom the rules permit to publish, and all that
\* arrived is a valid bundle of that name and of the digest that was sent with
\* it; a caller who is refused learns nothing of the bundle (server.go:99-113
\* and 351-367, registry.go:87-119, bundle.go:87-158).  One case is left out,
\* the one in which the code fails it: an archive beyond the bound that has
\* the bound between two of its entries (NothingIsCut).
CreatedExactlyIfAdmissible ==
  /\ reply \in {"forbidden", "allowed", "digest_mismatch", "created"}
       => Principal # NoOne /\ (reply = "forbidden" <=> ~Permits(rules, query))
  /\ phase = "answered" /\ query.action = "publish" =>
       LET arrived == IF stream = <<>> THEN Archive ELSE stream
           held    == {File(CleanPath(arrived[i].name), arrived[i].data) :
                         i \in Regs(arrived, Len(arrived))}
           doc     == Document[DataAt(held, SkillFile)]
       IN \/ CutBetween(arrived)
          \/ reply = "created" <=>
               /\ Principal # NoOne
               /\ request.size <= MaxBody /\ request.named
               /\ Permits(rules, query)
               /\ ValidArchive(arrived)
               /\ Announced \in {NoDigest, Digest(held)}
               /\ Parses(doc) /\ doc.name = request.resource.name

\* "A bundle that ... exceeds the limits ... MUST be rejected" (protocol, line
\* 48).  It is not: the reader takes a bound between two entries for the end
\* of the archive (bundle.go:93-105), and the entries before it are published.
NothingIsCut ==
  reply = "created" => Held(stream, Len(stream)) <= Bound

\* The part of it that guards the catalogue: only a caller whom the token
\* names, and whom the rules permit to publish that skill, creates a version
\* (server.go:99-113, registry.go:87-99).
CreatedOnlyIfPermitted ==
  reply = "created" =>
    /\ Principal # NoOne /\ query.who = Principal
    /\ query.action = "publish"
    /\ Permits(rules, query)

\* What a client takes is what the publisher announced, or at least what was
\* published, whichever transmissions were altered (client.go:82-97,
\* 120-136, registry.go:103-105).
FetchedIsPublished ==
  phase = "fetched" => /\ Digest(files) = stored.digest
                       /\ Announced \in {NoDigest, Digest(files)}

\* A version that was published can be used: a download that was not altered
\* is accepted, whatever the archive was that was uploaded, and every format
\* puts every file at a path of its own inside its directory
\* (bundle.go:205-224, translate.go:39-65, server.go:325-344).
PublishedIsUsable ==
  /\ phase = "refused" => faults > 0
  /\ reply = "created" =>
       LET name == request.resource.name
       IN /\ Parses(Document[DataAt(stored.files, SkillFile)])
          /\ \A format \in Formats :
               LET written == Translate(format, name, stored.files)
               IN /\ \A f \in written : \A i \in DOMAIN f.path :
                       f.path[i] \notin {"", ".", ".."} \cup Forbidden
                  /\ format \in DOMAIN Roots =>
                       Cardinality({f.path : f \in written}) = Cardinality(stored.files)

\* What a gateway takes of a folder is what a folder source takes: a caller
\* who may publish can publish a folder exactly when it resolves as a source
\* and its archive, compressed, is within max_upload_bytes, and what a client
\* then downloads are the files that the folder source gives (main.go:296-328,
\* dir.go:128-185, server.go:353-358, bundle.go:87-158).
SourcesAgree ==
  request.packs /\ request.named /\ faults = 0 =>
    LET source == Resolved(request.folder, request.resource.name)
        publishable == source # {} /\ request.size <= MaxBody
    IN /\ \/ phase = "unsent"
          \/ reply \in {"payload_too_large", "invalid_request", "digest_mismatch"}
          => ~publishable
       /\ reply = "created" => publishable /\ stored.files = source
       /\ phase = "fetched" => files = source

\* One manifest would work against a folder and a gateway alike (dir.go:93-95)
\* if whatever resolves could be published.  It cannot: a folder may hold 16
\* MiB (bundle.go:35, dir.go:166), an upload 10 MiB as long as nobody
\* configures more (config.go:91-92, server.go:44-45).
ResolvedIsPublishable ==
  reply = "payload_too_large" /\ request.packs =>
    Resolved(request.folder, request.resource.name) = {}

\* A bundle is a directory (bundle.go:3): a client that walks it from its
\* root with resources/directory/read finds every file of it.
WalkFindsEveryFile ==
  reply = "created" => \A f \in stored.files :
    [name |-> S!Last(f.path), dir |-> FALSE] \in Children(stored.files, S!Front(f.path))
=============================================================================
