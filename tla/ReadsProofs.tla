----------------------------- MODULE ReadsProofs -----------------------------
(***************************************************************************)
(* A client's copies are current after every answer, for every number of   *)
(* versions, whatever clients ask for and others publish and deprecate     *)
(* meanwhile, as long as no two versions have the same bundle.             *)
(***************************************************************************)
EXTENDS Reads, FiniteSetTheorems, WellFoundedInduction, TLAPS

\* No version is another one packed again.
NoneRepacked == \A v, w \in Versions : Digest[v] = Digest[w] => v = w

LEMMA BetterIsAnOrder ==
  ASSUME NEW u \in Versions, NEW v \in Versions, NEW w \in Versions
  PROVE  /\ Better(u, v) /\ Better(v, w) => Better(u, w)
         /\ ~(Better(u, v) /\ Better(v, u))
         /\ u # v => Better(u, v) \/ Better(v, u)
BY VersionAssumption DEF Better

\* Of any versions one is better than all others: the one with the fewest
\* better ones, which finite sets have.
LEMMA OneIsBest ==
  ASSUME NEW vs \in SUBSET Versions, vs # {}
  PROVE  /\ Best(vs) \in vs
         /\ IsBest(Best(vs), vs)
<1> DEFINE above(v) == {w \in vs : w # v /\ Better(w, v)}
           T == {above(v) : v \in vs}
           R == StrictSubsetOrdering(Versions)
<1>1. T \subseteq FiniteSubsetsOf(Versions) /\ T # {}
  <2>1. \A v \in vs : above(v) \subseteq Versions
    OBVIOUS
  <2>2. IsFiniteSet(Versions)
    BY VersionAssumption
  <2> HIDE DEF above
  <2>3. \A v \in vs : IsFiniteSet(above(v))
    BY <2>1, <2>2, FS_Subset
  <2> QED
    BY <2>1, <2>3 DEF FiniteSubsetsOf
<1>2. PICK x \in T : \A y \in T : <<y, x>> \notin R
  <2> HIDE DEF T
  <2> QED
    BY <1>1, FS_StrictSubsetOrderingWellFounded, WFMin
<1>3. PICK v \in vs : x = above(v)
  OBVIOUS
<1>4. above(v) = {}
  <2> SUFFICES ASSUME NEW w \in above(v) PROVE FALSE
    OBVIOUS
  <2>1. w \in vs /\ w # v /\ Better(w, v)
    OBVIOUS
  <2>2. above(w) \subseteq above(v) /\ w \notin above(w)
    BY <2>1, BetterIsAnOrder
  <2>3. <<above(w), above(v)>> \in R
    BY <2>1, <2>2 DEF StrictSubsetOrdering
  <2> QED
    BY <1>2, <1>3, <2>1, <2>3
<1>5. IsBest(v, vs)
  BY <1>4, BetterIsAnOrder DEF IsBest
<1> QED
  BY <1>5 DEF Best

-----------------------------------------------------------------------------
(* The invariant: a copy that has a tag is what some version said when it  *)
(* had the status of the tag, and the handler holds the content of the     *)
(* version that it read.                                                   *)

Copy == [tag : Tag, body : Body]

\* The tag and the body of one answer belong together.
Genuine(r, copy) ==
  \E v \in Versions, st \in Statuses :
    /\ Conditional(r.kind) => copy.tag = Etag(r.kind, v, st)
    /\ copy.body = Says(r.kind, v, st, ContentOf(r.kind, v))

Handling ==
  /\ client \in Clients
  /\ want \in Resources
  /\ version \in Versions \cup {None}
  /\ status \in Statuses
  /\ content \in Nat
  /\ rows \in [Versions -> Statuses]
  /\ pc \in {"row", "tag", "content", "reply", "answered"} => version \in Versions
  /\ pc \in {"tag", "content", "reply", "answered"} => status # "none"
  /\ pc = "reply" /\ want.kind # "metadata" => content = ContentOf(want.kind, version)

Copies ==
  /\ copies \in [Resources -> Copy]
  /\ \A r \in Resources : copies[r] = NoCopy \/ Genuine(r, copies[r])

Inv == Handling /\ Copies /\ CopiesAreCurrent

LEMMA ContentOfType ==
  ASSUME NEW kind, NEW v \in Versions
  PROVE  ContentOf(kind, v) \in Nat \ {None}
BY ReadsAssumption DEF ContentOf

LEMMA EtagType ==
  ASSUME NEW kind, NEW v \in Versions, NEW st \in Statuses
  PROVE  Etag(kind, v, st) \in Tag
BY ReadsAssumption, ContentOfType DEF Etag, Tag, Statuses

LEMMA SaysType ==
  ASSUME NEW kind, NEW v \in Versions, NEW st \in Statuses, NEW c \in Nat
  PROVE  Says(kind, v, st, c) \in Body
BY ReadsAssumption DEF Says, Body, Statuses, None

\* A tag that matches is that of an answer which says the same now.
LEMMA SameTagSameBody ==
  ASSUME NoneRepacked, NEW r \in Resources, NEW v \in Versions, NEW st \in Statuses,
         st # "none", Conditional(r.kind), NEW copy,
         copy = NoCopy \/ Genuine(r, copy), copy.tag = Etag(r.kind, v, st)
  PROVE  copy.body = Says(r.kind, v, st, ContentOf(r.kind, v))
<1>1. copy # NoCopy
  <2>1. Etag(r.kind, v, st).of # None
    BY ReadsAssumption, ContentOfType DEF Etag
  <2> QED
    BY <2>1 DEF NoCopy, NoTag
<1>2. PICK w \in Versions, s \in Statuses :
        /\ copy.tag = Etag(r.kind, w, s)
        /\ copy.body = Says(r.kind, w, s, ContentOf(r.kind, w))
  BY <1>1 DEF Genuine
<1>3. Etag(r.kind, w, s) = Etag(r.kind, v, st)
  BY <1>2
<1>4. CASE r.kind = "metadata"
  <2>1. w = v /\ s = st
    BY <1>3, <1>4, NoneRepacked DEF Etag, NoneRepacked
  <2> QED
    BY <1>2, <2>1
<1>5. CASE r.kind # "metadata"
  <2>1. ContentOf(r.kind, w) = ContentOf(r.kind, v)
    BY <1>3, <1>5 DEF Etag
  <2>2. r.kind # "skill"
    BY DEF Conditional, Calls
  <2> QED
    BY <1>2, <1>5, <2>1, <2>2 DEF Says
<1> QED
  BY <1>4, <1>5

LEMMA InvInit == Init => Inv
<1> SUFFICES ASSUME Init PROVE Inv
  OBVIOUS
<1>1. NoCopy \in Copy
  BY DEF NoCopy, Copy, NoTag, NoBody, Tag, Body, Statuses, None
<1>2. Handling
  BY ReadsAssumption DEF Init, Handling, None, Statuses, McpInit
<1>3. Copies
  BY <1>1 DEF Init, Copies
<1> QED
  BY <1>2, <1>3 DEF Inv, CopiesAreCurrent, Init

\* Negotiating leaves the reader alone, and the client remains who it is.
LEMMA NegotiateStep == Inv /\ Negotiate /\ UNCHANGED readVars => Inv'
<1> SUFFICES ASSUME Inv, Negotiate, UNCHANGED readVars PROVE Inv'
  OBVIOUS
<1>1. client' = client
  BY DEF Negotiate, Connect, Discover, Initialize, Initialized, TurnTo, GiveUp, TurnToHandshake, Agree
<1>2. Handling' /\ Copies'
  BY <1>1 DEF Inv, readVars, Handling, Copies
<1>3. CopiesAreCurrent'
  BY DEF Inv, readVars, CopiesAreCurrent
<1> QED
  BY <1>2, <1>3 DEF Inv

LEMMA ServeStep == NoneRepacked /\ Inv /\ Serve /\ UNCHANGED mcpVars => Inv'
<1> SUFFICES ASSUME NoneRepacked, Inv, Serve, UNCHANGED mcpVars PROVE Inv'
  OBVIOUS
<1> USE DEF Inv, Handling
<1>1. client' = client
  BY DEF mcpVars
<1>2. \A r \in client.asks : r \in Resources /\ r.path \in Versions \cup {None}
  BY ReadsAssumption DEF Resource
\* All steps but the last one leave the copies as they are.
<1>3. ASSUME UNCHANGED copies PROVE Copies'
  BY <1>3 DEF Copies
<1>4. ASSUME NEW r \in client.asks, Ask(r) PROVE Inv'
  BY <1>1, <1>2, <1>3, <1>4 DEF Ask, CopiesAreCurrent, Copies
<1>5. ASSUME NotFound PROVE Inv'
  BY <1>1, <1>3, <1>5 DEF NotFound, Forget, CopiesAreCurrent, Statuses, None
<1>6. CASE Resolve
  <2>1. CASE Published = {}
    BY <1>5, <1>6, <2>1 DEF Resolve
  <2>2. CASE Published # {}
    <3>1. Best(Published) \in Versions
      BY <2>2, OneIsBest DEF Published
    <3> QED
      BY <1>1, <1>3, <1>6, <2>2, <3>1 DEF Resolve, CopiesAreCurrent
  <2> QED
    BY <2>1, <2>2
<1>7. CASE ReadRow
  <2>1. CASE rows[version] = "none"
    BY <1>5, <1>7, <2>1 DEF ReadRow
  <2>2. CASE rows[version] # "none"
    BY <1>1, <1>3, <1>7, <2>2 DEF ReadRow, CopiesAreCurrent
  <2> QED
    BY <2>1, <2>2
<1>8. CASE Revalidate
  <2>1. Handling'
    BY <1>1, <1>8 DEF Revalidate
  <2>2. Copies'
    BY <1>3, <1>8 DEF Revalidate
  <2>3. CopiesAreCurrent'
    <3> SUFFICES ASSUME pc' = "answered"
                 PROVE  copies[want].body = Says(want.kind, version, status, ContentOf(want.kind, version))
      BY <1>8 DEF Revalidate, CopiesAreCurrent
    <3>1. /\ pc = "tag"
          /\ Conditional(want.kind) /\ copies[want].tag = Etag(want.kind, version, status)
      BY <1>8 DEF Revalidate
    <3>2. copies[want] = NoCopy \/ Genuine(want, copies[want])
      BY DEF Copies
    <3> QED
      BY <3>1, <3>2, SameTagSameBody
  <2> QED
    BY <2>1, <2>2, <2>3
<1>9. CASE ReadContent
  <2>1. ContentOf(want.kind, version) \in Nat
    BY <1>9, ContentOfType DEF ReadContent
  <2> QED
    BY <1>1, <1>3, <1>9, <2>1 DEF ReadContent, CopiesAreCurrent
<1>10. CASE Reply
  <2> DEFINE tag == IF Conditional(want.kind) THEN Etag(want.kind, version, status) ELSE NoTag
             body == Says(want.kind, version, status, content)
             new == [tag |-> tag, body |-> body]
  <2>1. pc = "reply" /\ version \in Versions
    BY <1>10 DEF Reply
  <2>2. copies' = [copies EXCEPT ![want] = new]
    BY <1>10 DEF Reply
  <2>3. body = Says(want.kind, version, status, ContentOf(want.kind, version))
    BY <2>1 DEF Says
  <2>4. new \in Copy
    <3>1. tag \in Tag
      BY <2>1, EtagType DEF NoTag, Tag, Statuses, None
    <3>2. body \in Body
      BY <2>1, SaysType
    <3> QED
      BY <3>1, <3>2 DEF Copy
  <2>5. Genuine(want, new)
    BY <2>1, <2>3 DEF Genuine
  <2> HIDE DEF new, body, tag
  <2>6. Copies'
    BY <2>2, <2>4, <2>5 DEF Copies, Genuine
  <2>7. copies'[want] = new
    BY <2>2 DEF Copies
  <2>8. Handling'
    BY <1>1, <1>10 DEF Reply
  <2>9. CopiesAreCurrent'
    BY <1>10, <2>3, <2>7 DEF Reply, CopiesAreCurrent, new
  <2> QED
    BY <2>6, <2>8, <2>9
<1>11. CASE Leave
  BY <1>1, <1>3, <1>11 DEF Leave, Forget, CopiesAreCurrent, Statuses, None
<1>12. ASSUME NEW v \in Versions, Publish(v) \/ Deprecate(v) PROVE Inv'
  BY <1>1, <1>3, <1>12 DEF Publish, Deprecate, CopiesAreCurrent, Statuses
<1> QED
  BY <1>4, <1>6, <1>7, <1>8, <1>9, <1>10, <1>11, <1>12 DEF Serve

\* After every answer, in full or "not modified", a client's copy says what
\* the catalogue says of the version that answered (server.go:213-241,
\* mcp.go:360-377, tools.go:81-104).
THEOREM AlwaysCurrent ==
  ASSUME NoneRepacked
  PROVE  Spec => []CopiesAreCurrent
<1>1. Inv /\ [Next]_vars => Inv'
  <2>1. Inv /\ UNCHANGED vars => Inv'
    BY DEF Inv, vars, readVars, mcpVars, Handling, Copies, CopiesAreCurrent
  <2> QED
    BY <2>1, NegotiateStep, ServeStep, NoneRepacked DEF Next
<1>2. Inv => CopiesAreCurrent
  BY DEF Inv
<1> QED
  BY <1>1, <1>2, InvInit, PTL DEF Spec

-----------------------------------------------------------------------------
(* Types.  A handler that looks a row up has resolved `latest`, so that    *)
(* whatever it answers with is a version that was published.               *)

Typed == TypeOK /\ (pc = "row" => version \in Versions)

LEMMA MaxRank ==
  ASSUME NEW S \in SUBSET Ranks, S # {}
  PROVE  Max(S) \in S
<1>1. \A x \in S : x \in 1..6
  BY DEF Ranks, Modern
<1>2. \E x \in S : \A y \in S : x >= y
  <2> DEFINE Top(n) == n \in S /\ \A m \in 1..6 : m > n => m \notin S
  <2>1. ASSUME NEW n \in 1..6, Top(n) PROVE \A y \in S : n >= y
    BY <1>1, <2>1
  <2>2. Top(6) \/ Top(5) \/ Top(4) \/ Top(3) \/ Top(2) \/ Top(1)
    BY <1>1
  <2> QED
    BY <2>1, <2>2
<1> QED
  BY <1>2 DEF Max

LEMMA TypedInit == Init => Typed
<1> SUFFICES ASSUME Init PROVE Typed
  OBVIOUS
<1>1. NoCopy \in Copy
  BY DEF NoCopy, Copy, NoTag, NoBody, Tag, Body, Statuses, None
<1>2. want \in Resources
  BY ReadsAssumption DEF Init, McpInit
<1>3. McpTypeOK
  BY DEF Init, McpInit, McpTypeOK, Sessions, NoVersion
<1> QED
  BY <1>1, <1>2, <1>3 DEF Init, Typed, TypeOK, Copy, Statuses, None

\* Every version that the endpoint names in an answer is one it serves.
Known == Legacy \cup {Modern}

LEMMA AnsweredVersions ==
  ASSUME NEW q
  PROVE  ServeHTTP(q).versions \subseteq Known
<1>1. \A asked : Settles(asked) \in Known
  BY DEF Settles, Legacy, Newest, Known
<1>2. Supported \subseteq Known /\ {Modern} \subseteq Known
  BY DEF Supported, Known
<1>3. Dispatch(q).versions \subseteq Known
  BY <1>1, <1>2 DEF Dispatch
<1> DEFINE refused == SelectSeq(Refusals(q), LAMBDA r : r.when)
<1>4. ServeHTTP(q) \in {[code |-> refused[1].code, versions |-> Supported],
                       [code |-> refused[1].code, versions |-> {}],
                       [code |-> "accepted", versions |-> {}], Dispatch(q)}
  <2> HIDE DEF refused
  <2>1. ServeHTTP(q) =
          IF refused # <<>>
          THEN [code |-> refused[1].code,
                versions |-> IF refused[1].code = "unsupported" THEN Supported ELSE {}]
          ELSE IF q.id = "absent" THEN [code |-> "accepted", versions |-> {}]
          ELSE Dispatch(q)
    BY DEF ServeHTTP, refused
  <2> QED
    BY <2>1
<1> HIDE DEF refused
<1> QED
  BY <1>2, <1>3, <1>4

LEMMA NegotiateTypes == McpTypeOK /\ Negotiate => McpTypeOK'
<1> SUFFICES ASSUME McpTypeOK, Negotiate PROVE McpTypeOK'
  OBVIOUS
<1> USE DEF McpTypeOK, Sessions
<1>1. client.speaks \in SUBSET Ranks
  BY McpAssumption
<1>2. ASSUME NEW s \in Sessions, NEW v \in Ranks, TurnTo(s, v) PROVE McpTypeOK'
  BY <1>2 DEF TurnTo
<1>3. ASSUME NEW s \in Sessions, NEW v \in Known, Agree(s, v) PROVE McpTypeOK'
  BY <1>3 DEF Agree, Known
<1>4. ASSUME GiveUp PROVE McpTypeOK'
  BY <1>4 DEF GiveUp
<1>5. CASE Connect
  <2>1. client.opens \in Sessions /\ client.speaks # {}
    BY <1>5, McpAssumption DEF Connect
  <2>2. Max(client.speaks) \in Ranks
    BY <1>1, <2>1, MaxRank
  <2> QED
    BY <1>2, <1>5, <2>1, <2>2 DEF Connect
<1>6. CASE Discover
  <2>1. ASSUME TurnToHandshake PROVE McpTypeOK'
    <3>1. CASE Handshakes = {}
      BY <1>4, <2>1, <3>1 DEF TurnToHandshake
    <3>2. CASE Handshakes # {}
      <4>1. Handshakes \in SUBSET Ranks
        BY <1>1 DEF Handshakes
      <4>2. Max(Handshakes) \in Ranks
        BY <3>2, <4>1, MaxRank
      <4> QED
        BY <1>2, <2>1, <3>2, <4>2 DEF TurnToHandshake
    <3> QED
      BY <3>1, <3>2
  <2>2. ASSUME NEW common \in SUBSET client.speaks, common # {}, NEW s \in Sessions,
               TurnTo(s, Max(common))
        PROVE  McpTypeOK'
    <3>1. Max(common) \in Ranks
      BY <1>1, <2>2, MaxRank
    <3> QED
      BY <1>2, <2>2, <3>1
  <2> DEFINE answer == ServeHTTP(Sent(InEraOf("server/discover", offer)))
             common == answer.versions \cap client.speaks
  <2>3. \/ offer \in common /\ Agree("ready", offer)
        \/ GiveUp
        \/ common # {} /\ \E s \in {"discover", "initialize"} : TurnTo(s, Max(common))
        \/ TurnToHandshake
    <3> HIDE DEF answer
    <3> QED
      BY <1>6 DEF Discover, answer
  <2>4. common \subseteq Known
    BY AnsweredVersions
  <2> HIDE DEF answer
  <2> QED
    BY <1>3, <1>4, <2>1, <2>2, <2>3, <2>4
<1>7. CASE Initialize
  <2>1. PICK header \in {NoVersion, offer} :
          LET answer == ServeHTTP(Sent([Request("initialize", NoVersion, header) EXCEPT !.asks = offer]))
              common == answer.versions \cap client.speaks
          IN IF answer.code = "ok" /\ common # {} THEN Agree("initialized", Max(common)) ELSE GiveUp
    BY <1>7 DEF Initialize
  <2> DEFINE answer == ServeHTTP(Sent([Request("initialize", NoVersion, header) EXCEPT !.asks = offer]))
             common == answer.versions \cap client.speaks
  <2>4. common \subseteq Known
    BY AnsweredVersions
  <2> HIDE DEF answer
  <2>2. GiveUp \/ (common # {} /\ Agree("initialized", Max(common)))
    BY <2>1 DEF answer
  <2>3. common # {} => Max(common) \in Known
    BY <1>1, <2>4, MaxRank
  <2> QED
    BY <1>3, <1>4, <2>2, <2>3
<1>8. CASE Initialized
  BY <1>8, <1>4 DEF Initialized
<1> QED
  BY <1>5, <1>6, <1>7, <1>8 DEF Negotiate

LEMMA ServeTypes == Typed /\ Serve /\ UNCHANGED mcpVars => Typed'
<1> SUFFICES ASSUME Typed, Serve, UNCHANGED mcpVars PROVE Typed'
  OBVIOUS
<1> USE DEF Typed, TypeOK
<1>1. McpTypeOK'
  BY DEF mcpVars, McpTypeOK
<1>2. \A r \in client.asks : r \in Resources /\ r.path \in Versions \cup {None}
  BY ReadsAssumption DEF Resource, McpTypeOK
<1>3. ASSUME NEW r \in client.asks, Ask(r) PROVE Typed'
  BY <1>1, <1>2, <1>3 DEF Ask
<1>4. ASSUME NotFound PROVE Typed'
  BY <1>1, <1>4 DEF NotFound, Forget, Statuses, None
<1>5. CASE Resolve
  <2>1. Published # {} => Best(Published) \in Versions
    BY OneIsBest DEF Published
  <2> QED
    BY <1>1, <1>4, <1>5, <2>1 DEF Resolve
<1>6. CASE ReadRow
  BY <1>1, <1>4, <1>6, ReadsAssumption DEF ReadRow
<1>7. CASE Revalidate
  BY <1>1, <1>7 DEF Revalidate
<1>8. CASE ReadContent
  <2>1. ContentOf(want.kind, version) \in Nat
    BY <1>8, ContentOfType DEF ReadContent
  <2> QED
    BY <1>1, <1>8, <2>1 DEF ReadContent
<1>9. CASE Reply
  <2> DEFINE tag == IF Conditional(want.kind) THEN Etag(want.kind, version, status) ELSE NoTag
             body == Says(want.kind, version, status, content)
             new == [tag |-> tag, body |-> body]
  <2>1. version \in Versions
    BY <1>9 DEF Reply
  <2>2. tag \in Tag
    BY <2>1, EtagType DEF NoTag, Tag, Statuses, None
  <2>3. body \in Body
    BY <2>1, SaysType
  <2>4. copies' = [copies EXCEPT ![want] = new]
    BY <1>9 DEF Reply
  <2>5. new \in [tag : Tag, body : Body]
    BY <2>2, <2>3
  <2> HIDE DEF new
  <2>6. copies' \in [Resources -> [tag : Tag, body : Body]]
    BY <2>4, <2>5
  <2> QED
    BY <1>1, <1>9, <2>6 DEF Reply
<1>10. CASE Leave
  BY <1>1, <1>10 DEF Leave, Forget, Statuses, None
<1>11. ASSUME NEW v \in Versions, Publish(v) \/ Deprecate(v) PROVE Typed'
  BY <1>1, <1>11 DEF Publish, Deprecate, Statuses
<1> QED
  BY <1>3, <1>5, <1>6, <1>7, <1>8, <1>9, <1>10, <1>11 DEF Serve

\* Whatever a client opens with and an intermediary makes of its requests, a
\* version that it agrees on is one that the server serves, and an answer is
\* of a version that was published (mcp.go:285-305, server.go:213-241).
THEOREM TypeCorrect == Spec => []TypeOK
<1>1. Typed /\ [Next]_vars => Typed'
  <2>1. Typed /\ Negotiate /\ UNCHANGED readVars => Typed'
    BY NegotiateTypes DEF Typed, TypeOK, readVars
  <2>2. Typed /\ UNCHANGED vars => Typed'
    BY DEF Typed, TypeOK, vars, readVars, mcpVars, McpTypeOK
  <2> QED
    BY <2>1, <2>2, ServeTypes DEF Next
<1>2. Typed => TypeOK
  BY DEF Typed
<1> QED
  BY <1>1, <1>2, TypedInit, PTL DEF Spec
=============================================================================
