---------------------------------- MODULE Mcp ----------------------------------
(***************************************************************************)
(* The eras of the MCP endpoint (internal/mcp/mcp.go) and a client that    *)
(* settles on one of them.  A modern request carries its protocol version  *)
(* in _meta and in a header; a legacy client shakes hands with initialize. *)
(* The endpoint keeps no state: it answers each request by its form.       *)
(* Versions are ranks: 1 is older than all that are served, 2 to Newest    *)
(* are served after initialize, Modern is the stateless one.               *)
(***************************************************************************)
EXTENDS Naturals, Sequences, FiniteSetsExt, TLC

CONSTANTS
  Clients      \* [speaks, opens, alters, asks]: the versions a client speaks, the
               \* method it opens with, what an intermediary sets in its
               \* requests, and what it reads once it is served

NoVersion == 0
Newest == 4
Modern == 5
Legacy == 2..Newest          \* legacyVersions
WithHeader == 3              \* from here on clients send MCP-Protocol-Version
Ranks == 1..Modern + 1

ASSUME McpAssumption ==
  \A c \in Clients :
    /\ c.speaks \in SUBSET Ranks
    /\ c.opens \in {"rest", "discover", "initialize"}
    /\ c.opens # "rest" => c.speaks # {}

VARIABLES
  client,
  session,     \* how far the client has come
  offer,       \* the version it offers
  agreed       \* the version it has settled on

mcpVars == <<client, session, offer, agreed>>

Sessions == {"new", "discover", "initialize", "initialized", "ready", "gaveUp"}

McpTypeOK ==
  /\ client \in Clients
  /\ session \in Sessions
  /\ offer \in Ranks \cup {NoVersion}
  /\ agreed \in Legacy \cup {Modern, NoVersion}

McpInit ==
  /\ client \in Clients
  /\ session = "new"
  /\ offer = NoVersion /\ agreed = NoVersion

-----------------------------------------------------------------------------
(* The endpoint.                                                           *)

Methods == {"server/discover", "initialize", "notifications/initialized",
            "resources/read", "tools/call"}

\* A request, with what its headers say beside its body.
Request(method, meta, header) ==
  [verb |-> "POST", origin |-> "none", form |-> "object", rpc |-> TRUE,
   id |-> IF method = "notifications/initialized" THEN "absent" ELSE "some",
   method |-> method, methodHeader |-> "absent",
   meta |-> meta, header |-> header, capabilities |-> meta # NoVersion,
   nameHeader |-> "absent", asks |-> NoVersion]

IsModern(q) == q.meta # NoVersion

\* The requests with a name, or an address, that a header repeats.
HasName(q) == q.method \in {"resources/read", "tools/call"}

\* Mutant: a handshake is held to its header.
OutsideHandshakeToo(q) == ~IsModern(q)

\* A handshake may carry any version in its header.
OutsideHandshake(q) == ~IsModern(q) /\ q.method # "initialize"

\* The refusals of ServeHTTP, in their order.
Refusals(q) == <<
  [code |-> "method_not_allowed", when |-> q.verb # "POST"],
  [code |-> "origin_not_allowed", when |-> q.origin = "foreign"],
  [code |-> "batch",              when |-> q.form = "batch"],
  [code |-> "parse",              when |-> q.form = "garbage"],
  [code |-> "invalid_request",    when |-> ~q.rpc],
  [code |-> "invalid_request",    when |-> q.id = "null"],
  [code |-> "header_mismatch",    when |-> q.methodHeader = "differs"],
  [code |-> "unsupported",        when |-> IsModern(q) /\ q.meta # Modern],
  [code |-> "header_mismatch",    when |-> IsModern(q) /\ q.header # q.meta],
  [code |-> "invalid_params",     when |-> IsModern(q) /\ ~q.capabilities],
  [code |-> "header_mismatch",    when |-> IsModern(q) /\ HasName(q) /\ q.nameHeader = "differs"],
  [code |-> "invalid_params",     when |-> OutsideHandshake(q) /\ q.header = Modern],
  [code |-> "unsupported",        when |-> /\ OutsideHandshake(q)
                                           /\ q.header \notin Legacy \cup {NoVersion}] >>

\* Mutant: a refused version is told of the modern one only.
SupportedByModern == {Modern}

\* What a refused version is told.
Supported == {Modern} \cup Legacy

\* Mutant: initialize settles on whatever it is asked for.
SettlesOnAny(asked) == asked

\* initialize: the version asked for, or the newest that has a handshake.
Settles(asked) == IF asked \in Legacy THEN asked ELSE Newest

\* dispatch: what a method answers; Reads has what the calls read.
Dispatch(q) ==
  CASE q.method = "server/discover" -> [code |-> "ok", versions |-> {Modern}]
    [] q.method = "initialize"      -> [code |-> "ok", versions |-> {Settles(q.asks)}]
    [] q.method \in {"resources/read", "tools/call"} -> [code |-> "ok", versions |-> {}]
    [] OTHER -> [code |-> "method_not_found", versions |-> {}]

\* A notification is accepted and ignored.
ServeHTTP(q) ==
  LET refused == SelectSeq(Refusals(q), LAMBDA r : r.when)
      code    == refused[1].code
  IN IF refused # <<>>
     THEN [code |-> code, versions |-> IF code = "unsupported" THEN Supported ELSE {}]
     ELSE IF q.id = "absent" THEN [code |-> "accepted", versions |-> {}]
     ELSE Dispatch(q)

-----------------------------------------------------------------------------
(* The client.  One that opens with "rest" is none of MCP.                 *)

\* What arrives of a request: an intermediary sets some of its fields.
Sent(q) == client.alters @@ q

\* A request of the era of v, whose headers repeat what its body says.
InEraOf(method, v) ==
  IF v >= Modern
  THEN [Request(method, v, v) EXCEPT !.methodHeader = "same", !.nameHeader = "same"]
  ELSE Request(method, NoVersion, IF v >= WithHeader THEN v ELSE NoVersion)

Handshakes == {v \in client.speaks : v < Modern}

TurnTo(s, v) == session' = s /\ offer' = v /\ UNCHANGED <<client, agreed>>
GiveUp == session' = "gaveUp" /\ UNCHANGED <<client, offer, agreed>>
TurnToHandshake == IF Handshakes = {} THEN GiveUp ELSE TurnTo("initialize", Max(Handshakes))
Agree(s, v) == session' = s /\ agreed' = v /\ UNCHANGED <<client, offer>>

\* A client opens with server/discover, or with initialize whatever it speaks.
Connect ==
  /\ session = "new" /\ client.opens # "rest"
  /\ TurnTo(client.opens, Max(client.speaks))

\* It takes the best version that both speak; any other answer than those of
\* a modern server makes it shake hands.
Discover ==
  LET answer == ServeHTTP(Sent(InEraOf("server/discover", offer)))
      common == answer.versions \cap client.speaks
  IN
  /\ session = "discover"
  /\ CASE answer.code = "ok" /\ offer \in common -> Agree("ready", offer)
       [] answer.code = "unsupported" ->
            IF common = {} THEN GiveUp
            ELSE TurnTo(IF Max(common) >= Modern THEN "discover" ELSE "initialize", Max(common))
       [] OTHER -> TurnToHandshake

\* A client that does not speak the version it is answered disconnects; it may
\* send the header already, with the version it asks for.
Initialize ==
  /\ session = "initialize"
  /\ \E header \in {NoVersion, offer} :
       LET answer == ServeHTTP(Sent([Request("initialize", NoVersion, header) EXCEPT !.asks = offer]))
           common == answer.versions \cap client.speaks
       IN IF answer.code = "ok" /\ common # {} THEN Agree("initialized", Max(common)) ELSE GiveUp

Initialized ==
  /\ session = "initialized"
  /\ IF ServeHTTP(Sent(InEraOf("notifications/initialized", agreed))).code = "accepted"
     THEN session' = "ready" /\ UNCHANGED <<client, offer, agreed>>
     ELSE GiveUp

Negotiate == Connect \/ Discover \/ Initialize \/ Initialized

\* A call of the era that was agreed on.
CallAnswered(method) ==
  session = "ready" /\ ServeHTTP(Sent(InEraOf(method, agreed))).code = "ok"

-----------------------------------------------------------------------------
\* The clients that the endpoint can serve: their requests arrive whole, but
\* for a header that is lost, and there is a version in common, which is the
\* best one of a client that opens with initialize or the newest one served.
CanBeServed(c) ==
  /\ c.alters \in {<<>>, [header |-> NoVersion]}
  /\ CASE c.opens = "discover"   -> \/ c.speaks \cap Legacy # {}
                                    \/ Modern \in c.speaks /\ c.alters = <<>>
       [] c.opens = "initialize" -> Max(c.speaks) \in Legacy \/ Newest \in c.speaks
       [] OTHER -> FALSE

\* The endpoint is dual-era (mcp.go:7-9): a client with a version in common
\* that it can be led to (CanBeServed) gets through to its calls, whatever it
\* is refused on the way, and although a proxy drops the version header; the
\* versions that a refusal names can be agreed on and are then served
\* (mcp.go:159-194, 285-305).
ClientsAreServed ==
  CanBeServed(client) ~> \A method \in {"resources/read", "tools/call"} : CallAnswered(method)
=============================================================================
