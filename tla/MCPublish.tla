------------------------------ MODULE MCPublish ------------------------------
(***************************************************************************)
(* Every rule list of up to three of five rules that overlap in subject,   *)
(* glob and version range, against requests that tell them apart; every    *)
(* kind of token under every kind of authentication; and every archive of  *)
(* up to three entries, and of four plain ones, and every folder of up to  *)
(* five files that a caller who may publish uploads.                       *)
(***************************************************************************)
EXTENDS Publish

CONSTANTS md, other, empty, one, two, big   \* contents

Nobody == [any |-> FALSE, users |-> {}, teams |-> {}, roles |-> {}, agents |-> {}]
Anyone == [Nobody EXCEPT !.any = TRUE]
Everywhere == [namespaces |-> {"pay", "web", "*"}, names |-> {"pci", "ui", "*"},
               constraints |-> {}]
Rule(id, effect, subject, actions, resource) ==
  [id |-> id, effect |-> effect, subject |-> subject, actions |-> actions,
   resource |-> resource]
InPay == [Everywhere EXCEPT !.namespaces = {"pay"}]

Ops == Rule("ops", "allow", [Nobody EXCEPT !.users = {"ann"}, !.roles = {"admin"}],
            {"admin", "fetch", "publish"}, Everywhere)
PayRule == Rule("pay-team", "allow", [Nobody EXCEPT !.teams = {"pay"}], {"publish"}, InPay)
Overlapping == {
  Rule("all-fetch", "allow", Anyone, {"fetch"}, Everywhere),
  Rule("pay-team", "allow", [Nobody EXCEPT !.teams = {"pay"}],
       {"fetch", "publish", "deprecate"}, InPay),
  Rule("no-bots", "deny", [Nobody EXCEPT !.agents = {"bot"}], {"fetch", "publish"}, InPay),
  Rule("no-old", "deny", Anyone, {"fetch"},
       [Everywhere EXCEPT !.constraints = {[op |-> "<", ver |-> 3], [op |-> ">=", ver |-> 1]}]),
  Ops }
RuleLists == {rs \in UNION {[1..n -> Overlapping] : n \in 0..3} :
                \A i, j \in DOMAIN rs : rs[i].id = rs[j].id => i = j}
PayOnly == <<PayRule>>
MCRules == Overlapping \cup {PayRule}
MCPolicies == RuleLists \cup {PayOnly}

Ann == [user |-> "ann", teams |-> {"pay"}, roles |-> {"admin"}, agent |-> "claude"]
AnnsBot == [user |-> "ann", teams |-> {}, roles |-> {}, agent |-> "bot"]
BobsBot == [user |-> "bob", teams |-> {"pay", "web"}, roles |-> {"admin"}, agent |-> "bot"]
Stranger == [user |-> "none", teams |-> {}, roles |-> {}, agent |-> ""]
Things == {[namespace |-> "pay", name |-> "pci", version |-> v] : v \in {NoVersion, 2, 3}}
          \cup {[namespace |-> "web", name |-> "ui", version |-> 2],
                [namespace |-> "*", name |-> "*", version |-> NoVersion]}
MCQueries == [who: {Ann, AnnsBot, BobsBot, Stranger}, action: Actions, resource: Things]

-----------------------------------------------------------------------------
MCContents == {md, other, empty, one, two, big}
MCSize == [c \in MCContents |-> CASE c = empty -> 0 [] c = two -> 2 [] c = big -> 3 [] OTHER -> 1]
Doc(name) == [opens |-> TRUE, closes |-> TRUE, yaml |-> "colon", name |-> name,
              description |-> 2]
MCDocument == [c \in MCContents |->
  CASE c = md    -> Doc("pci")
    [] c = other -> Doc("ui")
    [] c = one   -> [Doc("pci") EXCEPT !.description = 3]
    [] c = two   -> [Doc("pci") EXCEPT !.closes = FALSE]
    [] c = big   -> [Doc("pci") EXCEPT !.yaml = "broken"]
    [] c = empty -> [Doc("pci") EXCEPT !.opens = FALSE]]
MCLimits == [files |-> 3, file |-> 2, total |-> 3]

Reg(name, c) == [type |-> "reg", name |-> name, data |-> c]
Entry(t, name) == [type |-> t, name |-> name, data |-> empty]
Plain == {Reg(SkillFile, md), Reg(<<"a">>, one), Reg(<<"a", "b">>, empty),
          Reg(<<"b">>, two), Reg(<<"c">>, empty), Entry("dir", <<"a", "">>)}
Strange == {Reg(SkillFile, c) : c \in {other, one, two}} \cup
  {Reg(<<".", "SKILL.md">>, md), Reg(<<"..", "a">>, one), Reg(<<"", "a">>, one),
   Reg(<<"c:">>, one), Reg(<<"b">>, big),
   Entry("dir", <<".", "">>), Entry("dir", <<"..", "">>),
   Entry("other", <<"a">>), Entry("global", <<"a">>), Entry("broken", <<"a">>)}
InFolder(kind, path, c) == [kind |-> kind, path |-> path, data |-> c]
FolderEntries ==
  {InFolder("file", SkillFile, c) : c \in {md, other, one}} \cup
  {InFolder("file", <<"b">>, c) : c \in {two, big}} \cup
  {InFolder("file", <<"c">>, empty), InFolder("file", <<"d", "e">>, empty),
   InFolder("file", <<"c:">>, one), InFolder("file", <<"d", ".x">>, one),
   InFolder("link", <<"l">>, empty), InFolder("link", <<".x", "l">>, empty)}
Folders == {fs \in UNION {kSubset(n, FolderEntries) : n \in 1..5} :
              \A e, f \in fs : e.path = f.path => e = f}

Claim(kind, value) == [kind |-> kind, value |-> value]
Jwt(verified, sub, groups, roles) ==
  [verified |-> verified, sub |-> sub, groups |-> groups, roles |-> roles,
   agent |-> Claim("absent", {})]
Jwts == {Jwt(v, s, g, r) :
  v \in BOOLEAN, s \in {Claim("string", "ann"), Claim("list", {"ann"}), Claim("string", "")},
  g \in {Claim("string", "/pay"), Claim("list", {"/pay", NotAString}), Claim("absent", {})},
  r \in {Claim("string", "admin"), Claim("list", {"user"})}}
MCTrimmed == [s \in {"pay", "/pay", "admin", "user"} |-> IF s = "/pay" THEN "pay" ELSE s]

Table == [t \in {"t-ann", "t-bot", "t-bob"} |->
  CASE t = "t-ann" -> Ann [] t = "t-bot" -> AnnsBot [] OTHER -> BobsBot]
Setup(mode, insecure) ==
  [mode |-> mode, insecure |-> insecure, table |-> Table, none |-> [Ann EXCEPT !.user = ""]]

Pci == [namespace |-> "pay", name |-> "pci", version |-> 2]
Tiny == <<Reg(SkillFile, md)>>
Request(token, action, resource) ==
  [bearer |-> TRUE, token |-> token, action |-> action, resource |-> resource,
   named |-> TRUE, size |-> 1, packs |-> FALSE, folder |-> {},
   archive |-> Tiny, digest |-> NoDigest]
Broken == <<Ops, Ops>>
Uploads(n, entries) ==
  {<<Setup("static", FALSE), PayOnly, [Request("t-ann", "publish", Pci) EXCEPT !.archive = a]>> :
     a \in [1..n -> entries]}

\* An archive is compressed well or not at all.
CompressedSizes(f) == LET a == Encode(Packed(f)) IN {1, Held(a, Len(a))}
Packing == UNION {
  {[Request("t-ann", "publish", Pci) EXCEPT !.packs = TRUE, !.folder = f, !.size = n] :
     n \in CompressedSizes(f)} : f \in Folders}

MCCases == <<
  {<<Setup("static", FALSE), rs, Request(t, a, r)>> :
     rs \in RuleLists, t \in DOMAIN Table, a \in Actions, r \in Things},
  {<<Setup("static", FALSE), PayOnly, q>> : q \in Packing},
  {<<Setup("oidc", FALSE), rs, Request(t, "publish", Pci)>> :
     rs \in {PayOnly, <<Ops>>, Broken}, t \in Jwts},
  {<<Setup(m, i), PayOnly,
     [Request(t, "publish", Pci) EXCEPT !.bearer = b, !.size = n, !.named = w]>> :
     m \in {"none", "static"}, i \in BOOLEAN, t \in {NoToken, "t-ann", "unknown"},
     b \in BOOLEAN, n \in {1, 2, 3}, w \in BOOLEAN},
  Uploads(0, Plain), Uploads(1, Plain \cup Strange), Uploads(2, Plain \cup Strange),
  Uploads(3, Plain \cup Strange), Uploads(4, Plain) >>
=============================================================================
