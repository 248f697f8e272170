---------------------------- MODULE PublishProofs ---------------------------
(***************************************************************************)
(* For every policy and every request, the scan of Decide ends in the      *)
(* decision that the deny-wins, default-deny rule prescribes, and names    *)
(* the rule that made it.  Then, for every policy, token, archive and      *)
(* network, what the scan guards when a bundle is published and fetched;   *)
(* what the reader of an archive accepts; and that folder, gateway and     *)
(* translated skill agree on what can be published.                        *)
(***************************************************************************)
EXTENDS Publish, FiniteSetTheorems, SequenceTheorems, TLAPS

\* What the scan knows about the rules behind it: none of them is a matching
\* deny, and allow is the first matching allow among them.
Scanned ==
  /\ \A i \in 1..(next - 1) :
       Matches(rules[i], query) =>
         rules[i].effect = "allow" /\ allow # 0 /\ allow <= i
  /\ allow # 0 => Matches(rules[allow], query) /\ rules[allow].effect = "allow"

Inv == ScanTypeOK /\ Scanned /\ DecisionIsPermission /\ NamedRuleDecided

\* Every rule of a policy is a rule.
LEMMA RuleFacts ==
  ASSUME rules \in Policies
  PROVE  /\ Len(rules) \in Nat
         /\ DOMAIN rules = 1..Len(rules)
         /\ \A i \in 1..Len(rules) :
              /\ rules[i] \in Rules
              /\ rules[i].effect \in {"allow", "deny"}
              /\ rules[i].id # NoRule
<1>1. rules \in Seq(Rules)
  BY PolicyAssumption
<1> QED
  BY <1>1, PolicyAssumption

LEMMA ScanInit == Init => Inv
<1> SUFFICES ASSUME Init PROVE Inv
  OBVIOUS
<1>1. Len(rules) \in Nat
  BY RuleFacts DEF Init
<1> QED
  BY <1>1 DEF Init, Inv, ScanTypeOK, Scanned, DecisionIsPermission, NamedRuleDecided, Undecided

\* A scan that moves on past rule `next` keeps what it knows.
LEMMA ScanMoves ==
  ASSUME Inv, Skip \/ Allow
  PROVE  Inv'
<1> USE DEF Looking, Undecided
<1>1. /\ next \in 1..Len(rules) /\ next' = next + 1 /\ ~decision.done
      /\ rules \in Policies /\ UNCHANGED <<rules, query, decision>>
  BY RuleFacts DEF Inv, ScanTypeOK, Skip, Allow
<1>2. Len(rules) \in Nat /\ rules[next].effect \in {"allow", "deny"}
  BY <1>1, RuleFacts
<1>3. ScanTypeOK'
  BY <1>1, <1>2 DEF Inv, ScanTypeOK, Skip, Allow
<1>4. Scanned'
  <2>1. CASE Skip
    <3>1. \A i \in 1..(next' - 1) : i \in 1..(next - 1) \/ i = next
      BY <1>1
    <3> QED
      BY <2>1, <1>1, <3>1 DEF Inv, Scanned, Skip
  <2>2. CASE Allow
    <3>1. \A i \in 1..(next' - 1) : i \in 1..(next - 1) \/ i = next
      BY <1>1
    <3>2. /\ allow' = IF allow = 0 THEN next ELSE allow
          /\ Matches(rules[next], query) /\ rules[next].effect = "allow"
      BY <2>2, <1>2 DEF Allow
    <3>3. allow \in 0..(next - 1)
      BY DEF Inv, ScanTypeOK
    <3> QED
      BY <1>1, <3>1, <3>2, <3>3 DEF Inv, Scanned
  <2> QED
    BY <2>1, <2>2
<1>5. DecisionIsPermission' /\ NamedRuleDecided'
  BY <1>1 DEF DecisionIsPermission, NamedRuleDecided
<1> QED
  BY <1>3, <1>4, <1>5 DEF Inv

\* A matching deny decides, whatever comes behind it.
LEMMA DenyDecides ==
  ASSUME Inv, Deny
  PROVE  Inv'
<1>1. /\ next \in 1..Len(rules) /\ Matches(rules[next], query)
      /\ rules[next].effect = "deny" /\ rules \in Policies
      /\ UNCHANGED <<rules, query, next, allow>>
      /\ decision' = [done |-> TRUE, allow |-> FALSE, rule |-> rules[next].id]
  BY RuleFacts DEF Inv, ScanTypeOK, Deny, Looking, Decided
<1>2. /\ DOMAIN rules = 1..Len(rules) /\ Len(rules) \in Nat
      /\ rules[next] \in Rules /\ rules[next].id # NoRule
  BY <1>1, RuleFacts
<1>3. ScanTypeOK' /\ Scanned'
  BY <1>1, <1>2 DEF Inv, ScanTypeOK, Scanned
<1>4. DecisionIsPermission'
  BY <1>1, <1>2 DEF DecisionIsPermission, Permits
<1>5. NamedRuleDecided'
  <2>1. Deciding(next)'
    BY <1>1 DEF Deciding
  <2>2. \A j \in 1..(next - 1) : ~Deciding(j)'
    BY <1>1 DEF Inv, Scanned, Deciding
  <2> QED
    BY <1>1, <1>2, <2>1, <2>2 DEF NamedRuleDecided
<1> QED
  BY <1>3, <1>4, <1>5 DEF Inv

\* The end of the list decides by the first matching allow, or denies.
LEMMA FinishDecides ==
  ASSUME Inv, Finish
  PROVE  Inv'
<1>1. /\ next = Len(rules) + 1 /\ rules \in Policies
      /\ UNCHANGED <<rules, query, next, allow>>
      /\ decision' = IF allow # 0
                     THEN [done |-> TRUE, allow |-> TRUE, rule |-> rules[allow].id]
                     ELSE [done |-> TRUE, allow |-> FALSE, rule |-> NoRule]
  BY RuleFacts DEF Inv, ScanTypeOK, Finish, Decided
<1>2. /\ DOMAIN rules = 1..Len(rules) /\ Len(rules) \in Nat
      /\ allow \in 0..Len(rules)
      /\ \A i \in 1..Len(rules) : rules[i] \in Rules
  BY <1>1, RuleFacts DEF Inv, ScanTypeOK
<1>3. ScanTypeOK' /\ Scanned'
  BY <1>1, <1>2 DEF Inv, ScanTypeOK, Scanned
<1>4. \A i \in DOMAIN rules :
        Matches(rules[i], query) => rules[i].effect = "allow" /\ allow # 0 /\ allow <= i
  BY <1>1, <1>2 DEF Inv, Scanned
<1>5. allow # 0 => /\ allow \in DOMAIN rules
                   /\ Matches(rules[allow], query) /\ rules[allow].effect = "allow"
  BY <1>2 DEF Inv, Scanned
<1>6. DecisionIsPermission'
  BY <1>1, <1>4, <1>5 DEF DecisionIsPermission, Permits
<1>7. NamedRuleDecided'
  <2>1. CASE allow = 0
    BY <1>1, <1>4, <2>1 DEF NamedRuleDecided
  <2>2. CASE allow # 0
    <3>1. decision' = [done |-> TRUE, allow |-> TRUE, rule |-> rules[allow].id]
      BY <1>1, <2>2
    <3>2. Deciding(allow)'
      BY <1>1, <1>5, <2>2, <3>1 DEF Deciding
    <3>3. \A j \in 1..(allow - 1) : j \in DOMAIN rules /\ ~(allow <= j)
      BY <1>2
    <3>4. \A j \in 1..(allow - 1) : ~Deciding(j)'
      BY <1>1, <1>4, <3>1, <3>3 DEF Deciding
    <3> QED
      BY <1>1, <1>5, <2>2, <3>1, <3>2, <3>4 DEF NamedRuleDecided
  <2> QED
    BY <2>1, <2>2
<1> QED
  BY <1>3, <1>6, <1>7 DEF Inv

LEMMA ScanStep == Inv /\ [Next]_vars => Inv'
<1> SUFFICES ASSUME Inv, [Next]_vars PROVE Inv'
  OBVIOUS
<1>1. CASE Next
  BY <1>1, ScanMoves, DenyDecides, FinishDecides DEF Next
<1>2. CASE UNCHANGED vars
  BY <1>2 DEF vars, Inv, ScanTypeOK, Scanned, DecisionIsPermission, NamedRuleDecided, Deciding
<1> QED
  BY <1>1, <1>2

\* Every scan is well typed (policy.go:145-163).
THEOREM TypeCorrect == Spec => []TypeOK
<1>1. Init => TypeOK
  BY ScanInit DEF Init, TypeOK, Inv
<1>2. Inv /\ TypeOK /\ [Next]_vars => TypeOK'
  BY ScanStep DEF TypeOK, Inv, vars, Next, Skip, Deny, Allow, Finish
<1> QED
  BY ScanInit, ScanStep, <1>1, <1>2, PTL DEF Spec

\* Decide answers what the policy means: a matching deny anywhere in the file
\* denies, otherwise a matching allow permits, otherwise the request is
\* denied (policy.go:145-163).
THEOREM DecidesByThePolicy == Spec => []DecisionIsPermission
<1>1. Inv => DecisionIsPermission
  BY DEF Inv
<1> QED
  BY ScanInit, ScanStep, <1>1, PTL DEF Spec

\* The rule id that reaches the audit log is that of the first rule of the
\* winning effect that matches the request (policy.go:152-162).
THEOREM NamesTheRule == Spec => []NamedRuleDecided
<1>1. Inv => NamedRuleDecided
  BY DEF Inv
<1> QED
  BY ScanInit, ScanStep, <1>1, PTL DEF Spec

-----------------------------------------------------------------------------
(* Publishing and fetching.                                                *)

Reading == {"read", "check", "download", "verify", "fetched", "refused"}

Early == {"start", "exit", "send", "unsent", "authenticate"}

Granted ==
  /\ decision.done /\ decision.allow
  /\ Principal # NoOne /\ query.who = Principal
  /\ query.action = "publish"

\* The scan has not begun before the caller is authenticated, keeps its
\* invariant from then on, and nothing is read or created without its grant.
Guarded ==
  /\ WellFormed(rules) => rules \in Policies
  /\ phase \in Early =>
       next = 1 /\ allow = 0 /\ decision = Undecided /\ reply = "none"
  /\ phase \notin {"start", "exit"} => Inv
  /\ phase = "decide" => Principal # NoOne /\ query.who = Principal
  /\ phase \in Reading \/ reply = "created" => Granted

\* Who the caller is does not change while the request is served.
LEMMA SamePrincipal ==
  ASSUME UNCHANGED <<setup, request>>
  PROVE  Principal' = Principal
BY DEF Principal, Bearer, Listed, Fixed, Claimed, ClaimString, ClaimStrings

LEMMA GuardedInit == PublishInit => Guarded
<1> SUFFICES ASSUME PublishInit PROVE Guarded
  OBVIOUS
<1>1. WellFormed(rules) => rules \in Policies
  BY PublishAssumption DEF PublishInit
<1> QED
  BY <1>1 DEF PublishInit, Guarded, Reading, Early

\* The invariant of a scan that has not begun.
LEMMA ScanBegins ==
  ASSUME rules \in Policies, next = 1, allow = 0, decision = Undecided
  PROVE  Inv
<1>1. Len(rules) \in Nat
  BY RuleFacts
<1> QED
  BY <1>1 DEF Inv, ScanTypeOK, Scanned, DecisionIsPermission, NamedRuleDecided, Undecided

\* A step that leaves rules, query and scan alone keeps their invariant.
LEMMA ScanRests ==
  ASSUME Inv, UNCHANGED vars
  PROVE  Inv'
BY ScanStep DEF vars

LEMMA GuardedStep == Guarded /\ [PublishNext]_publishVars => Guarded'
<1> SUFFICES ASSUME Guarded, [PublishNext]_publishVars PROVE Guarded'
  OBVIOUS
<1>1. CASE Serve
  <2>1. /\ phase = "start" /\ UNCHANGED <<vars, setup, request, reply>>
        /\ phase' \in {"send", "exit"}
        /\ phase' = "send" => rules \in Policies
    BY <1>1 DEF Serve, Starts, Guarded, Early
  <2>2. WellFormed(rules)' => (rules \in Policies)'
    BY <2>1 DEF Guarded, WellFormed, vars, Early
  <2>3. phase' = "send" => Inv'
    BY <2>1, ScanBegins, ScanRests DEF Guarded, Early
  <2> QED
    BY <2>1, <2>2, <2>3 DEF Guarded, Reading, Early, vars
<1>8. CASE Send
  <2>1. /\ phase = "send" /\ UNCHANGED <<vars, setup, request, reply>>
        /\ phase' \in {"authenticate", "unsent"}
    BY <1>8 DEF Send
  <2>2. WellFormed(rules)' => (rules \in Policies)'
    BY <2>1 DEF Guarded, WellFormed, vars, Early
  <2>3. Inv'
    BY <2>1, ScanRests DEF Guarded, Early
  <2> QED
    BY <2>1, <2>2, <2>3 DEF Guarded, Reading, Early, vars
<1>2. CASE Authenticate
  <2>1. /\ phase = "authenticate" /\ UNCHANGED <<rules, next, allow, decision, setup, request>>
        /\ query'.who = Principal
        /\ \/ phase' = "answered" /\ reply' # "created"
           \/ phase' = "decide" /\ UNCHANGED reply /\ Principal # NoOne
    BY <1>2 DEF Authenticate, Answer
  <2>2. WellFormed(rules)' => (rules \in Policies)'
    BY <2>1 DEF Guarded, WellFormed, Early
  <2>3. Inv'
    <3>1. rules \in Policies /\ next = 1 /\ allow = 0 /\ decision = Undecided
      BY <2>1 DEF Guarded, Inv, ScanTypeOK, Early
    <3>2. ~decision.done /\ Len(rules) \in Nat
      BY <3>1, RuleFacts DEF Undecided
    <3> QED
      BY <2>1, <3>1, <3>2 DEF Guarded, Inv, ScanTypeOK, Scanned, DecisionIsPermission, NamedRuleDecided, Early
  <2>4. Principal' = Principal
    BY <2>1, SamePrincipal
  <2> QED
    BY <2>1, <2>2, <2>3, <2>4 DEF Guarded, Reading, Early
<1>3. CASE Decide
  <2>1. /\ phase = "decide" /\ UNCHANGED <<setup, request, phase, reply>>
        /\ Next /\ UNCHANGED <<rules, query>> /\ ~decision.done
    BY <1>3 DEF Decide, Next, Skip, Deny, Allow, Finish, Looking, requestVars
  <2>2. WellFormed(rules)' => (rules \in Policies)'
    BY <2>1 DEF Guarded, WellFormed, Early
  <2>3. Inv'
    BY <2>1, ScanStep DEF Guarded, Early
  <2>4. Principal' = Principal
    BY <2>1, SamePrincipal
  <2>5. ~Granted
    BY <2>1 DEF Granted
  <2> QED
    BY <2>1, <2>2, <2>3, <2>4, <2>5 DEF Guarded, Reading, Early
<1>4. ASSUME UNCHANGED <<vars, setup, request>>,
             phase \notin Early,
             phase' \notin Early \cup {"decide"},
             phase' \in Reading \/ reply' = "created" => Granted
      PROVE  Guarded'
  <2>1. WellFormed(rules)' => (rules \in Policies)'
    BY <1>4 DEF Guarded, WellFormed, vars, Early
  <2>2. Inv'
    BY <1>4, ScanRests DEF Guarded, Early
  <2>3. Principal' = Principal
    BY <1>4, SamePrincipal
  <2>4. Granted => Granted'
    BY <1>4, <2>3 DEF Granted, vars
  <2> QED
    BY <1>4, <2>1, <2>2, <2>4 DEF Guarded, Early
<1>5. CASE Proceed
  <2>1. UNCHANGED <<vars, setup, request>> /\ phase = "decide" /\ decision.done
    BY <1>5 DEF Proceed
  <2>2. \/ phase' = "answered" /\ reply' # "created"
        \/ phase' = "read" /\ decision.allow /\ query.action = "publish" /\ UNCHANGED reply
    BY <1>5 DEF Proceed, Answer, Begin
  <2>3. phase' \in Reading \/ reply' = "created" => Granted
    BY <2>1, <2>2 DEF Guarded, Granted, Reading, Early
  <2> QED
    BY <1>4, <2>1, <2>2, <2>3 DEF Early
<1>6. CASE ReadEntry \/ EndArchive \/ Check \/ Download \/ Verify
  <2>1. UNCHANGED <<vars, setup, request>> /\ phase \in Reading \cup {"answered"}
    BY <1>6 DEF ReadEntry, EndArchive, Check, Download, Verify, Reading
  <2>2. phase \in Reading \/ reply = "created"
    BY <1>6 DEF ReadEntry, EndArchive, Check, Download, Verify, Reading
  <2>3. phase' \in Reading \cup {"answered"}
    BY <1>6 DEF ReadEntry, EndArchive, Check, Download, Verify, Begin, Refuse, Answer, Reading
  <2>4. Granted
    BY <2>2 DEF Guarded, Early
  <2> QED
    BY <1>4, <2>1, <2>3, <2>4 DEF Reading, Early
<1>7. CASE UNCHANGED publishVars
  <2>1. UNCHANGED <<vars, setup, request, phase, reply>>
    BY <1>7 DEF publishVars, requestVars
  <2>2. WellFormed(rules)' => (rules \in Policies)'
    BY <2>1 DEF Guarded, WellFormed, vars, Early
  <2>3. phase' \notin {"start", "exit"} => Inv'
    BY <2>1, ScanRests DEF Guarded, Early
  <2>4. Principal' = Principal
    BY <2>1, SamePrincipal
  <2> QED
    BY <2>1, <2>2, <2>3, <2>4 DEF Guarded, Granted, Reading, vars, Early
<1> QED
  BY <1>1, <1>2, <1>3, <1>5, <1>6, <1>7, <1>8 DEF PublishNext

\* For every policy, kind of authentication and token, a version is created
\* only for a caller the token names and the rules permit to publish it
\* (server.go:99-113, registry.go:87-99, policy.go:145-163).
THEOREM OnlyThePermittedPublish == PublishSpec => []CreatedOnlyIfPermitted
<1>1. Guarded => CreatedOnlyIfPermitted
  <2> SUFFICES ASSUME Guarded, reply = "created"
               PROVE  Granted /\ Permits(rules, query)
    BY DEF CreatedOnlyIfPermitted, Granted
  <2>1. Granted
    BY DEF Guarded
  <2>2. phase \notin {"start", "exit"} => Inv
    BY DEF Guarded
  <2> QED
    BY <2>1, <2>2 DEF Guarded, Granted, Inv, DecisionIsPermission, Early
<1> QED
  BY GuardedInit, GuardedStep, <1>1, PTL DEF PublishSpec

\* A client holds a bundle only after its digest was compared with what the
\* publisher announced, at the server, and with what was published.
Compared ==
  /\ reply = "created" => Announced \in {NoDigest, stored.digest}
  /\ phase \in {"download", "verify", "fetched"} => reply = "created"
  /\ phase = "fetched" => Digest(files) = stored.digest

\* What the publisher announced does not change.
LEMMA SameAnnounced ==
  ASSUME UNCHANGED request
  PROVE  Announced' = Announced
BY DEF Announced

LEMMA ComparedStep == Compared /\ [PublishNext]_publishVars => Compared'
<1> SUFFICES ASSUME Compared, [PublishNext]_publishVars PROVE Compared'
  OBVIOUS
<1>1. CASE Serve \/ Send \/ Authenticate \/ Decide \/ Proceed
  <2>1. UNCHANGED <<request, stored>> /\ phase' \notin {"download", "verify", "fetched"}
    BY <1>1 DEF Serve, Send, Authenticate, Decide, Proceed, requestVars, Answer, Begin
  <2>2. reply' = reply \/ reply' # "created"
    BY <1>1 DEF Serve, Send, Authenticate, Decide, Proceed, requestVars, Answer, Begin
  <2> QED
    BY <2>1, <2>2, SameAnnounced DEF Compared
<1>2. CASE ReadEntry \/ EndArchive
  <2>1. UNCHANGED <<request, stored>> /\ phase \in {"read", "download"}
    BY <1>2 DEF ReadEntry, EndArchive
  <2>2. \/ phase' = "answered" /\ reply' = "invalid_request"
        \/ phase' \in {"read", "check", "refused"} /\ UNCHANGED reply
        \/ phase = "download" /\ phase' \in {"download", "verify"} /\ UNCHANGED reply
    BY <1>2, <2>1 DEF ReadEntry, EndArchive, Refuse, Answer
  <2> QED
    BY <2>1, <2>2, SameAnnounced DEF Compared
<1>3. CASE Check
  <2>1. UNCHANGED request /\ phase' = "answered"
    BY <1>3 DEF Check, Answer
  <2>2. reply' = "created" => Announced \in {NoDigest, stored'.digest}
    BY <1>3 DEF Check, Answer, DigestIsExpected
  <2> QED
    BY <2>1, <2>2, SameAnnounced DEF Compared
<1>4. CASE Download
  BY <1>4, SameAnnounced DEF Download, Begin, Compared
<1>5. CASE Verify
  BY <1>5, SameAnnounced DEF Verify, wireVars, Compared
<1>6. CASE UNCHANGED publishVars
  BY <1>6, SameAnnounced DEF publishVars, requestVars, wireVars, Compared
<1> QED
  BY <1>1, <1>2, <1>3, <1>4, <1>5, <1>6 DEF PublishNext

\* Whatever the network does to an archive on its way, up or down, what a
\* client takes is what the publisher announced, or at least what was
\* published (registry.go:103-105, client.go:120-136).
THEOREM TakenAsPublished == PublishSpec => []FetchedIsPublished
<1>1. PublishInit => Compared
  BY DEF PublishInit, Compared
<1>2. Compared => FetchedIsPublished
  BY DEF Compared, FetchedIsPublished
<1> QED
  BY ComparedStep, <1>1, <1>2, PTL DEF PublishSpec

-----------------------------------------------------------------------------
(* Sums.  The fold takes the elements in an order of its own; a sum over a *)
(* finite set depends neither on it nor on the names of the elements.      *)

\* Any element, as the fold takes them.
Foremost(s) == CHOOSE x \in s : TRUE

\* What the fold computes: sums of all the subsets.
Sums(f, A, h) ==
  h = [s \in SUBSET A |-> IF s = {} THEN 0 ELSE f[Foremost(s)] + h[s \ {Foremost(s)}]]

LEMMA SumOverIs == ASSUME NEW f, NEW A PROVE SumOver(f, A) = (CHOOSE h : Sums(f, A, h))[A]
BY DEF SumOver, MapThenSumSet, MapThenFoldSet, Sums, Foremost

\* Induction over the finite subsets of a set, for a set of them instead of
\* a predicate.
LEMMA SmallestSet ==
  ASSUME NEW A, NEW T, T \subseteq FiniteSubsetsOf(A), T # {}
  PROVE  \E s \in T : \A t \in T : ~(t \subseteq s /\ t # s)
<1>1. PICK s \in T : \A t \in T : ~(<<t, s>> \in StrictSubsetOrdering(A))
  BY FS_StrictSubsetOrderingWellFounded, WFMin
<1>2. ASSUME NEW t \in T, t \subseteq s, t # s PROVE FALSE
  <2>1. <<t, s>> \in StrictSubsetOrdering(A)
    BY <1>2 DEF StrictSubsetOrdering, FiniteSubsetsOf
  <2> QED
    BY <1>1, <2>1
<1> QED
  BY <1>2

LEMMA ForemostIn == ASSUME NEW s, s # {} PROVE Foremost(s) \in s
BY DEF Foremost

LEMMA SumsAgree ==
  ASSUME NEW f, NEW g, NEW A, NEW T, NEW h, NEW k, Sums(f, A, h), Sums(g, T, k),
         NEW U, U \subseteq A, U \subseteq T, IsFiniteSet(U), \A x \in U : f[x] = g[x]
  PROVE  h[U] = k[U]
<1> SUFFICES ASSUME h[U] # k[U] PROVE FALSE
  OBVIOUS
<1> DEFINE Bad == {s \in FiniteSubsetsOf(U) : h[s] # k[s]}
<1>1. Bad \subseteq FiniteSubsetsOf(U) /\ U \in Bad
  BY DEF FiniteSubsetsOf
<1>2. PICK s \in Bad : \A t \in Bad : ~(t \subseteq s /\ t # s)
  <2> HIDE DEF Bad
  <2> QED
    BY <1>1, SmallestSet
<1>3. s \subseteq U /\ s \subseteq A /\ s \subseteq T /\ IsFiniteSet(s) /\ h[s] # k[s]
  BY DEF FiniteSubsetsOf
<1>4. CASE s = {}
  BY <1>3, <1>4 DEF Sums
<1>5. CASE s # {}
  <2>1. Foremost(s) \in s
    BY <1>5, ForemostIn
  <2> DEFINE r == s \ {Foremost(s)}
  <2>2. r \subseteq s /\ r # s /\ IsFiniteSet(r)
    BY <1>3, <2>1, FS_Subset
  <2>3. h[r] = k[r]
    BY <1>2, <1>3, <2>2 DEF FiniteSubsetsOf
  <2>4. h[s] = f[Foremost(s)] + h[r]
    BY <1>3, <1>5 DEF Sums
  <2>5. k[s] = g[Foremost(s)] + k[r]
    BY <1>3, <1>5 DEF Sums
  <2> QED
    BY <1>3, <2>1, <2>3, <2>4, <2>5
<1> QED
  BY <1>4, <1>5

LEMMA SumsExist ==
  ASSUME NEW f, NEW A, IsFiniteSet(A)
  PROVE  \E h : Sums(f, A, h)
<1> SUFFICES ASSUME ~\E h : Sums(f, A, h) PROVE FALSE
  OBVIOUS
<1> DEFINE Bad == {s \in FiniteSubsetsOf(A) : ~\E h : Sums(f, s, h)}
<1>1. Bad \subseteq FiniteSubsetsOf(A) /\ A \in Bad
  BY DEF FiniteSubsetsOf
<1>2. PICK U \in Bad : \A t \in Bad : ~(t \subseteq U /\ t # U)
  <2> HIDE DEF Bad
  <2> QED
    BY <1>1, SmallestSet
<1>3. U \subseteq A /\ IsFiniteSet(U) /\ ~\E h : Sums(f, U, h)
  BY DEF FiniteSubsetsOf
<1>4. \A t : t \subseteq U /\ t # U => IsFiniteSet(t) /\ \E h : Sums(f, t, h)
  BY <1>2, <1>3, FS_Subset DEF FiniteSubsetsOf
<1> DEFINE At(s) == (CHOOSE h : Sums(f, s, h))[s]
           H == [s \in SUBSET U |->
                  IF s = {} THEN 0 ELSE f[Foremost(s)] + At(s \ {Foremost(s)})]
<1>5. ASSUME NEW s \in SUBSET U, s # {}
      PROVE  H[s \ {Foremost(s)}] = At(s \ {Foremost(s)})
  <2>1. Foremost(s) \in s
    BY <1>5, ForemostIn
  <2> DEFINE t == s \ {Foremost(s)}
  <2>2. t \in SUBSET U /\ t # U
    BY <2>1
  <2>3. PICK k : k = (CHOOSE h : Sums(f, t, h)) /\ Sums(f, t, k) /\ IsFiniteSet(t)
    BY <1>4, <2>2
  <2>4. At(t) = k[t]
    BY <2>3
  <2> HIDE DEF t
  <2>5. CASE t = {}
    <3>1. k[t] = 0 /\ H[t] = 0
      BY <2>2, <2>3, <2>5 DEF Sums
    <3> QED
      BY <2>4, <3>1 DEF t
  <2>6. CASE t # {}
    <3> DEFINE u == t \ {Foremost(t)}
    <3>1. Foremost(t) \in t /\ u \subseteq t /\ u \in SUBSET U /\ u # U
      BY <2>2, <2>6, ForemostIn
    <3>2. k[t] = f[Foremost(t)] + k[u]
      BY <2>3, <2>6 DEF Sums
    <3>3. H[t] = f[Foremost(t)] + At(u)
      BY <2>2, <2>6
    <3>4. PICK j : j = (CHOOSE h : Sums(f, u, h)) /\ Sums(f, u, j) /\ IsFiniteSet(u)
      BY <1>4, <3>1
    <3>5. k[u] = j[u]
      <4> HIDE DEF u
      <4> QED
        BY <2>3, <3>1, <3>4, SumsAgree
    <3> QED
      BY <2>4, <3>2, <3>3, <3>4, <3>5 DEF t
  <2> QED
    BY <2>5, <2>6
<1>6. Sums(f, U, H)
  <2> HIDE DEF H
  <2>1. H = [s \in SUBSET U |-> IF s = {} THEN 0 ELSE f[Foremost(s)] + At(s \ {Foremost(s)})]
    BY DEF H
  <2> HIDE DEF At
  <2> QED
    BY <1>5, <2>1 DEF Sums
<1> QED
  BY <1>3, <1>6

LEMMA SumUnfolds ==
  ASSUME NEW f, NEW A, IsFiniteSet(A), A # {}
  PROVE  SumOver(f, A) = f[Foremost(A)] + SumOver(f, A \ {Foremost(A)})
<1> DEFINE R == A \ {Foremost(A)}
<1>1. Foremost(A) \in A /\ R \subseteq A /\ IsFiniteSet(R)
  BY ForemostIn, FS_Subset
<1>2. PICK h : h = (CHOOSE x : Sums(f, A, x)) /\ Sums(f, A, h)
  BY SumsExist
<1>3. PICK k : k = (CHOOSE x : Sums(f, R, x)) /\ Sums(f, R, k)
  BY <1>1, SumsExist
<1>4. SumOver(f, A) = h[A] /\ SumOver(f, R) = k[R]
  BY <1>2, <1>3, SumOverIs
<1>5. h[A] = f[Foremost(A)] + h[R]
  BY <1>2 DEF Sums
<1>6. h[R] = k[R]
  <2> HIDE DEF R
  <2> QED
    BY <1>1, <1>2, <1>3, SumsAgree
<1> QED
  BY <1>4, <1>5, <1>6

LEMMA SumOfNone == ASSUME NEW f PROVE SumOver(f, {}) = 0
<1>1. PICK h : h = (CHOOSE x : Sums(f, {}, x)) /\ Sums(f, {}, h)
  BY SumsExist, FS_EmptySet
<1> QED
  BY <1>1, SumOverIs DEF Sums

LEMMA SumOfAgreeing ==
  ASSUME NEW f, NEW g, NEW A, IsFiniteSet(A), \A x \in A : f[x] = g[x]
  PROVE  SumOver(f, A) = SumOver(g, A)
<1>1. PICK h : h = (CHOOSE x : Sums(f, A, x)) /\ Sums(f, A, h)
  BY SumsExist
<1>2. PICK k : k = (CHOOSE x : Sums(g, A, x)) /\ Sums(g, A, k)
  BY SumsExist
<1>3. h[A] = k[A]
  BY <1>1, <1>2, SumsAgree
<1> QED
  BY <1>1, <1>2, <1>3, SumOverIs

LEMMA SumIsNat ==
  ASSUME NEW f, NEW A, IsFiniteSet(A), \A x \in A : f[x] \in Nat
  PROVE  SumOver(f, A) \in Nat
<1> SUFFICES ASSUME SumOver(f, A) \notin Nat PROVE FALSE
  OBVIOUS
<1> DEFINE Bad == {s \in FiniteSubsetsOf(A) : SumOver(f, s) \notin Nat}
<1>1. Bad \subseteq FiniteSubsetsOf(A) /\ A \in Bad
  BY DEF FiniteSubsetsOf
<1>2. PICK s \in Bad : \A t \in Bad : ~(t \subseteq s /\ t # s)
  <2> HIDE DEF Bad
  <2> QED
    BY <1>1, SmallestSet
<1>3. s \subseteq A /\ IsFiniteSet(s) /\ SumOver(f, s) \notin Nat
  BY DEF FiniteSubsetsOf
<1>4. s # {}
  BY <1>3, SumOfNone
<1> DEFINE r == s \ {Foremost(s)}
<1>5. Foremost(s) \in s /\ r \subseteq s /\ r # s /\ IsFiniteSet(r)
  BY <1>3, <1>4, ForemostIn, FS_Subset
<1>6. SumOver(f, r) \in Nat
  BY <1>2, <1>3, <1>5 DEF FiniteSubsetsOf
<1>7. SumOver(f, s) = f[Foremost(s)] + SumOver(f, r)
  BY <1>3, <1>4, SumUnfolds
<1>8. f[Foremost(s)] \in Nat
  BY <1>3, <1>5
<1> HIDE DEF r
<1> QED
  BY <1>3, <1>6, <1>7, <1>8

\* The order in which the fold takes the elements does not matter.
LEMMA SumTakesAny ==
  ASSUME NEW f, NEW A, IsFiniteSet(A), \A x \in A : f[x] \in Nat, NEW e \in A
  PROVE  SumOver(f, A) = f[e] + SumOver(f, A \ {e})
<1> SUFFICES ASSUME SumOver(f, A) # f[e] + SumOver(f, A \ {e}) PROVE FALSE
  OBVIOUS
<1> DEFINE Bad == {s \in FiniteSubsetsOf(A) :
                     \E x \in s : SumOver(f, s) # f[x] + SumOver(f, s \ {x})}
<1>1. Bad \subseteq FiniteSubsetsOf(A) /\ A \in Bad
  BY DEF FiniteSubsetsOf
<1>2. PICK s \in Bad : \A t \in Bad : ~(t \subseteq s /\ t # s)
  <2> HIDE DEF Bad
  <2> QED
    BY <1>1, SmallestSet
<1>3. PICK x \in s : SumOver(f, s) # f[x] + SumOver(f, s \ {x})
  OBVIOUS
<1>4. s \subseteq A /\ IsFiniteSet(s)
  BY DEF FiniteSubsetsOf
<1> DEFINE y == Foremost(s)
<1>5. y \in s
  BY <1>3, ForemostIn
<1>6. SumOver(f, s) = f[y] + SumOver(f, s \ {y})
  BY <1>3, <1>4, SumUnfolds
<1> HIDE DEF y
<1>7. x # y
  BY <1>3, <1>6
<1>8. \A t : t \subseteq s /\ t # s =>
        IsFiniteSet(t) /\ \A z \in t : SumOver(f, t) = f[z] + SumOver(f, t \ {z})
  BY <1>2, <1>4, FS_Subset DEF FiniteSubsetsOf
<1>9. (s \ {x}) \ {y} = (s \ {y}) \ {x}
  OBVIOUS
<1> DEFINE rest == SumOver(f, (s \ {y}) \ {x})
<1>10. SumOver(f, s \ {y}) = f[x] + rest
  BY <1>5, <1>7, <1>8
<1>11. SumOver(f, s \ {x}) = f[y] + rest
  BY <1>3, <1>5, <1>7, <1>8, <1>9
<1>12. f[x] \in Nat /\ f[y] \in Nat /\ rest \in Nat
  <2>1. IsFiniteSet((s \ {y}) \ {x}) /\ \A z \in (s \ {y}) \ {x} : f[z] \in Nat
    BY <1>4, FS_Subset
  <2>2. rest \in Nat
    BY <2>1, SumIsNat
  <2> QED
    BY <1>3, <1>4, <1>5, <2>2
<1> HIDE DEF rest
<1> QED
  BY <1>3, <1>6, <1>10, <1>11, <1>12

LEMMA SumOfMore ==
  ASSUME NEW f, NEW A, NEW T, IsFiniteSet(T), A \subseteq T, \A x \in T : f[x] \in Nat
  PROVE  SumOver(f, A) <= SumOver(f, T)
<1> SUFFICES ASSUME ~(SumOver(f, A) <= SumOver(f, T)) PROVE FALSE
  OBVIOUS
<1> DEFINE Bad == {s \in FiniteSubsetsOf(T) : A \subseteq s /\ ~(SumOver(f, A) <= SumOver(f, s))}
<1>1. Bad \subseteq FiniteSubsetsOf(T) /\ T \in Bad
  BY DEF FiniteSubsetsOf
<1>2. PICK s \in Bad : \A t \in Bad : ~(t \subseteq s /\ t # s)
  <2> HIDE DEF Bad
  <2> QED
    BY <1>1, SmallestSet
<1>3. s \subseteq T /\ IsFiniteSet(s) /\ A \subseteq s /\ ~(SumOver(f, A) <= SumOver(f, s))
  BY DEF FiniteSubsetsOf
<1>4. SumOver(f, A) \in Nat /\ IsFiniteSet(A)
  BY <1>3, FS_Subset, SumIsNat
<1>5. PICK e \in s : e \notin A
  BY <1>3, <1>4
<1> DEFINE r == s \ {e}
<1>6. r \subseteq s /\ r # s /\ IsFiniteSet(r) /\ A \subseteq r
  BY <1>3, <1>5, FS_Subset
<1>7. SumOver(f, A) <= SumOver(f, r)
  BY <1>2, <1>3, <1>6 DEF FiniteSubsetsOf
<1>8. SumOver(f, s) = f[e] + SumOver(f, r)
  BY <1>3, SumTakesAny
<1>9. SumOver(f, r) \in Nat /\ f[e] \in Nat
  BY <1>3, <1>6, SumIsNat
<1> HIDE DEF r
<1> QED
  BY <1>3, <1>4, <1>7, <1>8, <1>9

\* Elements that stand for one another, one to one, sum up to the same.
LEMMA ImageIsFinite ==
  ASSUME NEW A, IsFiniteSet(A), NEW b
  PROVE  /\ IsFiniteSet({b[x] : x \in A})
         /\ (\A x, y \in A : b[x] = b[y] => x = y)
              => Cardinality({b[x] : x \in A}) = Cardinality(A)
<1> DEFINE T == {b[x] : x \in A}
           m == [x \in A |-> b[x]]
<1>1. m \in Surjection(A, T)
  BY DEF Surjection
<1>2. (\A x, y \in A : b[x] = b[y] => x = y) => m \in Injection(A, T)
  BY DEF Injection, IsInjective
<1> HIDE DEF m, T
<1>3. IsFiniteSet(T) /\ (Cardinality(T) = Cardinality(A) <=> m \in Injection(A, T))
  BY <1>1, FS_Surjection
<1> QED
  BY <1>2, <1>3 DEF T

LEMMA SumIsRenamed ==
  ASSUME NEW f, NEW A, IsFiniteSet(A), NEW g, NEW b,
         \A x \in A : f[x] = g[b[x]] /\ f[x] \in Nat,
         \A x, y \in A : b[x] = b[y] => x = y
  PROVE  SumOver(f, A) = SumOver(g, {b[x] : x \in A})
<1> SUFFICES ASSUME SumOver(f, A) # SumOver(g, {b[x] : x \in A}) PROVE FALSE
  OBVIOUS
<1> DEFINE Bad == {s \in FiniteSubsetsOf(A) : SumOver(f, s) # SumOver(g, {b[x] : x \in s})}
<1>1. Bad \subseteq FiniteSubsetsOf(A) /\ A \in Bad
  BY DEF FiniteSubsetsOf
<1>2. PICK s \in Bad : \A t \in Bad : ~(t \subseteq s /\ t # s)
  <2> HIDE DEF Bad
  <2> QED
    BY <1>1, SmallestSet
<1>3. s \subseteq A /\ IsFiniteSet(s) /\ SumOver(f, s) # SumOver(g, {b[x] : x \in s})
  BY DEF FiniteSubsetsOf
<1>4. s # {}
  <2>1. SUFFICES ASSUME s = {} PROVE FALSE
    OBVIOUS
  <2>2. {b[x] : x \in s} = {}
    BY <2>1
  <2> QED
    BY <1>3, <2>1, <2>2, SumOfNone
<1>5. PICK e \in s : TRUE
  BY <1>4
<1> DEFINE r == s \ {e}
           image == {b[x] : x \in s}
<1>6. r \subseteq s /\ r # s /\ IsFiniteSet(r)
  BY <1>3, FS_Subset
<1>7. SumOver(f, r) = SumOver(g, {b[x] : x \in r})
  BY <1>2, <1>3, <1>6 DEF FiniteSubsetsOf
<1>8. SumOver(f, s) = f[e] + SumOver(f, r)
  BY <1>3, SumTakesAny
<1>9. {b[x] : x \in r} = image \ {b[e]}
  BY <1>3
<1>10. IsFiniteSet(image) /\ b[e] \in image /\ \A y \in image : g[y] \in Nat
  <2>1. IsFiniteSet(image)
    BY <1>3, ImageIsFinite
  <2> QED
    BY <1>3, <2>1
<1>11. SumOver(g, image) = g[b[e]] + SumOver(g, image \ {b[e]})
  <2> HIDE DEF image
  <2> QED
    BY <1>10, SumTakesAny
<1> QED
  BY <1>3, <1>7, <1>8, <1>9, <1>11

-----------------------------------------------------------------------------
(* Archives.  What the reader checks entry by entry, said of the first m   *)
(* entries of an archive.                                                  *)

Regular(a, m) ==
  /\ \A i \in 1..m : a[i].type \in {"dir", "reg", "global"}
  /\ \A i \in 1..m : a[i].type = "dir" => DirIsSafe(a[i].name)
  /\ \A i \in Regs(a, m) : CleanPath(a[i].name) # Unsafe
  /\ \A i, j \in Regs(a, m) : CleanPath(a[i].name) = CleanPath(a[j].name) => i = j
  /\ \A i \in Regs(a, m) : Size[a[i].data] <= Limits.file
  /\ Cardinality(Regs(a, m)) <= Limits.files
  /\ SumOver(Sizes(a), Regs(a, m)) <= Limits.total
  /\ Held(a, m) <= Bound

EntryFile(e) == File(CleanPath(e.name), e.data)
FilesOf(a, m) == {EntryFile(a[i]) : i \in Regs(a, m)}

LEMMA LimitFacts ==
  /\ Limits.files \in Nat /\ Limits.file \in Nat /\ Limits.total \in Nat
  /\ EntrySize \in Nat \ {0} /\ Allowance \in Nat /\ Bound \in Nat
BY BundleAssumption DEF Bound

LEMMA EntryFacts ==
  ASSUME NEW a \in Seq(Entries)
  PROVE  /\ Len(a) \in Nat /\ DOMAIN a = 1..Len(a)
         /\ \A i \in 1..Len(a) :
              /\ a[i] \in Entries /\ a[i].name \in Seq(STRING) /\ a[i].data \in Contents
              /\ a[i].type \in EntryTypes
              /\ Sizes(a)[i] = Size[a[i].data] /\ Size[a[i].data] \in Nat
<1>1. Len(a) \in Nat /\ DOMAIN a = 1..Len(a) /\ \A i \in 1..Len(a) : a[i] \in Entries
  OBVIOUS
<1>2. \A i \in 1..Len(a) :
        a[i].name \in Seq(STRING) /\ a[i].data \in Contents /\ a[i].type \in EntryTypes
  BY <1>1 DEF Entries
<1> QED
  BY <1>1, <1>2, BundleAssumption DEF Sizes

LEMMA RegsFacts ==
  ASSUME NEW a \in Seq(Entries), NEW m \in 0..Len(a)
  PROVE  /\ Regs(a, m) \subseteq 1..m /\ Regs(a, m) \subseteq 1..Len(a)
         /\ IsFiniteSet(Regs(a, m)) /\ Cardinality(Regs(a, m)) \in Nat
         /\ \A i \in Regs(a, m) : Sizes(a)[i] \in Nat
         /\ SumOver(Sizes(a), Regs(a, m)) \in Nat
         /\ Held(a, m) \in Nat
<1>1. Regs(a, m) \subseteq 1..m /\ Regs(a, m) \subseteq 1..Len(a)
  BY EntryFacts DEF Regs
<1>2. IsFiniteSet(Regs(a, m))
  <2>1. IsFiniteSet(1..m)
    BY EntryFacts, FS_Interval
  <2> QED
    BY <1>1, <2>1, FS_Subset
<1>3. Cardinality(Regs(a, m)) \in Nat
  BY <1>2, FS_CardinalityType
<1>4. \A i \in Regs(a, m) : Sizes(a)[i] \in Nat
  BY <1>1, EntryFacts
<1>5. SumOver(Sizes(a), Regs(a, m)) \in Nat
  BY <1>2, <1>4, SumIsNat
<1>6. m \in Nat /\ EntrySize * m \in Nat
  BY EntryFacts, LimitFacts
<1> QED
  BY <1>1, <1>2, <1>3, <1>4, <1>5, <1>6 DEF Held

LEMMA TimesGrows ==
  ASSUME NEW k \in Nat, NEW n \in Nat, NEW m \in Nat, n <= m
  PROVE  k * n <= k * m /\ k * n \in Nat /\ k * m \in Nat
<1>1. PICK d \in Nat : m = n + d
  <2>1. m - n \in Nat /\ m = n + (m - n)
    OBVIOUS
  <2> QED
    BY <2>1
<1>2. k * (n + d) = k * n + k * d /\ k * n \in Nat /\ k * d \in Nat
  OBVIOUS
<1> QED
  BY <1>1, <1>2

\* One more entry.
LEMMA OneMore ==
  ASSUME NEW a \in Seq(Entries), NEW m \in 0..Len(a) - 1
  PROVE  /\ m + 1 \in 1..Len(a) /\ m \in 0..Len(a) /\ m + 1 \in 0..Len(a)
         /\ a[m + 1].type = "reg" =>
              /\ Regs(a, m + 1) = Regs(a, m) \cup {m + 1} /\ m + 1 \notin Regs(a, m)
              /\ Cardinality(Regs(a, m + 1)) = Cardinality(Regs(a, m)) + 1
              /\ SumOver(Sizes(a), Regs(a, m + 1))
                   = SumOver(Sizes(a), Regs(a, m)) + Size[a[m + 1].data]
         /\ a[m + 1].type # "reg" => Regs(a, m + 1) = Regs(a, m)
<1>1. m + 1 \in 1..Len(a) /\ m \in 0..Len(a) /\ m + 1 \in 0..Len(a) /\ m \in Nat
  BY EntryFacts
<1>2. 1..(m + 1) = 1..m \cup {m + 1} /\ m + 1 \notin 1..m
  BY <1>1
<1>3. a[m + 1].type # "reg" => Regs(a, m + 1) = Regs(a, m)
  BY <1>2 DEF Regs
<1>4. ASSUME a[m + 1].type = "reg"
      PROVE  /\ Regs(a, m + 1) = Regs(a, m) \cup {m + 1} /\ m + 1 \notin Regs(a, m)
             /\ Cardinality(Regs(a, m + 1)) = Cardinality(Regs(a, m)) + 1
             /\ SumOver(Sizes(a), Regs(a, m + 1))
                  = SumOver(Sizes(a), Regs(a, m)) + Size[a[m + 1].data]
  <2>1. Regs(a, m + 1) = Regs(a, m) \cup {m + 1} /\ m + 1 \notin Regs(a, m)
    BY <1>2, <1>4 DEF Regs
  <2>2. Cardinality(Regs(a, m + 1)) = Cardinality(Regs(a, m)) + 1
    BY <1>1, <2>1, RegsFacts, FS_AddElement
  <2>3. IsFiniteSet(Regs(a, m + 1)) /\ \A i \in Regs(a, m + 1) : Sizes(a)[i] \in Nat
    BY <1>1, RegsFacts
  <2>4. m + 1 \in Regs(a, m + 1) /\ Regs(a, m + 1) \ {m + 1} = Regs(a, m)
    BY <2>1
  <2>5. SumOver(Sizes(a), Regs(a, m + 1)) = Sizes(a)[m + 1] + SumOver(Sizes(a), Regs(a, m))
    BY <2>3, <2>4, SumTakesAny
  <2>6. Sizes(a)[m + 1] = Size[a[m + 1].data] /\ Size[a[m + 1].data] \in Nat
    BY <1>1, EntryFacts
  <2>7. SumOver(Sizes(a), Regs(a, m)) \in Nat
    BY <1>1, RegsFacts
  <2> QED
    BY <2>1, <2>2, <2>5, <2>6, <2>7
<1> QED
  BY <1>1, <1>3, <1>4

\* What an archive holds only grows, by more than nothing at every entry.
LEMMA HeldGrows ==
  ASSUME NEW a \in Seq(Entries), NEW m \in 0..Len(a), NEW n \in 0..m
  PROVE  /\ Held(a, n) <= Held(a, m) /\ Regs(a, n) \subseteq Regs(a, m)
         /\ SumOver(Sizes(a), Regs(a, n)) <= SumOver(Sizes(a), Regs(a, m))
         /\ n # m => Held(a, n) < Held(a, m)
<1>1. n \in 0..Len(a) /\ n \in Nat /\ m \in Nat /\ 1..n \subseteq 1..m
  BY EntryFacts
<1>2. Regs(a, n) \subseteq Regs(a, m)
  BY <1>1 DEF Regs
<1>3. /\ IsFiniteSet(Regs(a, m)) /\ \A i \in Regs(a, m) : Sizes(a)[i] \in Nat
      /\ SumOver(Sizes(a), Regs(a, m)) \in Nat
      /\ SumOver(Sizes(a), Regs(a, n)) \in Nat
  BY <1>1, RegsFacts
<1>4. SumOver(Sizes(a), Regs(a, n)) <= SumOver(Sizes(a), Regs(a, m))
  BY <1>2, <1>3, SumOfMore
<1>5. EntrySize * n <= EntrySize * m /\ EntrySize * n \in Nat /\ EntrySize * m \in Nat
  BY <1>1, TimesGrows, LimitFacts
<1>6. n # m => EntrySize * n < EntrySize * m
  <2> SUFFICES ASSUME n # m PROVE EntrySize * n < EntrySize * m
    OBVIOUS
  <2>1. n + 1 \in Nat /\ n + 1 <= m
    BY <1>1
  <2>2. EntrySize * (n + 1) <= EntrySize * m
    BY <2>1, <1>1, TimesGrows, LimitFacts
  <2>3. EntrySize * (n + 1) = EntrySize * n + EntrySize
    BY <1>1, LimitFacts
  <2> QED
    BY <1>5, <2>2, <2>3, LimitFacts
<1> QED
  BY <1>2, <1>3, <1>4, <1>5, <1>6 DEF Held

LEMMA RegularShrinks ==
  ASSUME NEW a \in Seq(Entries), NEW m \in 0..Len(a), NEW n \in 0..m, Regular(a, m)
  PROVE  Regular(a, n)
<1>1. n \in 0..Len(a) /\ n \in Nat /\ m \in Nat /\ 1..n \subseteq 1..m
  BY EntryFacts
<1>2. /\ Held(a, n) <= Held(a, m) /\ Regs(a, n) \subseteq Regs(a, m)
      /\ SumOver(Sizes(a), Regs(a, n)) <= SumOver(Sizes(a), Regs(a, m))
  BY HeldGrows
<1>3. /\ Held(a, n) \in Nat /\ SumOver(Sizes(a), Regs(a, n)) \in Nat
      /\ Held(a, m) \in Nat /\ SumOver(Sizes(a), Regs(a, m)) \in Nat
      /\ IsFiniteSet(Regs(a, m)) /\ Cardinality(Regs(a, m)) \in Nat
      /\ Cardinality(Regs(a, n)) \in Nat
  BY <1>1, RegsFacts
<1>4. Cardinality(Regs(a, n)) <= Cardinality(Regs(a, m))
  BY <1>2, <1>3, FS_Subset
<1>5. /\ Cardinality(Regs(a, m)) <= Limits.files /\ Held(a, m) <= Bound
      /\ SumOver(Sizes(a), Regs(a, m)) <= Limits.total
      /\ Limits.files \in Nat /\ Bound \in Nat /\ Limits.total \in Nat
  BY LimitFacts DEF Regular
<1>6. /\ Cardinality(Regs(a, n)) <= Limits.files /\ Held(a, n) <= Bound
      /\ SumOver(Sizes(a), Regs(a, n)) <= Limits.total
  BY <1>2, <1>3, <1>4, <1>5
<1>7. /\ \A i \in 1..n : a[i].type \in {"dir", "reg", "global"}
      /\ \A i \in 1..n : a[i].type = "dir" => DirIsSafe(a[i].name)
      /\ \A i \in Regs(a, n) : CleanPath(a[i].name) # Unsafe
      /\ \A i, j \in Regs(a, n) : CleanPath(a[i].name) = CleanPath(a[j].name) => i = j
      /\ \A i \in Regs(a, n) : Size[a[i].data] <= Limits.file
  BY <1>1, <1>2 DEF Regular
<1> QED
  BY <1>6, <1>7 DEF Regular

\* One entry against the regular files before it.
Joins(a, m) ==
  LET e == a[m + 1]
  IN /\ CleanPath(e.name) # Unsafe
     /\ \A i \in Regs(a, m) : CleanPath(a[i].name) # CleanPath(e.name)
     /\ Cardinality(Regs(a, m)) < Limits.files
     /\ Size[e.data] <= Limits.file
     /\ SumOver(Sizes(a), Regs(a, m)) + Size[e.data] <= Limits.total

LEMMA RegularGrows ==
  ASSUME NEW a \in Seq(Entries), NEW m \in 0..Len(a) - 1, Regular(a, m)
  PROVE  Regular(a, m + 1) <=>
           /\ Held(a, m + 1) <= Bound
           /\ \/ a[m + 1].type = "dir" /\ DirIsSafe(a[m + 1].name)
              \/ a[m + 1].type = "global"
              \/ a[m + 1].type = "reg" /\ Joins(a, m)
<1>1. /\ m + 1 \in 1..Len(a) /\ m \in 0..Len(a) /\ m + 1 \in 0..Len(a) /\ m \in Nat
      /\ \A i : i \in 1..(m + 1) <=> i \in 1..m \/ i = m + 1
  BY OneMore, EntryFacts
<1>2. /\ Cardinality(Regs(a, m)) \in Nat /\ SumOver(Sizes(a), Regs(a, m)) \in Nat
      /\ Size[a[m + 1].data] \in Nat
  BY <1>1, RegsFacts, EntryFacts
<1>3. CASE a[m + 1].type = "reg"
  <2>1. /\ Regs(a, m + 1) = Regs(a, m) \cup {m + 1} /\ m + 1 \notin Regs(a, m)
        /\ Cardinality(Regs(a, m + 1)) = Cardinality(Regs(a, m)) + 1
        /\ SumOver(Sizes(a), Regs(a, m + 1))
             = SumOver(Sizes(a), Regs(a, m)) + Size[a[m + 1].data]
    BY <1>3, OneMore
  <2>2. Cardinality(Regs(a, m + 1)) <= Limits.files <=> Cardinality(Regs(a, m)) < Limits.files
    BY SMTT(20), <1>2, <2>1, LimitFacts
  <2>3. ASSUME Regular(a, m + 1) PROVE Held(a, m + 1) <= Bound /\ Joins(a, m)
    <3>1. m + 1 \in Regs(a, m + 1)
      BY <2>1
    <3>2. \A i \in Regs(a, m) : i # m + 1 /\ i \in Regs(a, m + 1)
      BY <2>1
    <3>3. /\ CleanPath(a[m + 1].name) # Unsafe
          /\ \A i \in Regs(a, m) : CleanPath(a[i].name) # CleanPath(a[m + 1].name)
      BY <2>3, <3>1, <3>2 DEF Regular
    <3> QED
      BY <2>1, <2>2, <2>3, <3>1, <3>3 DEF Regular, Joins
  <2>4. ASSUME Held(a, m + 1) <= Bound, Joins(a, m) PROVE Regular(a, m + 1)
    <3>1. \A i \in 1..(m + 1) : a[i].type \in {"dir", "reg", "global"}
                              /\ (a[i].type = "dir" => DirIsSafe(a[i].name))
      BY <1>1, <1>3 DEF Regular
    <3>2. \A i \in Regs(a, m + 1) : CleanPath(a[i].name) # Unsafe /\ Size[a[i].data] <= Limits.file
      BY <2>1, <2>4 DEF Regular, Joins
    <3>3. \A i, j \in Regs(a, m + 1) : CleanPath(a[i].name) = CleanPath(a[j].name) => i = j
      BY <2>1, <2>4 DEF Regular, Joins
    <3> QED
      BY <2>1, <2>2, <2>4, <3>1, <3>2, <3>3 DEF Regular, Joins
  <2> QED
    BY <1>3, <2>3, <2>4
<1>4. CASE a[m + 1].type # "reg"
  <2>1. Regs(a, m + 1) = Regs(a, m)
    BY <1>4, OneMore
  <2> QED
    BY <1>1, <1>4, <2>1 DEF Regular
<1> QED
  BY <1>3, <1>4

LEMMA ValidIsRegular ==
  ASSUME NEW a \in Seq(Entries)
  PROVE  ValidArchive(a) <=>
           Regular(a, Len(a)) /\ \E f \in FilesOf(a, Len(a)) : f.path = SkillFile
<1>1. DOMAIN a = 1..Len(a) /\ \A i \in Regs(a, Len(a)) : i \in 1..Len(a)
  BY EntryFacts DEF Regs
<1>2. (\E f \in FilesOf(a, Len(a)) : f.path = SkillFile)
        <=> \E i \in Regs(a, Len(a)) : CleanPath(a[i].name) = SkillFile
  <2>1. \A i : EntryFile(a[i]).path = CleanPath(a[i].name)
    BY DEF EntryFile, File
  <2> QED
    BY <2>1 DEF FilesOf
<1>3. ValidArchive(a) <=>
        /\ \A i \in 1..Len(a) : a[i].type \in {"dir", "reg", "global"}
        /\ \A i \in 1..Len(a) : a[i].type = "dir" => DirIsSafe(a[i].name)
        /\ \A i, j \in Regs(a, Len(a)) :
             CleanPath(a[i].name) # Unsafe /\ (CleanPath(a[i].name) = CleanPath(a[j].name) => i = j)
        /\ \E i \in Regs(a, Len(a)) : CleanPath(a[i].name) = SkillFile
        /\ Cardinality(Regs(a, Len(a))) <= Limits.files
        /\ \A i \in Regs(a, Len(a)) : Size[a[i].data] <= Limits.file
        /\ SumOver(Sizes(a), Regs(a, Len(a))) <= Limits.total
        /\ Held(a, Len(a)) <= Bound
  BY <1>1 DEF ValidArchive
<1> QED
  BY <1>1, <1>2, <1>3 DEF Regular

\* Where the reader stops: at the last entry, or at the bound.
Ends(a, n) == n = Len(a) \/ Held(a, n) = Bound

\* Where no bound falls between two entries, that is the last one.
LEMMA EndOfArchive ==
  ASSUME NEW a \in Seq(Entries), NEW m \in 0..Len(a), Ends(a, m), ~CutBetween(a)
  PROVE  m = Len(a)
<1>1. Len(a) \in Nat
  BY EntryFacts
<1> QED
  BY <1>1 DEF Ends, CutBetween

\* What was read, as a set of files.
LEMMA FilesFacts ==
  ASSUME NEW a \in Seq(Entries), NEW m \in 0..Len(a), Regular(a, m)
  PROVE  /\ IsFiniteSet(FilesOf(a, m))
         /\ Cardinality(FilesOf(a, m)) = Cardinality(Regs(a, m))
         /\ Total(FilesOf(a, m)) = SumOver(Sizes(a), Regs(a, m))
         /\ {f.path : f \in FilesOf(a, m)} = {CleanPath(a[i].name) : i \in Regs(a, m)}
<1> DEFINE b == [i \in 1..Len(a) |-> EntryFile(a[i])]
           F == FilesOf(a, m)
           g == [f \in F |-> Size[f.data]]
<1>1. /\ \A i : EntryFile(a[i]).path = CleanPath(a[i].name)
      /\ \A i : EntryFile(a[i]).data = a[i].data
  BY DEF EntryFile, File
<1>2. /\ Regs(a, m) \subseteq 1..Len(a) /\ IsFiniteSet(Regs(a, m))
      /\ \A i \in Regs(a, m) : Sizes(a)[i] \in Nat
  BY RegsFacts
<1>3. \A i \in Regs(a, m) : b[i] = EntryFile(a[i])
  BY <1>2
<1>4. F = {b[i] : i \in Regs(a, m)}
  BY <1>3 DEF FilesOf
<1>5. \A i, j \in Regs(a, m) : b[i] = b[j] => i = j
  BY <1>1, <1>3 DEF Regular
<1>6. \A i \in Regs(a, m) : Sizes(a)[i] = g[b[i]]
  <2> SUFFICES ASSUME NEW i \in Regs(a, m) PROVE Sizes(a)[i] = g[b[i]]
    OBVIOUS
  <2>1. Sizes(a)[i] = Size[a[i].data]
    BY <1>2, EntryFacts
  <2>2. b[i] \in F /\ b[i].data = a[i].data
    BY <1>1, <1>3, <1>4
  <2> QED
    BY <2>1, <2>2
<1>7. {f.path : f \in F} = {CleanPath(a[i].name) : i \in Regs(a, m)}
  BY <1>1 DEF FilesOf
<1> HIDE DEF b, g, F
<1>8. IsFiniteSet(F) /\ Cardinality(F) = Cardinality(Regs(a, m))
  BY <1>2, <1>4, <1>5, ImageIsFinite
<1>9. SumOver(Sizes(a), Regs(a, m)) = SumOver(g, F)
  BY <1>2, <1>4, <1>5, <1>6, SumIsRenamed
<1> QED
  BY <1>7, <1>8, <1>9 DEF Total, F, g

\* The verdict on an upload: what all its entries make up, compared with the
\* digest and the name that were sent with it.
Acceptable(a, digest, name) ==
  LET held == {File(CleanPath(a[i].name), a[i].data) : i \in Regs(a, Len(a))}
      doc  == Document[DataAt(held, SkillFile)]
  IN /\ ValidArchive(a)
     /\ digest \in {NoDigest, Digest(held)}
     /\ Parses(doc) /\ doc.name = name

LEMMA VerdictAtTheEnd ==
  ASSUME NEW a \in Seq(Entries), NEW m \in 0..Len(a), Regular(a, m), Ends(a, m),
         ~CutBetween(a), NEW digest, NEW name
  PROVE  Acceptable(a, digest, name) <=>
           /\ \E f \in FilesOf(a, m) : f.path = SkillFile
           /\ digest \in {NoDigest, Digest(FilesOf(a, m))}
           /\ LET doc == Document[DataAt(FilesOf(a, m), SkillFile)]
              IN Parses(doc) /\ doc.name = name
<1> DEFINE held == {File(CleanPath(a[i].name), a[i].data) : i \in Regs(a, Len(a))}
<1>1. m = Len(a)
  BY EndOfArchive
<1>2. held = FilesOf(a, m)
  BY <1>1 DEF FilesOf, EntryFile
<1>3. ValidArchive(a) <=> \E f \in FilesOf(a, m) : f.path = SkillFile
  BY <1>1, ValidIsRegular
<1>4. Acceptable(a, digest, name) <=>
        /\ ValidArchive(a)
        /\ digest \in {NoDigest, Digest(held)}
        /\ Parses(Document[DataAt(held, SkillFile)])
        /\ Document[DataAt(held, SkillFile)].name = name
  BY DEF Acceptable
<1> HIDE DEF held
<1> QED
  BY <1>2, <1>3, <1>4

\* An archive that goes on is not valid if its next entry is not.
LEMMA VerdictBefore ==
  ASSUME NEW a \in Seq(Entries), NEW m \in 0..Len(a), ~Ends(a, m),
         ~Regular(a, m + 1), NEW digest, NEW name
  PROVE  ~Acceptable(a, digest, name)
<1>1. Len(a) \in Nat /\ m + 1 \in 0..Len(a) /\ Len(a) \in 0..Len(a)
  BY EntryFacts DEF Ends
<1>2. ~Regular(a, Len(a))
  BY <1>1, RegularShrinks
<1> QED
  BY <1>2, ValidIsRegular DEF Acceptable

-----------------------------------------------------------------------------
(* Reading.                                                                *)

ReadSoFar ==
  /\ stream \in Seq(Entries)
  /\ pos \in 1..Len(stream) + 1
  /\ Regular(stream, pos - 1)
  /\ files = FilesOf(stream, pos - 1)

LEMMA NothingRead ==
  ASSUME NEW a
  PROVE  Regular(a, 0) /\ FilesOf(a, 0) = {}
<1>1. Regs(a, 0) = {} /\ 1..0 = {}
  BY DEF Regs
<1>2. Cardinality({}) = 0 /\ SumOver(Sizes(a), {}) = 0
  BY FS_EmptySet, SumOfNone
<1>3. Held(a, 0) = 0
  <2>1. Held(a, 0) = EntrySize * 0 + 0
    BY <1>1, <1>2 DEF Held
  <2>2. EntrySize \in Nat
    BY LimitFacts
  <2> QED
    BY <2>1, <2>2
<1> QED
  BY <1>1, <1>2, <1>3, LimitFacts DEF Regular, FilesOf

LEMMA ReadingPlace ==
  ASSUME ReadSoFar
  PROVE  /\ pos \in Nat /\ pos - 1 \in 0..Len(stream) /\ (pos - 1) + 1 = pos
         /\ AtEnd <=> Ends(stream, pos - 1)
         /\ ~AtEnd => pos \in 1..Len(stream) /\ pos - 1 \in 0..Len(stream) - 1
<1>1. Len(stream) \in Nat /\ pos \in 1..Len(stream) + 1
  BY EntryFacts DEF ReadSoFar
<1>2. pos > Len(stream) <=> pos - 1 = Len(stream)
  BY <1>1
<1> QED
  BY <1>1, <1>2 DEF AtEnd, Ends

\* The reader lets an entry pass exactly when the archive is still regular
\* with it.
LEMMA PassesIfRegular ==
  ASSUME ReadSoFar, ~AtEnd
  PROVE  Passes(stream[pos]) <=> Regular(stream, pos)
<1> DEFINE m == pos - 1
<1>1. /\ m \in 0..Len(stream) - 1 /\ m \in 0..Len(stream) /\ m + 1 = pos
      /\ stream \in Seq(Entries) /\ Regular(stream, m) /\ files = FilesOf(stream, m)
  BY ReadingPlace DEF ReadSoFar
<1> HIDE DEF m
<1>2. /\ Cardinality(files) = Cardinality(Regs(stream, m))
      /\ Total(files) = SumOver(Sizes(stream), Regs(stream, m))
      /\ {f.path : f \in files} = {CleanPath(stream[i].name) : i \in Regs(stream, m)}
  BY <1>1, FilesFacts
<1>3. Fits(stream[pos]) <=> Joins(stream, m)
  BY <1>1, <1>2 DEF Fits, Joins
<1>4. Regular(stream, m + 1) <=>
           /\ Held(stream, m + 1) <= Bound
           /\ \/ stream[m + 1].type = "dir" /\ DirIsSafe(stream[m + 1].name)
              \/ stream[m + 1].type = "global"
              \/ stream[m + 1].type = "reg" /\ Joins(stream, m)
  BY <1>1, RegularGrows
<1> QED
  BY <1>1, <1>3, <1>4 DEF Passes

LEMMA ReadGoesOn ==
  ASSUME ReadSoFar, ~AtEnd, Passes(stream[pos]),
         stream' = stream, pos' = pos + 1,
         files' = IF stream[pos].type = "reg"
                  THEN files \cup {File(CleanPath(stream[pos].name), stream[pos].data)}
                  ELSE files
  PROVE  ReadSoFar'
<1> DEFINE m == pos - 1
<1>1. /\ m \in 0..Len(stream) - 1 /\ m + 1 = pos /\ pos \in 1..Len(stream) /\ pos \in Nat
      /\ stream \in Seq(Entries) /\ files = FilesOf(stream, m) /\ Regular(stream, pos)
  BY ReadingPlace, PassesIfRegular DEF ReadSoFar
<1> HIDE DEF m
<1>2. /\ stream[m + 1].type = "reg" => Regs(stream, m + 1) = Regs(stream, m) \cup {m + 1}
      /\ stream[m + 1].type # "reg" => Regs(stream, m + 1) = Regs(stream, m)
  BY <1>1, OneMore
<1>3. files' = FilesOf(stream, pos)
  BY <1>1, <1>2 DEF FilesOf, EntryFile
<1>4. pos' \in 1..Len(stream) + 1 /\ pos' - 1 = pos
  BY <1>1, EntryFacts
<1> QED
  BY <1>1, <1>3, <1>4 DEF ReadSoFar

\* What arrives in place of an archive is an archive, and empty only in place
\* of an empty one.
LEMMA ArrivesTyped ==
  ASSUME NEW a \in Seq(Entries), Arrives(a)
  PROVE  stream' \in Seq(Entries) /\ (stream' = <<>> <=> a = <<>>)
<1>1. CASE stream' = a
  BY <1>1
<1>2. CASE stream' \in Alterations(a)
  <2>1. DOMAIN a = 1..Len(a) /\ \A i \in 1..Len(a) : a[i] \in Entries
    BY EntryFacts
  <2>2. \E i \in 1..Len(a) : \E e \in Entries : stream' = [a EXCEPT ![i] = e]
    <3>1. CASE \E i \in DOMAIN a : stream' = [a EXCEPT ![i].type = "broken"]
      <4>1. PICK i \in 1..Len(a) : stream' = [a EXCEPT ![i] = [a[i] EXCEPT !.type = "broken"]]
        BY <2>1, <3>1
      <4>2. [a[i] EXCEPT !.type = "broken"] \in Entries
        BY <2>1 DEF Entries, EntryTypes
      <4> QED
        BY <4>1, <4>2
    <3>2. CASE \E i \in DOMAIN a, c \in Contents : stream' = [a EXCEPT ![i].data = c]
      <4>1. PICK i \in 1..Len(a), c \in Contents : stream' = [a EXCEPT ![i] = [a[i] EXCEPT !.data = c]]
        BY <2>1, <3>2
      <4>2. [a[i] EXCEPT !.data = c] \in Entries
        BY <2>1 DEF Entries
      <4> QED
        BY <4>1, <4>2
    <3> QED
      BY <1>2, <3>1, <3>2 DEF Alterations
  <2>3. PICK i \in 1..Len(a), e \in Entries : stream' = [a EXCEPT ![i] = e]
    BY <2>2
  <2>4. stream' \in Seq(Entries) /\ Len(stream') = Len(a)
    BY <2>3, ExceptSeq
  <2>5. Len(a) # 0
    BY <2>3, EntryFacts
  <2> QED
    BY <2>4, <2>5
<1> QED
  BY <1>1, <1>2 DEF Arrives

LEMMA ReadBegins ==
  ASSUME NEW p, NEW a \in Seq(Entries), Begin(p, a)
  PROVE  ReadSoFar' /\ phase' = p /\ (stream' = <<>> <=> a = <<>>)
<1>1. stream' \in Seq(Entries) /\ (stream' = <<>> <=> a = <<>>)
  BY ArrivesTyped DEF Begin
<1>2. phase' = p /\ pos' = 1 /\ files' = {} /\ pos' - 1 = 0
  BY DEF Begin
<1>3. pos' \in 1..Len(stream') + 1
  BY <1>1, <1>2
<1>4. Regular(stream', 0) /\ FilesOf(stream', 0) = {}
  BY NothingRead
<1>5. ReadSoFar'
  BY <1>1, <1>2, <1>3, <1>4 DEF ReadSoFar
<1> QED
  BY <1>1, <1>2, <1>5

-----------------------------------------------------------------------------
(* What the caller asks for.                                               *)

Posed(q) == \E i \in DOMAIN Cases : \E c \in Cases[i] : q = c[3]

\* The query that the policy is asked is the request's, whoever the caller.
Asked ==
  /\ Posed(request)
  /\ query = [who |-> query.who, action |-> request.action, resource |-> request.resource]

Paths == Seq(STRING)
BundleFiles == [path: Paths, data: Contents]

LEMMA PosedFacts ==
  ASSUME NEW q, Posed(q)
  PROVE  /\ q.named \in BOOLEAN /\ q.packs \in BOOLEAN /\ q.size \in Nat
         /\ MaxBody \in Nat /\ MaxFaults \in Nat
         /\ q.archive \in Seq(Entries)
         /\ IsFiniteSet(q.folder)
         /\ q.folder \subseteq [kind: {"file", "link"}, path: Seq(STRING), data: Contents]
         /\ \A e, f \in q.folder : e.path = f.path => e = f
         /\ \A e \in q.folder : \A j \in DOMAIN e.path : e.path[j] # "."
         /\ Digest(Packed(q.folder)) # NoDigest
BY RequestAssumption DEF Posed

\* Files as a folder has them: one at a path, none named by a dot.
PlainFiles(fs) ==
  /\ IsFiniteSet(fs) /\ fs \subseteq BundleFiles
  /\ \A f, g \in fs : f.path = g.path => f = g
  /\ \A f \in fs : CleanPath(f.path) \in {f.path, Unsafe}

LEMMA PackedIsPlain ==
  ASSUME NEW q, Posed(q)
  PROVE  PlainFiles(Packed(q.folder))
<1> DEFINE V == Visible(q.folder)
           b == [e \in V |-> File(e.path, e.data)]
           G == Packed(q.folder)
<1>1. V \subseteq q.folder
  BY DEF Visible
<1>2. /\ IsFiniteSet(V) /\ V \subseteq [kind: {"file", "link"}, path: Seq(STRING), data: Contents]
      /\ \A e, f \in V : e.path = f.path => e = f
      /\ \A e \in V : \A j \in DOMAIN e.path : e.path[j] # "."
  BY <1>1, PosedFacts, FS_Subset
<1>3. G = {File(e.path, e.data) : e \in V}
  BY DEF Packed
<1>4. G = {b[e] : e \in V}
  BY <1>3
<1> HIDE DEF V, G, b
<1>5. IsFiniteSet(G)
  BY <1>2, <1>4, ImageIsFinite
<1>6. ASSUME NEW f \in G
      PROVE  f \in BundleFiles /\ \E e \in V : f.path = e.path /\ f.data = e.data
  <2>1. PICK e \in V : f = [path |-> e.path, data |-> e.data]
    BY <1>3 DEF File
  <2>2. e.path \in Seq(STRING) /\ e.data \in Contents
    BY <1>2
  <2>3. f.path = e.path /\ f.data = e.data
    BY <2>1
  <2> QED
    BY <2>1, <2>2, <2>3 DEF BundleFiles, Paths
<1>7. ASSUME NEW f \in G, NEW g \in G, f.path = g.path PROVE f = g
  <2>1. PICK e \in V : f.path = e.path /\ f.data = e.data
    BY <1>6
  <2>2. PICK d \in V : g.path = d.path /\ g.data = d.data
    BY <1>6
  <2>3. f.data = g.data
    BY <1>2, <1>7, <2>1, <2>2
  <2> QED
    BY <1>6, <1>7, <2>3 DEF BundleFiles
<1>8. ASSUME NEW f \in G PROVE CleanPath(f.path) \in {f.path, Unsafe}
  <2>1. PICK e \in V : f.path = e.path
    BY <1>6
  <2>2. f.path \in Seq(STRING) /\ \A j \in DOMAIN f.path : f.path[j] # "."
    BY <1>2, <2>1
  <2>3. Len(f.path) > 1 => f.path[1] # "."
    BY <2>2
  <2> QED
    BY <2>3 DEF CleanPath
<1> QED
  BY <1>5, <1>6, <1>7, <1>8 DEF PlainFiles, G

\* SetToSeq lists every file once.
LEMMA EncodeFacts ==
  ASSUME NEW G, IsFiniteSet(G), G \subseteq BundleFiles
  PROVE  /\ Encode(G) \in Seq(Entries) /\ Len(Encode(G)) = Cardinality(G)
         /\ \A i \in 1..Cardinality(G) :
              /\ Encode(G)[i].type = "reg"
              /\ [path |-> Encode(G)[i].name, data |-> Encode(G)[i].data] \in G
         /\ \A f \in G : \E i \in 1..Cardinality(G) :
              Encode(G)[i].name = f.path /\ Encode(G)[i].data = f.data
         /\ \A i, j \in 1..Cardinality(G) :
              Encode(G)[i].name = Encode(G)[j].name /\ Encode(G)[i].data = Encode(G)[j].data
                => i = j
<1> DEFINE n == Cardinality(G)
           s == S!SetToSeq(G)
<1>1. n \in Nat /\ ExistsBijection(1..n, G)
  BY FS_CardinalityType
<1>2. \E f \in [1..n -> G] : S!IsInjective(f)
  BY <1>1 DEF ExistsBijection, Bijection, Injection, IsInjective, S!IsInjective
<1>3. s \in [1..n -> G] /\ S!IsInjective(s)
  <2>1. S!Cardinality(G) = Cardinality(G)
    BY DEF S!Cardinality, Cardinality
  <2> QED
    BY <1>2, <2>1 DEF S!SetToSeq
<1>4. s \in Injection(1..n, G)
  BY <1>3 DEF Injection, IsInjective, S!IsInjective
<1>5. s \in Surjection(1..n, G)
  <2>1. Cardinality(1..n) = n
    BY <1>1, FS_Interval
  <2> HIDE DEF s
  <2> QED
    BY <1>4, <2>1, FS_Injection
<1>6. Encode(G) = [i \in 1..n |-> [type |-> "reg", name |-> s[i].path, data |-> s[i].data]]
  BY <1>3 DEF Encode
<1> HIDE DEF n, s
<1>7. \A i \in 1..n : /\ s[i] \in G /\ s[i].path \in Seq(STRING) /\ s[i].data \in Contents
                      /\ s[i] = [path |-> s[i].path, data |-> s[i].data]
  BY <1>3 DEF BundleFiles, Paths
<1>8. \A i \in 1..n : Encode(G)[i] \in Entries
  <2> SUFFICES ASSUME NEW i \in 1..n PROVE Encode(G)[i] \in Entries
    OBVIOUS
  <2>1. Encode(G)[i] = [type |-> "reg", name |-> s[i].path, data |-> s[i].data]
    BY <1>6
  <2>2. s[i].path \in Seq(STRING) /\ s[i].data \in Contents /\ "reg" \in EntryTypes
    BY <1>7 DEF EntryTypes
  <2>3. \A p \in Seq(STRING), c \in Contents, t \in EntryTypes :
          [type |-> t, name |-> p, data |-> c] \in Entries
    BY DEF Entries
  <2> QED
    BY <2>1, <2>2, <2>3
<1>9. Encode(G) \in Seq(Entries) /\ Len(Encode(G)) = n
  BY <1>1, <1>6, <1>8
<1>10. \A i \in 1..n : /\ Encode(G)[i].type = "reg"
                       /\ Encode(G)[i].name = s[i].path /\ Encode(G)[i].data = s[i].data
  BY <1>6
<1>11. \A f \in G : \E i \in 1..n : s[i] = f
  BY <1>5 DEF Surjection
<1>12. \A i, j \in 1..n : s[i] = s[j] => i = j
  BY <1>3 DEF S!IsInjective
<1> QED
  <2>1. \A i \in 1..n : [path |-> Encode(G)[i].name, data |-> Encode(G)[i].data] \in G
    BY <1>7, <1>10
  <2>2. \A f \in G : \E i \in 1..n : Encode(G)[i].name = f.path /\ Encode(G)[i].data = f.data
    BY <1>10, <1>11
  <2>3. \A i, j \in 1..n :
          Encode(G)[i].name = Encode(G)[j].name /\ Encode(G)[i].data = Encode(G)[j].data => i = j
    <3>1. \A i, j \in 1..n : s[i].path = s[j].path /\ s[i].data = s[j].data => s[i] = s[j]
      BY <1>7
    <3> QED
      BY <1>10, <1>12, <3>1
  <2> QED
    BY <1>9, <1>10, <2>1, <2>2, <2>3 DEF n

Admitted == Principal # NoOne /\ request.size <= MaxBody /\ request.named

Verdicts == {"forbidden", "allowed", "digest_mismatch", "created"}

\* What the second part of CreatedExactlyIfAdmissible says of an answer.
CreatedIfAcceptable ==
  query.action = "publish" =>
    LET arrived == IF stream = <<>> THEN Archive ELSE stream
    IN \/ CutBetween(arrived)
       \/ reply = "created" <=>
            /\ Admitted /\ Permits(rules, query)
            /\ Acceptable(arrived, Announced, request.resource.name)

\* Nothing arrives before the policy has decided, what is read is what counts
\* of it, and the answer is the verdict on the whole archive.
Judged ==
  /\ phase \in Early \cup {"decide", "read", "check"} => reply = "none"
  /\ phase \in Early \cup {"decide"} => stream = <<>>
  /\ phase \in {"decide"} \cup Reading \/ reply \in Verdicts => Admitted
  /\ reply \in Verdicts => (reply = "forbidden" <=> ~Permits(rules, query))
  /\ phase \in {"read", "check"} => ReadSoFar /\ (stream = <<>> => Archive = <<>>)
  /\ phase = "check" => AtEnd /\ \E f \in files : f.path = SkillFile
  /\ phase = "answered" => CreatedIfAcceptable

LEMMA SameRequest ==
  ASSUME UNCHANGED <<setup, request>>
  PROVE  Archive' = Archive /\ Announced' = Announced /\ Admitted' = Admitted
                            /\ Principal' = Principal
<1>1. Principal' = Principal
  BY SamePrincipal
<1>2. Admitted' = Admitted
  BY <1>1 DEF Admitted
<1> QED
  BY <1>1, <1>2 DEF Archive, Announced

LEMMA SameQuestion ==
  ASSUME UNCHANGED <<rules, query>>
  PROVE  Permits(rules, query)' <=> Permits(rules, query)
OBVIOUS

LEMMA ArchiveTyped ==
  ASSUME Asked
  PROVE  Archive \in Seq(Entries)
<1>1. PlainFiles(Packed(request.folder)) /\ request.archive \in Seq(Entries)
  BY PackedIsPlain, PosedFacts DEF Asked
<1>2. Encode(Packed(request.folder)) \in Seq(Entries)
  BY <1>1, EncodeFacts DEF PlainFiles
<1> QED
  BY <1>1, <1>2 DEF Archive

LEMMA AskedInit == PublishInit => Asked
BY DEF PublishInit, Asked, Posed

LEMMA AskedStep == Asked /\ [PublishNext]_publishVars => Asked'
<1> SUFFICES ASSUME Asked, [PublishNext]_publishVars PROVE Asked'
  OBVIOUS
<1>1. ASSUME UNCHANGED request,
             query' = query \/ \E p : query' = [query EXCEPT !.who = p]
      PROVE  Asked'
  <2>1. query = [who |-> query.who, action |-> request.action, resource |-> request.resource]
    BY DEF Asked
  <2>2. query' = [who |-> query'.who, action |-> request.action, resource |-> request.resource]
    BY <1>1, <2>1
  <2> QED
    BY <1>1, <2>2 DEF Asked
<1>2. CASE Authenticate
  BY <1>1, <1>2 DEF Authenticate
<1>3. CASE Decide
  BY <1>1, <1>3 DEF Decide, Skip, Deny, Allow, Finish, requestVars, Looking
<1>4. CASE Serve \/ Send \/ Proceed \/ ReadEntry \/ EndArchive \/ Check \/ Download \/ Verify
  BY <1>1, <1>4 DEF Serve, Send, Proceed, ReadEntry, EndArchive, Check, Download, Verify, vars
<1>5. CASE UNCHANGED publishVars
  BY <1>1, <1>5 DEF publishVars, requestVars, vars
<1> QED
  BY <1>2, <1>3, <1>4, <1>5 DEF PublishNext

\* Whoever reads an upload was asked to by a caller who may publish.
LEMMA ReadingIsGranted ==
  ASSUME Guarded, phase \in Reading \/ reply = "created"
  PROVE  Permits(rules, query) /\ query.action = "publish"
<1>1. Granted
  BY DEF Guarded
<1>2. phase \notin {"start", "exit"}
  BY DEF Guarded, Early, Reading
<1> QED
  BY <1>1, <1>2 DEF Guarded, Granted, Inv, DecisionIsPermission

LEMMA JudgedInit == PublishInit => Judged
BY DEF PublishInit, Judged, Early, Reading, Verdicts

\* What comes after the answer changes no answer.
LEMMA AnswerStands ==
  ASSUME Judged, UNCHANGED <<rules, query, setup, request, reply>>,
         phase \in Reading \/ (phase = "answered" /\ reply = "created"),
         phase' \in {"download", "verify", "fetched", "refused"}
  PROVE  Judged'
<1>1. Admitted
  BY DEF Judged, Verdicts
<1>2. Admitted'
  BY <1>1, SameRequest
<1>4. reply' \in Verdicts => (reply' = "forbidden" <=> ~Permits(rules, query)')
  BY SameQuestion DEF Judged
<1> QED
  BY <1>2, <1>4 DEF Judged, Early

\* The answer to an upload that was read.
LEMMA AnswerIsVerdict ==
  ASSUME Judged, Guarded, phase \in {"read", "check"},
         UNCHANGED <<rules, query, setup, request, stream>>,
         phase' = "answered", reply' \in {"invalid_request", "digest_mismatch", "created"},
         CutBetween(stream) \/ (reply' = "created" <=>
                                  Acceptable(stream, Announced, request.resource.name))
  PROVE  Judged'
<1>1. Admitted /\ Permits(rules, query) /\ (stream = <<>> => Archive = <<>>)
  BY ReadingIsGranted DEF Judged, Reading
<1>2. Admitted' /\ Permits(rules, query)' /\ Archive' = Archive /\ Announced' = Announced
  BY <1>1, SameRequest, SameQuestion
<1>3. (IF stream = <<>> THEN Archive ELSE stream)' = stream
  BY <1>1, <1>2
<1>4. CreatedIfAcceptable'
  BY <1>2, <1>3 DEF CreatedIfAcceptable
<1> QED
  BY <1>2, <1>4 DEF Judged, Early, Verdicts

LEMMA JudgedStep ==
  ASSUME Guarded, Asked, Judged, [PublishNext]_publishVars
  PROVE  Judged'
<1>1. CASE Serve \/ Send
  <2>1. /\ phase \in Early /\ phase' \in Early /\ UNCHANGED <<reply, stream>>
    BY <1>1 DEF Serve, Send, Early, wireVars
  <2> QED
    BY <2>1 DEF Judged, Early, Reading, Verdicts
<1>2. CASE Authenticate
  <2>1. /\ phase = "authenticate" /\ UNCHANGED <<rules, setup, request, stream>>
        /\ reply = "none" /\ stream = <<>>
    BY <1>2 DEF Authenticate, wireVars, Judged, Early
  <2>2. Principal' = Principal /\ Admitted' = Admitted
    BY <2>1, SameRequest
  <2>3. request.size \in Nat /\ MaxBody \in Nat
    BY PosedFacts DEF Asked
  <2>4. CASE /\ phase' = "answered"
             /\ reply' \in {"unauthenticated", "payload_too_large", "invalid_request"}
             /\ ~Admitted
    <3>1. CreatedIfAcceptable'
      BY <2>2, <2>4 DEF CreatedIfAcceptable
    <3> QED
      BY <2>4, <3>1 DEF Judged, Early, Reading, Verdicts
  <2>5. CASE phase' = "decide" /\ UNCHANGED reply /\ Admitted
    BY <2>1, <2>2, <2>5 DEF Judged, Early, Reading, Verdicts
  <2>6. \/ /\ phase' = "answered" /\ ~Admitted
           /\ reply' \in {"unauthenticated", "payload_too_large", "invalid_request"}
        \/ phase' = "decide" /\ UNCHANGED reply /\ Admitted
    <3>1. CASE Principal = NoOne
      BY <1>2, <3>1 DEF Authenticate, Answer, Admitted
    <3>2. CASE Principal # NoOne /\ request.size > MaxBody
      BY <1>2, <2>3, <3>2 DEF Authenticate, Answer, Admitted
    <3>3. CASE Principal # NoOne /\ request.size <= MaxBody /\ ~request.named
      BY <1>2, <2>3, <3>3 DEF Authenticate, Answer, Admitted
    <3>4. CASE Principal # NoOne /\ request.size <= MaxBody /\ request.named
      BY <1>2, <2>3, <3>4 DEF Authenticate, Admitted
    <3> QED
      BY <2>3, <3>1, <3>2, <3>3, <3>4
  <2> QED
    BY <2>4, <2>5, <2>6
<1>3. CASE Decide
  <2>1. phase = "decide" /\ UNCHANGED <<setup, request, phase, reply, stream>>
    BY <1>3 DEF Decide, requestVars, wireVars
  <2>2. Admitted' = Admitted
    BY <2>1, SameRequest
  <2> QED
    BY <2>1, <2>2 DEF Judged, Early, Reading, Verdicts
<1>4. CASE Proceed
  <2>1. /\ phase = "decide" /\ decision.done /\ UNCHANGED <<rules, query, setup, request>>
        /\ reply = "none" /\ Admitted /\ stream = <<>>
    BY <1>4 DEF Proceed, vars, Judged
  <2>2. Admitted' /\ Archive' = Archive /\ (Permits(rules, query)' <=> Permits(rules, query))
    BY <2>1, SameRequest, SameQuestion
  <2>3. decision.allow <=> Permits(rules, query)
    BY <2>1 DEF Guarded, Inv, DecisionIsPermission
  <2>4. CASE ~decision.allow
    <3>1. phase' = "answered" /\ reply' = "forbidden" /\ ~Permits(rules, query)'
      BY <1>4, <2>2, <2>3, <2>4 DEF Proceed, Answer
    <3>2. CreatedIfAcceptable'
      BY <3>1 DEF CreatedIfAcceptable
    <3> QED
      BY <2>2, <3>1, <3>2 DEF Judged, Early
  <2>5. CASE decision.allow /\ query.action # "publish"
    <3>1. phase' = "answered" /\ reply' = "allowed" /\ Permits(rules, query)'
      BY <1>4, <2>2, <2>3, <2>5 DEF Proceed, Answer
    <3>2. CreatedIfAcceptable'
      BY <2>1, <2>5 DEF CreatedIfAcceptable
    <3> QED
      BY <2>2, <3>1, <3>2 DEF Judged, Early
  <2>6. CASE decision.allow /\ query.action = "publish"
    <3>1. Begin("read", Archive) /\ UNCHANGED reply
      BY <1>4, <2>6 DEF Proceed
    <3>2. ReadSoFar' /\ phase' = "read" /\ (stream' = <<>> => Archive = <<>>)
      BY <3>1, ArchiveTyped, ReadBegins
    <3> QED
      BY <2>1, <2>2, <3>1, <3>2 DEF Judged, Early, Verdicts
  <2> QED
    BY <2>4, <2>5, <2>6
<1>5. CASE ReadEntry
  <2>1. /\ phase \in {"read", "download"} /\ UNCHANGED <<rules, query, setup, request, stream>>
        /\ ~AtEnd
    BY <1>5 DEF ReadEntry, vars
  <2>2. CASE phase = "download"
    <3>1. phase' \in {"download", "refused"} /\ UNCHANGED reply
      BY <1>5, <2>2 DEF ReadEntry, Refuse
    <3> QED
      BY <2>1, <2>2, <3>1, AnswerStands DEF Reading
  <2>3. CASE phase = "read" /\ Passes(stream[pos])
    <3>1. /\ phase' = phase /\ reply' = reply /\ pos' = pos + 1
          /\ files' = IF stream[pos].type = "reg"
                      THEN files \cup {File(CleanPath(stream[pos].name), stream[pos].data)}
                      ELSE files
      BY <1>5, <2>3 DEF ReadEntry
    <3>2. ReadSoFar'
      BY <2>1, <2>3, <3>1, ReadGoesOn DEF Judged
    <3>3. Admitted' /\ Archive' = Archive
      BY <2>1, <2>3, SameRequest DEF Judged, Reading
    <3> QED
      BY <2>1, <2>3, <3>1, <3>2, <3>3 DEF Judged, Early, Verdicts
  <2>4. CASE phase = "read" /\ ~Passes(stream[pos])
    <3>1. phase' = "answered" /\ reply' = "invalid_request"
      BY <1>5, <2>4 DEF ReadEntry, Refuse, Answer
    <3>2. ReadSoFar
      BY <2>4 DEF Judged
    <3>3. /\ pos - 1 \in 0..Len(stream) /\ (pos - 1) + 1 = pos
          /\ ~Ends(stream, pos - 1) /\ ~Regular(stream, pos)
          /\ stream \in Seq(Entries) /\ Regular(stream, pos - 1)
      BY <2>1, <2>4, <3>2, ReadingPlace, PassesIfRegular DEF ReadSoFar
    <3>4. ~Acceptable(stream, Announced, request.resource.name)
      BY <3>3, VerdictBefore
    <3> QED
      BY <2>1, <2>4, <3>1, <3>4, AnswerIsVerdict
  <2> QED
    BY <2>1, <2>2, <2>3, <2>4
<1>6. CASE EndArchive
  <2>1. /\ phase \in {"read", "download"} /\ AtEnd
        /\ UNCHANGED <<rules, query, setup, request, stream, pos, files>>
    BY <1>6 DEF EndArchive, vars, wireVars
  <2>2. CASE phase = "download"
    <3>1. phase' \in {"verify", "refused"} /\ UNCHANGED reply
      BY <1>6, <2>2 DEF EndArchive, Refuse
    <3> QED
      BY <2>1, <2>2, <3>1, AnswerStands DEF Reading
  <2>3. CASE phase = "read" /\ \E f \in files : f.path = SkillFile
    <3>1. phase' = "check" /\ reply' = reply
      BY <1>6, <2>3 DEF EndArchive
    <3>2. ReadSoFar' /\ AtEnd'
      BY <2>1, <2>3 DEF Judged, ReadSoFar, AtEnd
    <3>3. Admitted' /\ Archive' = Archive
      BY <2>1, <2>3, SameRequest DEF Judged, Reading
    <3> QED
      BY <2>1, <2>3, <3>1, <3>2, <3>3 DEF Judged, Early, Verdicts
  <2>4. CASE phase = "read" /\ ~\E f \in files : f.path = SkillFile
    <3>1. phase' = "answered" /\ reply' = "invalid_request"
      BY <1>6, <2>4 DEF EndArchive, Refuse, Answer
    <3>2. ReadSoFar
      BY <2>4 DEF Judged
    <3>3. /\ pos - 1 \in 0..Len(stream) /\ Ends(stream, pos - 1)
          /\ stream \in Seq(Entries) /\ Regular(stream, pos - 1)
          /\ files = FilesOf(stream, pos - 1)
      BY <2>1, <3>2, ReadingPlace DEF ReadSoFar
    <3>4. CutBetween(stream) \/ ~Acceptable(stream, Announced, request.resource.name)
      BY <2>4, <3>3, VerdictAtTheEnd
    <3> QED
      BY <2>1, <2>4, <3>1, <3>4, AnswerIsVerdict
  <2> QED
    BY <2>1, <2>2, <2>3, <2>4
<1>7. CASE Check
  <2>1. /\ phase = "check" /\ phase' = "answered"
        /\ UNCHANGED <<rules, query, setup, request, stream>>
    BY <1>7 DEF Check, vars, wireVars, Answer
  <2> DEFINE doc == Document[DataAt(files, SkillFile)]
  <2>2. /\ reply' \in {"invalid_request", "digest_mismatch", "created"}
        /\ reply' = "created" <=> /\ DigestIsExpected
                                  /\ Parses(doc) /\ doc.name = query.resource.name
    BY <1>7 DEF Check, Answer
  <2>3. query.resource = request.resource
    BY DEF Asked
  <2>4. ReadSoFar /\ AtEnd /\ \E f \in files : f.path = SkillFile
    BY <2>1 DEF Judged
  <2>5. /\ pos - 1 \in 0..Len(stream) /\ Ends(stream, pos - 1)
        /\ stream \in Seq(Entries) /\ Regular(stream, pos - 1)
        /\ files = FilesOf(stream, pos - 1)
    BY <2>4, ReadingPlace DEF ReadSoFar
  <2>6. ~CutBetween(stream) =>
          (Acceptable(stream, Announced, request.resource.name) <=>
          /\ \E f \in files : f.path = SkillFile
          /\ Announced \in {NoDigest, Digest(files)}
          /\ Parses(doc) /\ doc.name = request.resource.name)
    BY <2>5, VerdictAtTheEnd
  <2>7. CutBetween(stream) \/ (reply' = "created" <=>
                                Acceptable(stream, Announced, request.resource.name))
    BY <2>2, <2>3, <2>4, <2>6 DEF DigestIsExpected
  <2> QED
    BY <2>1, <2>2, <2>7, AnswerIsVerdict
<1>8. CASE Download \/ Verify
  <2>1. /\ phase \in Reading \/ (phase = "answered" /\ reply = "created")
        /\ phase' \in {"download", "verify", "fetched", "refused"}
        /\ UNCHANGED <<rules, query, setup, request, reply>>
    BY <1>8 DEF Download, Verify, Begin, vars, Reading
  <2> QED
    BY <2>1, AnswerStands
<1>9. CASE UNCHANGED publishVars
  <2>1. UNCHANGED <<rules, query, setup, request, phase, reply, stream, pos, files>>
    BY <1>9 DEF publishVars, requestVars, wireVars, vars
  <2>2. Admitted' = Admitted /\ Archive' = Archive /\ Announced' = Announced
    BY <2>1, SameRequest
  <2>3. Permits(rules, query)' <=> Permits(rules, query)
    BY <2>1, SameQuestion
  <2>4. /\ ReadSoFar' <=> ReadSoFar
        /\ AtEnd' <=> AtEnd
        /\ CreatedIfAcceptable' <=> CreatedIfAcceptable
    BY <2>1, <2>2, <2>3 DEF ReadSoFar, AtEnd, CreatedIfAcceptable
  <2> QED
    BY <2>1, <2>2, <2>3, <2>4 DEF Judged
<1> QED
  BY <1>1, <1>2, <1>3, <1>4, <1>5, <1>6, <1>7, <1>8, <1>9 DEF PublishNext

\* For every setup, policy, token and archive, and whatever the network makes
\* of it: a version is created exactly when the caller's token makes a
\* principal who may publish it and all that arrived is a valid bundle of that
\* name and of the digest that was sent with it, unless the bound on what is
\* decompressed falls between two of its entries, where the code does not keep
\* to it (server.go:99-113, 351-367, registry.go:87-119, bundle.go:87-158).
THEOREM ExactlyTheAdmissible == PublishSpec => []CreatedExactlyIfAdmissible
<1>1. Asked /\ Judged => CreatedExactlyIfAdmissible
  <2> SUFFICES ASSUME Asked, Judged PROVE CreatedExactlyIfAdmissible
    OBVIOUS
  <2>1. reply \in Verdicts => Principal # NoOne /\ (reply = "forbidden" <=> ~Permits(rules, query))
    BY DEF Judged, Admitted
  <2>2. phase = "answered" => CreatedIfAcceptable
    BY DEF Judged
  <2> QED
    BY <2>1, <2>2 DEF CreatedExactlyIfAdmissible, CreatedIfAcceptable, Acceptable, Admitted, Verdicts
<1> QED
  BY GuardedInit, GuardedStep, AskedInit, AskedStep, JudgedInit, JudgedStep, <1>1, PTL
  DEF PublishSpec

-----------------------------------------------------------------------------
(* Sending files.                                                          *)

\* Files within the limits of a bundle, at safe paths.
WithinLimits(fs) ==
  /\ \A f \in fs : CleanPath(f.path) # Unsafe /\ Size[f.data] <= Limits.file
  /\ Total(fs) <= Limits.total /\ Cardinality(fs) <= Limits.files

ReadsAs(fs, name) ==
  /\ \E f \in fs : f.path = SkillFile
  /\ LET doc == Document[DataAt(fs, SkillFile)] IN Parses(doc) /\ doc.name = name

\* What is not Unsafe has been checked segment by segment.
LEMMA CleanPathFacts ==
  ASSUME NEW p \in Paths
  PROVE  /\ CleanPath(p) \in Paths
         /\ \A i \in DOMAIN CleanPath(p) : CleanPath(p)[i] \notin {"", ".", ".."} \cup Forbidden
         /\ CleanPath(CleanPath(p)) \in {CleanPath(p), Unsafe}
<1> DEFINE q == IF Len(p) > 1 /\ p[1] = "." THEN Tail(p) ELSE p
           safe(r) == \A i \in DOMAIN r : r[i] \notin {"", ".", ".."} \cup Forbidden
<1>1. q \in Paths /\ Unsafe \in Paths /\ safe(Unsafe)
  <2>1. Len(p) > 1 => Tail(p) \in Seq(STRING)
    BY HeadTailProperties, EmptySeq DEF Paths
  <2>2. Unsafe \in Seq(STRING) /\ DOMAIN Unsafe = {}
    BY DEF Unsafe
  <2> QED
    BY <2>1, <2>2 DEF Paths
<1>2. CleanPath(p) = IF safe(q) THEN q ELSE Unsafe
  BY DEF CleanPath
<1> HIDE DEF q
<1>3. CleanPath(p) \in Paths /\ safe(CleanPath(p))
  BY <1>1, <1>2
<1>4. ASSUME NEW r \in Paths, safe(r) PROVE CleanPath(r) \in {r, Unsafe}
  <2>1. Len(r) \in Nat /\ DOMAIN r = 1..Len(r)
    BY LenProperties DEF Paths
  <2>2. Len(r) > 1 => r[1] # "."
    <3>1. Len(r) > 1 => 1 \in DOMAIN r
      BY <2>1
    <3> QED
      BY <1>4, <3>1, Zenon
  <2> QED
    BY <2>2 DEF CleanPath
<1> HIDE DEF safe
<1>5. CleanPath(CleanPath(p)) \in {CleanPath(p), Unsafe}
  BY <1>3, <1>4
<1> QED
  BY <1>3, <1>5 DEF safe

\* Every archive that could be read holds files that can be sent.
LEMMA ReadIsPlain ==
  ASSUME ReadSoFar
  PROVE  PlainFiles(files) /\ WithinLimits(files)
<1> DEFINE m == pos - 1
<1>1. /\ m \in 0..Len(stream) /\ stream \in Seq(Entries)
      /\ Regular(stream, m) /\ files = FilesOf(stream, m)
  BY ReadingPlace DEF ReadSoFar
<1> HIDE DEF m
<1>2. /\ IsFiniteSet(files) /\ Cardinality(files) = Cardinality(Regs(stream, m))
      /\ Total(files) = SumOver(Sizes(stream), Regs(stream, m))
  BY <1>1, FilesFacts
<1>3. ASSUME NEW f \in files
      PROVE  /\ f \in BundleFiles
             /\ \E i \in Regs(stream, m) : f.path = CleanPath(stream[i].name) /\ f.data = stream[i].data
  <2>1. PICK i \in Regs(stream, m) :
          f = [path |-> CleanPath(stream[i].name), data |-> stream[i].data]
    BY <1>1 DEF FilesOf, EntryFile, File
  <2>2. stream[i].name \in Paths /\ stream[i].data \in Contents
    BY <1>1, EntryFacts, RegsFacts DEF Paths
  <2>3. CleanPath(stream[i].name) \in Paths
    BY <2>2, CleanPathFacts
  <2>4. f.path = CleanPath(stream[i].name) /\ f.data = stream[i].data
    BY <2>1
  <2>5. \A p \in Paths, c \in Contents : [path |-> p, data |-> c] \in BundleFiles
    BY DEF BundleFiles
  <2> QED
    BY <2>1, <2>2, <2>3, <2>4, <2>5
<1>4. ASSUME NEW f \in files, NEW g \in files, f.path = g.path PROVE f = g
  <2>1. PICK i \in Regs(stream, m) : f.path = CleanPath(stream[i].name) /\ f.data = stream[i].data
    BY <1>3
  <2>2. PICK j \in Regs(stream, m) : g.path = CleanPath(stream[j].name) /\ g.data = stream[j].data
    BY <1>3
  <2>3. i = j
    BY <1>1, <1>4, <2>1, <2>2 DEF Regular
  <2>4. f.data = g.data
    BY <2>1, <2>2, <2>3
  <2> QED
    BY <1>3, <1>4, <2>4 DEF BundleFiles
<1>5. ASSUME NEW f \in files
      PROVE  /\ CleanPath(f.path) \in {f.path, Unsafe}
             /\ CleanPath(f.path) # Unsafe /\ Size[f.data] <= Limits.file
  <2>1. PICK i \in Regs(stream, m) : f.path = CleanPath(stream[i].name) /\ f.data = stream[i].data
    BY <1>3
  <2>2. stream[i].name \in Paths
    BY <1>1, EntryFacts, RegsFacts DEF Paths
  <2>3. CleanPath(f.path) \in {f.path, Unsafe}
    BY <2>1, <2>2, CleanPathFacts
  <2>4. f.path # Unsafe /\ Size[f.data] <= Limits.file
    BY <1>1, <2>1 DEF Regular
  <2>5. /\ f.path \in Paths
        /\ \A j \in DOMAIN f.path : f.path[j] \notin {"", ".", ".."} \cup Forbidden
    BY <2>1, <2>2, CleanPathFacts
  <2>6. Len(f.path) > 1 => f.path[1] # "."
    <3>1. Len(f.path) \in Nat /\ DOMAIN f.path = 1..Len(f.path)
      BY <2>5, LenProperties DEF Paths
    <3>2. Len(f.path) > 1 => 1 \in DOMAIN f.path
      BY <3>1
    <3> QED
      BY <2>5, <3>2, Zenon
  <2>7. CleanPath(f.path) = f.path
    BY <2>5, <2>6 DEF CleanPath
  <2> QED
    BY <2>3, <2>4, <2>7
<1> QED
  BY <1>1, <1>2, <1>3, <1>4, <1>5 DEF PlainFiles, WithinLimits, Regular

\* Files within the limits make a regular archive, whatever their order, and
\* are read from it again.
LEMMA EncodedIsRegular ==
  ASSUME NEW G, PlainFiles(G), WithinLimits(G)
  PROVE  /\ Encode(G) \in Seq(Entries) /\ Len(Encode(G)) = Cardinality(G)
         /\ Cardinality(G) \in 0..Len(Encode(G))
         /\ Regular(Encode(G), Cardinality(G)) /\ FilesOf(Encode(G), Cardinality(G)) = G
<1> DEFINE n == Cardinality(G)
           a == Encode(G)
           g == [f \in G |-> Size[f.data]]
           b == [i \in 1..n |-> [path |-> a[i].name, data |-> a[i].data]]
<1>1. /\ IsFiniteSet(G) /\ G \subseteq BundleFiles
      /\ \A f, h \in G : f.path = h.path => f = h
      /\ \A f \in G : CleanPath(f.path) = f.path /\ f.path # Unsafe
  BY DEF PlainFiles, WithinLimits
<1>2. n \in Nat
  BY <1>1, FS_CardinalityType
<1>3. /\ a \in Seq(Entries) /\ Len(a) = n
      /\ \A i \in 1..n : a[i].type = "reg" /\ [path |-> a[i].name, data |-> a[i].data] \in G
      /\ \A f \in G : \E i \in 1..n : a[i].name = f.path /\ a[i].data = f.data
      /\ \A i, j \in 1..n : a[i].name = a[j].name /\ a[i].data = a[j].data => i = j
  BY <1>1, EncodeFacts
<1>4. G = {b[i] : i \in 1..n}
  <2>1. \A f \in G : f = [path |-> f.path, data |-> f.data]
    BY <1>1 DEF BundleFiles
  <2> QED
    BY <1>3, <2>1
<1>5. \A i \in 1..n : /\ b[i] \in G /\ b[i].path = a[i].name /\ b[i].data = a[i].data
                      /\ b[i] = [path |-> a[i].name, data |-> a[i].data]
  BY <1>3
<1> HIDE DEF n, a, b
<1>6. Regs(a, n) = 1..n /\ n \in 0..Len(a)
  <2>1. \A i \in 1..n : a[i].type = "reg"
    BY <1>3
  <2>2. Len(a) = n
    BY <1>3
  <2> QED
    BY <1>2, <2>1, <2>2 DEF Regs
<1>7. \A i, j \in 1..n : b[i] = b[j] => i = j
  <2> SUFFICES ASSUME NEW i \in 1..n, NEW j \in 1..n, b[i] = b[j] PROVE i = j
    OBVIOUS
  <2>1. a[i].name = a[j].name /\ a[i].data = a[j].data
    BY <1>5
  <2> QED
    BY <1>3, <2>1
<1>8. SumOver(Sizes(a), Regs(a, n)) = Total(G)
  <2>1. ASSUME NEW i \in 1..n PROVE Sizes(a)[i] = g[b[i]] /\ Sizes(a)[i] \in Nat
    <3>1. i \in 1..Len(a) /\ a \in Seq(Entries)
      BY <1>3
    <3>2. Sizes(a)[i] = Size[a[i].data] /\ Sizes(a)[i] \in Nat
      BY <3>1, EntryFacts
    <3>3. b[i] \in G /\ b[i].data = a[i].data
      BY <1>5
    <3> QED
      BY <3>2, <3>3
  <2> DEFINE R == Regs(a, n)
  <2>2. R = 1..n /\ IsFiniteSet(R)
    BY <1>6, <1>3, RegsFacts
  <2> HIDE DEF g, R
  <2>3. /\ \A i \in R : Sizes(a)[i] = g[b[i]] /\ Sizes(a)[i] \in Nat
        /\ \A i, j \in R : b[i] = b[j] => i = j
    BY <1>7, <2>1, <2>2
  <2>4. SumOver(Sizes(a), R) = SumOver(g, {b[i] : i \in R})
    <3>1. IsFiniteSet(R)
      BY <2>2
    <3> QED
      BY <2>3, <3>1, SumIsRenamed
  <2>5. {b[i] : i \in R} = G
    BY <1>4, <2>2
  <2> QED
    BY <2>4, <2>5 DEF Total, g, R
<1>9. Cardinality(Regs(a, n)) = n
  BY <1>2, <1>6, FS_Interval
<1>10. Held(a, n) <= Bound
  <2>1. EntrySize * n <= EntrySize * Limits.files /\ EntrySize * n \in Nat
    BY <1>2, TimesGrows, LimitFacts DEF WithinLimits, n
  <2>2. EntrySize * Limits.files <= Allowance
    BY BundleAssumption
  <2>3. EntrySize * Limits.files \in Nat /\ Total(G) \in Nat /\ Total(G) <= Limits.total
    BY <1>3, <1>6, <1>8, RegsFacts, LimitFacts, TimesGrows DEF WithinLimits
  <2> QED
    BY <1>8, <2>1, <2>2, <2>3, LimitFacts DEF Held, Bound
<1>11. ASSUME NEW i \in 1..n
       PROVE  /\ CleanPath(a[i].name) = a[i].name /\ a[i].name # Unsafe
              /\ Size[a[i].data] <= Limits.file
  <2>1. b[i] \in G /\ b[i].path = a[i].name /\ b[i].data = a[i].data
    BY <1>5
  <2>2. CleanPath(b[i].path) = b[i].path /\ b[i].path # Unsafe /\ Size[b[i].data] <= Limits.file
    BY <1>1, <2>1 DEF WithinLimits
  <2> QED
    BY <2>1, <2>2
<1>12. ASSUME NEW i \in 1..n, NEW j \in 1..n, a[i].name = a[j].name PROVE i = j
  <2>1. b[i] \in G /\ b[j] \in G /\ b[i].path = b[j].path
    BY <1>5, <1>12
  <2>2. b[i] = b[j]
    BY <1>1, <2>1
  <2> QED
    BY <1>7, <2>2
<1>13. Regular(a, n)
  <2>1. /\ \A i \in 1..n : a[i].type = "reg"
        /\ \A i \in Regs(a, n) : CleanPath(a[i].name) # Unsafe /\ Size[a[i].data] <= Limits.file
        /\ \A i, j \in Regs(a, n) : CleanPath(a[i].name) = CleanPath(a[j].name) => i = j
    <3>1. \A i \in 1..n : CleanPath(a[i].name) = a[i].name /\ a[i].name # Unsafe
                          /\ Size[a[i].data] <= Limits.file
      BY <1>11
    <3>2. \A i, j \in 1..n : a[i].name = a[j].name => i = j
      BY <1>12
    <3>3. \A i \in 1..n : a[i].type = "reg"
      BY <1>3
    <3>4. \A i \in Regs(a, n) : i \in 1..n
      BY <1>6
    <3> QED
      BY <3>1, <3>2, <3>3, <3>4
  <2>2. n <= Limits.files /\ Total(G) <= Limits.total
    BY DEF WithinLimits, n
  <2> QED
    BY <1>8, <1>9, <1>10, <2>1, <2>2 DEF Regular
<1>14. FilesOf(a, n) = G
  <2>1. \A i \in 1..n : EntryFile(a[i]) = b[i]
    BY <1>5, <1>11 DEF EntryFile, File
  <2> QED
    BY <1>4, <1>6, <2>1 DEF FilesOf
<1> QED
  BY <1>3, <1>6, <1>13, <1>14 DEF n, a

\* So a reader of what was sent neither refuses nor misses any of it.
LEMMA SentIsRead ==
  ASSUME NEW G, PlainFiles(G), WithinLimits(G), ReadSoFar, stream = Encode(G)
  PROVE  IF AtEnd THEN files = G ELSE Passes(stream[pos])
<1> DEFINE n == Cardinality(G)
           m == pos - 1
<1>1. /\ stream \in Seq(Entries) /\ Len(stream) = n /\ n \in 0..Len(stream) /\ n \in Nat
      /\ Regular(stream, n) /\ FilesOf(stream, n) = G
  BY EncodedIsRegular
<1>2. /\ m \in 0..n /\ files = FilesOf(stream, m) /\ (AtEnd <=> Ends(stream, m))
      /\ m + 1 = pos /\ (~AtEnd => pos \in 0..n)
  BY <1>1, ReadingPlace DEF ReadSoFar
<1> HIDE DEF n, m
<1>3. CASE AtEnd
  <2>1. ASSUME m # n PROVE FALSE
    <3>1. Held(stream, m) < Held(stream, n)
      BY <1>1, <1>2, <2>1, HeldGrows
    <3>2. Held(stream, m) = Bound /\ Held(stream, n) <= Bound
      BY <1>1, <1>2, <1>3, <2>1 DEF Ends, Regular
    <3> QED
      BY <1>1, <3>1, <3>2, RegsFacts, LimitFacts
  <2> QED
    BY <1>1, <1>2, <1>3, <2>1
<1>4. CASE ~AtEnd
  <2>1. Regular(stream, pos)
    BY <1>1, <1>2, <1>4, RegularShrinks
  <2> QED
    BY <1>4, <2>1, PassesIfRegular
<1> QED
  BY <1>3, <1>4

\* Equal digests, equal files.
LEMMA DigestTells ==
  ASSUME NEW F, NEW G, F \subseteq BundleFiles, G \subseteq BundleFiles, Digest(F) = Digest(G)
  PROVE  F = G
<1>1. ASSUME NEW A, NEW B, A \subseteq BundleFiles, B \subseteq BundleFiles,
             Digest(A) = Digest(B), NEW f \in A
      PROVE  f \in B
  <2>1. <<f.path, f.data>> \in Digest(B)
    BY <1>1 DEF Digest
  <2>2. PICK g \in B : <<f.path, f.data>> = <<g.path, g.data>>
    BY <2>1 DEF Digest
  <2>3. f.path = g.path /\ f.data = g.data
    BY <2>2
  <2>4. f = g
    BY <1>1, <2>3 DEF BundleFiles
  <2> QED
    BY <2>4
<1> QED
  BY <1>1

\* What a folder gives as a source, in terms of what is sent of it.
LEMMA SourceIs ==
  ASSUME NEW folder, NEW name
  PROVE  IF /\ NoLinks(folder) /\ WithinLimits(Packed(folder))
            /\ ReadsAs(Packed(folder), name)
         THEN Resolved(folder, name) = Packed(folder) /\ Packed(folder) # {}
         ELSE Resolved(folder, name) = {}
<1> DEFINE G == Packed(folder)
           ok == NoLinks(folder) /\ WithinLimits(G) /\ \E f \in G : f.path = SkillFile
<1>1. ReadSkillDir(folder) = IF ok THEN G ELSE {}
  BY DEF ReadSkillDir, WithinLimits, Packed
<1> HIDE DEF G
<1>2. ok => G # {}
  OBVIOUS
<1>3. CASE ok
  BY <1>1, <1>2, <1>3 DEF Resolved, ReadsAs, G
<1>4. CASE ~ok
  BY <1>1, <1>4 DEF Resolved, ReadsAs, G
<1> QED
  BY <1>3, <1>4

Source == Resolved(request.folder, request.resource.name)

FolderIsSent ==
  /\ phase = "unsent" => request.packs /\ ~NoLinks(request.folder)
  /\ phase \notin {"start", "exit", "send", "unsent"} /\ request.packs => NoLinks(request.folder)

\* What is stored can be sent again.
StoredIsSound ==
  reply = "created" =>
    /\ PlainFiles(stored.files) /\ WithinLimits(stored.files)
    /\ ReadsAs(stored.files, request.resource.name)
    /\ stored.digest = Digest(stored.files)
    /\ Announced \in {NoDigest, stored.digest}

\* Unless it was altered, what arrives is what was sent.
Unaltered ==
  /\ faults \in Nat
  /\ phase \in {"read", "check"} /\ faults = 0 => stream = Archive
  /\ phase \in {"download", "verify"} => ReadSoFar
  /\ phase \in {"download", "verify"} /\ faults = 0 => stream = Encode(stored.files)
  /\ phase \in {"download", "verify", "fetched", "refused"} => reply = "created"
  /\ phase = "verify" => AtEnd
  /\ phase = "fetched" => Digest(files) = stored.digest /\ files \subseteq BundleFiles
  /\ phase = "refused" => faults > 0

Publishable == Source # {} /\ request.size <= MaxBody

NotTaken == {"payload_too_large", "invalid_request", "digest_mismatch"}

RefusedNotPublishable ==
  reply \in NotTaken /\ request.packs /\ request.named /\ faults = 0 => ~Publishable

Kept == FolderIsSent /\ StoredIsSound /\ Unaltered /\ RefusedNotPublishable

LEMMA KeptInit == PublishInit => Kept
BY DEF PublishInit, Kept, FolderIsSent, StoredIsSound, Unaltered, RefusedNotPublishable, NotTaken

\* A step before the answer that begins or ends nothing that is read.
LEMMA KeptBefore ==
  ASSUME Kept, UNCHANGED <<request, faults>>, FolderIsSent',
         phase' \notin {"read", "check", "download", "verify", "fetched", "refused"},
         reply' # "created",
         reply' \in NotTaken /\ request.packs /\ request.named /\ faults = 0 => ~Publishable
  PROVE  Kept'
<1>1. StoredIsSound' /\ Unaltered'
  BY DEF Kept, StoredIsSound, Unaltered
<1>2. Source' = Source /\ (Publishable' <=> Publishable)
  BY DEF Source, Publishable
<1>3. RefusedNotPublishable'
  BY <1>2 DEF RefusedNotPublishable
<1> QED
  BY <1>1, <1>3 DEF Kept

\* A step of the client, after the answer.
LEMMA KeptAfter ==
  ASSUME Kept, UNCHANGED <<request, reply, stored>>, reply = "created",
         phase # "unsent" /\ phase \notin {"start", "exit", "send"},
         phase' \in {"download", "verify", "fetched", "refused"}, Unaltered'
  PROVE  Kept'
<1>1. Announced' = Announced
  BY SameAnnounced
<1>2. StoredIsSound'
  BY <1>1 DEF Kept, StoredIsSound
<1>3. FolderIsSent' /\ RefusedNotPublishable'
  BY DEF Kept, FolderIsSent, RefusedNotPublishable, NotTaken
<1> QED
  BY <1>2, <1>3 DEF Kept

\* What the server reads of a folder that was packed.
LEMMA FolderIsRead ==
  ASSUME Asked, Kept, ReadSoFar, phase \in {"read", "check"}, faults = 0, request.packs,
         Source # {}
  PROVE  LET G == Packed(request.folder)
         IN /\ ReadsAs(G, request.resource.name) /\ Announced = Digest(G)
            /\ IF AtEnd THEN files = G ELSE Passes(stream[pos])
<1> DEFINE G == Packed(request.folder)
<1>1. PlainFiles(G)
  BY PackedIsPlain DEF Asked
<1>2. WithinLimits(G) /\ ReadsAs(G, request.resource.name)
  BY SourceIs DEF Source
<1>3. stream = Encode(G) /\ Announced = Digest(G)
  BY DEF Kept, Unaltered, Archive, Announced
<1> HIDE DEF G
<1>4. IF AtEnd THEN files = G ELSE Passes(stream[pos])
  BY <1>1, <1>2, <1>3, SentIsRead
<1> QED
  BY <1>2, <1>3, <1>4 DEF G

\* What the client reads of what is stored.
LEMMA StoredIsRead ==
  ASSUME Kept, phase \in {"download", "verify"}, faults = 0
  PROVE  IF AtEnd THEN files = stored.files ELSE Passes(stream[pos])
<1>1. /\ PlainFiles(stored.files) /\ WithinLimits(stored.files)
      /\ ReadSoFar /\ stream = Encode(stored.files)
  BY DEF Kept, StoredIsSound, Unaltered
<1> QED
  BY <1>1, SentIsRead

LEMMA KeptStep ==
  ASSUME Asked, Judged, Kept, [PublishNext]_publishVars
  PROVE  Kept'
<1>0. faults \in Nat
  BY DEF Kept, Unaltered
<1>1. CASE Serve \/ Send
  <2>1. /\ UNCHANGED <<request, faults, reply>> /\ phase \in Early
        /\ phase' \in {"send", "exit", "authenticate", "unsent"}
        /\ phase' = "unsent" => request.packs /\ ~NoLinks(request.folder)
        /\ phase' = "authenticate" /\ request.packs => NoLinks(request.folder)
    BY <1>1 DEF Serve, Send, Early
  <2>2. reply = "none"
    BY <2>1 DEF Judged
  <2>3. FolderIsSent'
    BY <2>1 DEF FolderIsSent
  <2> QED
    BY <2>1, <2>2, <2>3, KeptBefore DEF NotTaken
<1>2. CASE Authenticate
  <2>1. /\ UNCHANGED <<request, faults>> /\ phase = "authenticate"
        /\ phase' \in {"answered", "decide"} /\ reply = "none"
    BY <1>2 DEF Authenticate, Answer, Judged, Early
  <2>2. /\ reply' \in {"none", "unauthenticated", "payload_too_large", "invalid_request"}
        /\ reply' = "invalid_request" => ~request.named
        /\ reply' = "payload_too_large" => request.size > MaxBody
    BY <1>2, <2>1 DEF Authenticate, Answer
  <2>4. reply' = "payload_too_large" => ~Publishable
    BY <2>2, PosedFacts DEF Asked, Publishable
  <2>3. FolderIsSent'
    BY <2>1 DEF FolderIsSent, Kept
  <2> QED
    BY <2>1, <2>2, <2>3, <2>4, KeptBefore DEF NotTaken
<1>3. CASE Decide
  <2>1. UNCHANGED <<request, faults, phase, reply>> /\ phase = "decide"
    BY <1>3 DEF Decide, requestVars
  <2>2. reply = "none"
    BY <2>1 DEF Judged
  <2>3. FolderIsSent'
    BY <2>1 DEF FolderIsSent, Kept
  <2> QED
    BY <2>1, <2>2, <2>3, KeptBefore DEF NotTaken
<1>4. CASE Proceed
  <2>1. /\ phase = "decide" /\ UNCHANGED <<request, stored>> /\ reply = "none"
        /\ request.packs => NoLinks(request.folder)
    BY <1>4 DEF Proceed, Judged, Kept, FolderIsSent
  <2>2. CASE phase' = "answered" /\ reply' \in {"forbidden", "allowed"} /\ UNCHANGED faults
    <3>1. FolderIsSent'
      BY <2>1, <2>2 DEF FolderIsSent
    <3> QED
      BY <2>1, <2>2, <3>1, KeptBefore DEF NotTaken
  <2>3. CASE Begin("read", Archive) /\ UNCHANGED reply
    <3>1. phase' = "read" /\ faults' \in Nat /\ (faults' = 0 => stream' = Archive)
      BY <1>0, <2>3 DEF Begin, Arrives
    <3>2. Archive' = Archive
      BY <2>1 DEF Archive
    <3> QED
      BY <2>1, <2>3, <3>1, <3>2
      DEF Kept, FolderIsSent, StoredIsSound, Unaltered, RefusedNotPublishable, NotTaken
  <2> QED
    BY <1>4, <2>2, <2>3 DEF Proceed, Answer
<1>5. CASE ReadEntry
  <2>1. /\ phase \in {"read", "download"} /\ ~AtEnd
        /\ UNCHANGED <<request, stream, stored, faults>>
    BY <1>5 DEF ReadEntry
  <2>2. ReadSoFar
    BY <2>1 DEF Judged, Kept, Unaltered
  <2>3. CASE Passes(stream[pos])
    <3>1. /\ phase' = phase /\ reply' = reply /\ pos' = pos + 1
          /\ files' = IF stream[pos].type = "reg"
                      THEN files \cup {File(CleanPath(stream[pos].name), stream[pos].data)}
                      ELSE files
      BY <1>5, <2>3 DEF ReadEntry
    <3>2. ReadSoFar'
      BY <2>1, <2>2, <2>3, <3>1, ReadGoesOn
    <3>3. /\ Archive' = Archive /\ Announced' = Announced
          /\ Publishable' <=> Publishable
      BY <2>1 DEF Archive, Announced, Source, Publishable
    <3>4. FolderIsSent' /\ StoredIsSound' /\ RefusedNotPublishable'
      BY <2>1, <3>1, <3>3 DEF Kept, FolderIsSent, StoredIsSound, RefusedNotPublishable
    <3>5. Unaltered'
      BY <2>1, <3>1, <3>2, <3>3 DEF Kept, Unaltered
    <3> QED
      BY <3>4, <3>5 DEF Kept
  <2>4. CASE phase = "read" /\ ~Passes(stream[pos])
    <3>1. phase' = "answered" /\ reply' = "invalid_request"
      BY <1>5, <2>4 DEF ReadEntry, Refuse, Answer
    <3>2. faults = 0 /\ request.packs => Source = {}
      BY <2>1, <2>2, <2>4, FolderIsRead
    <3>3. FolderIsSent'
      BY <2>1, <2>4, <3>1 DEF Kept, FolderIsSent
    <3> QED
      BY <2>1, <3>1, <3>2, <3>3, KeptBefore DEF Publishable, NotTaken
  <2>5. CASE phase = "download" /\ ~Passes(stream[pos])
    <3>1. phase' = "refused" /\ UNCHANGED reply /\ reply = "created"
      BY <1>5, <2>5 DEF ReadEntry, Refuse, Kept, Unaltered
    <3>2. faults # 0
      BY <2>1, <2>5, StoredIsRead
    <3>3. Unaltered'
      BY <1>0, <2>1, <3>1, <3>2 DEF Unaltered
    <3> QED
      BY <2>1, <2>5, <3>1, <3>3, KeptAfter
  <2> QED
    BY <2>1, <2>3, <2>4, <2>5
<1>6. CASE EndArchive
  <2>1. /\ phase \in {"read", "download"} /\ AtEnd
        /\ UNCHANGED <<request, stream, pos, files, stored, faults>>
    BY <1>6 DEF EndArchive, wireVars
  <2>2. ReadSoFar
    BY <2>1 DEF Judged, Kept, Unaltered
  <2>3. /\ ReadSoFar' /\ AtEnd' /\ Archive' = Archive /\ Announced' = Announced
        /\ Publishable' <=> Publishable
    BY <2>1, <2>2 DEF ReadSoFar, AtEnd, Archive, Announced, Source, Publishable
  <2>4. CASE phase = "read" /\ \E f \in files : f.path = SkillFile
    <3>1. phase' = "check" /\ reply' = reply
      BY <1>6, <2>4 DEF EndArchive
    <3> QED
      BY <2>1, <2>3, <2>4, <3>1
      DEF Kept, FolderIsSent, StoredIsSound, Unaltered, RefusedNotPublishable, NotTaken
  <2>5. CASE phase = "read" /\ ~\E f \in files : f.path = SkillFile
    <3>1. phase' = "answered" /\ reply' = "invalid_request"
      BY <1>6, <2>5 DEF EndArchive, Refuse, Answer
    <3>2. faults = 0 /\ request.packs => Source = {}
      BY <2>1, <2>2, <2>5, FolderIsRead DEF ReadsAs
    <3>3. FolderIsSent'
      BY <2>1, <2>5, <3>1 DEF Kept, FolderIsSent
    <3> QED
      BY <2>1, <3>1, <3>2, <3>3, KeptBefore DEF Publishable, NotTaken
  <2>6. CASE phase = "download"
    <3>1. /\ phase' \in {"verify", "refused"} /\ UNCHANGED reply /\ reply = "created"
          /\ phase' = "refused" => ~\E f \in files : f.path = SkillFile
      BY <1>6, <2>6 DEF EndArchive, Refuse, Kept, Unaltered
    <3>2. faults = 0 => \E f \in files : f.path = SkillFile
      BY <2>1, <2>6, <3>1, StoredIsRead DEF Kept, StoredIsSound, ReadsAs
    <3>3. Unaltered'
      BY <1>0, <2>1, <2>3, <2>6, <3>1, <3>2 DEF Kept, Unaltered
    <3> QED
      BY <2>1, <2>6, <3>1, <3>3, KeptAfter
  <2> QED
    BY <2>1, <2>4, <2>5, <2>6
<1>7. CASE Check
  <2>1. /\ phase = "check" /\ phase' = "answered" /\ UNCHANGED <<request, files, faults>>
        /\ ReadSoFar /\ AtEnd /\ \E f \in files : f.path = SkillFile
    BY <1>7 DEF Check, wireVars, Answer, Judged
  <2>2. query.resource = request.resource
    BY DEF Asked
  <2>3. FolderIsSent'
    BY <2>1 DEF Kept, FolderIsSent
  <2> DEFINE ok == DigestIsExpected /\ ReadsAs(files, request.resource.name)
  <2>4. CASE ok
    <3>1. reply' = "created" /\ stored' = [files |-> files, digest |-> Digest(files)]
      BY <1>7, <2>2, <2>4 DEF Check, Answer, ReadsAs
    <3>2. stored'.files = files /\ stored'.digest = Digest(files)
      BY <3>1
    <3>3. PlainFiles(files) /\ WithinLimits(files)
      BY <2>1, ReadIsPlain
    <3>4. Announced' = Announced
      BY <2>1, SameAnnounced
    <3>5. StoredIsSound'
      BY <2>1, <2>4, <3>2, <3>3, <3>4 DEF StoredIsSound, DigestIsExpected
    <3>6. Unaltered' /\ RefusedNotPublishable'
      BY <1>0, <2>1, <3>1 DEF Unaltered, RefusedNotPublishable, NotTaken
    <3> QED
      BY <2>3, <3>5, <3>6 DEF Kept
  <2>5. CASE ~ok
    <3>1. reply' \in {"invalid_request", "digest_mismatch"}
      BY <1>7, <2>1, <2>2, <2>5 DEF Check, Answer, ReadsAs
    <3>2. faults = 0 /\ request.packs => Source = {}
      BY <2>1, <2>5, FolderIsRead DEF DigestIsExpected
    <3> QED
      BY <2>1, <2>3, <3>1, <3>2, KeptBefore DEF Publishable, NotTaken
  <2> QED
    BY <2>4, <2>5
<1>8. CASE Download
  <2>1. /\ phase = "answered" /\ reply = "created" /\ UNCHANGED <<request, reply, stored>>
        /\ Begin("download", Encode(stored.files))
    BY <1>8 DEF Download
  <2>2. Encode(stored.files) \in Seq(Entries)
    BY <2>1, EncodeFacts DEF Kept, StoredIsSound, PlainFiles
  <2>3. ReadSoFar' /\ phase' = "download"
    BY <2>1, <2>2, ReadBegins
  <2>4. faults' \in Nat /\ (faults' = 0 => stream' = Encode(stored.files))
    BY <1>0, <2>1 DEF Begin, Arrives
  <2>5. Unaltered'
    BY <2>1, <2>3, <2>4 DEF Unaltered
  <2> QED
    BY <2>1, <2>3, <2>5, KeptAfter
<1>9. CASE Verify
  <2>1. /\ phase = "verify" /\ UNCHANGED <<request, reply, stored, files, faults>>
        /\ phase' = IF Digest(files) = stored.digest THEN "fetched" ELSE "refused"
    BY <1>9 DEF Verify, wireVars
  <2>2. reply = "created" /\ ReadSoFar /\ AtEnd /\ stored.digest = Digest(stored.files)
    BY <2>1 DEF Kept, Unaltered, StoredIsSound
  <2>3. faults = 0 => Digest(files) = stored.digest
    BY <2>1, <2>2, StoredIsRead
  <2>4. files \subseteq BundleFiles
    BY <2>2, ReadIsPlain DEF PlainFiles
  <2>5. Unaltered'
    BY <1>0, <2>1, <2>2, <2>3, <2>4 DEF Unaltered
  <2> QED
    BY <2>1, <2>2, <2>5, KeptAfter
<1>10. CASE UNCHANGED publishVars
  <2>1. UNCHANGED <<setup, request, phase, reply, stream, pos, files, stored, faults>>
    BY <1>10 DEF publishVars, requestVars, wireVars
  <2>2. /\ Archive' = Archive /\ Announced' = Announced
        /\ Publishable' <=> Publishable
        /\ ReadSoFar' <=> ReadSoFar
        /\ AtEnd' <=> AtEnd
    BY <2>1 DEF Archive, Announced, Source, Publishable, ReadSoFar, AtEnd
  <2> QED
    BY <2>1, <2>2 DEF Kept, FolderIsSent, StoredIsSound, Unaltered, RefusedNotPublishable, NotTaken
<1> QED
  BY <1>1, <1>2, <1>3, <1>4, <1>5, <1>6, <1>7, <1>8, <1>9, <1>10 DEF PublishNext

\* A caller who may publish can publish a folder exactly when it resolves as a
\* source and its archive is within max_upload_bytes, however far it was
\* compressed, and what a client then downloads unaltered are the files that
\* the folder source gives (dir.go:128-185, main.go:296-328, server.go:353-358,
\* bundle.go:87-158).
THEOREM FolderAndGatewayAgree == PublishSpec => []SourcesAgree
<1>1. Guarded /\ Asked /\ Judged /\ Kept => SourcesAgree
  <2> SUFFICES ASSUME Guarded, Asked, Judged, Kept,
                      request.packs, request.named, faults = 0
               PROVE  /\ phase = "unsent" \/ reply \in NotTaken => ~Publishable
                      /\ reply = "created" => Publishable /\ stored.files = Source
                      /\ phase = "fetched" => files = Source
    BY DEF SourcesAgree, Source, Publishable, NotTaken
  <2> DEFINE G == Packed(request.folder)
  <2>1. PlainFiles(G) /\ Digest(G) # NoDigest
    BY PackedIsPlain, PosedFacts DEF Asked
  <2>2. phase = "unsent" => Source = {}
    BY SourceIs DEF Kept, FolderIsSent, Source
  <2>3. reply \in NotTaken => ~Publishable
    BY DEF Kept, RefusedNotPublishable
  <2>4. ASSUME reply = "created" PROVE stored.files = Source /\ Source # {}
    <3>1. /\ PlainFiles(stored.files) /\ WithinLimits(stored.files)
          /\ ReadsAs(stored.files, request.resource.name)
          /\ Announced \in {NoDigest, Digest(stored.files)}
      BY <2>4 DEF Kept, StoredIsSound
    <3>2. Digest(stored.files) = Digest(G)
      BY <2>1, <3>1 DEF Announced
    <3>3. stored.files = G
      BY <2>1, <3>1, <3>2, DigestTells DEF PlainFiles
    <3>4. NoLinks(request.folder)
      BY <2>4 DEF Guarded, Granted, Kept, FolderIsSent, Early
    <3> QED
      BY <3>1, <3>3, <3>4, SourceIs DEF Source
  <2>5. ASSUME phase = "fetched" PROVE files = Source
    <3>1. /\ reply = "created" /\ Digest(files) = Digest(stored.files)
          /\ files \subseteq BundleFiles /\ stored.files \subseteq BundleFiles
      BY <2>5 DEF Kept, Unaltered, StoredIsSound, PlainFiles
    <3>2. files = stored.files
      BY <3>1, DigestTells
    <3> QED
      BY <2>4, <3>1, <3>2
  <2>6. reply = "created" => request.size <= MaxBody
    BY DEF Judged, Verdicts, Admitted
  <2> QED
    BY <2>2, <2>3, <2>4, <2>5, <2>6 DEF Publishable
<1> QED
  BY GuardedInit, GuardedStep, AskedInit, AskedStep, JudgedInit, JudgedStep,
     KeptInit, KeptStep, <1>1, PTL
  DEF PublishSpec

-----------------------------------------------------------------------------
(* Translating.                                                            *)

\* The segments above a skill's files, none of which is a way out.
Dirs == {".claude", ".agents", ".cursor", ".github", ".gemini", ".kiro", ".windsurf"}
Segments == Dirs \cup {"skills"} \cup SkillNames
Decent == {x \in Segments : x \notin {"", ".", ".."} \cup Forbidden}

LEMMA RootIs ==
  ASSUME NEW format \in DOMAIN Roots
  PROVE  \E u \in Dirs : Roots[format] = <<u, "skills">>
<1>1. format \in {"claude", "codex", "cursor", "copilot", "gemini", "kiro", "windsurf"}
  BY DEF Roots
<1> QED
  BY <1>1 DEF Roots, Dirs

LEMMA Pairs ==
  ASSUME NEW T, NEW x \in T, NEW y \in T
  PROVE  /\ <<x, y>> \in Seq(T) /\ <<x>> \in Seq(T)
         /\ 1 \in DOMAIN <<x, y>> /\ 2 \in DOMAIN <<x, y>>
         /\ <<x, y>>[1] = x /\ <<x, y>>[2] = y
OBVIOUS

LEMMA RootIsDecent ==
  ASSUME NEW format \in DOMAIN Roots
  PROVE  Roots[format] \in Seq(Decent)
<1>1. PICK u \in Dirs : Roots[format] = <<u, "skills">>
  BY RootIs
<1>2. u \notin Forbidden /\ "skills" \notin Forbidden
  <2> DEFINE r == Roots[format]
  <2>1. \A i \in DOMAIN r : r[i] \notin Forbidden
    BY SegmentAssumption
  <2> HIDE DEF r
  <2>2. r = <<u, "skills">>
    BY <1>1 DEF r
  <2> QED
    BY <2>1, <2>2, Pairs
<1>3. \A x \in Dirs \cup {"skills"} : x \notin {"", ".", ".."}
  BY DEF Dirs
<1>4. u \in Decent /\ "skills" \in Decent
  BY <1>2, <1>3 DEF Decent, Segments
<1> QED
  BY <1>1, <1>4, Pairs

\* No part of a list behind another is one that is in neither.
LEMMA JoinedAvoids ==
  ASSUME NEW T, NEW t \in Seq(T), NEW p \in Seq(T), NEW B,
         \A j \in DOMAIN t : t[j] \notin B, \A j \in DOMAIN p : p[j] \notin B
  PROVE  \A i \in DOMAIN (t \o p) : (t \o p)[i] \notin B
<1> DEFINE r == t \o p
           m == Len(t)
           n == Len(p)
<1>1. m \in Nat /\ DOMAIN t = 1..m /\ n \in Nat /\ DOMAIN p = 1..n
  BY LenProperties
<1>2. /\ r \in Seq(T) /\ Len(r) = m + n
      /\ \A j \in 1..(m + n) : r[j] = IF j <= m THEN t[j] ELSE p[j - m]
  BY ConcatProperties
<1>3. DOMAIN r = 1..(m + n)
  BY <1>2, LenProperties
<1> HIDE DEF r, m, n
<1>4. ASSUME NEW i \in 1..(m + n) PROVE r[i] \notin B
  <2>1. CASE i <= m
    <3>1. i \in 1..m /\ r[i] = t[i]
      BY <1>1, <1>2, <2>1
    <3> QED
      BY <1>1, <3>1
  <2>2. CASE ~(i <= m)
    <3>1. i - m \in 1..n /\ r[i] = p[i - m]
      BY <1>1, <1>2, <2>2
    <3> QED
      BY <1>1, <3>1
  <2> QED
    BY <2>1, <2>2
<1>5. \A i \in DOMAIN r : r[i] \notin B
  BY <1>3, <1>4
<1> QED
  BY <1>5 DEF r

\* A format's path of a file: the agent's directory, the skill, the file.
LEMMA PathOfAFile ==
  ASSUME NEW format \in DOMAIN Roots, NEW name \in SkillNames
  PROVE  \A p \in Paths :
           LET at(q) == Roots[format] \o <<name>> \o q
           IN /\ (\A i \in DOMAIN p : p[i] \notin {"", ".", ".."} \cup Forbidden)
                   => \A i \in DOMAIN at(p) : at(p)[i] \notin {"", ".", ".."} \cup Forbidden
              /\ \A q \in Paths : at(q) = at(p) => q = p
<1> DEFINE B == {"", ".", ".."} \cup Forbidden
           T == STRING \cup Segments
           t == Roots[format] \o <<name>>
<1>1. Roots[format] \in Seq(Decent)
  BY RootIsDecent
<1>2. name \in Decent
  <2>1. name \notin {"", ".", ".."} \cup Forbidden
    BY SegmentAssumption
  <2> QED
    BY <2>1 DEF Decent, Segments
<1>3. <<name>> \in Seq(Decent)
  BY <1>2, Pairs
<1>4. t \in Seq(Decent)
  BY <1>1, <1>3, ConcatProperties
<1> HIDE DEF t
<1>5. t \in Seq(T) /\ \A q \in Paths : q \in Seq(T)
  <2>1. Decent \subseteq T
    BY DEF Decent
  <2>2. t \in Seq(T)
    BY <1>4, <2>1, SeqMonotonic
  <2>3. STRING \subseteq T
    OBVIOUS
  <2> HIDE DEF T
  <2>4. \A q \in Seq(STRING) : q \in Seq(T)
    BY <2>3, SeqMonotonic
  <2> QED
    BY <2>2, <2>4 DEF Paths
<1>6. \A i \in DOMAIN t : t[i] \notin B
  <2>1. ASSUME NEW i \in DOMAIN t PROVE t[i] \in Decent
    <3>1. DOMAIN t = 1..Len(t)
      BY <1>4, LenProperties
    <3> QED
      BY <1>4, <3>1, ElementOfSeq
  <2> QED
    BY <2>1 DEF Decent
<1> HIDE DEF T, B
<1>7. ASSUME NEW p \in Paths, \A i \in DOMAIN p : p[i] \notin B
      PROVE  \A i \in DOMAIN (t \o p) : (t \o p)[i] \notin B
  <2>1. p \in Seq(T)
    BY <1>5
  <2> QED
    BY <1>5, <1>6, <1>7, <2>1, JoinedAvoids
<1>8. ASSUME NEW p \in Paths, NEW q \in Paths, t \o q = t \o p PROVE q = p
  BY <1>5, <1>8, ConcatSimplifications
<1> QED
  BY <1>7, <1>8 DEF t, B

\* Every format puts every file that can be sent at a path of its own.
LEMMA TranslateIsSafe ==
  ASSUME NEW G, PlainFiles(G), WithinLimits(G), NEW name \in SkillNames, NEW format \in Formats
  PROVE  LET written == Translate(format, name, G)
         IN /\ \A f \in written : \A i \in DOMAIN f.path :
                 f.path[i] \notin {"", ".", ".."} \cup Forbidden
            /\ format \in DOMAIN Roots =>
                 Cardinality({f.path : f \in written}) = Cardinality(G)
<1>1. CASE format = "cursor-rules"
  <2>1. format \notin DOMAIN Roots
    BY <1>1 DEF Roots
  <2> DEFINE path == <<".cursor", "rules", name \o ".mdc">>
             f == File(path, DataAt(G, SkillFile))
  <2>2. Translate(format, name, G) = {f} /\ f.path = path
    BY <1>1 DEF Translate, File
  <2>3. name \o ".mdc" \notin {"", ".", ".."} \cup Forbidden
    BY SegmentAssumption
  <2>4. ".cursor" \notin {"", ".", ".."} \cup Forbidden /\ "rules" \notin {"", ".", ".."} \cup Forbidden
    BY SegmentAssumption
  <2>5. \A i \in DOMAIN path : path[i] \in {".cursor", "rules", name \o ".mdc"}
    OBVIOUS
  <2> HIDE DEF path, f
  <2>6. \A i \in DOMAIN path : path[i] \notin {"", ".", ".."} \cup Forbidden
    BY <2>3, <2>4, <2>5
  <2> QED
    BY <2>1, <2>2, <2>6
<1>2. CASE format # "cursor-rules"
  <2>1. format \in DOMAIN Roots
    BY <1>2 DEF Formats
  <2> DEFINE at(p) == Roots[format] \o <<name>> \o p
             b == [f \in G |-> at(f.path)]
             written == Translate(format, name, G)
  <2>2. /\ IsFiniteSet(G) /\ G \subseteq BundleFiles
        /\ \A f, h \in G : f.path = h.path => f = h
        /\ \A f \in G : CleanPath(f.path) = f.path
    BY DEF PlainFiles, WithinLimits
  <2>3. ASSUME NEW f \in G
        PROVE  /\ f.path \in Paths
               /\ \A i \in DOMAIN f.path : f.path[i] \notin {"", ".", ".."} \cup Forbidden
    <3>1. f.path \in Paths /\ CleanPath(f.path) = f.path
      BY <2>2 DEF BundleFiles
    <3>2. \A i \in DOMAIN CleanPath(f.path) :
            CleanPath(f.path)[i] \notin {"", ".", ".."} \cup Forbidden
      BY <3>1, CleanPathFacts
    <3> QED
      BY <3>1, <3>2
  <2>4. ASSUME NEW f \in G
        PROVE  /\ \A i \in DOMAIN at(f.path) : at(f.path)[i] \notin {"", ".", ".."} \cup Forbidden
               /\ \A q \in Paths : at(q) = at(f.path) => q = f.path
    BY <2>1, <2>3, PathOfAFile
  <2>5. written = {File(at(f.path), f.data) : f \in G}
    BY <1>2 DEF Translate
  <2>6. \A f \in G : File(at(f.path), f.data).path = at(f.path) /\ b[f] = at(f.path)
    BY DEF File
  <2> HIDE DEF at, written, b
  <2>7. {f.path : f \in written} = {b[f] : f \in G}
    BY <2>5, <2>6
  <2>8. \A f, h \in G : b[f] = b[h] => f = h
    <3> SUFFICES ASSUME NEW f \in G, NEW h \in G, b[f] = b[h] PROVE f = h
      OBVIOUS
    <3>1. at(f.path) = at(h.path) /\ f.path \in Paths
      BY <2>3, <2>6
    <3>2. f.path = h.path
      BY <2>4, <3>1
    <3> QED
      BY <2>2, <3>2
  <2>9. Cardinality({f.path : f \in written}) = Cardinality(G)
    <3>1. Cardinality({b[f] : f \in G}) = Cardinality(G)
      <4>1. IsFiniteSet(G)
        BY <2>2
      <4> QED
        BY <2>8, <4>1, ImageIsFinite
    <3> QED
      BY <2>7, <3>1
  <2>10. ASSUME NEW w \in written, NEW i \in DOMAIN w.path
         PROVE  w.path[i] \notin {"", ".", ".."} \cup Forbidden
    <3>1. PICK f \in G : w.path = at(f.path)
      BY <2>5, <2>6
    <3> QED
      BY <2>4, <2>10, <3>1
  <2> QED
    BY <2>9, <2>10 DEF written
<1> QED
  BY <1>1, <1>2

\* A version that was published can be used: a download that was not altered
\* is accepted, whatever the archive was that was uploaded, and every format
\* puts every file at a path of its own (bundle.go:205-224,
\* translate.go:39-65, server.go:325-344).
THEOREM PublishedStaysUsable == PublishSpec => []PublishedIsUsable
<1>1. Kept => PublishedIsUsable
  <2> SUFFICES ASSUME Kept PROVE PublishedIsUsable
    OBVIOUS
  <2>1. phase = "refused" => faults > 0
    BY DEF Kept, Unaltered
  <2> DEFINE name == request.resource.name
             G == stored.files
  <2>2. reply = "created" =>
          /\ PlainFiles(G) /\ WithinLimits(G)
          /\ Parses(Document[DataAt(G, SkillFile)]) /\ Document[DataAt(G, SkillFile)].name = name
    BY DEF Kept, StoredIsSound, ReadsAs
  <2> HIDE DEF name, G
  <2>3. reply = "created" => name \in SkillNames
    BY <2>2 DEF Parses
  <2>4. reply = "created" => \A format \in Formats :
          LET written == Translate(format, name, G)
          IN /\ \A f \in written : \A i \in DOMAIN f.path :
                  f.path[i] \notin {"", ".", ".."} \cup Forbidden
             /\ format \in DOMAIN Roots =>
                  Cardinality({f.path : f \in written}) = Cardinality(G)
    BY <2>2, <2>3, TranslateIsSafe
  <2> QED
    BY <2>1, <2>2, <2>4 DEF PublishedIsUsable, name, G
<1> QED
  BY GuardedInit, GuardedStep, AskedInit, AskedStep, JudgedInit, JudgedStep,
     KeptInit, KeptStep, <1>1, PTL
  DEF PublishSpec
=============================================================================
