----------------------------- MODULE HookProofs -----------------------------
(***************************************************************************)
(* Theorems about the session hook: module HookRun, for any number of      *)
(* sessions, installs and refs and for every bound, and at the end module  *)
(* HookSettings, for any documents.  What a hypothesis leaves out, TLC     *)
(* refutes: see the README.                                                *)
(***************************************************************************)
EXTENDS HookRun, HookSettings, SequenceTheorems, WellFoundedInduction, TLAPS

-----------------------------------------------------------------------------
(* Types.                                                                  *)

\* What a session syncs from is there: the checkout once the source is open,
\* the content once it is read.
SourceIsOpen == \A s \in Sessions : Kind = "git" /\ pc[s] \in {"peek", "read"} => checkout # None
ContentIsRead == \A s \in Sessions : pc[s] = "write" => got[s] # None

TypeInv == TypeOK /\ SourceIsOpen /\ ContentIsRead

LEMMA RunsAreRecords ==
  ASSUME NEW st \in State, NEW k \in Installs, st[k] # None
  PROVE  st[k] \in Run /\ st[k].fresh \in BOOLEAN /\ st[k].peek \in Content \cup {None}
<1>1. st[k] \in Run
  BY DEF State
<1> QED
  BY <1>1 DEF Run

\* What the passing of an interval does to the records.
LEMMA StaleRecords ==
  ASSUME NEW st \in State, NEW k \in Installs
  PROVE  /\ Stale(st, k) \in State
         /\ \A j \in Installs : Stale(st, k)[j] = None <=> st[j] = None
         /\ \A j \in Installs : j # k => Stale(st, k)[j] = st[j]
         /\ \A j \in Installs : st[j] # None => Stale(st, k)[j].peek = st[j].peek
         /\ st[k] # None => ~Stale(st, k)[k].fresh
<1> DEFINE old == [st[k] EXCEPT !.fresh = FALSE]
           new == IF st[k] = None THEN None ELSE old
<1>1. Stale(st, k) = [st EXCEPT ![k] = new]
  BY DEF Stale
<1>2. ASSUME st[k] # None
      PROVE  old \in Run /\ old.fresh = FALSE /\ old.peek = st[k].peek
  <2>1. st[k] \in Run
    BY <1>2, RunsAreRecords
  <2>2. old \in Run
    BY <2>1 DEF Run
  <2>3. old.fresh = FALSE /\ old.peek = st[k].peek
    BY <2>1 DEF Run
  <2> QED
    BY <2>2, <2>3
<1>3. None \notin Run
  BY HookAssumption
<1> HIDE DEF old
<1>4. new \in Run \cup {None} /\ (new = None <=> st[k] = None)
  BY <1>2, <1>3
<1>5. st[k] # None => new.peek = st[k].peek /\ ~new.fresh
  BY <1>2
<1> HIDE DEF new
<1>6. Stale(st, k) \in State
  BY <1>1, <1>4 DEF State
<1>7. Stale(st, k)[k] = new /\ \A j \in Installs : j # k => Stale(st, k)[j] = st[j]
  BY <1>1 DEF State
<1>8. \A j \in Installs : Stale(st, k)[j] = None <=> st[j] = None
  BY <1>4, <1>7
<1>9. \A j \in Installs : st[j] # None => Stale(st, k)[j].peek = st[j].peek
  BY <1>5, <1>7
<1> QED
  BY <1>5, <1>6, <1>7, <1>8, <1>9

LEMMA SomeInstall == ASSUME NEW s \in Sessions PROVE AnyInstall \in Installs
<1>1. Serves[s] \subseteq Installs /\ Serves[s] # {}
  BY HookAssumption
<1> QED
  BY <1>1 DEF AnyInstall

LEMMA NoStateTyped == NoState \in State
BY DEF NoState, State

LEMMA LoadTyped == ASSUME TypeOK PROVE Load \in State
BY NoStateTyped DEF Load, TypeOK

LEMMA RefTyped == ASSUME TypeOK, NEW s \in Sessions PROVE Ref(s) \in Refs
BY HookAssumption DEF TypeOK, Ref

LEMMA PreviousTyped ==
  ASSUME TypeOK, NEW s \in Sessions PROVE Previous(s) \in Content \cup {None}
<1>1. loaded[s] \in State /\ install[s] \in Installs
  BY DEF TypeOK
<1> QED
  BY <1>1, RunsAreRecords DEF Previous

LEMMA ContactTyped ==
  ASSUME TypeOK, NEW s \in Sessions, Contact(s)
  PROVE  contacts' \in [Installs -> 0..2]
<1>1. contacts \in [Installs -> 0..2] /\ install[s] \in Installs
  BY DEF TypeOK
<1>2. contacts[install[s]] \in 0..2
  BY <1>1
<1>3. (IF contacts[install[s]] < 2 THEN contacts[install[s]] + 1 ELSE contacts[install[s]]) \in 0..2
  BY <1>2
<1> QED
  BY <1>1, <1>3 DEF Contact

\* A process that has exited is as one that has not started.
LEMMA ExitTyped ==
  ASSUME TypeOK, NEW s \in Sessions, Exit(s)
  PROVE  /\ pc' \in [Sessions -> Steps] /\ install' \in [Sessions -> Installs]
         /\ loaded' \in [Sessions -> State] /\ man' \in [Sessions -> Manifest]
         /\ got' \in [Sessions -> Content \cup {None}]
         /\ print' \in [Sessions -> Content \cup {None}]
<1>1. AnyInstall \in Installs /\ NoState \in State
  BY SomeInstall, NoStateTyped
<1>2. 0 \in Manifest
  BY HookAssumption DEF Manifest
<1>3. "idle" \in Steps
  BY DEF Steps
<1>4. pc' \in [Sessions -> Steps] /\ install' \in [Sessions -> Installs]
  BY <1>1, <1>3 DEF TypeOK, Exit, Goto
<1>5. loaded' \in [Sessions -> State] /\ man' \in [Sessions -> Manifest]
  BY <1>1, <1>2 DEF TypeOK, Exit
<1>6. got' \in [Sessions -> Content \cup {None}] /\ print' \in [Sessions -> Content \cup {None}]
  BY DEF TypeOK, Exit
<1> QED
  BY <1>4, <1>5, <1>6

LEMMA TypedInit == ASSUME Init PROVE TypeInv
<1>1. \A s \in Sessions : AnyInstall \in Installs
  BY SomeInstall
<1>2. 0 \in 0..MaxMoves /\ 0 \in Manifest /\ 0 \in 0..MaxManifests
      /\ 0 \in 0..MaxFailures /\ 0 \in 0..MaxOutages
  BY HookAssumption DEF Manifest
<1>3. source \in [Refs -> Content]
  BY <1>2 DEF Init, Content
<1>6. pc \in [Sessions -> Steps] /\ install \in [Sessions -> Installs]
      /\ loaded \in [Sessions -> State] /\ man \in [Sessions -> Manifest]
  BY <1>1, <1>2, NoStateTyped DEF Init, Steps
<1>7. installed \in [Installs -> Installed \cup {None}] /\ contacts \in [Installs -> 0..2]
      /\ manifest \in [Installs -> Manifest] /\ state \in State
  BY <1>2, NoStateTyped DEF Init
<1>4. TypeOK
  BY <1>2, <1>3, <1>6, <1>7 DEF Init, TypeOK
<1>5. SourceIsOpen /\ ContentIsRead
  BY DEF Init, SourceIsOpen, ContentIsRead
<1> QED
  BY <1>4, <1>5 DEF TypeInv

LEMMA InterruptedTyped ==
  ASSUME TypeOK, NEW s \in Sessions, Interrupted(s)
  PROVE  installed' \in [Installs -> Installed \cup {None}]
<1>1. installed \in [Installs -> Installed \cup {None}] /\ install[s] \in Installs
  BY DEF TypeOK
<1> DEFINE left == IF installed[install[s]] = Planned(s) THEN installed[install[s]] ELSE None
<1>2. left \in Installed \cup {None}
  BY <1>1
<1>3. installed' = [installed EXCEPT ![install[s]] = left]
  BY DEF Interrupted
<1> HIDE DEF left
<1> QED
  BY <1>1, <1>2, <1>3

LEMMA TypedStep == ASSUME TypeInv, [Next]_vars PROVE TypeInv'
<1> USE DEF TypeInv
<1>o. None \notin Content
  BY HookAssumption
<1>1. ASSUME NEW s \in Sessions, OpenSource(s) PROVE TypeInv'
  <2>1. source[Ref(s)] \in Content
    BY RefTyped DEF TypeOK
  <2>2. contacts' \in [Installs -> 0..2]
    BY <1>1, ContactTyped DEF OpenSource, TypeOK
  <2>3. checkout' \in Content \cup {None} /\ (Kind = "git" => checkout' # None)
    BY <1>1, <2>1, <1>o DEF OpenSource, TypeOK
  <2>4. pc' \in [Sessions -> Steps] /\ pc' = [pc EXCEPT ![s] = "peek"]
    BY <1>1 DEF OpenSource, Goto, TypeOK, Steps
  <2>5. TypeOK'
    BY <1>1, <2>2, <2>3, <2>4 DEF OpenSource, TypeOK, worldVars, countVars
  <2>6. SourceIsOpen' /\ ContentIsRead'
    BY <1>1, <2>3, <2>4 DEF OpenSource, TypeOK, SourceIsOpen, ContentIsRead
  <2> QED
    BY <2>5, <2>6
<1>2. ASSUME NEW s \in Sessions, Peek(s) PROVE TypeInv'
  <2>1. source[Ref(s)] \in Content
    BY RefTyped DEF TypeOK
  <2>2. contacts' \in [Installs -> 0..2]
    BY <1>2, ContactTyped DEF Peek, TypeOK
  <2>3. print' \in [Sessions -> Content \cup {None}]
    BY <1>2, <2>1 DEF Peek, TypeOK
  <2> DEFINE next == IF source[Ref(s)] = Previous(s) THEN "truncate" ELSE "read"
  <2>a. pc' = [pc EXCEPT ![s] = next] /\ pc[s] = "peek"
    BY <1>2 DEF Peek, Goto
  <2>b. next \in {"truncate", "read"}
    OBVIOUS
  <2> HIDE DEF next
  <2>4. /\ pc' \in [Sessions -> Steps] /\ pc[s] = "peek"
        /\ \A t \in Sessions : pc'[t] = pc[t] \/ (t = s /\ pc'[t] \in {"truncate", "read"})
    BY <2>a, <2>b DEF TypeOK, Steps
  <2>5. TypeOK'
    BY <1>2, <2>2, <2>3, <2>4 DEF Peek, TypeOK, worldVars, countVars
  <2>6. SourceIsOpen'
    BY <1>2, <2>4 DEF Peek, SourceIsOpen
  <2>7. ContentIsRead'
    BY <1>2, <2>4 DEF Peek, ContentIsRead
  <2> QED
    BY <2>5, <2>6, <2>7
<1>3. ASSUME NEW s \in Sessions, SyncRead(s) PROVE TypeInv'
  <2>1. source[Ref(s)] \in Content
    BY RefTyped DEF TypeOK
  <2>2. (IF Kind = "git" THEN checkout ELSE source[Ref(s)]) \in Content
    BY <1>3, <2>1 DEF SyncRead, SourceIsOpen, TypeOK
  <2>3. got' \in [Sessions -> Content \cup {None}] /\ got'[s] \in Content
        /\ \A t \in Sessions : t # s => got'[t] = got[t]
    BY <1>3, <2>2 DEF SyncRead, TypeOK
  <2>4. pc' \in [Sessions -> Steps] /\ pc' = [pc EXCEPT ![s] = "write"]
    BY <1>3 DEF SyncRead, Goto, TypeOK, Steps
  <2>5. TypeOK'
    BY <1>3, <2>3, <2>4 DEF SyncRead, TypeOK, worldVars, countVars
  <2>6. SourceIsOpen' /\ ContentIsRead'
    BY <1>3, <1>o, <2>3, <2>4 DEF SyncRead, TypeOK, SourceIsOpen, ContentIsRead
  <2> QED
    BY <2>5, <2>6
<1>4. ASSUME NEW s \in Sessions, SyncWrite(s) PROVE TypeInv'
  <2>1. got[s] \in Content /\ man[s] \in Manifest /\ install[s] \in Installs
    BY <1>4 DEF SyncWrite, ContentIsRead, TypeOK
  <2>2. Planned(s) \in Installed
    BY <2>1 DEF Planned, Installed
  <2>3. installed' \in [Installs -> Installed \cup {None}]
    BY <1>4, <2>2 DEF SyncWrite, TypeOK
  <2>4. pc' \in [Sessions -> Steps] /\ pc' = [pc EXCEPT ![s] = "truncate"]
    BY <1>4 DEF SyncWrite, Goto, TypeOK, Steps
  <2>5. TypeOK'
    BY <1>4, <2>3, <2>4 DEF SyncWrite, TypeOK, worldVars, countVars
  <2>6. SourceIsOpen' /\ ContentIsRead'
    BY <1>4, <2>4 DEF SyncWrite, TypeOK, SourceIsOpen, ContentIsRead
  <2> QED
    BY <2>5, <2>6
<1>5. ASSUME NEW s \in Sessions, SaveTruncates(s) PROVE TypeInv'
  <2>4. pc' \in [Sessions -> Steps] /\ pc' = [pc EXCEPT ![s] = "save"]
    BY <1>5 DEF SaveTruncates, Goto, TypeOK, Steps
  <2>5. TypeOK'
    BY <1>5, <2>4 DEF SaveTruncates, TypeOK, worldVars, countVars
  <2>6. SourceIsOpen' /\ ContentIsRead'
    BY <1>5, <2>4 DEF SaveTruncates, TypeOK, SourceIsOpen, ContentIsRead
  <2> QED
    BY <2>5, <2>6
<1>6. ASSUME NEW s \in Sessions, SaveWrites(s) PROVE TypeInv'
  <2> DEFINE run == [fresh |-> TRUE, peek |-> print[s]]
  <2>1. loaded[s] \in State /\ install[s] \in Installs /\ run \in Run
    BY DEF TypeOK, Run
  <2>2. state' = [loaded[s] EXCEPT ![install[s]] = run] /\ torn' = FALSE
    BY <1>6 DEF SaveWrites
  <2> HIDE DEF run
  <2>3. state' \in State
    BY <2>1, <2>2 DEF State
  <2>4. Exit(s)
    BY <1>6 DEF SaveWrites
  <2>5. TypeOK'
    BY <1>6, <2>2, <2>3, <2>4, ExitTyped DEF SaveWrites, TypeOK, worldVars, countVars
  <2>6. SourceIsOpen' /\ ContentIsRead'
    BY <1>6, <2>4 DEF SaveWrites, Exit, Goto, TypeOK, SourceIsOpen, ContentIsRead
  <2> QED
    BY <2>5, <2>6
<1>7. ASSUME NEW s \in Sessions, SyncFails(s) PROVE TypeInv'
  <2>1. print' \in [Sessions -> Content \cup {None}]
    BY <1>7, PreviousTyped DEF SyncFails, TypeOK
  <2>2. installed' \in [Installs -> Installed \cup {None}]
    BY <1>7, InterruptedTyped DEF SyncFails, Broken, TypeOK
  <2>3. failures' \in 0..MaxFailures
    BY <1>7, HookAssumption DEF SyncFails, Broken, TypeOK
  <2>4. pc' \in [Sessions -> Steps] /\ pc' = [pc EXCEPT ![s] = "truncate"]
    BY <1>7 DEF SyncFails, Goto, TypeOK, Steps
  <2>5. TypeOK'
    BY <1>7, <2>1, <2>2, <2>3, <2>4 DEF SyncFails, TypeOK, worldVars
  <2>6. SourceIsOpen' /\ ContentIsRead'
    BY <1>7, <2>4 DEF SyncFails, TypeOK, SourceIsOpen, ContentIsRead
  <2> QED
    BY <2>5, <2>6
<1>8. ASSUME NEW s \in Sessions, Outage(s) PROVE TypeInv'
  <2>1. Exit(s)
    BY <1>8 DEF Outage
  <2>2. installed' \in [Installs -> Installed \cup {None}]
    BY <1>8, InterruptedTyped DEF Outage, TypeOK
  <2>3. outages' \in 0..MaxOutages
    BY <1>8, HookAssumption DEF Outage, TypeOK
  <2>4. contacts' \in [Installs -> 0..2]
    BY <1>8, ContactTyped DEF Outage, TypeOK
  <2>5. TypeOK'
    BY <1>8, <2>1, <2>2, <2>3, <2>4, ExitTyped DEF Outage, TypeOK, worldVars
  <2>6. SourceIsOpen' /\ ContentIsRead'
    BY <1>8, <2>1 DEF Outage, Exit, Goto, TypeOK, SourceIsOpen, ContentIsRead
  <2> QED
    BY <2>5, <2>6
<1>9. ASSUME NEW s \in Sessions, NEW k \in Installs, Start(s, k) PROVE TypeInv'
  <2>1. loaded' \in [Sessions -> State] /\ man' \in [Sessions -> Manifest]
        /\ install' \in [Sessions -> Installs]
    BY <1>9, LoadTyped DEF Start, TypeOK
  <2>4. pc' \in [Sessions -> Steps] /\ pc' = [pc EXCEPT ![s] = "source"]
    BY <1>9 DEF Start, Goto, TypeOK, Steps
  <2>5. TypeOK'
    BY <1>9, <2>1, <2>4 DEF Start, TypeOK, worldVars, countVars
  <2>6. SourceIsOpen' /\ ContentIsRead'
    BY <1>9, <2>4 DEF Start, TypeOK, SourceIsOpen, ContentIsRead
  <2> QED
    BY <2>5, <2>6
<1>10. ASSUME NEW r \in Refs, SourceMoves(r) PROVE TypeInv'
  <2>1. PICK n \in 0..MaxMoves : source' = [source EXCEPT ![r] = <<r, n>>]
    BY <1>10 DEF SourceMoves
  <2>2. source' \in [Refs -> Content]
    BY <2>1 DEF TypeOK, Content
  <2>3. moves' \in 0..MaxMoves
    BY <1>10, HookAssumption DEF SourceMoves, TypeOK
  <2>5. TypeOK'
    BY <1>10, <2>2, <2>3 DEF SourceMoves, TypeOK, sessionVars
  <2>6. SourceIsOpen' /\ ContentIsRead'
    BY <1>10 DEF SourceMoves, sessionVars, SourceIsOpen, ContentIsRead
  <2> QED
    BY <2>5, <2>6
<1>11. ASSUME NEW k \in Installs, ChangeManifest(k) PROVE TypeInv'
  <2>1. changes + 1 \in 0..MaxManifests
    BY <1>11, HookAssumption DEF ChangeManifest, TypeOK
  <2>2. manifest' \in [Installs -> Manifest] /\ changes' \in 0..MaxManifests
    BY <1>11, <2>1 DEF ChangeManifest, TypeOK, Manifest
  <2>5. TypeOK'
    BY <1>11, <2>2 DEF ChangeManifest, TypeOK, sessionVars
  <2>6. SourceIsOpen' /\ ContentIsRead'
    BY <1>11 DEF ChangeManifest, sessionVars, SourceIsOpen, ContentIsRead
  <2> QED
    BY <2>5, <2>6
<1>12. ASSUME NEW k \in Installs, Elapse(k) PROVE TypeInv'
  <2>1. state' \in State
    BY <1>12, StaleRecords DEF Elapse, TypeOK
  <2>2. loaded' \in [Sessions -> State]
    BY <1>12, StaleRecords DEF Elapse, TypeOK
  <2>3. contacts' \in [Installs -> 0..2]
    BY <1>12 DEF Elapse, TypeOK
  <2>5. TypeOK'
    BY <1>12, <2>1, <2>2, <2>3 DEF Elapse, TypeOK, worldVars
  <2>6. SourceIsOpen' /\ ContentIsRead'
    BY <1>12 DEF Elapse, SourceIsOpen, ContentIsRead
  <2> QED
    BY <2>5, <2>6
<1>13. ASSUME UNCHANGED vars PROVE TypeInv'
  BY <1>13 DEF vars, sessionVars, countVars, worldVars, TypeOK, SourceIsOpen, ContentIsRead
<1> QED
  BY <1>1, <1>2, <1>3, <1>4, <1>5, <1>6, <1>7, <1>8, <1>9, <1>10, <1>11, <1>12, <1>13
  DEF Next, Go

\* Every reachable state is well typed: in particular, what a run writes is
\* content that some source held, never the empty checkout.
THEOREM TypeCorrect == Spec => []TypeOK
<1>1. TypeInv => TypeOK
  BY DEF TypeInv
<1> QED
  BY TypedInit, TypedStep, <1>1, PTL DEF Spec

-----------------------------------------------------------------------------
(* One checkout for several refs.                                          *)

\* No two sessions at a time, or a checkout that is not shared.
Alone == \A s, t \in Sessions : s = t
NotShared == Kind # "git" \/ Alone

SourceIsItsRef == \A r \in Refs : source[r][1] = r

CheckoutIsOwn ==
  \A s \in Sessions :
    Kind = "git" /\ pc[s] \in {"peek", "read"} => checkout[1] = RefOf[install[s]]

ReadIsOwn == \A s \in Sessions : pc[s] = "write" => got[s][1] = RefOf[install[s]]

RefInv == SourceIsItsRef /\ CheckoutIsOwn /\ ReadIsOwn /\ OwnRefOnly

LEMMA InterruptedIsLess ==
  ASSUME TypeOK, NEW s \in Sessions, Interrupted(s)
  PROVE  /\ \A k \in Installs : k # install[s] => installed'[k] = installed[k]
         /\ \A k \in Installs : installed'[k] # None => installed'[k] = installed[k]
         /\ installed[install[s]] = Planned(s) => installed' = installed
<1>1. installed \in [Installs -> Installed \cup {None}] /\ install[s] \in Installs
  BY DEF TypeOK
<1> DEFINE left == IF installed[install[s]] = Planned(s) THEN installed[install[s]] ELSE None
<1>2. left = None \/ left = installed[install[s]]
  OBVIOUS
<1>3. installed' = [installed EXCEPT ![install[s]] = left]
  BY DEF Interrupted
<1>4. installed[install[s]] = Planned(s) => left = installed[install[s]]
  OBVIOUS
<1> HIDE DEF left
<1> QED
  BY <1>1, <1>2, <1>3, <1>4

LEMMA RefInit == ASSUME Init PROVE RefInv
BY DEF Init, RefInv, SourceIsItsRef, CheckoutIsOwn, ReadIsOwn, OwnRefOnly

LEMMA RefStep == ASSUME NotShared, TypeInv, RefInv, [Next]_vars PROVE RefInv'
<1> USE DEF RefInv
<1>t. TypeOK
  BY DEF TypeInv
<1>1. ASSUME NEW s \in Sessions, OpenSource(s) PROVE RefInv'
  <2>1. Ref(s) \in Refs /\ pc' = [pc EXCEPT ![s] = "peek"] /\ pc \in [Sessions -> Steps]
    BY <1>1, <1>t, RefTyped DEF OpenSource, Goto, TypeOK
  <2>2. CheckoutIsOwn'
    <3>1. ASSUME Kind = "git" PROVE checkout'[1] = RefOf[install[s]] /\ \A t \in Sessions : t = s
      BY <1>1, <2>1, <3>1 DEF OpenSource, SourceIsItsRef, NotShared, Alone, Ref
    <3> QED
      BY <1>1, <3>1 DEF OpenSource, CheckoutIsOwn
  <2>3. SourceIsItsRef' /\ ReadIsOwn' /\ OwnRefOnly'
    BY <1>1, <2>1 DEF OpenSource, SourceIsItsRef, ReadIsOwn, OwnRefOnly, worldVars
  <2> QED
    BY <2>2, <2>3
<1>2. ASSUME NEW s \in Sessions, Peek(s) PROVE RefInv'
  <2> DEFINE next == IF source[Ref(s)] = Previous(s) THEN "truncate" ELSE "read"
  <2>1. pc' = [pc EXCEPT ![s] = next] /\ pc[s] = "peek" /\ pc \in [Sessions -> Steps]
    BY <1>2, <1>t DEF Peek, Goto, TypeOK
  <2>2. next # "write"
    OBVIOUS
  <2> HIDE DEF next
  <2>3. CheckoutIsOwn' /\ ReadIsOwn'
    BY <1>2, <2>1, <2>2 DEF Peek, CheckoutIsOwn, ReadIsOwn
  <2>4. SourceIsItsRef' /\ OwnRefOnly'
    BY <1>2 DEF Peek, SourceIsItsRef, OwnRefOnly, worldVars
  <2> QED
    BY <2>3, <2>4
<1>3. ASSUME NEW s \in Sessions, SyncRead(s) PROVE RefInv'
  <2>1. pc' = [pc EXCEPT ![s] = "write"] /\ pc[s] = "read" /\ pc \in [Sessions -> Steps]
    BY <1>3, <1>t DEF SyncRead, Goto, TypeOK
  <2>2. got'[s][1] = RefOf[install[s]] /\ \A t \in Sessions : t # s => got'[t] = got[t]
    BY <1>3, <1>t, RefTyped DEF SyncRead, CheckoutIsOwn, SourceIsItsRef, TypeOK, Ref
  <2>3. CheckoutIsOwn' /\ ReadIsOwn'
    BY <1>3, <2>1, <2>2 DEF SyncRead, CheckoutIsOwn, ReadIsOwn
  <2>4. SourceIsItsRef' /\ OwnRefOnly'
    BY <1>3 DEF SyncRead, SourceIsItsRef, OwnRefOnly, worldVars
  <2> QED
    BY <2>3, <2>4
<1>4. ASSUME NEW s \in Sessions, SyncWrite(s) PROVE RefInv'
  <2>1. pc' = [pc EXCEPT ![s] = "truncate"] /\ pc[s] = "write" /\ pc \in [Sessions -> Steps]
    BY <1>4, <1>t DEF SyncWrite, Goto, TypeOK
  <2>2. Planned(s).content[1] = RefOf[install[s]]
    BY <2>1 DEF Planned, ReadIsOwn
  <2>3. CheckoutIsOwn' /\ ReadIsOwn' /\ SourceIsItsRef'
    BY <1>4, <2>1 DEF SyncWrite, CheckoutIsOwn, ReadIsOwn, SourceIsItsRef, worldVars
  <2>4. OwnRefOnly'
    BY <1>4, <1>t, <2>2 DEF SyncWrite, OwnRefOnly, TypeOK
  <2> QED
    BY <2>3, <2>4
<1>5. ASSUME NEW s \in Sessions, SaveTruncates(s) PROVE RefInv'
  <2>1. pc' = [pc EXCEPT ![s] = "save"] /\ pc \in [Sessions -> Steps]
    BY <1>5, <1>t DEF SaveTruncates, Goto, TypeOK
  <2> QED
    BY <1>5, <2>1
    DEF SaveTruncates, CheckoutIsOwn, ReadIsOwn, SourceIsItsRef, OwnRefOnly, worldVars
<1>6. ASSUME NEW s \in Sessions, Exit(s), checkout' = checkout, source' = source
      PROVE  CheckoutIsOwn' /\ ReadIsOwn' /\ SourceIsItsRef'
  <2>1. pc' = [pc EXCEPT ![s] = "idle"] /\ pc \in [Sessions -> Steps]
    BY <1>6, <1>t DEF Exit, Goto, TypeOK
  <2>2. \A t \in Sessions : t # s => install'[t] = install[t] /\ got'[t] = got[t]
    BY <1>6, <1>t DEF Exit, TypeOK
  <2>3. CheckoutIsOwn'
    BY <1>6, <2>1, <2>2 DEF CheckoutIsOwn
  <2>4. ReadIsOwn' /\ SourceIsItsRef'
    BY <1>6, <2>1, <2>2 DEF ReadIsOwn, SourceIsItsRef
  <2> QED
    BY <2>3, <2>4
<1>7. ASSUME NEW s \in Sessions, SaveWrites(s) PROVE RefInv'
  <2>1. CheckoutIsOwn' /\ ReadIsOwn' /\ SourceIsItsRef'
    BY <1>6, <1>7 DEF SaveWrites, worldVars
  <2>2. OwnRefOnly'
    BY <1>7 DEF SaveWrites, OwnRefOnly, worldVars
  <2> QED
    BY <2>1, <2>2
<1>8. ASSUME NEW s \in Sessions, SyncFails(s) PROVE RefInv'
  <2>1. pc' = [pc EXCEPT ![s] = "truncate"] /\ pc \in [Sessions -> Steps]
    BY <1>8, <1>t DEF SyncFails, Goto, TypeOK
  <2>2. CheckoutIsOwn' /\ ReadIsOwn' /\ SourceIsItsRef'
    BY <1>8, <2>1 DEF SyncFails, CheckoutIsOwn, ReadIsOwn, SourceIsItsRef, worldVars
  <2>3. OwnRefOnly'
    BY <1>8, <1>t, InterruptedIsLess DEF SyncFails, Broken, OwnRefOnly
  <2> QED
    BY <2>2, <2>3
<1>9. ASSUME NEW s \in Sessions, Outage(s) PROVE RefInv'
  <2>1. OwnRefOnly'
    BY <1>9, <1>t, InterruptedIsLess DEF Outage, OwnRefOnly
  <2>2. CheckoutIsOwn' /\ ReadIsOwn' /\ SourceIsItsRef'
    BY <1>6, <1>9 DEF Outage, worldVars
  <2> QED
    BY <2>1, <2>2
<1>10. ASSUME NEW s \in Sessions, NEW k \in Installs, Start(s, k) PROVE RefInv'
  <2>1. pc' = [pc EXCEPT ![s] = "source"] /\ pc \in [Sessions -> Steps]
    BY <1>10, <1>t DEF Start, Goto, TypeOK
  <2>2. \A t \in Sessions : t # s => install'[t] = install[t]
    BY <1>10, <1>t DEF Start, TypeOK
  <2>3. CheckoutIsOwn' /\ ReadIsOwn'
    BY <1>10, <2>1, <2>2 DEF Start, CheckoutIsOwn, ReadIsOwn
  <2>4. SourceIsItsRef' /\ OwnRefOnly'
    BY <1>10 DEF Start, SourceIsItsRef, OwnRefOnly, worldVars
  <2> QED
    BY <2>3, <2>4
<1>11. ASSUME NEW r \in Refs, SourceMoves(r) PROVE RefInv'
  <2>1. PICK n \in 0..MaxMoves : source' = [source EXCEPT ![r] = <<r, n>>]
    BY <1>11 DEF SourceMoves
  <2>2. SourceIsItsRef'
    BY <2>1, <1>t DEF SourceIsItsRef, TypeOK
  <2> QED
    BY <1>11, <2>2 DEF SourceMoves, sessionVars, CheckoutIsOwn, ReadIsOwn, OwnRefOnly
<1>12. ASSUME NEW k \in Installs, ChangeManifest(k) PROVE RefInv'
  BY <1>12 DEF ChangeManifest, sessionVars, CheckoutIsOwn, ReadIsOwn, OwnRefOnly, SourceIsItsRef
<1>13. ASSUME NEW k \in Installs, Elapse(k) PROVE RefInv'
  BY <1>13 DEF Elapse, worldVars, CheckoutIsOwn, ReadIsOwn, OwnRefOnly, SourceIsItsRef
<1>14. ASSUME UNCHANGED vars PROVE RefInv'
  BY <1>14
  DEF vars, sessionVars, worldVars, CheckoutIsOwn, ReadIsOwn, OwnRefOnly, SourceIsItsRef
<1> QED
  BY <1>1, <1>2, <1>3, <1>4, <1>5, <1>7, <1>8, <1>9, <1>10, <1>11, <1>12, <1>13, <1>14
  DEF Next, Go

\* If installs do not share a git checkout, or sessions do not overlap, an
\* install holds content of the ref it follows and of no other.
THEOREM OwnRef == ASSUME NotShared PROVE Spec => []OwnRefOnly
<1>1. Init => TypeInv /\ RefInv
  BY TypedInit, RefInit
<1>2. TypeInv /\ RefInv /\ [Next]_vars => (TypeInv /\ RefInv)'
  BY TypedStep, RefStep
<1>3. RefInv => OwnRefOnly
  BY DEF RefInv
<1> QED
  BY <1>1, <1>2, <1>3, PTL DEF Spec

-----------------------------------------------------------------------------
(* The throttle.                                                           *)

Fresh(k) == state[k] # None /\ state[k].fresh

\* The steps of a run before its check of the source.
Before == IF Kind = "git" THEN {"source"} ELSE {"source", "peek"}

Mine(s, k) == pc[s] \notin Before \cup {"idle"} /\ install[s] = k

\* The file is torn only in the midst of a save.
TornInSave == \A s \in Sessions : torn <=> pc[s] = "save"

\* What the session loaded is what the file holds until it saves.
LoadedIsState == \A s \in Sessions : pc[s] # "idle" => loaded[s] = state

NotYetAsked == \A s \in Sessions : pc[s] \in Before => contacts[install[s]] = 0

AskedIsRecorded ==
  \A s \in Sessions, k \in Installs : contacts[k] # 0 => Fresh(k) \/ Mine(s, k)

ThrottleInv == TornInSave /\ LoadedIsState /\ NotYetAsked /\ AskedIsRecorded /\ Throttled

LEMMA ThrottleInit == ASSUME Init PROVE ThrottleInv
<1>1. TornInSave /\ LoadedIsState
  BY DEF Init, TornInSave, LoadedIsState
<1>2. NotYetAsked /\ AskedIsRecorded
  BY DEF Init, NotYetAsked, AskedIsRecorded, Before
<1>3. Throttled
  BY DEF Init, Throttled
<1> QED
  BY <1>1, <1>2, <1>3 DEF ThrottleInv

\* The check of the source is the first of its interval.
LEMMA ContactIsFirst ==
  ASSUME TypeOK, ThrottleInv, NEW s \in Sessions, pc[s] \in Before, Contact(s)
  PROVE  /\ contacts'[install[s]] = 1
         /\ \A k \in Installs : k # install[s] => contacts'[k] = contacts[k]
<1>1. contacts \in [Installs -> 0..2] /\ install[s] \in Installs
  BY DEF TypeOK
<1>2. contacts[install[s]] = 0
  BY DEF ThrottleInv, NotYetAsked
<1> QED
  BY <1>1, <1>2 DEF Contact

LEMMA ThrottleStep ==
  ASSUME Alone, MaxOutages = 0, TypeInv, ThrottleInv, [Next]_vars
  PROVE  ThrottleInv'
<1> USE DEF ThrottleInv
<1>t. TypeOK
  BY DEF TypeInv
<1>a. \A s, t \in Sessions : s = t
  BY DEF Alone
<1>p. pc \in [Sessions -> Steps] /\ contacts \in [Installs -> 0..2]
      /\ install \in [Sessions -> Installs]
  BY <1>t DEF TypeOK
<1>1. ASSUME NEW s \in Sessions, OpenSource(s) PROVE ThrottleInv'
  <2>1. pc' = [pc EXCEPT ![s] = "peek"] /\ pc[s] = "source" /\ "source" \in Before
    BY <1>1 DEF OpenSource, Goto, Before
  <2>2. TornInSave' /\ LoadedIsState'
    BY <1>1, <1>p, <2>1 DEF OpenSource, TornInSave, LoadedIsState
  <2>3. CASE Kind = "git"
    <3>1. Contact(s) /\ Before = {"source"}
      BY <1>1, <2>3 DEF OpenSource, Before
    <3>2. /\ contacts'[install[s]] = 1
          /\ \A k \in Installs : k # install[s] => contacts'[k] = contacts[k]
      BY <1>t, <2>1, <3>1, ContactIsFirst
    <3>3. NotYetAsked'
      BY <1>a, <1>p, <2>1, <3>1 DEF NotYetAsked, Before
    <3>4. AskedIsRecorded'
      BY <1>1, <1>a, <1>p, <2>1, <3>1, <3>2
      DEF OpenSource, AskedIsRecorded, Fresh, Mine, Before
    <3>5. Throttled'
      BY <1>p, <3>2 DEF Throttled
    <3> QED
      BY <2>2, <3>3, <3>4, <3>5
  <2>4. CASE Kind # "git"
    <3>1. contacts' = contacts /\ Before = {"source", "peek"} /\ Before' = Before
      BY <1>1, <2>4 DEF OpenSource, Before
    <3>2. NotYetAsked'
      BY <1>1, <1>a, <1>p, <2>1, <3>1 DEF OpenSource, NotYetAsked
    <3>3. AskedIsRecorded' /\ Throttled'
      BY <1>1, <1>a, <1>p, <2>1, <3>1
      DEF OpenSource, AskedIsRecorded, Throttled, Fresh, Mine
    <3> QED
      BY <2>2, <3>2, <3>3
  <2> QED
    BY <2>3, <2>4
<1>2. ASSUME NEW s \in Sessions, Peek(s) PROVE ThrottleInv'
  <2> DEFINE next == IF source[Ref(s)] = Previous(s) THEN "truncate" ELSE "read"
  <2>0. next \in {"truncate", "read"}
    OBVIOUS
  <2>1. pc' = [pc EXCEPT ![s] = next] /\ pc[s] = "peek"
    BY <1>2 DEF Peek, Goto
  <2> HIDE DEF next
  <2>2. TornInSave' /\ LoadedIsState'
    BY <1>2, <1>p, <2>0, <2>1 DEF Peek, TornInSave, LoadedIsState
  <2>3. NotYetAsked'
    BY <1>a, <1>p, <2>0, <2>1 DEF NotYetAsked, Before
  <2>4. CASE Kind = "git"
    <3>1. contacts' = contacts
      BY <1>2, <2>4 DEF Peek
    <3>2. AskedIsRecorded' /\ Throttled'
      BY <1>2, <1>a, <1>p, <2>0, <2>1, <2>4, <3>1
      DEF Peek, AskedIsRecorded, Throttled, Fresh, Mine, Before
    <3> QED
      BY <2>2, <2>3, <3>2
  <2>5. CASE Kind # "git"
    <3>1. Contact(s) /\ Before = {"source", "peek"}
      BY <1>2, <2>5 DEF Peek, Before
    <3>2. /\ contacts'[install[s]] = 1
          /\ \A k \in Installs : k # install[s] => contacts'[k] = contacts[k]
      BY <1>t, <2>1, <3>1, ContactIsFirst
    <3>3. AskedIsRecorded'
      BY <1>2, <1>a, <1>p, <2>0, <2>1, <3>1, <3>2
      DEF Peek, AskedIsRecorded, Fresh, Mine, Before
    <3>4. Throttled'
      BY <1>p, <3>2 DEF Throttled
    <3> QED
      BY <2>2, <2>3, <3>3, <3>4
  <2> QED
    BY <2>4, <2>5
<1>3. ASSUME NEW s \in Sessions, NEW step \in {"write", "truncate"},
             pc[s] \in {"read", "write"}, pc' = [pc EXCEPT ![s] = step],
             UNCHANGED <<install, loaded, state, torn, contacts>>
      PROVE  ThrottleInv'
  <2>1. TornInSave' /\ LoadedIsState'
    BY <1>3, <1>p DEF TornInSave, LoadedIsState
  <2>2. NotYetAsked'
    BY <1>3, <1>a, <1>p DEF NotYetAsked, Before
  <2>3. AskedIsRecorded' /\ Throttled'
    BY <1>3, <1>a, <1>p DEF AskedIsRecorded, Throttled, Fresh, Mine, Before
  <2> QED
    BY <2>1, <2>2, <2>3
<1>4. ASSUME NEW s \in Sessions, SyncRead(s) PROVE ThrottleInv'
  BY <1>3, <1>4 DEF SyncRead, Goto
<1>5. ASSUME NEW s \in Sessions, SyncWrite(s) PROVE ThrottleInv'
  BY <1>3, <1>5 DEF SyncWrite, Goto
<1>6. ASSUME NEW s \in Sessions, SyncFails(s) PROVE ThrottleInv'
  BY <1>3, <1>6 DEF SyncFails, Broken, Goto
<1>7. ASSUME NEW s \in Sessions, SaveTruncates(s) PROVE ThrottleInv'
  <2>1. pc' = [pc EXCEPT ![s] = "save"] /\ pc[s] = "truncate" /\ torn' = TRUE
        /\ UNCHANGED <<install, loaded, state, contacts>>
    BY <1>7 DEF SaveTruncates, Goto
  <2>2. TornInSave' /\ LoadedIsState'
    BY <1>a, <1>p, <2>1 DEF TornInSave, LoadedIsState
  <2>3. NotYetAsked'
    BY <1>a, <1>p, <2>1 DEF NotYetAsked, Before
  <2>4. AskedIsRecorded' /\ Throttled'
    BY <1>a, <1>p, <2>1 DEF AskedIsRecorded, Throttled, Fresh, Mine, Before
  <2> QED
    BY <2>2, <2>3, <2>4
<1>8. ASSUME NEW s \in Sessions, SaveWrites(s) PROVE ThrottleInv'
  <2> DEFINE run == [fresh |-> TRUE, peek |-> print[s]]
  <2>1. pc' = [pc EXCEPT ![s] = "idle"] /\ pc[s] = "save" /\ torn' = FALSE
        /\ contacts' = contacts
    BY <1>8 DEF SaveWrites, Exit, Goto
  <2>2. loaded[s] = state
    BY <2>1 DEF LoadedIsState
  <2>3. run \in Run /\ run.fresh /\ run # None
    <3>1. run \in Run
      BY <1>t DEF Run, TypeOK
    <3>2. run.fresh
      BY Zenon
    <3> QED
      BY <3>1, <3>2, HookAssumption
  <2>4. state' = [state EXCEPT ![install[s]] = run] /\ state \in [Installs -> Run \cup {None}]
    BY <1>8, <1>t, <2>2 DEF SaveWrites, TypeOK, State
  <2> HIDE DEF run
  <2>5. TornInSave' /\ LoadedIsState'
    BY <1>a, <1>p, <2>1 DEF TornInSave, LoadedIsState
  <2>6. NotYetAsked'
    BY <1>a, <1>p, <2>1 DEF NotYetAsked, Before
  <2>7. AskedIsRecorded' /\ Throttled'
    BY <1>a, <1>p, <2>1, <2>3, <2>4 DEF AskedIsRecorded, Throttled, Fresh, Mine
  <2> QED
    BY <2>5, <2>6, <2>7
<1>9. ASSUME NEW s \in Sessions, Outage(s) PROVE ThrottleInv'
  BY <1>9, <1>t DEF Outage, TypeOK
<1>10. ASSUME NEW s \in Sessions, NEW k \in Installs, Start(s, k) PROVE ThrottleInv'
  <2>1. pc' = [pc EXCEPT ![s] = "source"] /\ pc[s] = "idle" /\ torn = FALSE
    BY <1>10, <1>t DEF Start, Goto, TornInSave, TypeOK
  <2>2. install'[s] = k /\ loaded'[s] = state /\ UNCHANGED <<state, torn, contacts>>
    BY <1>10, <1>t, <2>1 DEF Start, Load, TypeOK
  <2>3. ~Fresh(k) /\ contacts[k] = 0
    BY <1>10, <2>1 DEF Start, Due, Load, AskedIsRecorded, Fresh, Mine
  <2>4. TornInSave' /\ LoadedIsState'
    BY <1>a, <1>p, <2>1, <2>2 DEF TornInSave, LoadedIsState
  <2>5. NotYetAsked'
    BY <1>a, <2>2, <2>3 DEF NotYetAsked
  <2>6. AskedIsRecorded' /\ Throttled'
    BY <1>a, <1>p, <2>1, <2>2 DEF AskedIsRecorded, Throttled, Fresh, Mine, Before
  <2> QED
    BY <2>4, <2>5, <2>6
<1>11. ASSUME UNCHANGED <<pc, install, loaded, state, torn, contacts>> PROVE ThrottleInv'
  BY <1>11
  DEF TornInSave, LoadedIsState, NotYetAsked, AskedIsRecorded, Throttled, Fresh, Mine, Before
<1>12. ASSUME NEW r \in Refs, SourceMoves(r) PROVE ThrottleInv'
  BY <1>11, <1>12 DEF SourceMoves, sessionVars
<1>13. ASSUME NEW k \in Installs, ChangeManifest(k) PROVE ThrottleInv'
  BY <1>11, <1>13 DEF ChangeManifest, sessionVars
<1>14. ASSUME NEW k \in Installs, Elapse(k) PROVE ThrottleInv'
  <2>1. UNCHANGED <<pc, install, torn>> /\ state' = Stale(state, k)
        /\ loaded' = [s \in Sessions |-> Stale(loaded[s], k)]
        /\ contacts' = [contacts EXCEPT ![k] = 0]
    BY <1>14 DEF Elapse
  <2>2. TornInSave' /\ LoadedIsState' /\ NotYetAsked'
    BY <1>p, <2>1 DEF TornInSave, LoadedIsState, NotYetAsked, Before
  <2>3. \A j \in Installs : j # k => state'[j] = state[j]
    BY <1>t, <2>1, StaleRecords DEF TypeOK
  <2>4. AskedIsRecorded' /\ Throttled'
    BY <1>p, <2>1, <2>3 DEF AskedIsRecorded, Throttled, Fresh, Mine, Before
  <2> QED
    BY <2>2, <2>4
<1>15. ASSUME UNCHANGED vars PROVE ThrottleInv'
  BY <1>11, <1>15 DEF vars, sessionVars
<1> QED
  BY <1>1, <1>2, <1>4, <1>5, <1>6, <1>7, <1>8, <1>9, <1>10, <1>12, <1>13, <1>14, <1>15
  DEF Next, Go

\* If sessions do not overlap and no run is cut off before it has saved its
\* record, the source is checked at most once in an interval, whatever syncs
\* fail and however many installs share the state file.
THEOREM OncePerInterval ==
  ASSUME Alone, MaxOutages = 0
  PROVE  Spec => []Throttled
<1>1. Init => TypeInv /\ ThrottleInv
  BY TypedInit, ThrottleInit
<1>2. TypeInv /\ ThrottleInv /\ [Next]_vars => (TypeInv /\ ThrottleInv)'
  BY TypedStep, ThrottleStep
<1>3. ThrottleInv => Throttled
  BY DEF ThrottleInv
<1> QED
  BY <1>1, <1>2, <1>3, PTL DEF Spec

-----------------------------------------------------------------------------
(* The fingerprint.                                                        *)

\* Sources do not return to what they were, the manifests stay, and no two
\* sessions run for one install.
Apart == \A s, t \in Sessions : s # t => Serves[s] \cap Serves[t] = {}
Steady == Kind # "git" /\ ~Reverts /\ MaxManifests = 0 /\ Apart

\* A fingerprint of install k is of the past, or k is up to date.
Sound(p, k) ==
  p # None => /\ p[2] <= source[RefOf[k]][2]
              /\ p = source[RefOf[k]] => Current(k)

RecordIsSound(st) == \A k \in Installs : st[k] # None => Sound(st[k].peek, k)

RecordsAreSound == RecordIsSound(state) /\ \A s \in Sessions : RecordIsSound(loaded[s])

RunsForItsOwn == \A s \in Sessions : pc[s] # "idle" => install[s] \in Serves[s]

InstalledIsPast ==
  \A k \in Installs : installed[k] # None => installed[k].content[2] <= source[RefOf[k]][2]

PrintIsPast ==
  \A s \in Sessions : pc[s] = "read" => print[s] # None /\ print[s][2] <= source[Ref(s)][2]

\* What was read is no older than the fingerprint nor than what is installed.
ReadIsBetween ==
  \A s \in Sessions : pc[s] = "write" =>
    /\ print[s] # None /\ print[s][2] <= got[s][2]
    /\ got[s][2] <= source[Ref(s)][2]
    /\ installed[install[s]] # None => installed[install[s]].content[2] <= got[s][2]

PrintIsSound ==
  \A s \in Sessions, k \in Installs :
    pc[s] \in {"truncate", "save"} /\ install[s] = k => Sound(print[s], k)

SteadyInv ==
  /\ RunsForItsOwn /\ RecordsAreSound /\ InstalledIsPast
  /\ PrintIsPast /\ ReadIsBetween /\ PrintIsSound

LEMMA SteadyInit == ASSUME Init PROVE SteadyInv
<1>1. RecordsAreSound
  BY DEF Init, RecordsAreSound, RecordIsSound, NoState
<1> QED
  BY <1>1
  DEF Init, SteadyInv, RunsForItsOwn, InstalledIsPast, PrintIsPast, ReadIsBetween, PrintIsSound

\* What a session loads is sound if the file is.
LEMMA LoadIsSound == ASSUME RecordsAreSound PROVE RecordIsSound(Load)
BY DEF RecordsAreSound, RecordIsSound, Load, NoState

\* The fingerprint of last time is that of a sound record.
LEMMA PreviousIsSound ==
  ASSUME TypeOK, RecordsAreSound, NEW s \in Sessions
  PROVE  Sound(Previous(s), install[s])
<1>1. install[s] \in Installs /\ RecordIsSound(loaded[s])
  BY DEF TypeOK, RecordsAreSound
<1> QED
  BY <1>1 DEF Previous, RecordIsSound, Sound

\* One manifest.
LEMMA OneManifest ==
  ASSUME TypeOK, MaxManifests = 0
  PROVE  /\ \A k \in Installs : manifest[k] = 0
         /\ \A s \in Sessions : man[s] = 0
BY DEF TypeOK, Manifest

LEMMA Numbers ==
  ASSUME TypeOK
  PROVE  /\ \A r \in Refs : source[r][2] \in Nat
         /\ \A k \in Installs : installed[k] # None => installed[k].content[2] \in Nat
         /\ \A s \in Sessions : got[s] # None => got[s][2] \in Nat
         /\ \A s \in Sessions : print[s] # None => print[s][2] \in Nat
<1>1. \A c \in Content : c[2] \in Nat
  BY HookAssumption DEF Content
<1>2. \A k \in Installs : installed[k] # None => installed[k].content \in Content
  BY DEF TypeOK, Installed
<1> QED
  BY <1>1, <1>2 DEF TypeOK

\* Content that is no older than what its source offers is what it offers.
LEMMA NewestIsCurrent ==
  ASSUME TypeInv, RefInv, SteadyInv, MaxManifests = 0,
         NEW s \in Sessions, pc[s] = "write", source[Ref(s)][2] <= got[s][2]
  PROVE  Planned(s) = [content |-> source[RefOf[install[s]]], manifest |-> manifest[install[s]]]
<1>1. got[s] \in Content /\ source[Ref(s)] \in Content /\ install[s] \in Installs
      /\ Ref(s) \in Refs
  BY RefTyped DEF TypeInv, TypeOK, ContentIsRead
<1>2. got[s][1] = Ref(s) /\ source[Ref(s)][1] = Ref(s)
  BY <1>1 DEF RefInv, ReadIsOwn, SourceIsItsRef, Ref
<1>3. got[s][2] <= source[Ref(s)][2]
  BY DEF SteadyInv, ReadIsBetween
<1>4. got[s][2] = source[Ref(s)][2]
  BY <1>1, <1>3, Numbers DEF TypeInv, ContentIsRead
<1>5. got[s] = source[Ref(s)]
  BY <1>1, <1>2, <1>4 DEF Content
<1>6. man[s] = manifest[install[s]]
  BY <1>1, OneManifest DEF TypeInv
<1> QED
  BY <1>5, <1>6 DEF Planned, Ref

\* A sync that replaces what is up to date replaces it by the same.
LEMMA CurrentIsPlanned ==
  ASSUME TypeInv, RefInv, SteadyInv, MaxManifests = 0,
         NEW s \in Sessions, pc[s] = "write", Current(install[s])
  PROVE  installed[install[s]] = Planned(s)
<1>1. install[s] \in Installs
  BY DEF TypeInv, TypeOK
<1>2. installed[install[s]] = [content |-> source[Ref(s)], manifest |-> manifest[install[s]]]
  BY DEF Current, Ref
<1>3. installed[install[s]] # None
  <2>1. manifest[install[s]] \in Manifest /\ source[Ref(s)] \in Content
    BY <1>1, RefTyped DEF TypeInv, TypeOK
  <2> QED
    BY <1>2, <2>1, HookAssumption DEF Installed
<1>4. source[Ref(s)][2] <= got[s][2]
  BY <1>2, <1>3 DEF SteadyInv, ReadIsBetween
<1> QED
  BY <1>2, <1>4, NewestIsCurrent DEF Ref

LEMMA SteadyStep ==
  ASSUME Steady, TypeInv, RefInv, SteadyInv, [Next]_vars
  PROVE  SteadyInv'
<1> USE DEF SteadyInv
<1>t. TypeOK
  BY DEF TypeInv
<1>k. Kind # "git" /\ ~Reverts /\ MaxManifests = 0
  BY DEF Steady
<1>p. /\ pc \in [Sessions -> Steps] /\ install \in [Sessions -> Installs]
      /\ state \in State /\ loaded \in [Sessions -> State]
      /\ installed \in [Installs -> Installed \cup {None}]
      /\ print \in [Sessions -> Content \cup {None}]
      /\ got \in [Sessions -> Content \cup {None}]
      /\ source \in [Refs -> Content]
  BY <1>t DEF TypeOK
<1>a. \A s, t \in Sessions : s # t /\ pc[s] # "idle" /\ pc[t] # "idle" => install[s] # install[t]
  BY DEF Steady, Apart, RunsForItsOwn
<1>q. ASSUME UNCHANGED <<source, manifest, installed>>
      PROVE  /\ \A k \in Installs : Current(k)' = Current(k)
             /\ InstalledIsPast'
             /\ UNCHANGED <<state, loaded>> => RecordsAreSound'
  BY <1>q DEF Current, InstalledIsPast, RecordsAreSound, RecordIsSound, Sound
<1>1. ASSUME NEW s \in Sessions, OpenSource(s) PROVE SteadyInv'
  <2>1. pc' = [pc EXCEPT ![s] = "peek"] /\ pc[s] = "source"
        /\ UNCHANGED <<source, manifest, installed, state, loaded, install, got, print>>
    BY <1>1 DEF OpenSource, Goto, worldVars
  <2>2. RecordsAreSound' /\ InstalledIsPast' /\ \A k \in Installs : Current(k)' = Current(k)
    BY <1>q, <2>1
  <2>3. RunsForItsOwn' /\ PrintIsPast' /\ ReadIsBetween'
    BY <1>p, <2>1 DEF RunsForItsOwn, PrintIsPast, ReadIsBetween, Ref
  <2>4. PrintIsSound'
    BY <1>p, <2>1, <2>2 DEF PrintIsSound, Sound
  <2> QED
    BY <2>2, <2>3, <2>4
<1>2. ASSUME NEW s \in Sessions, Peek(s) PROVE SteadyInv'
  <2> DEFINE next == IF source[Ref(s)] = Previous(s) THEN "truncate" ELSE "read"
  <2>0. /\ next \in {"truncate", "read"}
        /\ next = "truncate" => source[Ref(s)] = Previous(s)
    OBVIOUS
  <2>1. /\ pc' = [pc EXCEPT ![s] = next] /\ pc[s] = "peek"
        /\ print' = [print EXCEPT ![s] = source[Ref(s)]]
        /\ UNCHANGED <<source, manifest, installed, state, loaded, install, got>>
    BY <1>2 DEF Peek, Goto, worldVars
  <2> HIDE DEF next
  <2>2. RecordsAreSound' /\ InstalledIsPast' /\ \A k \in Installs : Current(k)' = Current(k)
    BY <1>q, <2>1
  <2>3. RunsForItsOwn' /\ ReadIsBetween'
    BY <1>p, <2>0, <2>1 DEF RunsForItsOwn, ReadIsBetween, Ref
  <2>4. PrintIsPast'
    <3>1. source[Ref(s)] # None /\ source[Ref(s)][2] <= source[Ref(s)][2]
      BY <1>t, <1>p, RefTyped, Numbers, HookAssumption
    <3> QED
      BY <1>p, <2>1, <3>1 DEF PrintIsPast, Ref
  <2>5. PrintIsSound'
    <3>1. Sound(Previous(s), install[s])
      BY <1>t, PreviousIsSound
    <3>2. ASSUME NEW t \in Sessions, NEW k \in Installs,
                 pc'[t] \in {"truncate", "save"}, install'[t] = k
          PROVE  Sound(print'[t], k)
      <4>1. CASE t = s
        BY <1>p, <2>0, <2>1, <3>1, <3>2, <4>1
      <4>2. CASE t # s
        BY <1>p, <2>1, <3>2, <4>2 DEF PrintIsSound
      <4> QED
        BY <4>1, <4>2
    <3> QED
      BY <2>1, <2>2, <3>2 DEF PrintIsSound, Sound
  <2> QED
    BY <2>2, <2>3, <2>4, <2>5
<1>3. ASSUME NEW s \in Sessions, SyncRead(s) PROVE SteadyInv'
  <2>1. /\ pc' = [pc EXCEPT ![s] = "write"] /\ pc[s] = "read"
        /\ got' = [got EXCEPT ![s] = source[Ref(s)]]
        /\ UNCHANGED <<source, manifest, installed, state, loaded, install, print>>
    BY <1>3, <1>k DEF SyncRead, Goto, worldVars
  <2>2. RecordsAreSound' /\ InstalledIsPast' /\ \A k \in Installs : Current(k)' = Current(k)
    BY <1>q, <2>1
  <2>3. RunsForItsOwn' /\ PrintIsPast'
    BY <1>p, <2>1 DEF RunsForItsOwn, PrintIsPast, Ref
  <2>4. ReadIsBetween'
    <3>1. /\ print[s] # None /\ print[s][2] <= source[Ref(s)][2]
          /\ source[Ref(s)][2] <= source[Ref(s)][2]
          /\ installed[install[s]] # None => installed[install[s]].content[2] <= source[Ref(s)][2]
      BY <1>t, <1>p, <2>1, RefTyped, Numbers DEF PrintIsPast, InstalledIsPast, Ref
    <3> QED
      BY <1>p, <2>1, <3>1 DEF ReadIsBetween, Ref
  <2>5. PrintIsSound'
    BY <1>p, <2>1, <2>2 DEF PrintIsSound, Sound
  <2> QED
    BY <2>2, <2>3, <2>4, <2>5
<1>4. ASSUME NEW s \in Sessions, SyncWrite(s) PROVE SteadyInv'
  <2>1. /\ pc' = [pc EXCEPT ![s] = "truncate"] /\ pc[s] = "write"
        /\ installed' = [installed EXCEPT ![install[s]] = Planned(s)]
        /\ UNCHANGED <<source, manifest, state, loaded, install, print, got>>
    BY <1>4 DEF SyncWrite, Goto, worldVars
  <2>2. ASSUME NEW k \in Installs, Current(k) PROVE Current(k)'
    <3>1. installed'[k] = installed[k]
      BY <1>k, <1>p, <2>1, <2>2, CurrentIsPlanned
    <3> QED
      BY <2>1, <2>2, <3>1 DEF Current
  <2>3. RecordsAreSound'
    BY <2>1, <2>2 DEF RecordsAreSound, RecordIsSound, Sound
  <2>4. InstalledIsPast'
    <3>1. Planned(s).content[2] <= source[Ref(s)][2]
      BY <2>1 DEF ReadIsBetween, Planned
    <3> QED
      BY <1>p, <2>1, <3>1 DEF InstalledIsPast, Ref
  <2>5. RunsForItsOwn' /\ PrintIsPast'
    BY <1>p, <2>1 DEF RunsForItsOwn, PrintIsPast, Ref
  <2>6. ReadIsBetween'
    <3>1. ASSUME NEW t \in Sessions, pc'[t] = "write"
          PROVE  t # s /\ pc[t] = "write" /\ installed'[install[t]] = installed[install[t]]
      BY <1>a, <1>p, <2>1, <3>1
    <3> QED
      BY <2>1, <3>1 DEF ReadIsBetween, Ref
  <2>7. PrintIsSound'
    <3>1. Sound(print[s], install[s])'
      <4>1. print[s] # None /\ print[s][2] <= got[s][2] /\ got[s][2] <= source[Ref(s)][2]
        BY <2>1 DEF ReadIsBetween
      <4>2. print[s][2] \in Nat /\ got[s][2] \in Nat /\ source[Ref(s)][2] \in Nat
        BY <1>t, <2>1, <4>1, Numbers, RefTyped DEF TypeInv, ContentIsRead
      <4>3. ASSUME print[s] = source[Ref(s)] PROVE Current(install[s])'
        <5>1. source[Ref(s)][2] <= got[s][2]
          BY <4>1, <4>3
        <5>2. Planned(s) = [content |-> source[RefOf[install[s]]],
                            manifest |-> manifest[install[s]]]
          BY <1>k, <2>1, <5>1, NewestIsCurrent
        <5> QED
          BY <1>p, <2>1, <5>2 DEF Current
      <4> QED
        BY <2>1, <4>1, <4>2, <4>3 DEF Sound, Ref
    <3>2. ASSUME NEW t \in Sessions, NEW k \in Installs, t # s,
                 pc'[t] \in {"truncate", "save"}, install'[t] = k
          PROVE  Sound(print[t], k)
      BY <1>p, <2>1, <3>2 DEF PrintIsSound
    <3> QED
      BY <2>1, <2>2, <3>1, <3>2 DEF PrintIsSound, Sound
  <2> QED
    BY <2>3, <2>4, <2>5, <2>6, <2>7
<1>5. ASSUME NEW s \in Sessions, SaveTruncates(s) PROVE SteadyInv'
  <2>1. pc' = [pc EXCEPT ![s] = "save"] /\ pc[s] = "truncate"
        /\ UNCHANGED <<source, manifest, installed, state, loaded, install, got, print>>
    BY <1>5 DEF SaveTruncates, Goto, worldVars
  <2>2. RecordsAreSound' /\ InstalledIsPast' /\ \A k \in Installs : Current(k)' = Current(k)
    BY <1>q, <2>1
  <2>3. RunsForItsOwn' /\ PrintIsPast' /\ ReadIsBetween'
    BY <1>p, <2>1 DEF RunsForItsOwn, PrintIsPast, ReadIsBetween, Ref
  <2>4. PrintIsSound'
    BY <1>p, <2>1, <2>2 DEF PrintIsSound, Sound
  <2> QED
    BY <2>2, <2>3, <2>4
\* What is left of the runs once one has exited.
<1>e. ASSUME NEW s \in Sessions, pc[s] # "idle", Exit(s), source' = source,
             \A k \in Installs : k # install[s] => installed'[k] = installed[k],
             \A k \in Installs : Current(k) => Current(k)'
      PROVE  RunsForItsOwn' /\ PrintIsPast' /\ ReadIsBetween' /\ PrintIsSound'
  <2>1. pc' = [pc EXCEPT ![s] = "idle"]
    BY <1>e DEF Exit, Goto
  <2>2. \A t \in Sessions : t # s => /\ install'[t] = install[t] /\ print'[t] = print[t]
                                     /\ got'[t] = got[t]
    BY <1>e, <1>p DEF Exit
  <2>3. RunsForItsOwn' /\ PrintIsPast'
    BY <1>e, <1>p, <2>1, <2>2 DEF RunsForItsOwn, PrintIsPast, Ref
  <2>4. ReadIsBetween'
    <3>1. ASSUME NEW t \in Sessions, pc'[t] = "write"
          PROVE  t # s /\ pc[t] = "write" /\ installed'[install[t]] = installed[install[t]]
      BY <1>a, <1>e, <1>p, <2>1, <3>1
    <3> QED
      BY <1>e, <2>2, <3>1 DEF ReadIsBetween, Ref
  <2>5. PrintIsSound'
    BY <1>e, <1>p, <2>1, <2>2 DEF PrintIsSound, Sound
  <2> QED
    BY <2>3, <2>4, <2>5
<1>6. ASSUME NEW s \in Sessions, SaveWrites(s) PROVE SteadyInv'
  <2> DEFINE run == [fresh |-> TRUE, peek |-> print[s]]
  <2>1. /\ Exit(s) /\ pc[s] = "save" /\ UNCHANGED <<source, manifest, installed>>
        /\ state' = [loaded[s] EXCEPT ![install[s]] = run]
    BY <1>6 DEF SaveWrites, worldVars
  <2>2. InstalledIsPast' /\ \A k \in Installs : Current(k)' = Current(k)
    BY <1>q, <2>1
  <2>3. run.peek = print[s]
    OBVIOUS
  <2> HIDE DEF run
  <2>4. RecordIsSound(state)'
    <3>1. Sound(print[s], install[s]) /\ RecordIsSound(loaded[s])
      BY <1>p, <2>1 DEF PrintIsSound, RecordsAreSound
    <3>2. ASSUME NEW k \in Installs, state'[k] # None
          PROVE  Sound(state'[k].peek, k)
      BY <1>p, <2>1, <2>3, <3>1, <3>2 DEF RecordIsSound, State
    <3> QED
      BY <2>1, <2>2, <3>2 DEF RecordIsSound, Sound
  <2>5. \A t \in Sessions, k \in Installs : loaded'[t][k] # None => loaded'[t][k] = loaded[t][k]
    BY <1>p, <2>1 DEF Exit, NoState
  <2>6. RecordsAreSound'
    BY <2>1, <2>2, <2>4, <2>5 DEF RecordsAreSound, RecordIsSound, Sound
  <2> QED
    BY <1>e, <2>1, <2>2, <2>6
\* An interrupted sync leaves what is up to date as it is.
<1>i. ASSUME NEW s \in Sessions, UNCHANGED <<source, manifest>>,
             installed' = installed \/ (pc[s] = "write" /\ Interrupted(s))
      PROVE  /\ \A k \in Installs : Current(k) => Current(k)'
             /\ \A k \in Installs : k # install[s] => installed'[k] = installed[k]
             /\ InstalledIsPast'
  <2>1. CASE installed' = installed
    BY <1>i, <1>q, <2>1
  <2>2. CASE pc[s] = "write" /\ Interrupted(s)
    <3>1. /\ \A k \in Installs : k # install[s] => installed'[k] = installed[k]
          /\ \A k \in Installs : installed'[k] # None => installed'[k] = installed[k]
          /\ installed[install[s]] = Planned(s) => installed' = installed
      BY <1>t, <2>2, InterruptedIsLess
    <3>2. ASSUME NEW k \in Installs, Current(k) PROVE Current(k)'
      <4>1. installed'[k] = installed[k]
        BY <1>k, <2>2, <3>1, <3>2, CurrentIsPlanned
      <4> QED
        BY <1>i, <3>2, <4>1 DEF Current
    <3>3. InstalledIsPast'
      BY <1>i, <3>1 DEF InstalledIsPast
    <3> QED
      BY <3>1, <3>2, <3>3
  <2> QED
    BY <1>i, <2>1, <2>2
<1>7. ASSUME NEW s \in Sessions, SyncFails(s) PROVE SteadyInv'
  <2>1. /\ pc' = [pc EXCEPT ![s] = "truncate"] /\ pc[s] \in {"read", "write"}
        /\ print' = [print EXCEPT ![s] = Previous(s)]
        /\ installed' = installed \/ (pc[s] = "write" /\ Interrupted(s))
        /\ UNCHANGED <<source, manifest, state, loaded, install, got>>
    BY <1>7 DEF SyncFails, Broken, Goto, worldVars
  <2>2. /\ \A k \in Installs : Current(k) => Current(k)'
        /\ \A k \in Installs : k # install[s] => installed'[k] = installed[k]
        /\ InstalledIsPast'
    BY <1>i, <2>1
  <2>3. RecordsAreSound'
    BY <2>1, <2>2 DEF RecordsAreSound, RecordIsSound, Sound
  <2>4. RunsForItsOwn' /\ PrintIsPast'
    BY <1>p, <2>1 DEF RunsForItsOwn, PrintIsPast, Ref
  <2>5. ReadIsBetween'
    <3>1. ASSUME NEW t \in Sessions, pc'[t] = "write"
          PROVE  t # s /\ pc[t] = "write" /\ installed'[install[t]] = installed[install[t]]
      BY <1>a, <1>p, <2>1, <2>2, <3>1
    <3> QED
      BY <1>p, <2>1, <3>1 DEF ReadIsBetween, Ref
  <2>6. PrintIsSound'
    <3>1. Sound(Previous(s), install[s])
      BY <1>t, PreviousIsSound
    <3>2. ASSUME NEW t \in Sessions, NEW k \in Installs,
                 pc'[t] \in {"truncate", "save"}, install'[t] = k
          PROVE  Sound(print'[t], k)
      <4>1. CASE t = s
        BY <1>p, <2>1, <3>1, <3>2, <4>1
      <4>2. CASE t # s
        BY <1>p, <2>1, <3>2, <4>2 DEF PrintIsSound
      <4> QED
        BY <4>1, <4>2
    <3> QED
      BY <2>1, <2>2, <3>2 DEF PrintIsSound, Sound
  <2> QED
    BY <2>2, <2>3, <2>4, <2>5, <2>6
<1>8. ASSUME NEW s \in Sessions, Outage(s) PROVE SteadyInv'
  <2>1. /\ Exit(s) /\ pc[s] # "idle" /\ UNCHANGED <<source, manifest, state>>
        /\ installed' = installed \/ (pc[s] = "write" /\ Interrupted(s))
    BY <1>8 DEF Outage, worldVars
  <2>2. /\ \A k \in Installs : Current(k) => Current(k)'
        /\ \A k \in Installs : k # install[s] => installed'[k] = installed[k]
        /\ InstalledIsPast'
    BY <1>i, <2>1
  <2>3. \A t \in Sessions, k \in Installs : loaded'[t][k] # None => loaded'[t][k] = loaded[t][k]
    BY <1>p, <2>1 DEF Exit, NoState
  <2>4. RecordsAreSound'
    BY <2>1, <2>2, <2>3 DEF RecordsAreSound, RecordIsSound, Sound
  <2> QED
    BY <1>e, <2>1, <2>2, <2>4
<1>9. ASSUME NEW s \in Sessions, NEW k \in Installs, Start(s, k) PROVE SteadyInv'
  <2>1. /\ pc' = [pc EXCEPT ![s] = "source"] /\ k \in Serves[s]
        /\ install' = [install EXCEPT ![s] = k] /\ loaded' = [loaded EXCEPT ![s] = Load]
        /\ UNCHANGED <<source, manifest, installed, state, got, print>>
    BY <1>9 DEF Start, Goto, worldVars
  <2>2. InstalledIsPast' /\ \A j \in Installs : Current(j)' = Current(j)
    BY <1>q, <2>1
  <2>3. RecordsAreSound'
    <3>1. \A t \in Sessions : RecordIsSound(loaded'[t])
      BY <1>p, <2>1, LoadIsSound DEF RecordsAreSound
    <3> QED
      BY <2>1, <2>2, <3>1 DEF RecordsAreSound, RecordIsSound, Sound
  <2>4. RunsForItsOwn' /\ PrintIsPast' /\ ReadIsBetween'
    BY <1>p, <2>1 DEF RunsForItsOwn, PrintIsPast, ReadIsBetween, Ref
  <2>5. PrintIsSound'
    BY <1>p, <2>1, <2>2 DEF PrintIsSound, Sound
  <2> QED
    BY <2>2, <2>3, <2>4, <2>5
<1>10. ASSUME NEW r \in Refs, SourceMoves(r) PROVE SteadyInv'
  <2>1. /\ UNCHANGED <<pc, install, loaded, state, installed, got, print, manifest>>
        /\ source' = [source EXCEPT ![r] = <<r, source[r][2] + 1>>]
    BY <1>10, <1>k DEF SourceMoves, sessionVars
  <2>2. /\ \A q \in Refs : source[q][2] \in Nat /\ source'[q][2] \in Nat
        /\ \A q \in Refs : source[q][2] <= source'[q][2]
        /\ \A q \in Refs : source'[q] # source[q] => source[q][2] < source'[q][2]
    <3>1. \A q \in Refs : source[q][2] \in Nat
      BY <1>t, Numbers
    <3>2. source'[r][2] = source[r][2] + 1 /\ \A q \in Refs : q # r => source'[q] = source[q]
      BY <1>p, <2>1
    <3>3. \A q \in Refs : source'[q][2] \in Nat
      <4>1. source'[r][2] \in Nat
        BY <3>1, <3>2
      <4> QED
        BY <3>1, <3>2, <4>1
    <3>4. \A q \in Refs : source[q][2] <= source'[q][2]
      <4>1. source[r][2] <= source'[r][2]
        BY <3>1, <3>2
      <4> QED
        BY <3>1, <3>2, <4>1
    <3>5. \A q \in Refs : source'[q] # source[q] => source[q][2] < source'[q][2]
      BY <3>1, <3>2
    <3> QED
      BY <3>1, <3>3, <3>4, <3>5
  <2>3. ASSUME NEW p, NEW k \in Installs, p \in Content \cup {None}, Sound(p, k)
        PROVE  Sound(p, k)'
    <3>1. RefOf[k] \in Refs /\ (p # None => p[2] \in Nat)
      BY <2>3, HookAssumption DEF Content
    <3>2. source'[RefOf[k]] = source[RefOf[k]] => (Current(k)' = Current(k))
      BY <2>1 DEF Current
    <3> QED
      BY <2>2, <2>3, <3>1, <3>2 DEF Sound
  <2>4. RecordsAreSound'
    <3>1. ASSUME NEW st \in State, RecordIsSound(st) PROVE RecordIsSound(st)'
      BY <2>3, <3>1, RunsAreRecords DEF RecordIsSound
    <3>2. RecordIsSound(state)'
      BY <1>p, <2>1, <3>1 DEF RecordsAreSound, RecordIsSound
    <3> QED
      BY <1>p, <2>1, <3>1, <3>2 DEF RecordsAreSound, RecordIsSound
  <2>5. InstalledIsPast'
    <3>1. ASSUME NEW k \in Installs, installed[k] # None
          PROVE  installed[k].content[2] <= source'[RefOf[k]][2]
      BY <1>t, <2>2, <3>1, Numbers, HookAssumption DEF InstalledIsPast
    <3> QED
      BY <2>1, <3>1 DEF InstalledIsPast
  <2>6. RunsForItsOwn' /\ PrintIsPast' /\ ReadIsBetween'
    <3>1. \A s \in Sessions : Ref(s) \in Refs /\ Ref(s)' = Ref(s)
      BY <1>t, <2>1, RefTyped DEF Ref
    <3>2. \A s \in Sessions : pc[s] = "write" => got[s] # None
      BY DEF TypeInv, ContentIsRead
    <3>3. PrintIsPast'
      BY <1>t, <2>1, <2>2, <3>1, Numbers DEF PrintIsPast
    <3>4. ReadIsBetween'
      BY <1>t, <2>1, <2>2, <3>1, <3>2, Numbers DEF ReadIsBetween
    <3> QED
      BY <2>1, <3>3, <3>4 DEF RunsForItsOwn
  <2>7. PrintIsSound'
    <3>1. ASSUME NEW s \in Sessions, NEW k \in Installs, NEW p,
                 print[s] = p, pc[s] \in {"truncate", "save"}, install[s] = k
          PROVE  Sound(p, k)'
      BY <1>p, <2>3, <3>1 DEF PrintIsSound
    <3> QED
      BY <2>1, <3>1 DEF PrintIsSound, Sound
  <2> QED
    BY <2>4, <2>5, <2>6, <2>7
<1>11. ASSUME NEW k \in Installs, ChangeManifest(k) PROVE SteadyInv'
  BY <1>11, <1>k, <1>t DEF ChangeManifest, TypeOK
<1>12. ASSUME NEW k \in Installs, Elapse(k) PROVE SteadyInv'
  <2>1. /\ UNCHANGED <<source, manifest, installed, pc, install, got, print>>
        /\ state' = Stale(state, k) /\ loaded' = [s \in Sessions |-> Stale(loaded[s], k)]
    BY <1>12 DEF Elapse, worldVars
  <2>2. InstalledIsPast' /\ \A j \in Installs : Current(j)' = Current(j)
    BY <1>q, <2>1
  <2>3. ASSUME NEW st \in State, RecordIsSound(st) PROVE RecordIsSound(Stale(st, k))
    BY <2>3, StaleRecords DEF RecordIsSound
  <2>4. RecordIsSound(state') /\ \A s \in Sessions : RecordIsSound(loaded'[s])
    BY <1>p, <2>1, <2>3 DEF RecordsAreSound
  <2>5. RecordsAreSound'
    BY <2>1, <2>2, <2>4 DEF RecordsAreSound, RecordIsSound, Sound
  <2>6. RunsForItsOwn' /\ PrintIsPast' /\ ReadIsBetween'
    BY <2>1 DEF RunsForItsOwn, PrintIsPast, ReadIsBetween, Ref
  <2>7. PrintIsSound'
    BY <2>1, <2>2 DEF PrintIsSound, Sound
  <2> QED
    BY <2>2, <2>5, <2>6, <2>7
<1>13. ASSUME UNCHANGED vars PROVE SteadyInv'
  <2>1. UNCHANGED <<source, manifest, installed, state, loaded, pc, install, got, print>>
    BY <1>13 DEF vars, sessionVars
  <2>2. RecordsAreSound' /\ InstalledIsPast' /\ \A k \in Installs : Current(k)' = Current(k)
    BY <1>q, <2>1
  <2> QED
    BY <2>1, <2>2 DEF RunsForItsOwn, PrintIsPast, ReadIsBetween, PrintIsSound, Sound, Ref
<1> QED
  BY <1>1, <1>2, <1>3, <1>4, <1>5, <1>6, <1>7, <1>8, <1>9, <1>10, <1>11, <1>12, <1>13
  DEF Next, Go

\* For folders and gateways that do not return to what they were, as long as
\* the manifests stay and no two sessions run for one install: a recorded
\* fingerprint that still fits means that the install is up to date, although
\* sessions overwrite each other's records, syncs fail midway and processes
\* are killed.
THEOREM FittingMeansCurrent == ASSUME Steady PROVE Spec => []NothingToDo
<1>1. Init => TypeInv /\ RefInv /\ SteadyInv
  BY TypedInit, RefInit, SteadyInit
<1>2. TypeInv /\ RefInv /\ SteadyInv /\ [Next]_vars => (TypeInv /\ RefInv /\ SteadyInv)'
  BY TypedStep, RefStep, SteadyStep DEF Steady, NotShared
<1>3. TypeInv /\ SteadyInv => NothingToDo
  <2>1. SUFFICES ASSUME TypeInv, SteadyInv, NEW k \in Installs, state[k] # None,
                        state[k].peek = source[RefOf[k]]
                 PROVE  Current(k)
    BY DEF NothingToDo
  <2>2. source[RefOf[k]] # None
    <3>1. source \in [Refs -> Content] /\ RefOf[k] \in Refs
      BY <2>1, HookAssumption DEF TypeInv, TypeOK
    <3> QED
      BY <3>1, HookAssumption
  <2>3. Sound(state[k].peek, k)
    BY <2>1 DEF SteadyInv, RecordsAreSound, RecordIsSound
  <2> QED
    BY <2>1, <2>2, <2>3 DEF Sound
<1> QED
  BY <1>1, <1>2, <1>3, PTL DEF Spec

-----------------------------------------------------------------------------
(* HookSettings.  Filtering and flattening are recursive; the induction    *)
(* over sequences that their lemmas need is by a smallest counterexample.  *)

Less == {ss \in Nat \X Nat : ss[1] < ss[2]}

LEMMA LessIsWellFounded == IsWellFoundedOn(Less, Nat)
BY NatLessThanWellFounded DEF OpToRel, Less

\* Induction over the natural numbers and over sequences, for a set instead of
\* a predicate.
LEMMA NumbersFollow ==
  ASSUME NEW P, 0 \in P, \A n \in Nat : n \in P => n + 1 \in P
  PROVE  Nat \subseteq P
<1> SUFFICES ASSUME NEW m \in Nat \ P PROVE FALSE
  OBVIOUS
<1>1. PICK n \in Nat \ P : \A k \in Nat \ P : <<k, n>> \notin Less
  BY LessIsWellFounded, WFMin
<1>2. n # 0 /\ n - 1 \in Nat
  BY <1>1
<1>3. <<n - 1, n>> \in Less
  BY <1>2 DEF Less
<1>4. n - 1 \in P
  BY <1>1, <1>2, <1>3
<1> QED
  BY <1>1, <1>2, <1>4

LEMMA SequencesFollow ==
  ASSUME NEW A, NEW P, <<>> \in P,
         \A s \in Seq(A) : \A x \in A : s \in P => Append(s, x) \in P
  PROVE  Seq(A) \subseteq P
<1> DEFINE Long == {n \in Nat : \A s \in Seq(A) : Len(s) = n => s \in P}
<1>1. 0 \in Long
  BY EmptySeq
<1>2. ASSUME NEW n \in Nat, n \in Long PROVE n + 1 \in Long
  <2> SUFFICES ASSUME NEW s \in Seq(A), Len(s) = n + 1 PROVE s \in P
    OBVIOUS
  <2> DEFINE t == SubSeq(s, 1, n)
  <2>1. t \in Seq(A) /\ Len(t) = n /\ \A i \in 1..n : t[i] = s[i]
    <3>1. \A i \in 1..n : s[i] \in A
      BY ElementOfSeq
    <3> QED
      BY <3>1, SubSeqProperties
  <2>2. s[n + 1] \in A
    BY ElementOfSeq
  <2> HIDE DEF t
  <2>3. s = Append(t, s[n + 1])
    <3>1. Append(t, s[n + 1]) \in Seq(A) /\ Len(Append(t, s[n + 1])) = Len(s)
      BY <2>1, <2>2, AppendProperties
    <3>2. \A i \in 1..Len(s) : s[i] = Append(t, s[n + 1])[i]
      BY <2>1, <2>2, AppendProperties
    <3> QED
      BY <3>1, <3>2, SeqEqual
  <2> QED
    BY <1>2, <2>1, <2>2, <2>3
<1>3. Nat \subseteq Long
  <2> HIDE DEF Long
  <2> QED
    BY <1>1, <1>2, NumbersFollow
<1> QED
  BY <1>3, LenProperties

-----------------------------------------------------------------------------
(* What flattening computes.                                               *)

\* The first n sequences of ss, flattened one after the other.
Flattened(ss, n, h) ==
  h = [i \in 1..n |-> IF i = 1 THEN ss[i] ELSE h[i - 1] \o ss[i]]

LEMMA FlatIs ==
  ASSUME NEW ss, Len(ss) # 0
  PROVE  S!FlattenSeq(ss) = (CHOOSE h : Flattened(ss, Len(ss), h))[Len(ss)]
BY DEF S!FlattenSeq, Flattened

LEMMA FlattenedExists ==
  ASSUME NEW ss, NEW n \in Nat
  PROVE  \E h : Flattened(ss, n, h)
<1> DEFINE Some == {k \in Nat : \E h : Flattened(ss, k, h)}
<1>1. 0 \in Some
  <2>1. Flattened(ss, 0, [i \in 1..0 |-> <<>>])
    BY DEF Flattened
  <2> QED
    BY <2>1
<1>2. ASSUME NEW k \in Nat, k \in Some PROVE k + 1 \in Some
  <2>1. PICK h : Flattened(ss, k, h)
    BY <1>2
  <2> DEFINE g == [i \in 1..(k + 1) |->
                    IF i <= k THEN h[i] ELSE IF i = 1 THEN ss[i] ELSE h[i - 1] \o ss[i]]
  <2>2. ASSUME NEW i \in 1..(k + 1)
        PROVE  g[i] = IF i = 1 THEN ss[i] ELSE g[i - 1] \o ss[i]
    <3>1. CASE i <= k
      <4>1. i \in 1..k /\ (i # 1 => i - 1 \in 1..k)
        BY <3>1
      <4>2. h[i] = IF i = 1 THEN ss[i] ELSE h[i - 1] \o ss[i]
        BY <2>1, <4>1 DEF Flattened
      <4>3. g[i] = h[i] /\ (i # 1 => g[i - 1] = h[i - 1])
        BY <3>1, <4>1
      <4> QED
        BY <4>2, <4>3
    <3>2. CASE ~(i <= k)
      <4>1. i # 1 => i - 1 \in 1..(k + 1) /\ i - 1 <= k
        BY <3>2
      <4>2. i # 1 => g[i - 1] = h[i - 1]
        BY <4>1
      <4> QED
        BY <3>2, <4>2
    <3> QED
      BY <3>1, <3>2
  <2>3. Flattened(ss, k + 1, g)
    <3>1. g = [i \in 1..(k + 1) |-> g[i]]
      OBVIOUS
    <3> HIDE DEF g
    <3>2. g = [i \in 1..(k + 1) |-> IF i = 1 THEN ss[i] ELSE g[i - 1] \o ss[i]]
      BY <2>2, <3>1
    <3> QED
      BY <3>2 DEF Flattened
  <2> QED
    BY <2>3
<1>3. Nat \subseteq Some
  <2> HIDE DEF Some
  <2> QED
    BY <1>1, <1>2, NumbersFollow
<1> QED
  BY <1>3

LEMMA NextFlattened ==
  ASSUME NEW ss, NEW n \in Nat, NEW h, Flattened(ss, n, h), NEW j \in Nat, j + 1 <= n
  PROVE  h[j + 1] = IF j + 1 = 1 THEN ss[j + 1] ELSE h[j] \o ss[j + 1]
<1> DEFINE Value(i) == IF i = 1 THEN ss[i] ELSE h[i - 1] \o ss[i]
<1>1. h = [i \in 1..n |-> Value(i)]
  BY DEF Flattened
<1>2. j + 1 \in 1..n /\ (j + 1) - 1 = j
  OBVIOUS
<1> HIDE DEF Value
<1>3. h[j + 1] = Value(j + 1)
  BY <1>1, <1>2
<1> QED
  BY <1>2, <1>3 DEF Value

LEMMA FlattenedAgree ==
  ASSUME NEW ss, NEW tt, NEW m \in Nat, NEW n \in Nat, NEW g, NEW h,
         Flattened(ss, m, g), Flattened(tt, n, h),
         1 <= m, m <= n, \A i \in 1..m : ss[i] = tt[i]
  PROVE  g[m] = h[m]
<1> DEFINE Same == {j \in Nat : j \in 1..m => g[j] = h[j]}
<1>1. 0 \in Same
  OBVIOUS
<1>2. ASSUME NEW j \in Nat, j \in Same PROVE j + 1 \in Same
  <2> SUFFICES ASSUME j + 1 \in 1..m PROVE g[j + 1] = h[j + 1]
    OBVIOUS
  <2>1. g[j + 1] = IF j + 1 = 1 THEN ss[j + 1] ELSE g[j] \o ss[j + 1]
    BY NextFlattened
  <2>2. h[j + 1] = IF j + 1 = 1 THEN tt[j + 1] ELSE h[j] \o tt[j + 1]
    BY NextFlattened
  <2>3. j + 1 # 1 => g[j] = h[j]
    BY <1>2
  <2> QED
    BY <2>1, <2>2, <2>3
<1>3. Nat \subseteq Same
  <2> HIDE DEF Same
  <2> QED
    BY <1>1, <1>2, NumbersFollow
<1> QED
  BY <1>3

LEMMA FlatOfNone == S!FlattenSeq(<<>>) = <<>>
BY DEF S!FlattenSeq

LEMMA FlatOfMore ==
  ASSUME NEW A, NEW ss \in Seq(Seq(A)), NEW s \in Seq(A)
  PROVE  S!FlattenSeq(Append(ss, s)) = S!FlattenSeq(ss) \o s
<1> DEFINE tt == Append(ss, s)
           m == Len(ss)
<1>1. m \in Nat /\ Len(tt) = m + 1 /\ tt[m + 1] = s /\ \A i \in 1..m : tt[i] = ss[i]
  BY AppendProperties, LenProperties
<1> HIDE DEF tt, m
<1>2. PICK h : h = (CHOOSE f : Flattened(tt, m + 1, f)) /\ Flattened(tt, m + 1, h)
  <2>1. m + 1 \in Nat
    BY <1>1
  <2> QED
    BY <2>1, FlattenedExists
<1>3. S!FlattenSeq(tt) = h[m + 1]
  BY <1>1, <1>2, FlatIs
<1>4. h[m + 1] = IF m + 1 = 1 THEN s ELSE h[m] \o s
  BY <1>1, <1>2, NextFlattened
<1>5. CASE m = 0
  <2>1. ss = <<>>
    BY <1>5, EmptySeq DEF m
  <2> QED
    BY <1>3, <1>4, <1>5, <2>1, FlatOfNone, ConcatEmptySeq DEF tt
<1>6. CASE m # 0
  <2>1. PICK g : g = (CHOOSE f : Flattened(ss, m, f)) /\ Flattened(ss, m, g)
    BY <1>1, FlattenedExists
  <2>2. S!FlattenSeq(ss) = g[m]
    BY <1>6, <2>1, FlatIs DEF m
  <2>3. g[m] = h[m]
    <3>1. m \in Nat /\ m + 1 \in Nat /\ 1 <= m /\ m <= m + 1
      BY <1>1, <1>6
    <3>2. \A i \in 1..m : ss[i] = tt[i]
      BY <1>1
    <3> QED
      BY <1>2, <2>1, <3>1, <3>2, FlattenedAgree
  <2> QED
    BY <1>1, <1>3, <1>4, <1>6, <2>2, <2>3 DEF tt
<1> QED
  BY <1>5, <1>6

\* Flattening keeps to what is in the sequences.
LEMMA FlatType ==
  ASSUME NEW A, NEW ss \in Seq(Seq(A))
  PROVE  S!FlattenSeq(ss) \in Seq(A)
<1> DEFINE P == {tt \in Seq(Seq(A)) : S!FlattenSeq(tt) \in Seq(A)}
<1>1. <<>> \in P
  <2>1. <<>> \in Seq(Seq(A)) /\ <<>> \in Seq(A)
    BY EmptySeq
  <2>2. S!FlattenSeq(<<>>) \in Seq(A)
    BY <2>1, FlatOfNone
  <2> QED
    BY <2>1, <2>2
<1>2. ASSUME NEW tt \in Seq(Seq(A)), NEW s \in Seq(A), tt \in P PROVE Append(tt, s) \in P
  <2>1. S!FlattenSeq(Append(tt, s)) = S!FlattenSeq(tt) \o s
    BY FlatOfMore
  <2>2. S!FlattenSeq(tt) \o s \in Seq(A)
    BY <1>2, ConcatProperties
  <2>3. Append(tt, s) \in Seq(Seq(A))
    BY AppendProperties
  <2> QED
    BY <2>1, <2>2, <2>3
<1>3. Seq(Seq(A)) \subseteq P
  <2> HIDE DEF P
  <2> QED
    BY <1>1, <1>2, SequencesFollow
<1> QED
  BY <1>3

\* What f makes of every member of a sequence.
Image(f, s) == [i \in DOMAIN s |-> f[s[i]]]

LEMMA ImageType ==
  ASSUME NEW A, NEW B, NEW f \in [A -> B], NEW s \in Seq(A)
  PROVE  Image(f, s) \in Seq(B)
<1>1. s \in [1..Len(s) -> A] /\ DOMAIN s = 1..Len(s) /\ Len(s) \in Nat
  BY LenProperties
<1>2. \A i \in 1..Len(s) : f[s[i]] \in B
  BY <1>1
<1>3. Image(f, s) \in [1..Len(s) -> B]
  BY <1>1, <1>2 DEF Image
<1> QED
  BY <1>1, <1>3

\* Append, for the provers to leave alone.
Longer(s, x) == Append(s, x)
Value(f, x) == f[x]

LEMMA ImageOfMore ==
  ASSUME NEW A, NEW B, NEW f \in [A -> B], NEW s \in Seq(A), NEW x \in A
  PROVE  Image(f, Longer(s, x)) = Longer(Image(f, s), Value(f, x))
<1> DEFINE t == Append(s, x)
<1>1. /\ s \in [1..Len(s) -> A] /\ DOMAIN s = 1..Len(s) /\ Len(s) \in Nat
      /\ t \in Seq(A) /\ DOMAIN t = 1..(Len(s) + 1)
      /\ t[Len(s) + 1] = x /\ \A i \in 1..Len(s) : t[i] = s[i]
  BY LenProperties, AppendProperties
<1> HIDE DEF t
<1>2. Image(f, s) \in Seq(B) /\ Len(Image(f, s)) = Len(s)
  <2>1. DOMAIN Image(f, s) = 1..Len(s)
    BY <1>1 DEF Image
  <2> QED
    BY <1>1, <2>1, ImageType, LenProperties
<1>3. Image(f, t) \in Seq(B) /\ Len(Image(f, t)) = Len(s) + 1
  <2>1. \A i \in 1..(Len(s) + 1) : t[i] \in A
    BY <1>1, LenProperties
  <2>2. Image(f, t) \in [1..(Len(s) + 1) -> B]
    BY <1>1, <2>1 DEF Image
  <2> QED
    BY <1>1, <2>2
<1>4. f[x] \in B
  OBVIOUS
<1> DEFINE u == Append(Image(f, s), f[x])
<1>5. /\ u \in Seq(B) /\ Len(u) = Len(s) + 1
      /\ u[Len(s) + 1] = f[x] /\ \A i \in 1..Len(s) : u[i] = Image(f, s)[i]
  BY <1>2, <1>4, AppendProperties
<1> HIDE DEF u
<1>6. \A i \in 1..(Len(s) + 1) : Image(f, t)[i] = u[i]
  BY <1>1, <1>5 DEF Image
<1>7. Image(f, t) = u
  BY <1>3, <1>5, <1>6, SeqEqual
<1> QED
  BY <1>2, <1>7 DEF t, u, Longer, Value

LEMMA ImageOfNone == ASSUME NEW f PROVE Image(f, <<>>) = <<>>
BY DEF Image

-----------------------------------------------------------------------------
(* The members of a sequence that are in a set.                            *)

\* A member of X as a sequence of its own.
Chosen(A, X) == [x \in A |-> IF x \in X THEN <<x>> ELSE <<>>]

LEMMA ChosenType == ASSUME NEW A, NEW X PROVE Chosen(A, X) \in [A -> Seq(A)]
BY DEF Chosen

LEMMA AmongIsImage ==
  ASSUME NEW A, NEW X, NEW s \in Seq(A)
  PROVE  Among(s, X) = S!FlattenSeq(Image(Chosen(A, X), s))
<1>1. \A i \in DOMAIN s : s[i] \in A
  BY LenProperties
<1>2. [i \in DOMAIN s |-> IF s[i] \in X THEN <<s[i]>> ELSE <<>>] = Image(Chosen(A, X), s)
  BY <1>1 DEF Image, Chosen
<1> QED
  BY <1>2 DEF Among

LEMMA AmongOfNone == ASSUME NEW X PROVE Among(<<>>, X) = <<>>
<1>1. [i \in DOMAIN <<>> |-> IF <<>>[i] \in X THEN <<(<<>>[i])>> ELSE <<>>] = <<>>
  OBVIOUS
<1> QED
  BY <1>1, FlatOfNone DEF Among

LEMMA AmongType ==
  ASSUME NEW A, NEW X, NEW s \in Seq(A)
  PROVE  Among(s, X) \in Seq(A)
<1>1. Image(Chosen(A, X), s) \in Seq(Seq(A))
  BY ChosenType, ImageType
<1> QED
  BY <1>1, FlatType, AmongIsImage

LEMMA AmongOfMore ==
  ASSUME NEW A, NEW X, NEW s \in Seq(A), NEW x \in A
  PROVE  Among(Append(s, x), X) = IF x \in X THEN Append(Among(s, X), x) ELSE Among(s, X)
<1> DEFINE B == Seq(A)
<1>1. PICK f \in [A -> B] : f = Chosen(A, X)
  BY ChosenType
<1>2. f[x] = IF x \in X THEN <<x>> ELSE <<>>
  BY <1>1 DEF Chosen
<1>3. /\ Among(s, X) = S!FlattenSeq(Image(f, s))
      /\ Among(Append(s, x), X) = S!FlattenSeq(Image(f, Append(s, x)))
  BY <1>1, AppendProperties, AmongIsImage
<1>4. Image(f, s) \in Seq(B) /\ Image(f, Append(s, x)) = Append(Image(f, s), f[x])
  <2> HIDE DEF B
  <2>1. Image(f, Longer(s, x)) = Longer(Image(f, s), Value(f, x))
    BY ImageOfMore
  <2> QED
    BY <2>1, ImageType DEF Longer, Value
<1>5. f[x] \in Seq(A)
  OBVIOUS
<1>6. S!FlattenSeq(Append(Image(f, s), f[x])) = S!FlattenSeq(Image(f, s)) \o f[x]
  BY <1>4, <1>5, FlatOfMore
<1>7. Among(s, X) \in Seq(A)
  BY AmongType
<1>8. Among(Append(s, x), X) = Among(s, X) \o f[x]
  BY <1>3, <1>4, <1>6
<1>9. Among(s, X) \o <<>> = Among(s, X) /\ Among(s, X) \o <<x>> = Append(Among(s, X), x)
  BY <1>7, ConcatEmptySeq, AppendIsConcat
<1> QED
  BY <1>2, <1>8, <1>9

LEMMA ConcatOfMore ==
  ASSUME NEW A, NEW s \in Seq(A), NEW t \in Seq(A), NEW x \in A
  PROVE  s \o Append(t, x) = Append(s \o t, x)
<1>1. <<x>> \in Seq(A) /\ s \o t \in Seq(A)
  BY ConcatProperties
<1>2. Append(t, x) = t \o <<x>> /\ Append(s \o t, x) = (s \o t) \o <<x>>
  BY <1>1, AppendIsConcat
<1> QED
  BY <1>1, <1>2, ConcatAssociative

LEMMA AmongOfConcat ==
  ASSUME NEW A, NEW X, NEW s \in Seq(A), NEW t \in Seq(A)
  PROVE  Among(s \o t, X) = Among(s, X) \o Among(t, X)
<1> DEFINE P == {u \in Seq(A) : Among(s \o u, X) = Among(s, X) \o Among(u, X)}
<1>1. <<>> \in P
  <2>1. Among(s, X) \in Seq(A)
    BY AmongType
  <2>2. s \o <<>> = s /\ Among(s, X) \o <<>> = Among(s, X)
    BY <2>1, ConcatEmptySeq
  <2> QED
    BY <2>2, AmongOfNone, EmptySeq
<1>2. ASSUME NEW u \in Seq(A), NEW x \in A, u \in P PROVE Append(u, x) \in P
  <2>1. s \o u \in Seq(A) /\ Append(u, x) \in Seq(A) /\ s \o Append(u, x) = Append(s \o u, x)
    BY ConcatProperties, AppendProperties, ConcatOfMore
  <2>2. Among(s, X) \in Seq(A) /\ Among(u, X) \in Seq(A)
    BY AmongType
  <2>3. Among(Append(s \o u, x), X)
          = IF x \in X THEN Append(Among(s \o u, X), x) ELSE Among(s \o u, X)
    <3> DEFINE v == s \o u
    <3>1. v \in Seq(A)
      BY <2>1
    <3> HIDE DEF v
    <3>2. Among(Append(v, x), X) = IF x \in X THEN Append(Among(v, X), x) ELSE Among(v, X)
      BY <3>1, AmongOfMore
    <3> QED
      BY <3>2 DEF v
  <2>4. Among(Append(u, x), X) = IF x \in X THEN Append(Among(u, X), x) ELSE Among(u, X)
    BY AmongOfMore
  <2>5. Among(s, X) \o Append(Among(u, X), x) = Append(Among(s, X) \o Among(u, X), x)
    BY <2>2, ConcatOfMore
  <2>6. Among(s \o u, X) = Among(s, X) \o Among(u, X)
    BY <1>2
  <2>7. Among(s \o Append(u, x), X) = Among(s, X) \o Among(Append(u, x), X)
    <3>1. CASE x \in X
      BY <2>1, <2>3, <2>4, <2>5, <2>6, <3>1
    <3>2. CASE x \notin X
      BY <2>1, <2>3, <2>4, <2>6, <3>2
    <3> QED
      BY <3>1, <3>2
  <2> QED
    BY <2>1, <2>7
<1>3. Seq(A) \subseteq P
  <2> HIDE DEF P
  <2> QED
    BY <1>1, <1>2, SequencesFollow
<1> QED
  BY <1>3

\* Choosing twice chooses nothing else, and nothing is in two sets apart.
LEMMA AmongTwice ==
  ASSUME NEW A, NEW X, NEW Y, X \cap Y = {}, NEW s \in Seq(A)
  PROVE  Among(Among(s, X), X) = Among(s, X) /\ Among(Among(s, X), Y) = <<>>
<1> DEFINE P == {u \in Seq(A) : /\ Among(Among(u, X), X) = Among(u, X)
                                /\ Among(Among(u, X), Y) = <<>>}
<1>1. <<>> \in P
  BY AmongOfNone, EmptySeq
<1>2. ASSUME NEW u \in Seq(A), NEW x \in A, u \in P PROVE Append(u, x) \in P
  <2>1. Append(u, x) \in Seq(A) /\ Among(u, X) \in Seq(A)
    BY AppendProperties, AmongType
  <2>2. Among(Append(u, x), X) = IF x \in X THEN Append(Among(u, X), x) ELSE Among(u, X)
    BY AmongOfMore
  <2>3. \A Z : Among(Append(Among(u, X), x), Z)
                 = IF x \in Z THEN Append(Among(Among(u, X), Z), x) ELSE Among(Among(u, X), Z)
    BY <2>1, AmongOfMore
  <2> QED
    BY <1>2, <2>1, <2>2, <2>3
<1>3. Seq(A) \subseteq P
  <2> HIDE DEF P
  <2> QED
    BY <1>1, <1>2, SequencesFollow
<1> QED
  BY <1>3

LEMMA AmongWithout ==
  ASSUME NEW A, NEW X, NEW s \in Seq(A), \A i \in DOMAIN s : s[i] \notin X
  PROVE  Among(s, X) = <<>>
<1> DEFINE P == {u \in Seq(A) : (\A i \in DOMAIN u : u[i] \notin X) => Among(u, X) = <<>>}
<1>1. <<>> \in P
  BY AmongOfNone, EmptySeq
<1>2. ASSUME NEW u \in Seq(A), NEW x \in A, u \in P PROVE Append(u, x) \in P
  <2> DEFINE t == Append(u, x)
  <2>1. /\ t \in Seq(A) /\ t[Len(u) + 1] = x /\ \A i \in 1..Len(u) : t[i] = u[i]
        /\ DOMAIN t = 1..(Len(u) + 1) /\ DOMAIN u = 1..Len(u) /\ Len(u) \in Nat
    BY LenProperties, AppendProperties
  <2>2. Among(t, X) = IF x \in X THEN Append(Among(u, X), x) ELSE Among(u, X)
    BY AmongOfMore
  <2> HIDE DEF t
  <2>3. SUFFICES ASSUME \A i \in DOMAIN t : t[i] \notin X PROVE Among(t, X) = <<>>
    BY <2>1 DEF t
  <2>4. x \notin X /\ \A i \in DOMAIN u : u[i] \notin X
    BY <2>1, <2>3
  <2> QED
    BY <1>2, <2>2, <2>4
<1>3. Seq(A) \subseteq P
  <2> HIDE DEF P
  <2> QED
    BY <1>1, <1>2, SequencesFollow
<1> QED
  BY <1>3

-----------------------------------------------------------------------------
(* What installing and removing leave of a document.                       *)

Hooks == Ours \cup Theirs
Strip == [e \in Entry |-> Stripped(e)]

\* What stays of an entry.
Stays(e) == IF HasOurs(e) THEN Others(e) ELSE e

LEMMA OthersType == ASSUME NEW e \in Entry PROVE Others(e) \in Entry
BY AmongType DEF Others, Entry

LEMMA StripType == Strip \in [Entry -> Seq(Entry)]
<1>1. ASSUME NEW e \in Entry PROVE Stripped(e) \in Seq(Entry)
  BY OthersType DEF Stripped
<1> QED
  BY <1>1 DEF Strip

LEMMA RemoveOursIs ==
  ASSUME NEW E \in Seq(Entry)
  PROVE  RemoveOurs(E) = S!FlattenSeq(Image(Strip, E))
<1>1. \A i \in DOMAIN E : E[i] \in Entry
  BY LenProperties
<1>2. [i \in DOMAIN E |-> Stripped(E[i])] = Image(Strip, E)
  BY <1>1 DEF Image, Strip
<1> QED
  BY <1>2 DEF RemoveOurs

LEMMA RemoveOursType ==
  ASSUME NEW E \in Seq(Entry)
  PROVE  RemoveOurs(E) \in Seq(Entry)
<1> DEFINE B == Seq(Entry)
<1>1. Strip \in [Entry -> B]
  BY StripType
<1>2. Image(Strip, E) \in Seq(B)
  <2> HIDE DEF B
  <2> QED
    BY <1>1, ImageType
<1> QED
  BY <1>2, FlatType, RemoveOursIs

LEMMA RemoveOursOfNone == RemoveOurs(<<>>) = <<>>
<1>1. <<>> \in Seq(Entry)
  BY EmptySeq
<1> QED
  BY <1>1, RemoveOursIs, ImageOfNone, FlatOfNone

LEMMA RemoveOursOfMore ==
  ASSUME NEW E \in Seq(Entry), NEW e \in Entry
  PROVE  RemoveOurs(Append(E, e)) = RemoveOurs(E) \o Stripped(e)
<1> DEFINE B == Seq(Entry)
<1>1. PICK f \in [Entry -> B] : f = Strip
  BY StripType
<1>2. f[e] = Stripped(e) /\ Stripped(e) \in B
  BY <1>1 DEF Strip
<1>3. /\ RemoveOurs(E) = S!FlattenSeq(Image(f, E))
      /\ RemoveOurs(Append(E, e)) = S!FlattenSeq(Image(f, Append(E, e)))
  BY <1>1, AppendProperties, RemoveOursIs
<1>4. Image(f, E) \in Seq(B) /\ Image(f, Append(E, e)) = Append(Image(f, E), f[e])
  <2> HIDE DEF B
  <2>1. Image(f, Longer(E, e)) = Longer(Image(f, E), Value(f, e))
    BY ImageOfMore
  <2> QED
    BY <2>1, ImageType DEF Longer, Value
<1>5. S!FlattenSeq(Append(Image(f, E), f[e])) = S!FlattenSeq(Image(f, E)) \o f[e]
  BY <1>2, <1>4, FlatOfMore
<1> QED
  BY <1>2, <1>3, <1>4, <1>5

LEMMA StaysOf ==
  ASSUME NEW e \in Entry
  PROVE  /\ Stays(e) \in Entry
         /\ Among(Stays(e), Theirs) = Among(e, Theirs)
         /\ Among(Stays(e), Ours) = <<>>
<1>1. CASE HasOurs(e)
  BY <1>1, OthersType, AmongTwice, SettingsAssumption DEF Stays, Others, Entry
<1>2. CASE ~HasOurs(e)
  <2>1. \A i \in DOMAIN e : e[i] \notin Ours
    BY <1>2 DEF HasOurs, IsOurs
  <2>2. Among(e, Ours) = <<>>
    BY <2>1, AmongWithout DEF Entry
  <2> QED
    BY <1>2, <2>2 DEF Stays
<1> QED
  BY <1>1, <1>2

LEMMA CommandsLeft ==
  ASSUME NEW E \in Seq(Entry), NEW e \in Entry
  PROVE  S!FlattenSeq(RemoveOurs(Append(E, e))) = S!FlattenSeq(RemoveOurs(E)) \o Stays(e)
<1> DEFINE R == RemoveOurs(E)
<1>1. R \in Seq(Seq(Hooks)) /\ e \in Seq(Hooks) /\ Others(e) \in Seq(Hooks)
  BY RemoveOursType, OthersType DEF Entry, Hooks
<1>2. RemoveOurs(Append(E, e)) = R \o Stripped(e)
  BY RemoveOursOfMore
<1>3. S!FlattenSeq(R) \in Seq(Hooks)
  BY <1>1, FlatType
<1> HIDE DEF R
<1>4. \A x \in Seq(Hooks) : R \o <<x>> = Append(R, x)
  BY <1>1, AppendIsConcat
<1>5. \A x \in Seq(Hooks) : S!FlattenSeq(Append(R, x)) = S!FlattenSeq(R) \o x
  BY <1>1, FlatOfMore
<1>6. R \o <<>> = R /\ S!FlattenSeq(R) \o <<>> = S!FlattenSeq(R)
  BY <1>1, <1>3, ConcatEmptySeq
<1>7. CASE ~HasOurs(e)
  BY <1>1, <1>2, <1>4, <1>5, <1>7 DEF R, Stripped, Stays
<1>8. CASE HasOurs(e) /\ Others(e) = <<>>
  BY <1>2, <1>6, <1>8 DEF R, Stripped, Stays
<1>9. CASE HasOurs(e) /\ Others(e) # <<>>
  BY <1>1, <1>2, <1>4, <1>5, <1>9 DEF R, Stripped, Stays
<1> QED
  BY <1>7, <1>8, <1>9

\* Removing takes every command of ours and none of the others.
LEMMA OnlyOursGo ==
  ASSUME NEW E \in Seq(Entry)
  PROVE  /\ Among(S!FlattenSeq(RemoveOurs(E)), Theirs) = Among(S!FlattenSeq(E), Theirs)
         /\ Among(S!FlattenSeq(RemoveOurs(E)), Ours) = <<>>
<1> DEFINE P == {D \in Seq(Entry) :
                  /\ Among(S!FlattenSeq(RemoveOurs(D)), Theirs) = Among(S!FlattenSeq(D), Theirs)
                  /\ Among(S!FlattenSeq(RemoveOurs(D)), Ours) = <<>>}
<1>1. <<>> \in P
  BY RemoveOursOfNone, FlatOfNone, AmongOfNone, EmptySeq
<1>2. ASSUME NEW D \in Seq(Entry), NEW e \in Entry, D \in P PROVE Append(D, e) \in P
  <2> DEFINE left == S!FlattenSeq(RemoveOurs(D))
             all == S!FlattenSeq(D)
  <2>1. /\ left \in Seq(Hooks) /\ all \in Seq(Hooks)
        /\ e \in Seq(Hooks) /\ Stays(e) \in Seq(Hooks)
    BY RemoveOursType, FlatType, StaysOf DEF Entry, Hooks
  <2>2. S!FlattenSeq(RemoveOurs(Append(D, e))) = left \o Stays(e)
    BY CommandsLeft
  <2>3. S!FlattenSeq(Append(D, e)) = all \o e
    BY FlatOfMore DEF Entry
  <2>4. Among(left, Theirs) = Among(all, Theirs) /\ Among(left, Ours) = <<>>
    BY <1>2
  <2> HIDE DEF left, all
  <2>5. \A X : Among(left \o Stays(e), X) = Among(left, X) \o Among(Stays(e), X)
    BY <2>1, AmongOfConcat
  <2>6. Among(all \o e, Theirs) = Among(all, Theirs) \o Among(e, Theirs)
    BY <2>1, AmongOfConcat
  <2>7. Among(left \o Stays(e), Ours) = <<>>
    <3>1. Among(left \o Stays(e), Ours) = <<>> \o <<>>
      BY <2>4, <2>5, StaysOf
    <3> QED
      BY <3>1
  <2>8. Among(left \o Stays(e), Theirs) = Among(all \o e, Theirs)
    <3>1. Among(Stays(e), Theirs) = Among(e, Theirs)
      BY StaysOf
    <3>2. Among(left \o Stays(e), Theirs) = Among(left, Theirs) \o Among(Stays(e), Theirs)
      BY <2>5
    <3> QED
      BY <2>4, <2>6, <3>1, <3>2
  <2> QED
    BY <2>2, <2>3, <2>7, <2>8, AppendProperties
<1>3. Seq(Entry) \subseteq P
  <2> HIDE DEF P
  <2> QED
    BY <1>1, <1>2, SequencesFollow
<1> QED
  BY <1>3

\* Installing adds its command to what is left.
LEMMA OneOfOurs ==
  ASSUME NEW E \in Seq(Entry), NEW c \in Ours
  PROVE  LET F == S!FlattenSeq(Append(RemoveOurs(E), <<c>>)) IN
         /\ Append(RemoveOurs(E), <<c>>) \in Seq(Entry)
         /\ Among(F, Theirs) = Among(S!FlattenSeq(E), Theirs)
         /\ Among(F, Ours) = <<c>>
<1> DEFINE R == RemoveOurs(E)
           left == S!FlattenSeq(R)
<1>1. /\ R \in Seq(Entry) /\ R \in Seq(Seq(Hooks)) /\ c \in Hooks
      /\ <<c>> \in Entry /\ <<c>> \in Seq(Hooks)
  BY RemoveOursType DEF Entry, Hooks
<1>2. left \in Seq(Hooks)
  BY <1>1, FlatType
<1>3. Among(left, Theirs) = Among(S!FlattenSeq(E), Theirs) /\ Among(left, Ours) = <<>>
  BY OnlyOursGo
<1> HIDE DEF R
<1>4. S!FlattenSeq(Append(R, <<c>>)) = left \o <<c>>
  BY <1>1, FlatOfMore
<1>5. Append(R, <<c>>) \in Seq(Entry)
  BY <1>1, AppendProperties
<1> HIDE DEF left
<1>6. left \o <<c>> = Append(left, c)
  BY <1>1, <1>2, AppendIsConcat
<1>7. \A X : Among(Append(left, c), X)
               = IF c \in X THEN Append(Among(left, X), c) ELSE Among(left, X)
  BY <1>1, <1>2, AmongOfMore
<1>8. c \in Ours /\ c \notin Theirs
  BY SettingsAssumption
<1>9. Among(Append(left, c), Theirs) = Among(left, Theirs)
  BY <1>7, <1>8
<1>10. Among(Append(left, c), Ours) = <<c>>
  <2>1. Among(Append(left, c), Ours) = Append(<<>>, c)
    BY <1>3, <1>7, <1>8
  <2> QED
    BY <2>1
<1> QED
  BY <1>3, <1>4, <1>5, <1>6, <1>9, <1>10 DEF R

-----------------------------------------------------------------------------
(* What a command writes.                                                  *)

LEMMA StartOf ==
  ASSUME NEW d \in Document
  PROVE  SessionStart(d) \in Seq(Entry)
BY EmptySeq DEF SessionStart, Document

\* Both commands write a document that has what the user had, and installing
\* one command of ours.
LEMMA RemovedIs ==
  ASSUME NEW d \in Document
  PROVE  /\ Removed(d) \in Document /\ Removed(d).start # Odd
         /\ d.start # Odd => UserPart(Removed(d)) = UserPart(d)
<1> DEFINE E == SessionStart(d)
           R == RemoveOurs(E)
<1>1. E \in Seq(Entry)
  BY StartOf
<1> HIDE DEF E
<1>2. R \in Seq(Entry) /\ R # Odd
  BY <1>1, RemoveOursType, SettingsAssumption
<1>3. Among(S!FlattenSeq(R), Theirs) = Among(S!FlattenSeq(E), Theirs)
  BY <1>1, OnlyOursGo
<1> HIDE DEF R
<1>4. Removed(d) = [d EXCEPT !.start = R]
  BY DEF Removed, E, R
<1>5. Removed(d) \in Document /\ Removed(d).start = R /\ Removed(d).rest = d.rest
  BY <1>2, <1>4 DEF Document
<1> DEFINE g == Removed(d)
<1> HIDE DEF g
<1>6. g \notin {Missing, Invalid, Null} /\ d \notin {Missing, Invalid, Null}
  BY <1>5, SettingsAssumption DEF g
<1>7. Commands(g) = S!FlattenSeq(R) /\ Commands(d) = S!FlattenSeq(E)
  BY <1>2, <1>5, <1>6 DEF Commands, SessionStart, E, g
<1>8. UserPart(g) = [rest |-> d.rest, hooks |-> Among(S!FlattenSeq(R), Theirs), odd |-> FALSE]
  BY <1>2, <1>5, <1>6, <1>7 DEF UserPart, Others, g
<1>9. UserPart(d)
        = [rest |-> d.rest, hooks |-> Among(S!FlattenSeq(E), Theirs), odd |-> (d.start = Odd)]
  BY <1>6, <1>7 DEF UserPart, Others
<1> QED
  BY <1>2, <1>3, <1>5, <1>8, <1>9 DEF g

LEMMA WithHookIs ==
  ASSUME NEW d \in Document, NEW c \in Ours
  PROVE  /\ WithHook(d, c) \in Document /\ WithHook(d, c).start # Odd
         /\ d.start # Odd => UserPart(WithHook(d, c)) = UserPart(d)
         /\ Among(Commands(WithHook(d, c)), Ours) = <<c>>
<1> DEFINE E == SessionStart(d)
           R == Append(RemoveOurs(E), <<c>>)
<1>1. E \in Seq(Entry)
  BY StartOf
<1> HIDE DEF E
<1>2. /\ R \in Seq(Entry)
      /\ Among(S!FlattenSeq(R), Theirs) = Among(S!FlattenSeq(E), Theirs)
      /\ Among(S!FlattenSeq(R), Ours) = <<c>>
  BY <1>1, OneOfOurs
<1>3. R # Odd
  BY <1>2, SettingsAssumption
<1> HIDE DEF R
<1>4. WithHook(d, c) = [d EXCEPT !.start = R]
  BY DEF WithHook, E, R
<1>5. WithHook(d, c) \in Document /\ WithHook(d, c).start = R /\ WithHook(d, c).rest = d.rest
  BY <1>2, <1>4 DEF Document
<1> DEFINE g == WithHook(d, c)
<1> HIDE DEF g
<1>6. g \notin {Missing, Invalid, Null} /\ d \notin {Missing, Invalid, Null}
  BY <1>5, SettingsAssumption DEF g
<1>7. Commands(g) = S!FlattenSeq(R) /\ Commands(d) = S!FlattenSeq(E)
  BY <1>3, <1>5, <1>6 DEF Commands, SessionStart, E, g
<1>8. UserPart(g) = [rest |-> d.rest, hooks |-> Among(S!FlattenSeq(R), Theirs), odd |-> FALSE]
  BY <1>3, <1>5, <1>6, <1>7 DEF UserPart, Others, g
<1>9. UserPart(d)
        = [rest |-> d.rest, hooks |-> Among(S!FlattenSeq(E), Theirs), odd |-> (d.start = Odd)]
  BY <1>6, <1>7 DEF UserPart, Others
<1> QED
  BY <1>2, <1>3, <1>5, <1>7, <1>8, <1>9 DEF g

\* A missing file is an empty document.
LEMMA EmptyDocIs ==
  /\ EmptyDoc \in Document /\ EmptyDoc.start # Odd
  /\ UserPart(EmptyDoc) = UserPart(Missing)
<1>1. <<>> \in Seq(Entry) /\ NoRest \in Rests
  BY EmptySeq, SettingsAssumption DEF NoRest
<1>2. EmptyDoc \in Document /\ EmptyDoc.start = <<>> /\ EmptyDoc.rest = NoRest /\ <<>> # Odd
  BY <1>1, SettingsAssumption DEF EmptyDoc, Document
<1>3. EmptyDoc \notin {Missing, Invalid, Null}
  BY <1>2, SettingsAssumption
<1>4. Others(Commands(EmptyDoc)) = <<>>
  BY <1>2, <1>3, FlatOfNone, AmongOfNone DEF Commands, SessionStart, Others
<1> QED
  BY <1>2, <1>3, <1>4 DEF UserPart

\* From reading on, a command has a document to write, unless it read a
\* `null`, with one command of ours if it installs; what is renamed is that
\* document.
Intended ==
  /\ stage \in {"temp", "rename"} => doc # Missing
  /\ stage # "idle" /\ doc # Missing =>
       /\ doc \in Document /\ doc.start # Odd
       /\ op.kind = "install" => Among(Commands(doc), Ours) = <<op.cmd>>
  /\ stage = "rename" => temp = doc

SettingsInv == SettingsTypeOK /\ Intended

LEMMA OpIs ==
  /\ NoOp.kind = "none" /\ Remove.kind = "remove"
  /\ \A c \in Ours : Install(c).kind = "install" /\ Install(c).cmd = c
BY DEF NoOp, Remove, Install

LEMMA IntendedInit == SettingsInit => SettingsInv
<1> SUFFICES ASSUME SettingsInit PROVE SettingsInv
  OBVIOUS
<1>1. SettingsTypeOK
  BY SettingsAssumption DEF SettingsInit, SettingsTypeOK, Files
<1> QED
  BY <1>1 DEF SettingsInit, SettingsInv, Intended

LEMMA IntendedStep == SettingsInv /\ [SettingsNext]_settingsVars => SettingsInv'
<1> SUFFICES ASSUME SettingsInv, [SettingsNext]_settingsVars PROVE SettingsInv'
  OBVIOUS
<1> USE DEF settingsCounts
<1>0. SettingsTypeOK /\ Intended
  BY DEF SettingsInv
<1>1. ASSUME NEW c \in Ours, StartInstall(c) PROVE SettingsInv'
  <2>1. CASE file = Invalid
    <3>1. /\ Quit /\ runs < MaxRuns /\ runs' = runs + 1
          /\ UNCHANGED <<file, temp, backup, edits, faults>>
      BY <1>1, <2>1 DEF StartInstall
    <3>2. SettingsTypeOK' /\ stage' = "idle"
      BY <1>0, <3>1, SettingsAssumption DEF Quit, SettingsTypeOK
    <3> QED
      BY <3>2 DEF Intended, SettingsInv
  <2>2. CASE file # Invalid
    <3>1. /\ stage' = "backup" /\ op' = Install(c)
          /\ runs < MaxRuns /\ runs' = runs + 1
          /\ UNCHANGED <<file, temp, backup, raced, edits, faults>>
      BY <1>1, <2>2 DEF StartInstall
    <3>2. CASE file = Null
      <4>1. doc' = Missing
        BY <1>1, <3>2, SettingsAssumption DEF StartInstall
      <4>2. SettingsTypeOK'
        BY <1>0, <3>1, <4>1, SettingsAssumption DEF SettingsTypeOK
      <4> QED
        BY <3>1, <4>1, <4>2 DEF Intended, SettingsInv
    <3>3. CASE file # Null
      <4> DEFINE d == IF file = Missing THEN EmptyDoc ELSE file
      <4>1. d \in Document
        BY <1>0, <2>2, <3>3, EmptyDocIs DEF SettingsTypeOK, Files
      <4>2. doc' = WithHook(d, c)
        BY <1>1, <2>2, <3>3, SettingsAssumption DEF StartInstall
      <4> HIDE DEF d
      <4>3. doc' \in Document /\ doc'.start # Odd /\ Among(Commands(doc'), Ours) = <<c>>
        BY <4>1, <4>2, WithHookIs
      <4>4. SettingsTypeOK'
        BY <1>0, <3>1, <4>3, SettingsAssumption DEF SettingsTypeOK
      <4> QED
        BY <3>1, <4>3, <4>4, OpIs DEF Intended, SettingsInv
    <3> QED
      BY <3>2, <3>3
  <2> QED
    BY <2>1, <2>2
<1>2. CASE StartRemove
  <2>1. CASE stage' = "idle"
    <3>1. /\ Quit /\ runs < MaxRuns /\ runs' = runs + 1
          /\ UNCHANGED <<file, temp, backup, edits, faults>>
      BY <1>2, <2>1 DEF StartRemove
    <3>2. SettingsTypeOK'
      BY <1>0, <3>1, SettingsAssumption DEF Quit, SettingsTypeOK
    <3> QED
      BY <2>1, <3>2 DEF Intended, SettingsInv
  <2>2. CASE stage' # "idle"
    <3>1. /\ stage' = "backup" /\ op' = Remove /\ doc' = Removed(file)
          /\ runs < MaxRuns /\ runs' = runs + 1 /\ file \notin {Missing, Invalid, Null}
          /\ UNCHANGED <<file, temp, backup, raced, edits, faults>>
      BY <1>2, <2>2 DEF StartRemove, Quit
    <3>2. doc' \in Document /\ doc'.start # Odd
      BY <1>0, <3>1, RemovedIs DEF SettingsTypeOK, Files
    <3>3. SettingsTypeOK'
      BY <1>0, <3>1, <3>2, SettingsAssumption DEF SettingsTypeOK
    <3> QED
      BY <3>1, <3>2, <3>3, OpIs DEF Intended, SettingsInv
  <2> QED
    BY <2>1, <2>2
<1>3. CASE Backup
  <2>1. CASE doc = Missing
    BY <1>0, <1>3, <2>1, SettingsAssumption
    DEF Backup, Quit, SettingsTypeOK, Intended, SettingsInv
  <2>2. CASE doc # Missing
    BY <1>0, <1>3, <2>2 DEF Backup, SettingsTypeOK, Intended, SettingsInv
  <2> QED
    BY <2>1, <2>2
<1>4. CASE WriteTemp
  BY <1>0, <1>4 DEF WriteTemp, SettingsTypeOK, Intended, SettingsInv
<1>5. CASE Rename
  <2>1. temp \in Files
    BY <1>0 DEF SettingsTypeOK, Files
  <2> QED
    <3>1. stage' = "idle" /\ SettingsTypeOK'
      BY <1>0, <1>5, <2>1 DEF Rename, Quit, SettingsTypeOK
    <3> QED
      BY <3>1 DEF Intended, SettingsInv
<1>6. CASE Fail
  BY <1>0, <1>6, SettingsAssumption DEF Fail, Quit, Files, SettingsTypeOK, Intended, SettingsInv
<1>7. CASE Edit
  <2>1. file' \in Files
    BY <1>7, SettingsAssumption DEF Edit, Files
  <2>2. raced' \in {"no", "before", "after"}
    BY <1>0, <1>7 DEF Edit, SettingsTypeOK
  <2>3. edits' \in 0..MaxEdits
    BY <1>0, <1>7, SettingsAssumption DEF Edit, SettingsTypeOK
  <2>4. UNCHANGED <<temp, backup, stage, op, doc, runs, faults>>
    BY <1>7 DEF Edit
  <2> QED
    BY <1>0, <2>1, <2>2, <2>3, <2>4 DEF SettingsTypeOK, Intended, SettingsInv
<1>8. CASE UNCHANGED settingsVars
  BY <1>0, <1>8 DEF settingsVars, SettingsTypeOK, Intended, SettingsInv
<1> QED
  BY <1>1, <1>2, <1>3, <1>4, <1>5, <1>6, <1>7, <1>8 DEF SettingsNext, Sgw

\* Every file that is there or on its way is one of the files that the code
\* can read or write (hook.go:213-255).
THEOREM SettingsTypeCorrect == SettingsSpec => []SettingsTypeOK
<1>1. SettingsInv => SettingsTypeOK
  BY DEF SettingsInv
<1> QED
  BY <1>1, IntendedInit, IntendedStep, PTL DEF SettingsSpec

\* Only the rename replaces the file, and only from a document.
LEMMA OnlyRenameReplaces ==
  ASSUME [SettingsNext]_settingsVars, edits \in Nat, Replaced
  PROVE  Rename
<1>1. ~Edit /\ ~UNCHANGED settingsVars
  BY DEF Edit, Replaced, Racing, settingsVars
<1> QED
  BY <1>1
  DEF SettingsNext, Sgw, StartInstall, StartRemove, Backup, WriteTemp, Fail, Replaced

\* Whatever was installed before, and whatever the user did with it, after
\* installing there is one command of ours, the new one (hook.go:151-180).
THEOREM InstalledExactlyOnce == SettingsSpec => InstalledOnce
<1>1. SettingsInv /\ [SettingsNext]_settingsVars =>
        [stage = "rename" /\ op.kind = "install" /\ Replaced =>
           Among(Commands(file'), Ours) = <<op.cmd>>]_settingsVars
  <2> SUFFICES ASSUME SettingsInv, [SettingsNext]_settingsVars,
                      stage = "rename", op.kind = "install", Replaced
               PROVE  Among(Commands(file'), Ours) = <<op.cmd>>
    OBVIOUS
  <2>1. Rename
    BY OnlyRenameReplaces DEF SettingsInv, SettingsTypeOK
  <2>2. file' = doc
    BY <2>1 DEF Rename, SettingsInv, Intended
  <2> QED
    BY <2>2 DEF SettingsInv, Intended
<1> QED
  BY <1>1, IntendedInit, IntendedStep, PTL DEF SettingsSpec, InstalledOnce

-----------------------------------------------------------------------------
(* What is the user's survives, if her lists have the documented shape.    *)

ShapesAreKnown == \A d \in UserDocs \cap Document : d.start # Odd

\* Until others write the file, what will be written has what the file has.
NothingIsLost ==
  /\ file \in Document => file.start # Odd
  /\ stage = "idle" => raced = "no"
  /\ stage # "idle" /\ doc # Missing /\ raced = "no" =>
       file \notin {Invalid, Null} /\ UserPart(doc) = UserPart(file)

LEMMA NothingIsLostStep ==
  ASSUME ShapesAreKnown, SettingsInv, NothingIsLost, [SettingsNext]_settingsVars
  PROVE  NothingIsLost'
<1> USE DEF settingsCounts
<1>0. SettingsTypeOK /\ Intended
  BY DEF SettingsInv
<1>1. ASSUME NEW c \in Ours, StartInstall(c) PROVE NothingIsLost'
  <2>1. CASE file = Invalid
    BY <1>1, <2>1 DEF StartInstall, Quit, NothingIsLost
  <2>2. CASE file = Null
    <3>1. doc' = Missing /\ UNCHANGED <<file, raced>> /\ stage' = "backup"
      BY <1>1, <2>2, SettingsAssumption DEF StartInstall
    <3> QED
      BY <3>1 DEF NothingIsLost
  <2>3. CASE file \notin {Invalid, Null}
    <3> DEFINE d == IF file = Missing THEN EmptyDoc ELSE file
    <3>1. d \in Document /\ d.start # Odd /\ UserPart(d) = UserPart(file)
      BY <1>0, <2>3, EmptyDocIs DEF SettingsTypeOK, Files, NothingIsLost
    <3>2. stage' = "backup" /\ doc' = WithHook(d, c) /\ UNCHANGED <<file, raced>>
      BY <1>1, <2>3, SettingsAssumption DEF StartInstall
    <3> HIDE DEF d
    <3>3. UserPart(doc') = UserPart(file)
      BY <3>1, <3>2, WithHookIs
    <3> QED
      BY <2>3, <3>2, <3>3 DEF NothingIsLost
  <2> QED
    BY <2>1, <2>2, <2>3
<1>2. CASE StartRemove
  <2>1. CASE stage' = "idle"
    BY <1>2, <2>1 DEF StartRemove, Quit, NothingIsLost
  <2>2. CASE stage' # "idle"
    <3>1. /\ stage' = "backup" /\ doc' = Removed(file) /\ file \notin {Missing, Invalid, Null}
          /\ UNCHANGED <<file, raced>>
      BY <1>2, <2>2 DEF StartRemove, Quit
    <3>2. file \in Document /\ file.start # Odd
      BY <1>0, <3>1 DEF SettingsTypeOK, Files, NothingIsLost
    <3>3. UserPart(doc') = UserPart(file)
      BY <3>1, <3>2, RemovedIs
    <3> QED
      BY <3>1, <3>3 DEF NothingIsLost
  <2> QED
    BY <2>1, <2>2
<1>3. CASE Backup
  BY <1>3 DEF Backup, Quit, NothingIsLost
<1>4. CASE WriteTemp
  BY <1>4 DEF WriteTemp, NothingIsLost
<1>5. CASE Rename
  <2>1. file' = doc /\ stage' = "idle" /\ raced' = "no"
    BY <1>0, <1>5 DEF Rename, Quit, Intended
  <2>2. doc.start # Odd
    BY <1>0, <1>5 DEF Rename, Intended
  <2> QED
    BY <2>1, <2>2 DEF NothingIsLost
<1>6. CASE Fail
  BY <1>6 DEF Fail, Quit, NothingIsLost
<1>7. CASE Edit
  <2>1. file' \in UserDocs /\ UNCHANGED <<stage, doc>>
    BY <1>7 DEF Edit
  <2>2. file' \in Document => file'.start # Odd
    BY <2>1 DEF ShapesAreKnown
  <2>3. IF stage = "idle" THEN raced' = "no" ELSE raced' # "no"
    BY <1>0, <1>7 DEF Edit, SettingsTypeOK
  <2> QED
    BY <2>1, <2>2, <2>3 DEF NothingIsLost
<1>8. CASE UNCHANGED settingsVars
  BY <1>8 DEF settingsVars, NothingIsLost
<1> QED
  BY <1>1, <1>2, <1>3, <1>4, <1>5, <1>6, <1>7, <1>8 DEF SettingsNext, Sgw

\* Installing and removing leave the rest of the file and the user's hooks as
\* they were when the file was read, wherever they are interrupted, and do
\* not write a file they could not read (hook.go:151-152, 221-223, 250-254).
THEOREM UsersPartIsKept == ASSUME ShapesAreKnown PROVE SettingsSpec => UserPartSurvives
<1>1. SettingsInit => NothingIsLost
  BY DEF SettingsInit, ShapesAreKnown, NothingIsLost
<1>2. SettingsInv /\ NothingIsLost /\ [SettingsNext]_settingsVars => NothingIsLost'
  BY NothingIsLostStep
<1>3. SettingsInv /\ NothingIsLost /\ [SettingsNext]_settingsVars =>
        [Replaced =>
           /\ file' \notin {Invalid, Null}
           /\ raced = "no" => file \notin {Invalid, Null} /\ UserPart(file') = UserPart(file)]_settingsVars
  <2> SUFFICES ASSUME SettingsInv, NothingIsLost, [SettingsNext]_settingsVars, Replaced
               PROVE  /\ file' \notin {Invalid, Null}
                      /\ raced = "no" => file \notin {Invalid, Null} /\ UserPart(file') = UserPart(file)
    OBVIOUS
  <2>1. Rename
    BY OnlyRenameReplaces DEF SettingsInv, SettingsTypeOK
  <2>2. stage = "rename" /\ file' = doc /\ doc # Missing /\ doc \in Document
    BY <2>1 DEF Rename, SettingsInv, Intended
  <2>3. doc \notin {Invalid, Null}
    BY <2>2, SettingsAssumption
  <2> QED
    BY <2>2, <2>3 DEF NothingIsLost
<1> QED
  BY <1>1, <1>2, <1>3, IntendedInit, IntendedStep, PTL DEF SettingsSpec, UserPartSurvives

=============================================================================
