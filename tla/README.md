# Formal models of skills-gateway

TLA+ models of skills-gateway: a registry that serves agent skills under a
policy, and `sgw`, the command that installs them into projects and keeps them
up to date. The modules are translated from the Go source; documents and
comments are used only as claims to hold the code against. `PROJECT.json` maps
every definition to the lines it stands for.

Check a model with `tlc -workers 2 -config X.cfg MCModule`, a proof module with
`tlapm XProofs.tla`.

## The system

| component | source | state it keeps | operations |
|---|---|---|---|
| sync engine | `internal/syncer`, `internal/translate` | files under a project root, `sgw-lock.json`, `.sgw-tmp` files | `SyncWith` (`sgw sync`), `Install` (`sgw fetch`) |
| sources | `internal/source` | the git cache; folders, repositories and gateways belong to others | `List`, `Resolve`, `Peek` for a git ref, a folder, a gateway |
| session hook | `cmd/sgw/hook.go`, `internal/hook/state.go` | `state.json`, shared by all installs of a user | `sgw sync -hook` at the start of every agent session |
| hook settings | `internal/hook/hook.go` | the agent's `settings.json`, a backup, a `.sgw-tmp` file | `sgw hook install`, `remove`, `status` |
| registry | `internal/registry` | none of its own | Publish, Deprecate, Get, Files, Versions, List, ExportAudit |
| store | `internal/store/sqlite` | `skill_versions`, `skill_files`, `audit_events` in one SQLite file with one connection | the queries of the registry, `Tx` |
| policy | `internal/policy` | the rules, read once | `Parse`, `Decide` |
| HTTP server | `internal/server` | none | routing, request ids, ETags, limits, encoding |
| MCP server | `internal/mcp` | none | skills as MCP resources and tools, read from the registry |
| authentication | `internal/auth` | keys of the issuer | a token becomes a principal |
| bundles, skills | `internal/bundle`, `internal/skill` | none | archives, digests, front matter |
| translators | `internal/translate` | none | a bundle becomes the files of an agent |
| commands, client | `cmd/sgw`, `internal/client`, `internal/config` | none | flags, configuration, HTTP calls |

How they interact. A session start runs the hook, which throttles itself with
`state.json`, asks the source for a fingerprint (`Peek`) and, when it changed,
runs the sync engine on a source. The sync engine resolves each skill of the
manifest through the source. A gateway source calls the HTTP server, which
authenticates the caller and calls the registry; the registry asks the policy
for a decision per version and the store for rows, and records what it did in
the audit log. Nothing in `sgw` takes a lock: two runs, the developer's editor
and the agent that owns the settings file share files. In the server every
request is a goroutine, and all of them share one database connection.

What is hard, per component, and what makes the component correct:

- **Sync engine.** Runs overlap with each other and with the developer, and may
  stop after any file-system call. Correct means: nothing unverified is
  written; nothing is written unless everything wanted can be; edits survive;
  the lock describes what is on disk; pins hold over a history of syncs; the
  project catches up with the source.
- **Session hook.** The source moves between the steps of a run, sessions
  overwrite each other's records, syncs fail. Correct means: a recorded
  fingerprint vouches for what is installed; one check per interval; installs
  from one repository do not get each other's content; everything converges.
- **Hook settings.** The file belongs to somebody else, holds anything JSON can,
  and a command may be interrupted. Correct means: the rest of the file stays,
  and our hook is there once after install and gone after remove.
- **Registry and store.** A request is several queries with other requests in
  between, statements fail, callers disconnect, the server dies. Correct means:
  versions are immutable, every change comes with one record of it, answers are
  true, denials are recorded before they are answered, nobody waits for ever for
  the one connection.
- **Policy and authentication.** A scan in file order with an early return must
  decide what an unordered set of rules means, for the principal that the token
  names and no other.
- **Bundles.** An archive is read entry by entry by the server, encoded anew and
  read again by every client; a folder is read by a folder source and by
  `sgw publish`. Correct means: exactly the valid archives are accepted, what is
  fetched is what was published, whatever the network did, and one folder gives
  the same skill by either way.
- **Reading the catalogue.** A listing is several pages of a catalogue that
  changes in between, and what is listed is fetched later, in two requests.
  Correct means: a listing is true of the time it took, agrees with `latest`,
  ends, and no two versions are mixed.
- **Fingerprints.** `Peek` must say of a source, in one cheap request, what a
  full read of it would say, while the source changes. Correct means: one
  fingerprint stands for one content, the cache follows the remote, and a
  recorded fingerprint that is still current means there is nothing to do.
- **HTTP and MCP.** A client revalidates what it keeps by entity tags while
  `latest` and the status change, and a handler resolves, reads and answers in
  several queries. Correct means: what the client keeps after an answer is what
  the catalogue said of the version that answered.

The hazards are listed one by one, at their lines, in `PROJECT.json`.

## The modules

### Sync and Project: the sync engine

`Sync.tla` has one process per run. `pc` walks through `SyncWith`: `readLock`,
`refs` (the manifest's `*`), `prepare` (one skill per step: resolve, verify,
pin, translate, collision check), then per file `check` (`locallyEdited`),
`temp` and `fill` (open and write the `.sgw-tmp` file) and `rename`, then per
stale file `stale` (hash) and `remove`, then the same three steps for the lock.
Between any
two steps another run, the developer (`Edit`, `ChangeManifest`) or the source
(`SourceMoves`) may act, and `Fail` ends a run anywhere. `out`, `plan`, `old`
and `kept` are the local variables of `SyncWith`; `disk`, `temp`, `lock` and
`lockTemp` are the files. A content is its own digest, and `Out[r][c][p]` is
what the translators make of content `c` of skill `r` at path `p`, so
translation is deterministic and otherwise arbitrary. Go iterates over maps, so
files and skills come in any order. `author` is a history variable: who wrote
the file that is now at a path. With `RacingEdits` the developer saves at any
moment, also while a run is writing; a save at a path in the window between the
look at the file and its rename or removal (`Targeted`) has the author
`"raced"`, and only that save may be lost.

`os.WriteFile` is two steps on a file that all runs share: it creates or empties
the `.sgw-tmp` file (`OpenTemp`, `SaveLock`), and fills it (`FillTemp`,
`FillLock`). A run keeps the file it has opened, not its name: `fd` says
whether that file is still the `.sgw-tmp` file, has been renamed into place by
another run, or is nobody's any more. So a run may truncate what another has
filled, rename what another has just emptied, or write into a file that is
already in place; what is left of two writes is `Torn`, and an opened file is
`Empty`. `Fail` in the middle of a write leaves a part of it. A lock that is empty
or torn does not parse and ends every run that reads it (`ReadLock`).

`unreadable` is the set of files that nobody can read, because of their mode, a
lock of another program or the disk (`Seal`, `Unseal`, at the paths `Sealable`).
`locallyEdited` takes every error for a file that is gone (`syncer.go:255-257`), so
a run without `-force` replaces an edited file that it cannot read; `blind` marks
such a run, and `Overlooked` is the case in `RecordedEditsSurvive`.
`removeIfUnchanged` leaves such a file alone.

`sgw fetch` is the mode `"fetch"`: one skill out of `Fetchable`, no pin, forced
writes, no lock.

`Project.tla` is what the owner of a project is promised by runs that come one at
a time: a run takes a file in hand (`Look`), unless it is an edit that the lock
records, that can be read, and nobody said `-force`; it makes the file what a verified bundle has
there (`Bring`) or, if the lock records it, removes it (`TakeAway`); and it ends
anywhere, or with the lock of one whole manifest, from one source, with pins
respected and no file that the lock claims left in the old version (`Commit`).
The refinement `ImplementsProject` maps `run` to `AtWork`, whether a run is in
flight and with `-force`, and `held` to `InHand`, the file it is about to rename or
remove; reading, preparing, `.sgw-tmp` files and the phases of a run are hidden.

Left out: directories (`MkdirAll`, `pruneEmpty`), file modes, symlinks beyond
"the write fails", and the text of reports.

| run | instance | what it shows |
|---|---|---|
| `sync_faults` | one run at a time; a gateway that rewrites a version, tampers and drops a file, and a tag that moves; 2 moves, 1 edit at any moment, 1 fault: a crash or an error at any step, also amid a write, or a file that cannot be read; with and without `-force` | `PlanIsComplete`, `RecordedEditsSurvive`, `WrittenWhole`, `PinsHold`, `ImplementsProject` |
| `sync_clean` | one run at a time, from a folder; 3 moves, 2 edits at any moment, no fault | `KeptWereEdited`, `SyncedFilesAreRecorded`, `Converges` |
| `sync_pair` | two overlapping runs, each a sync or a fetch of one of the skills, one of which may crash; the gateway tampers, collides, and reaches outside the root | `VerifiedOnly`, `LocksAreCollisionFree` |

Two skills are enough for a collision, for one leaving while the other stays and
for a failure after another was prepared; two paths are enough for a half-written
skill and for a path that changes its owner; a third path is the one outside the
root. A content per shape (two files, one file, other files, an escape) covers
the cases `writeAll` and the stale removal tell apart. Two moves and a fault are
what the longest pin history needs (install, failed update, rewritten version);
`sync_clean` needs three moves for skill leaves, source moves, skill returns.
The two runs of `sync_pair` have no order in the model, so it is checked up to
exchanging them (`Interchangeable`); its properties are invariants.

`VerifiedOnly` and `WrittenWhole` part what overlapping runs keep from what they
do not: whatever overlaps, all that is written is verified data or a piece of
it, inside the project; that a file is all of it, and that the lock parses,
holds for one run after another, through crashes. Of two runs that overlap it
does not hold (`Sync_pair.cfg` below).

Fairness: `FairSpec` has weak fairness of a run's next step. A running process
is scheduled, and syncs keep being started (a session start is a sync, and
`Start` is one of the steps). `Converges` needs no more, because sources and the
developer stop moving by the bounds.

### HookRun: the session hook

`HookRun.tla` follows `runHookSync` and `State`: load the state file, leave
unless the run is due, build the source (for git: fetch and check out in the
shared cache), ask for the fingerprint, compare, sync, save. The sync is two
steps, a read and a write that may stop midway (`Interrupted`); `Sync` takes it
apart. Saving is two steps as well, since `os.WriteFile` truncates first.
A fingerprint is the content it is computed from; time is a flag per record that
`Elapse` clears. The source is a constant `Kind`: a git repository whose
checkout is shared and fetched before the fingerprint is asked for, or a folder
or gateway that is read when synced. `Reverts` says whether a source may return
to what it offered before.

| run | instance | what it shows |
|---|---|---|
| `hookrun_throttle` | git; one session at a time for two installs with different refs; 2 moves with reverts, 1 manifest change, 2 failing syncs | `Throttled`, `OwnRefOnly` |
| `hookrun_folders` | two folders, a session for each, so that state files are lost and torn; 1 move, 1 failing sync, 1 outage or killed session | `NothingToDo`, `Converges` |

Two installs and two sessions are enough for a lost record and for a shared
checkout. The bounds allow a move at every step of a run followed by runs that
see a record from before it.

Fairness: sessions keep starting, a running process makes progress, and
intervals pass. `Outage` and `SyncFails` are bounded, so not for ever.

Of `NothingToDo` the passing run says what holds: for a folder, no reverts, an
unchanging manifest and no two sessions of one install. Each of these is
needed; `HookRun_manifest.cfg`, `_overlap.cfg` and, with a gateway that goes back,
`_folders.cfg` show what happens without it. `Throttled` holds for one session after another as long as
the source is reachable.

### HookSettings: `sgw hook install` and `remove`

`HookSettings.tla` keeps the settings file, its backup and its `.sgw-tmp` file.
A document is its SessionStart list, entry by entry and command by command, and
the rest; `Odd` is a list of a shape the code does not expect. `Install` and
`Remove` compute the new document when they read (`StartInstall`,
`StartRemove`), then back up, write and rename, and `Fail` may end them in
between. With `RacingEdits` the owner of the file writes it between any two of
these steps; `raced` remembers whether that happened, before or after the backup
was made. Such a change cannot survive, since nothing locks the
file; `UserPartSurvives` is about all that the command did read. The backup is of
the file that the last command found, not of the file before the first, as the
comment has it (below), so no property that passes is about it. A file may hold
what is no JSON object (`Invalid`), which no command touches, or `null`
(`Null`), over which `install` panics after the backup and `remove` at once. A
write that is interrupted may leave the backup or the `.sgw-tmp` file cut short.
Filtering a list is `Among`, a flattening of one-element and empty lists, because
the proofs can say what flattening does to a list that grows by one. The names
differ from those of `HookRun` (`SettingsSpec`, `stage`), so that `HookProofs` can
be about both.

| run | instance | what it shows |
|---|---|---|
| `hooksettings_safe` | eight documents with hooks of ours and of the user in every arrangement, 3 commands, 2 edits at any moment, 1 fault | `SettingsTypeOK`, `UserPartSurvives`, `InstalledOnce` |

### Registry and Catalog: the server

`Registry.tla` models every HTTP request that changes or reads a version as a
process whose steps are its database queries: resolve `latest`, decide, audit,
validate, `BEGIN`, the statements of the transaction, `COMMIT`, and the reads of
row, manifest and content. `conn` is the one connection (`SetMaxOpenConns(1)`): a
query outside a transaction needs it free, a transaction keeps it, works on
`work` and publishes it as `db` at the commit. `QueryFails` is a database error
at any query, `Cancel` a caller that disconnects, `Restart` a server that dies;
each loses the transaction. Policy decisions are those of `PolicyRules`.

`Catalog.tla` is what the registry promises: a catalogue of immutable versions
whose changes are appended to the audit log in the same step. The refinement
mapping takes the committed rows and log.

| run | instance | what it shows |
|---|---|---|
| `registry` | two clients, 3 requests out of 11 kinds (publishes of equal and different content, invalid bundles, denials, deprecations, reads of `latest` hidden in part by policy, the list of versions a caller may fetch, exports), 1 fault | `TypeOK`, `RepliesAreTrue`, `AnsweredAfterRecord`, `ImplementsCatalog`, `EveryRequestEnds` |

Two clients race for a version and for the connection; three requests are
publish, deprecate and a read of either. One skill is enough because no step
relates two. Version 2 is a pre-release, so `latest` is not the highest.

Fairness: a handler whose step is enabled takes it. A query that waits for the
connection gets it when it stays free; `EveryRequestEnds` says that no
transaction waits for a connection it holds itself.

### Listing: reading the catalogue

`Listing.tla` models one reader and the others who publish and deprecate
meanwhile. A call of `Service.List` is one query and so one step (`ReadPage`);
between pages the catalogue changes. The reader is `sgw list` or `Gateway.Peek`
(mode `"list"`), `Gateway.List` followed by a `Gateway.Resolve` per skill, which
asks for `latest` (`GetMeta`) and then for that version (`GetBundle`), or a
client of the MCP server, whose `skills/list` loads every skill of a page before
it answers. `VersionOrder.tla`, shared with `Registry`, is the order that
`latest` means. `seen` is a history variable: what the caller's `latest` of each
skill has been since the reading began. Skills are ranks of their keys
`namespace/name`, and a digest is known by its version, since versions are
immutable.

| run | instance | what it shows |
|---|---|---|
| `listing` | three skills on pages of one entry, two of them with a stable release and a later pre-release, one version hidden by policy, `sgw list` searching for two of the names, 1 failing request | `ListsTheLatest`, `ListingIsFaithful`, `OnlyVanishedSkillsFail`, `ReadingEnds` |

Three pages are enough for a skill that vanishes behind, at and after the
cursor. The pages of the real program hold 50 or 200 skills; nothing depends on
the number but where pages end.

Fairness: the server answers and the client asks for the next page. `ReadingEnds`
then says that no sequence of publications keeps a reader paging.

### GitSource: the git cache and ls-remote

`GitSource.tla` is a remote whose branches, tags and default branch change, and
one clone in the cache. `Update` is `NewGit` (clone if absent, fetch with tags,
check out, decide whether the result is pinned), `Peek` is `PeekGit`'s reading
of the lines of `ls-remote`, and `Meaning` is what the ref names at the remote.
`Tails[n]` is the set of names whose lines `ls-remote n` lists, since it
matches the end of a name. An update sees a remote that stands still; a push in
the middle of a session is in `HookRun`. The actions of whoever pushes are external.

| run | instance | what it shows |
|---|---|---|
| `git_source` | the default branch, every name and a commit in full and abbreviated; two branches and a tag; 3 commits, 4 changes | `FollowsTheRef`, `SameFingerprintSameCheckout`, `BranchesAreNotPinned` |

Left out: a ref written as a path (`refs/heads/x`), the `dir` option, and a
branch that is a directory of another one's name. An abbreviated commit is never
found by `ls-remote`, so its fingerprint is an error, as in the code.

### FolderSource: a folder read while it is edited

`FolderSource.tla` is `Dir` under a hook: `Stat` takes one path of the
fingerprint per step (`Peek`), `List` and `Read` take the skills one file per
step, and authors write and delete in between. A file is its content and its
modification time, and every write has a new time. What is read is installed by
`Keep` with the fingerprint that was taken first; `Fail` and `Leave` end the
run. One file content spoils its skill: it stands for files too large, links and
a missing or invalid `SKILL.md`.

| run | instance | what it shows |
|---|---|---|
| `folder_source` | two skills with a `SKILL.md` each, four paths, one of them hidden; 3 writes or deletions at any step, 1 failing walk | `NothingToDo`, `CatchesUp` |

`HookRun` takes a fingerprint and a read of a folder as one step each; this
module shows that taking them file by file, of no one moment, is enough:
whatever was read after a file's time was taken is at least as new as that time.

Fairness: sessions keep coming and a running process makes progress.

### Mcp and Reads: conditional requests and MCP calls

`Mcp.tla` is the endpoint's answer to a request by its form, and a client that
has to find the era in which it is served. `Refusals` lists the checks of
`ServeHTTP` in their order; `Dispatch` answers `server/discover`, `initialize`
and the calls. The endpoint keeps no state, so the state is the client's: how far
it has come, the version it offers, the one it agreed on. Clients are external:
one opens with `server/discover` or with `initialize`, speaks a set of versions,
and an intermediary may drop its version header or spoil its requests in one of
the ways the endpoint checks for. The header that repeats a name is compared only
with requests that have one (`HasName`).

`Reads.tla` extends it: a client that keeps copies, over HTTP or, once it has
agreed on a version, over MCP, and a handler in steps: resolve
`latest` (`Resolve`), read the row (`ReadRow`), compare the tag (`Revalidate`,
`notModified` in the code), read the content (`ReadContent`), answer (`Reply`).
Others publish and deprecate between any two. Metadata is validated by digest
and status, a bundle by its digest, a file by its hash; the MCP calls (`Calls`)
always resolve `latest` and have no tags.

| run | instance | what it shows |
|---|---|---|
| `reads` | three versions, the last a pre-release, two with the same `SKILL.md`; metadata by `latest` and by version, bundle, file, `get_skill`, `resources/read`; MCP clients of every set of versions, opening either way, with every alteration of a request that `ServeHTTP` looks for | `TypeOK`, `CopiesAreCurrent`, `ClientsAreServed` |

Versions with equal digests are left to `Reads_repacked.cfg`, which TLC refutes.
`ClientsAreServed` is about the clients that can be served at all (`CanBeServed`);
the others give up, and nothing they send is answered as a call.

Fairness: the client takes its next step while it negotiates (`Negotiate`). It
waits for nobody but the endpoint, which answers every request in one step.

### PolicyRules, Policy, Bundle and Publish

`PolicyRules.tla` is what rules mean (`matches` for subjects, resources and
version constraints). `Policy.tla` is `Decide`, the loop over the rules with its
early return. `Bundle.tla` is the data of a bundle: which paths are safe, what an
archive holds, digests, encoding, what a `SKILL.md` must have, where each format
puts the files, and what `sgw publish` and a folder source take of a folder. A
path is the list of its segments and a content is its own hash.

`Publish.tla` composes them: one request from its token to a client's download.
`Serve` is the start of the server, which refuses a configuration or a policy it
cannot trust; `Send` is `sgw publish`, which packs a folder; `Authenticate` makes
the principal in each of the three modes; `Decide` runs the scan; `Proceed`,
`ReadEntry` and `EndArchive` read the archive entry by entry within its limits;
`Check` compares the digest and looks at `SKILL.md`; `Download` encodes the
stored files anew, the client reads them with the same steps, and `Verify`
compares digests. On its way either archive may be cut or altered
(`Alterations`). An upload is refused by its compressed size, `size`, before its
archive is read, with 10 MiB as the default of the bound and up to 16 MiB in a
folder; for a folder it is from 1, as if it compressed well, to the size of the
archive, as if not at all. Who wins when two publish at once is in `Registry`.

| run | instance | what it shows |
|---|---|---|
| `publish` | every order of up to three overlapping rules against every caller, action and resource; every token of the three modes; every archive of up to three entries out of 19, and of four plain ones; every folder of up to five entries out of 11; every folder's upload at its smallest and at its largest size; 1 altered transmission | `DecisionIsPermission`, `NamedRuleDecided`, `CreatedExactlyIfAdmissible`, `FetchedIsPublished`, `PublishedIsUsable`, `SourcesAgree` |

The limits are 3 files, length 2 for a file and 3 in all, with contents of
length 0 to 3, and the bound of the archive is 6, so that each limit is met
exactly and exceeded, and the bound falls between two entries and within one.
Three rules are enough for a deny between two allows. `CreatedExactlyIfAdmissible`
is an equivalence: `ValidArchive` says of a whole archive what the reader finds
out entry by entry. It leaves out one case, in which the code fails it: the bound
falls between two entries (`CutBetween`), and the archive is published in part
(`NothingIsCut` below). `SourcesAgree` is an equivalence too: a folder can be
published exactly if it resolves and its upload is within `max_upload_bytes`; that
the second is not implied is `ResolvedIsPublishable` below. The run checks no liveness: a request is a straight line of
steps.

## What is proved

All proofs hold for every value of the constants under the modules' named
assumptions, which TLC evaluates in the runs.

- `SyncProofs`: `TypeCorrect` (of `TypeOK`, which no run needs to check) and
  `VerifiedAlways`, for any number of overlapping runs, sources, skills and
  paths, with crashes and racing edits.
  `VerifiedOnly` is not inductive: the files come out of `out`, a variable local
  to each run, which is filled before paths are validated. The invariant says of
  every run that what it has in `out` comes from a verified bundle
  (`Prepare` establishes it), and that the paths left to write are inside the
  root once it writes (`BeginWrite`); `.sgw-tmp` files then hold nothing else, or
  pieces and mixtures of it, whoever wrote them last, and so does a file that a
  run writes into after another has renamed it. `OutAssumption` and `SourceAssumption` are used for
  the types, `DataAssumption` not at all.
  `LocksNeverCollide` (`LocksAreCollisionFree`) and `WritesAreCompletelyPlanned`
  (`PlanIsComplete`) share another invariant: before `prepare` a run has planned
  nothing, so the lock it has read cannot disagree with its plan; a path that a
  skill of the plan claims is in `out`, which the collision check compares the
  next skill with; every skill of the manifest is either still wanted or planned
  and no plan is changed once files are written; and what is in the lock's
  `.sgw-tmp` file is always the whole plan of some run.

  The others are about one run after another (`OneRun`: any number of runs
  of one process), because nothing guards the lock against two. `PinsAreKept`
  (`PinsHold`) and `EditsAreSafe` (`RecordedEditsSurvive`), with crashes, failed
  requests and fetches: until the commit the lock is still the one the run has
  read (`AloneSound`), which is why comparing with `old` is comparing with the
  lock, and a path is rewritten or removed only if the look at it found the
  recorded hash, or failed to read the file, or no hash was recorded.
  `FilesAreWhole` (`WrittenWhole`): a run that is alone has its own file open, so
  that it renames what it has filled, all of it, and nothing is renamed by a run
  that failed before.
  `SyncKeepsItsPromise` (`ImplementsProject`) is the refinement, with crashes,
  failed requests and fetches too. The invariant on top of the earlier ones
  (`OutcomeInv`) says that the plan is of one manifest of the owner, with entries
  made from verified bundles (`Whole`), and that every file the run has passed is
  as planned or none that the lock records (`Placed`), so that the lock can follow.
  `SyncedAreRecorded` (`SyncedFilesAreRecorded`) and `KeptAreEdits`
  (`KeptWereEdited`) moreover assume that no run is cut off and none is a fetch
  (`Undisturbed`): a fetch and a run that stops early write files that no lock
  records, which is what `Sync_crash.cfg` shows. Their invariant follows a
  sync's own files through its phases: what is written so far is as planned,
  what is still to be written or removed is as the old lock says, and what was
  kept is an edit.
- `PublishProofs`: for every setup, rule list, token and archive.
  `DecidesByThePolicy` and `NamesTheRule` are about the scan; the invariant says
  that no rule seen so far denies and that the allow kept is the first match, and
  the steps of `Publish` keep it because they leave the scan's variables alone
  once it has begun. `OnlyThePermittedPublish`: its invariant says of every phase
  after `Decide` that the decision was taken, of the query that `Authenticate`
  made, and allows it; before, that the principal is the token's. `TakenAsPublished`
  (`FetchedIsPublished`): what the server stored has the digest it computed,
  which was compared with the one announced, and the client compared its own with
  that; neither archive is mentioned, which is why the network may do anything.

  Three theorems are about archives of any length with entries of any size, under
  `RequestAssumption`, `SegmentAssumption` and `BundleAssumption`.
  `ExactlyTheAdmissible` (`CreatedExactlyIfAdmissible`, with its exception
  `CutBetween`): the reader stops at the
  first entry that breaks a rule, and `ValidArchive` looks at the whole. The
  invariant says that the part read so far breaks none and that the counters are
  the number and the sizes of its files; what makes the two agree is that sizes
  only add up, so that a limit exceeded by a part is exceeded by the whole. That
  the sum over a finite set does not depend on the order, and grows with the set,
  is proved on the way, by a smallest counterexample among the subsets.
  `PublishedStaysUsable` (`PublishedIsUsable`): stored files are plain and within
  the limits, so the archive encoded from them is read again without an error,
  and the digest is the same. `FolderAndGatewayAgree` (`SourcesAgree`): what
  `sgw publish` packs of a folder is what a folder source reads of it, and the
  server refuses it exactly if the folder source does or its size exceeds the
  limit of an upload. Both follow from `Kept`,
  which says of each phase what is known of the request, of the store and of the
  reason of a refusal.
- `RegistryProofs`: first of `Catalog`, `LogTellsTheHistory`: the log has exactly
  one record per publication and deprecation, in order. Then, for any policy and
  number of clients, requests, errors and restarts: `TypeCorrect`, and
  `RegistryImplementsCatalog`
  (`ImplementsCatalog`): every step of the server is a step of the catalogue or
  leaves rows and log alone. The types include which requests can be at which
  step. The invariant on top of them says that exactly the handler inside a
  transaction holds the connection, that what it has in `work` is the committed
  database, then with its own change, then with its record as well, and that a
  request is in the log only after its handler has recorded it, so that the id it
  appends is fresh. A row cannot have been published or deprecated by somebody
  else in between, because `work` was copied from `db` with the connection in
  hand: this is where `SetMaxOpenConns(1)` is needed. `AuditTellsTheHistory`
  is the theorem about the catalogue, carried over to the committed database.
  `AnswersAreTrue` (`RepliesAreTrue`) and `RecordsPrecedeAnswers`
  (`AnsweredAfterRecord`) rest on the refinement: since every step is one of the
  catalogue, rows only age and the log only grows, so what a handler was told in
  one query is still true at the next and after its answer. The invariant adds
  that the files of a version are those of its digest, in the committed database
  and at the end of a transaction, and what each step of a handler has been told.
  Of `EveryRequestEnds` two parts without fairness are theorems.
  `RequestsOnlyComeNearer`: every step of a request under way brings it nearer its
  end, by a rank of the handler's steps, so that it takes at most nine.
  `NobodyWaitsForAWaiter`: a request that waits for the connection waits for
  another one, which is inside its transaction and waits for nobody; when a
  handler waits is written down once more for it (`WaitsForConn`), since the prover
  has no ENABLED.
- `GitSourceProofs`: from a run to the next push the cache has every branch and
  tag that the remote has, and the result is computed from it. `CheckoutFollows`
  (`FollowsTheRef`) needs that no name is a branch and a tag (`NamesApart`), and
  `FingerprintIsCheckout` (`SameFingerprintSameCheckout`) moreover that none ends
  in another (`NoTails`); without them TLC finds a counterexample, with
  `Branches = {1, 2, 3}` and in `GitSource_team.cfg`. `NoBranchIsPinned`
  (`BranchesAreNotPinned`) needs neither.
- `FolderSourceProofs`: `FittingMeansInstalled` (`NothingToDo`), for any folder
  and any number of edits. The time of a write is later than any stamp taken
  before, so a file that still has its stamp is the file that was there when the
  stamp was taken, and it was read after that. The hypothesis `WalksAll` is what
  `FolderSource_vendor.cfg` shows to be needed.
- `ReadsProofs`, for any set of versions: `TypeCorrect`, with the fact that a
  client and a server only settle on a version that the server serves, and `AlwaysCurrent`
  (`CopiesAreCurrent`). A copy with a tag is what some version has said, so a tag that matches names the
  version that answers; `NoneRepacked` is the hypothesis that `Reads_repacked.cfg`
  shows to be needed. That a finite set of versions has a best one is proved on
  the way; `Registry` speaks of a best version instead of choosing one, and needs
  no such fact.
- `ListingProofs`, for any number of skills, versions, pages and failing requests,
  whatever others publish and deprecate: `TypeCorrect`; `OnlyLostSkillsFail`
  (`OnlyVanishedSkillsFail`); `ListedWasLatest` (`ListsTheLatest`) and
  `ListingTellsTheTruth` (`ListingIsFaithful`). The invariant: what is listed is
  in the order of the keys and not behind the cursor; every skill up to the cursor
  is listed, is still to be resolved, or was without a visible version at some
  moment of the reading; `seen` holds the caller's `latest` of this
  moment; and a version that the gateway has named is still served, because versions
  do not go away. Best versions and the order of a page are those of finite sets,
  by their cardinality. The last two theorems have the hypothesis
  `WholeSkillsMatch`: a search matches all versions of a skill or none, as the
  empty search and a search by name do. Where a text is in one version only,
  `ListsTheLatest` is false (`Listing_filter.cfg`), and which skills should be
  listed depends on the versions they have at the moment, which `Missing` does
  not say.
- `HookProofs`, for any number of sessions, installs and refs, and for every bound
  on moves, manifests and failing syncs. `TypeCorrect` (of `TypeOK`, which no run
  needs to check), with the facts that a
  session which reads has a source, and one which writes has a content. The
  others have hypotheses, and TLC refutes the property without each of them:
  - `OwnRef` (`OwnRefOnly`): the source is not git, or sessions do not overlap
    (`NotShared`), because a second session checks its own ref out in the shared
    clone (`HookRun_folders.cfg` with `Kind = "git"`).
  - `OncePerInterval` (`Throttled`): sessions do not overlap and no run is cut off
    before it has recorded its check (`HookRun_folders.cfg`, and
    `HookRun_throttle.cfg` with `MaxOutages = 1`). Failing syncs are allowed, and
    other installs in the same state file.
  - `FittingMeansCurrent` (`NothingToDo`): the source is no git repository and
    does not return to what it was, manifests stay, and no two sessions are for
    one install (`Steady`); each part has a configuration below. Lost and torn
    state files, failing syncs and killed processes are allowed. A source that
    does not return has a past that only grows; the invariant places every
    fingerprint, every content read and every record on it, in the order in
    which they were taken. If a recorded fingerprint is the source's own, nothing
    has moved since it was taken, and the content was read after it.

  The other three are about `HookSettings`, for documents with any number of
  entries and commands, any number of `install`, `remove` and edits, failing and
  interrupted commands: `SettingsTypeCorrect` (`SettingsTypeOK`),
  `InstalledExactlyOnce` (`InstalledOnce`) and `UsersPartIsKept`
  (`UserPartSurvives`).
  They rest on what taking our commands out of a list of entries does: every
  command of ours goes, none of the others does and their order stays, and an
  entry is dropped only when nothing is left in it. The community modules define
  flattening by recursion, and no induction rule can be instantiated, so those
  facts are proved by a smallest counterexample among the lists
  (`SequencesFollow`). The invariant `Intended` then says that what a command is
  about to write has our command exactly once (or not at all) and that `.sgw-tmp`
  holds it at the rename; `NothingIsLost` says that, until somebody else writes
  the file, what is about to be written has the user's part of the file.
  `UsersPartIsKept` has the hypothesis `ShapesAreKnown`, that the user writes no
  SessionStart of a shape the code does not expect: TLC refutes it without
  (`HookSettings_odd.cfg`).

Only model-checked is liveness: `Converges` of `Sync` and of `HookRun`,
`CatchesUp`, `EveryRequestEnds`, `ReadingEnds` and `ClientsAreServed`, because the
prover handles neither fairness nor ENABLED. What the parsers and the semver
comparison compute by recursion over their input is not stated as a theorem,
since that would need induction over data.

## Where the code and its claims part

These configurations of the same modules check a statement of the repository, or
a property a reader would expect, that the code does not keep; TLC refutes each
within seconds. The runs above exclude these cases by their instance and say so.

| configuration | property | what happens |
|---|---|---|
| `Sync_crash.cfg` | `KeptWereEdited` | the hashes an edit is recognised by are recorded only at the end (`syncer.go:442`); a run that stops before leaves new files the lock does not know, and later runs keep them as "your edited" files and never update them |
| `Sync_return.cfg` | `EditsSurvive` | an edited file of a skill that leaves the manifest is forgotten by the lock and overwritten when the skill returns; `README.md:189`. What holds instead is `RecordedEditsSurvive` |
| `Sync_halfwritten.cfg` | `SkillsAreWhole` | a failure between two renames leaves a skill of two versions; `README.md:110` says never |
| `Sync_race.cfg` | `EditsSurvive` | an edit between `locallyEdited` and the rename is lost |
| `Registry_latest.cfg` | `LatestIsPublished` | a deprecation between the resolution of `latest` and the read of the row: `latest` answers with a deprecated version |
| `HookRun_git.cfg` | `NothingToDo` | the repository is fetched before its fingerprint is asked for (`cmd/sgw/hook.go:199`); a push in between is recorded as synced and is not, though `peek.go:14-15` says a caller with the same fingerprint "knows there is no work to do" |
| `HookRun_manifest.cfg` | `NothingToDo` | the manifest changes, the source does not, the hook skips (`cmd/sgw/hook.go:212`) |
| `HookRun_overlap.cfg` | `NothingToDo` | the record of one session vouches for an install that another left broken |
| `GitSource_team.cfg` | `SameFingerprintSameCheckout` | `ls-remote main` lists `team/main` first (`peek.go:86`): its commits are the fingerprint of `main` |
| `FolderSource_vendor.cfg` | `NothingToDo` | the fingerprint skips `vendor` and `node_modules` folders (`peek.go:32`) that are read as part of a skill |
| `Reads_repacked.cfg` | `CopiesAreCurrent` | the next version has the same files, so the tag of `latest` (`server.go:234`) stays and the client keeps the old version number |
| `Listing_filter.cfg` | `ListsTheLatest` | the text searched for is only in a version that is not `latest`; the list shows that version (`sqlite.go:234`), though `registry.go:144` says `Resolve` "agrees with List by construction" |
| `HookSettings_odd.cfg` | `UserPartSurvives` | a SessionStart of another shape is replaced (`hook.go:267`) |

Others need no configuration of their own; give a run's configuration this one
property, and the change in the second column:

| configuration | change | property | what happens |
|---|---|---|---|
| `Sync_pair.cfg` | | `WrittenWhole` | a run empties the `.sgw-tmp` file that another is about to rename (`syncer.go:314-317`): an empty or torn file, or lock, is in place; if that run then dies it stays so, and a lock that does not parse ends every later sync |
| `Sync_faults.cfg` | | `OnlyGoneFilesAreRewritten` | an edited file that cannot be read is replaced, although the comment takes it for "gone" (`syncer.go:257`) and `README.md:189` says edited files are never overwritten |
| `Sync_pair.cfg` | | `KeptWereEdited` | the lock of one run beside the files of another (`syncer.go:410`) |
| `HookRun_folders.cfg` | | `Throttled` | sessions overwrite each other's records (`state.go:72`); with one session and one outage, an unreachable source is not recorded and is tried by every session |
| `HookRun_folders.cfg` | `Kind = "gateway"`, `Reverts = TRUE`, `MaxMoves = 2` | `NothingToDo` | the source moves after the fingerprint and back after the sync |
| `HookRun_folders.cfg` | `Kind = "git"` | `OwnRefOnly` | two sessions share the clone of a repository, and one checks its ref out while the other reads (`cmd/sgw/hook.go:199`) |
| `HookRun_throttle.cfg` | `MaxOutages = 1` | `Throttled` | a run that is killed, or whose source cannot be reached, leaves no record and is repeated by the next session |
| `Registry.cfg` | | `DeniedMutationsAreRecorded` | `audit` drops the database's error (`registry.go:82`); the protocol says MUST (line 106) |
| `Registry.cfg` | `Rules <- MCRules` | `EveryDenialIsRecorded` | a denied export leaves no record (`registry.go:342`); `README.md:39` says every denied request is recorded |
| `GitSource.cfg` | `Branches = {1, 2, 3}` | `FollowsTheRef` | a branch is deleted and replaced by a tag of its name; the cache still has the branch |
| `Listing.cfg` | | `OnlyVanishedSkillsMissing` | a database error leaves a skill out of `skills/list`; the comment at `mcp.go:421` expects races only |
| `GitSource.cfg` | | `DefaultIsTheRemotesHead` | the cache keeps the default branch of the day it was cloned; `git.go:20` |
| `HookSettings_safe.cfg` | | `RemoveTakesItOut` | `Remove` counts entries (`hook.go:199`), does not see its command beside another one and says there is no hook |
| `HookSettings_safe.cfg` | | `BackupIsKept` | the comment says "one copy of the file as it was before the first edit" (`hook.go:228`); the second command overwrites it, with a file that the first has changed |
| `Publish.cfg` | | `NothingIsCut` | the bound on decompressed bytes falls between two entries and the reader takes it for the end of the archive (`bundle.go:93-105`): the rest is dropped and the first part is published, though the protocol says a bundle that exceeds the limits MUST be rejected (line 48) |
| `Publish.cfg` | | `ResolvedIsPublishable` | a folder may hold 16 MiB (`bundle.go:35`, `dir.go:166`), an upload 10 MiB unless configured otherwise (`config.go:91-92`, `server.go:44-45`): a folder that resolves as a source can be too large to publish, though `dir.go:93-95` has one manifest work against both |
| `Publish.cfg` | | `WalkFindsEveryFile` | a file `a` and a file `a/b` are in one bundle (`bundle.go:131`); the listing of directories shows `a` as a directory only |
| `FolderSource.cfg` | | `NothingToRemove` | a file that is created after the walk passed it, read, and deleted again stays installed |

## Not modelled

- **Cryptography and encodings**: the verification of a signed token, gzip and
  tar below the level of entries, YAML and JSON. The models take a verdict, or
  the value that is decoded, and equal digests mean equal files.
- **Flags, environment and printing** of the commands; the parsing of references
  and of the configuration file.
- **The rewritten front matter of the translators**: `Sync` takes the contents a
  translator writes as a constant (`Out`), `Bundle` has the paths.
- **HTTP routing, time limits and the archives of the format endpoint**, and of
  MCP the listing of namespaces, `list_skills` and the rendering of results.
- **Directories**: `MkdirAll`, `pruneEmpty`, file modes and symlinks below a
  project's root.
- `internal/gatewaytest` and `internal/auth/authtest`: helpers of the tests.

## Plan

Done: policy, authentication, bundles and publishing, sync engine, session hook,
hook settings, registry and catalogue, reading the catalogue, git and folder
sources, conditional reads, MCP's eras.
Next, in this order:

1. `FolderSource` and `GitSource` under `HookRun`. This is no refinement mapping:
   a folder's files are read at different moments, so that what was read need not
   be what the folder held at any one of them; `HookRun` would have to read in
   steps as well.
2. MCP's `resources/directory/read` over the namespaces of the catalogue, and
   `list_skills`, as readers of `Listing`.
