# A verification model of toolshare

toolshare runs command-line tools at the version that the surrounding folders
pin them to. A *shim* script on the `PATH` calls `toolshare invoke`, which reads
configuration and environment files, fetches the right binary from a remote
cache or from the source of the tool unless it is in the local cache, and runs
it as a child process. `sync` writes the shims, `download` fills the cache.
There is no daemon: the processes of one user share nothing but the file
system, and the hard parts are what happens there when several run at once, are
killed, or meet failing calls; the goroutines and signals of one invocation;
and the precedence of layered files.

This directory has TLA+ modules that model those parts, the configurations with
which TLC checks them, and proofs that TLAPS checks. `PROJECT.json` lists runs,
the source lines behind every definition, hazards, findings and theorems.

## Inventory

| Component (`internal/...`) | State | Operations | Interacts with | Hard about it | Correct when |
|---|---|---|---|---|---|
| Download lock (`flock`) | `<path>.pid`, its PID, its mtime | acquire, wait, release, forced release | other processes, PIDs of the OS | dead owners, reused PIDs, slow owners, several waiters forcing | at most one owner; nobody waits for the dead |
| Tool fetch (`driver/download.go: getToolBinary`, `backend/filesystem.go`) | local cache, temporary files | look up, lock, fetch, store | lock, remote cache, source, readers without a lock | stale look-ups, crashes while storing, fall-back between storages | what has the final path is whole; answers are true |
| Invocation (`driver/invoke.go`) | three kinds of goroutine, two channels, `exec.Cmd` | start, wait, forward a signal, end | the tool, senders of signals, Go's runtime | a signal at any moment, who calls `os.Exit` first | ends as and after the tool; an interrupt ends it |
| Configuration, environment (`config`, `environment`, `driver/opts.go`) | `config.Global`, table of tools | decode a file, merge a file, resolve a version | files of system, user, folders | precedence, empty values, two layers that contradict | innermost pin wins, system configuration wins, provenance is true, one cache, one kind of source |
| Sync and shims (`driver/sync.go`) | subscription folder, cache | list tools, write shims, download | other `sync` processes, shells that read shims, `download` | partial failure, early returns, concurrent replacement | success is complete; no broken shim is ever visible |
| Download command, names (`driver/download.go`, `backend/backend.go`, `config/binary.go`) | cache paths, errors | download for platforms and architectures | sources, `invoke` | partial failure, Go's names against toolshare's | `invoke` runs the binary for its host |
| GitHub source (`backend/github.go`) | page, release, asset | search release, choose asset, download | GitHub's API | the list shifts between two requests | found if it was there; right asset |
| Remote caches (`backend/{gcs,s3,https}.go`) | objects in a bucket | fetch, store | cloud services, other clients | check, then put; late and repeated requests; no deadline on some calls | only overlapping stores replace each other; what is acknowledged is there; calls end |
| Archive extraction (`backend/backend.go`) | none | find the tool in tar or zip | sources, remote caches | first match, formats, archives that are cut | what is returned is the first member with the path, whole |
| State cache (`state`) | status file, one file per tool, a folder or git repository as remote | refresh, add, delete, recommend versions | git, editors of the state, other processes | truncation before reading, two listings that go out of date, writes that always fail | nothing the state has is removed; no refresh is skipped, no update acknowledged in vain |
| `env`, `versions`, logger, command line, scripts, terraform | none of interest | printing, wiring | | | |

Processes interact through the cache folder (binary, `.pid` file, temporary
files) and the subscription folder (shims). Within a process the calls go
`main` -> `CommonOpts.Parse` -> one command -> `setupBackends` ->
`getToolBinary` -> `flock`, `Storage.Fetch`, `FileSystem.Store`. `sync` calls
`download` in a loop; a shim calls `invoke`.

## Modules

| Module | Models | Composition |
|---|---|---|
| `FileLock` | `flock`, every file-system call a step; kills, ends, PID reuse, grace period | actions on one lock file, used by `ToolFetch` |
| `ToolFetch` | `getToolBinary` with `FileSystem.Store` | EXTENDS `FileLock`, implements `BinaryCache` |
| `BinaryCache` | what the cache promises to callers, without lock, files or storages | abstract specification |
| `Invoke` | `invoke` from `exec.Command` on | |
| `Settings` | `CommonOpts.Parse`, version resolution of `invoke` | |
| `Sync` | `sync` by several processes | a download is one step, `ToolFetch` has its inside |
| `Download` | `download`, names in cache and source, `ensureTool` | a fetch is one step |
| `GitHubRelease` | `GitHub.Fetch` with a repository that changes | one `Fetch` of `ToolFetch`, seen from inside |
| `Archive` | `extractFromArchive`, as operators | used by `RemoteStore` |
| `RemoteStore` | `Fetch` and `Store` of GCS, S3 and HTTPS | EXTENDS `Archive`; one `Fetch` of `ToolFetch`, seen from inside |
| `StateCache` | `internal/state`: refresh and updates | |
| `<module>_proofs` | theorems about `ToolFetch`, `Invoke`, `Settings`, `Sync`, `Download`, `GitHubRelease`, `RemoteStore`, `StateCache` | EXTENDS the module |

`MC*` modules and `.cfg` files instantiate them. An operator with the comment
"Mutant" changes a definition the way a bug would; it is used by no
specification and shows which property notices that bug.

**FileLock and ToolFetch.** `pc[p]` is the call that process `p` is about to
make. `lockFile` is the process that created the present `.pid` file, `lockPid`
what is in it (a write goes to the file its writer opened, which may be gone),
`lockOld` whether its mtime is older than `pidWriteGracePeriod`. A PID is
identified with its process; `recycled` are PIDs that now belong to another
program. `Running` stands for both builds of `processIsRunning`: signal 0 on
Unix, and on Windows `os.FindProcess`, which opens the process and fails when
there is none. `temp[p]` is the file `os.CreateTemp` gave to `p`; `binary` names the
file that has the final path. A process may end at any time (`Exit`), inside a
call sequence too, and with `IOFaults` any call may fail; each failure takes the
path of the code's own error handling. Time stands still but for
`GraceExpires`. `raced`, `faulted` are history variables: no guard reads them.

**Invoke.** `main`, `forwarder` and `bomb` are the program counters of the
goroutines, `buffer` the one place of the channel `sigs`, `process` and `state`
the fields of `exec.Cmd` that `Start` and `Wait` set. `SignalArrives` may happen
at any time and any number of times; the runtime drops a signal that finds the
channel full. `Signals` has one interrupt, one other request to end, and noise
such as `SIGCHLD`. Time bombs are one variable: the first one that was started
is the first to expire, and all of them do the same.

**Settings.** Each file is read in a step, with any content. The version and the
source that environment file `i` gives are called `i`, so that a value tells
where it came from; 0 is an empty version or no source. A source is the set of
its fields, each with the kind (`github`, `https`, ...) its name begins with.
What the YAML decoder does with a cache in a second file, given or null, over
that of the first is left open (`DecodedCaches`): the library is not part of the
repository.

**Sync.** `shim[<<t, k>>]` is the state of the file with the final name;
`outcome[p]` how a process ended, with `os.Exit(128)` apart from errors.

**Download.** A path is the tuple of the strings its template items stand for.
The host, the mapping of names and the set of assets of the source are chosen at
the start. A flag of `download` that is given an empty list asks for nothing, one
that is not given stands for the host. A binary may fail though it is cached, as
the folder is made and the path looked at first.

**GitHubRelease.** Each request is a step, and releases may be published or
deleted and assets uploaded between two of them. GitHub is modelled from its
use: newest release first, tags are unique, an asset uploaded again is another
asset.

**Archive and RemoteStore.** A fetched content is the paths of its members and
the place up to which it has arrived, so that a cut can be anywhere: before a
member, inside it, or after the last one, where a ZIP has its directory and a TAR
only padding. `extractFromArchive` gives the set of what is returned, empty for
an error. Of a path that it has twice, an archive yields the first member: the
TAR loop ends there, and `zip.Reader` opens the first of equal names. The program
stores only into `FileSystem` (module `ToolFetch`); `Store` of GCS and S3 are
called by nothing but tests, and that of HTTPS always fails. They are modelled as
the operations of `Storage` that the packages offer. In `RemoteStore` a client makes one call. `flying[c]` counts the
requests of a store that may still take effect, also once its call has ended;
S3's client repeats a request that is not answered, GCS's does not, as an upload
is not idempotent to it. `existed[c]` is history. Objects appear whole: that is
how both services work.

**StateCache.** `remote` is the state itself, `cache` the tools with a file in
the cache, `status` the content of the status file and `call[p].past` the offset
of `p` in it. `writeToolState` opens its temporary file with `O_CREATE|O_TRUNC`,
neither of which lets it write: `Write` fails on a file of the operating system
(`EBADF`) and on one of the in-memory checkout alike. So the model has no step in
which a tool file is replaced, and the reading and the failing write of a tool
are one step: what is read in between decides nothing. What follows of it, and
can be read off the model: no update changes anything, a refresh from a state
with any tool fails, one from an empty state empties the cache, and an update in
a git repository that has nothing to change ends in an error at the empty commit,
so that `Push` is never reached. The state is edited from outside (`Edit`),
before and during calls.

## Runs

| Run | Question | Result |
|---|---|---|
| `tool_fetch` | three processes, one source, kills, ends, PID reuse, failing calls | the lock excludes unless a wait was overtaken; cache and answers are right even then |
| `tool_fetch_live` | two processes, two storages, failing calls, fairness | every call returns once calls cease to fail, unless a fault has orphaned the lock; `ToolFetch` implements `BinaryCache` |
| `write_once` | is a cached binary ever replaced? | yes: finding |
| `invoke` | end of the driver against end of the tool, any signals | ends as and after the tool; an interrupt ends it |
| `signals_forwarded` | does each request reach the tool? | no: finding |
| `settings` | two configuration and three environment files | precedence and provenance are right; one remote cache at most; sources are of one kind |
| `sync` | two processes, two tools and the driver, failing calls | success is complete, shims are always usable, binaries come after shims |
| `sync_all_pinned` | does `sync` reach all pinned tools? | no: finding |
| `github` | search and download against a changing repository | a release that was there is found unless one was deleted; the search ends |
| `download` | downloads and invocations, any host, any source | `invoke` runs the binary of its host; failures are told and isolated |
| `remote_store` | three calls, an archive or nothing in the bucket, lost, late, repeated requests, cut bodies | only overlapping stores replace an object; an archive yields the first member with the path or an error; calls with a deadline end |
| `state_cache` | two processes that refresh and update again and again, edits, failing calls | no tool the state has is removed from the cache; no refresh is skipped without one before; no update is acknowledged in vain |

Some properties need a word on what they say. `MutualExclusion` has the premise
`~raced`, since without it it is false, as the protocol is: a waiter acts on a
lock file it read some calls ago. If another waiter has by then forced the
release and a third process created the file anew, the first deletes the new
owner's file; likewise an owner slower than the grace period. `raced` becomes
true at exactly two points (`CreateLock` while somebody acts on an earlier read,
`GraceExpires` over a live owner that has not yet written its PID). What is left
is everything else: death of owners, PIDs that are reused, ends right after a
release. And the properties that users depend on, `CachedBinaryWhole`,
`ReplyJustified` and the refinement, have no such premise: because a store is a
rename, losing the lock costs a second download and nothing more.
`CallsReturn` excepts a lock file that has the PID of a live process which does
not hold it (`Orphaned`), and TLC shows that it has to: a process whose `Close`
fails (`filelock.go:34`) waits for itself. The exception asks for an I/O fault of
that very process, so that it hides no other way to block.
`UnknownReleaseJustified` has the premise that no release was deleted: a
deletion moves an older release to a page that was already read.
`ExitsAsTool` admits two statuses once a timer has run out, that of the tool and
128, since both goroutines may be about to call `os.Exit`; after a tool has run a
driver that ends by itself has no other.

What the premises leave uncovered: that the lock excludes when a wait *is*
overtaken (it does not); which storage's error a failed fetch returns; that an
asset is not replaced under its identity, which is GitHub's to keep; the race of
two stores of one object that overlap; and a server that is silent in a transfer
without a deadline. The hazards in `PROJECT.json` say it at each line.

### Bounds

The theorems below hold without these bounds; they are about what TLC runs.

- `tool_fetch`: three processes are an owner, a waiter that forces and one that
  forces late or takes the lock anew; a fourth would repeat one of those roles.
  Processes are symmetric; the run has no liveness property.
- `tool_fetch_live`: two processes, an owner and a waiter, are all that a wait is
  about, and both storages are asked.
- `invoke`: codes 0 and 3, the driver's own 128 and a kill are all kinds of end. Nothing bounds the
  number of signals. `Windows = FALSE`; the Windows branch, an interrupt sent on
  as a kill, is in the model.
- `settings`: `Depth = 3`, an innermost file, one between and an outermost one.
  Entries of different tools do not influence each other, so there is one tool.
  Two kinds of source, one that needs a single field and one that needs two.
- `sync`: two tools that need not be registered or pinned, one of which is the
  driver; both kinds of shim; two processes that write the same names.
- `github`: `PageSize = 2` for the 50 of the code, `MaxReleases = 4`,
  `MaxChanges = 2`: a search that crosses a page, with one or two releases that
  shift across the boundary. Three versions, so that both pages may be full of
  others than the one asked for.
- `remote_store`: three calls are two stores that overlap and one that comes
  later, or a fetch between two stores. `Attempts = 2`: one request that is late
  and one that is repeated. Archives of up to two members, of which none, one or
  both have the path; names of each format, one that is not supported (`.tgz`)
  and one without a path inside.
- `state_cache`: two tools, so that an update or a refresh is half done when one
  fails; one version. `Interval = MaxTime = 1`: a refresh is due or not.
  `MaxEdits = 1` besides the state that is there at first, which is any: a tool
  comes, goes or breaks between two steps of a call. Processes are symmetric; the
  run has no liveness property.
- `download`: a platform with and one without file extension, an architecture
  that Go and toolshare name alike and one they do not, a source with unmapped names,
  one with mapped ones and one with the same name for both architectures.

### Fairness

- Processes and goroutines are scheduled: weak fairness for what each does by
  itself (`LocalStep`; `Main`, `Forwarder`, `TimeBomb`). A fetch is not fair: GCS
  and HTTPS have no deadline on it. `CallsReturn` therefore excepts
  behaviours in which somebody fetches forever, and those in which a reused PID
  is never given free. A call may fail again and again while its fault lasts, and
  the loop of `getToolBinary` goes on as often: the premise is that steps that
  fail cease, not that there are none. `GraceExpires` is fair: clocks advance.
- Go's `select` chooses at random among ready cases, so the forwarder does not
  ignore a closed `done` forever: strong fairness of `TakeDone`. The tool need
  not end. The second that main sleeps before it gives up is not fair: the
  driver must end without it (`EndsAfterTool`).
- `RemoteStore`: a deadline passes (`TimesOut`), for every request of S3 and for
  the check of GCS, and a client sends what it has to send. No service need ever
  answer. `CallsEnd` excepts the transfers without a deadline.
- `GitHub.Fetch` has a deadline of one minute: a request is answered or fails.

## Proofs

Each safety property of a passing run, invariant or action property, is also a
theorem, for every value of the constants that satisfies the named assumptions.
The theorems are in eight modules, with one or two inductive invariants each.
Types and these invariants are shown together: initial states satisfy them, each
action keeps them (one lemma or step per action), and they imply the property.

`ToolFetch_proofs`, for any processes, storages and faults:

- `LockExcludes`, `LockFileIsTheHolders`: `MutualExclusion` is not inductive. A
  step that deletes a lock file preserves it only if the file deleted is the
  deleter's own or that of a process that ended, so the invariant has to say what
  a waiter knows at each point of `waitOnPID`. `LockInv` says: the PID in the
  file is its creator's; processes that ended run no code; and while no wait was
  overtaken, the file in the directory is the holder's (`HoldersOwn`), what
  `checkPid` looks at is what was read, and who is about to force a release
  faces no file or an abandoned one (`WaitersSound`). That reused PIDs are
  harmless here shows in the proof: they only make a waiter wait.
- `LocksAreAccountedFor`: by itself inductive with the types: each step that ends
  a holder removes its lock or records a fault.
- `CacheStaysWhole` and `RepliesAreJustified`, from `StoreInv`: a file about to be
  renamed is executable (`RenameReady`), the owner of the file with the final path
  is past every step that changes it (`PublishedFinal`), and a process about to
  return has decided what (`Decided`).
- `FetchImplementsCache`: `Spec => ImplementsBinaryCache`. Initial states map to
  initial states; `Rename` maps to `Publish` or a stutter, the step that returns
  maps to `GivePath` or `GiveError`, every other step to a stutter. `StoreInv`
  gives that the file is whole when it gets its name.

`RemoteStore_proofs`, for any clients, archives and number of attempts:

- `ArchivesYieldWhatWasPacked`: the lemmas about `Archive` (`FirstMatchFacts`,
  `ExtractedFirst`, `Extraction`) say what `extractFromArchive` gives for a content
  that was cut anywhere: at most one piece, of the first member with the path, and
  whole. That there is a first one is that the natural numbers are well-founded
  (`LeastExists`).
  `FetchInv` carries this to the clients: what one has got is what was extracted
  of the body it holds. The types need it too, as only a client with a body can
  go on to read.
- `AcknowledgedIsThere` and `OnlyOverlappingStoresReplace`, from `StoreInv`: a
  client sends only once it has found no object; one that began when there was
  an object finds it and has nothing under way that may still land; an
  acknowledgement follows a request that took effect. That nothing deletes an
  object is part of the argument.

`StateCache_proofs`, for any processes, tools, versions and time: `CacheInv` has
`CallInv`, what each kind of call at each of its steps knows of the state
(`Fits`), and `StatusInv`, that the status file never has a time after the last
refresh that succeeded.

- `NoToolIsRemovedInVain`: a refresh that gets past the reading of the tools has
  listed a remote without any, so no tool can have been there all along
  (`Fits`, `"listCache"` and `"remove"`). It holds for the reason given above:
  writing a tool file always fails.
- `SkipsAreJustified` from `StatusInv`, over processes that truncate, read and
  write one file at offsets of their own; `AcknowledgedUpdatesHeld` from `Fits`.

`Invoke_proofs`, for any exit codes and signals: `DriverInv` ties the three
kinds of goroutine together. `MainInv`: how far main is says whether the tool
runs and whether `state` and `done` are set. `ForwarderInv`: the forwarder leaves
its loop only by `done`, and `signal.Stop` comes before `close`. `EndInv`: what
has ended the driver. `ExitStatusIsTheTools`, `ToolIsWaitedFor` and
`ClosedIsNotRelayedTo` follow.

`Sync_proofs`, for any processes and tools: as long as no shim has failed, a
process has seen to each tool it has taken from its list but the one it is
writing (`ShimPhase`); who fetches has all its shims (`FetchPhase`); a success
leaves nothing out (`Complete`). These refer to files that other processes
replace at the same time, and hold only with `ShimsUsable`: a rename puts a whole
executable file in the place of another. `SuccessMeansAll`, `ShimsAreUsable`
and `BinariesComeAfterShims` follow.

`GitHubRelease_proofs`, for any page size, versions, assets and changes:

- `UnknownIsNotThere`: the invariant `SearchInv` says that, unless a release was
  deleted, every one that was there all the time and has the version is still
  ahead of the search (`Ahead`): at an index after the pages already seen. A
  publication adds one to each index, turning the page takes away only pages
  without a match, and after the last page nothing is ahead. `PageFacts` has the
  arithmetic.
- `FetchesWhatWasAsked`: the release chosen has the version and only its own
  assets (`FetchInv`), whatever is listed between the two requests.

`Download_proofs`, for any mappings of names and sources: `PathsDiffer`, two
binaries with one cache path have one name in the source, gives `CacheRight`, and
with it `InvokeRunsTheHosts`; `Accounted`, each binary asked for is to do, cached or
an error, gives `DownloadsAreComplete`.

`Settings_proofs`, for any tools, hosts, kinds of source and depth:

- `TheInnermostWins`: the table has the least number of all files read so far
  that pin the tool, and likewise for sources (`TableFrom`). `GrowsBy` says how the
  set of those files changes with one more file, `LeastOfMore` that the least
  changes only from none. `PinsFirst` and `SourcesFirst` bring this to the form of
  the property.
- `TheRecordIsRight`: with `TableFrom` not needed, it is inductive with the types
  (`MergeRecords`).
- `TheSystemOverrules`: `SwitchesRight` says after each of the two files what the
  switches are. `NoTwoRemoteCaches`: any cache a decoder may make passes the test.
- `SourcesAreOfOneKind` needs that a source in the table is of a file already
  read, as later ones are appended (`EnvInv`).

The attempt to prove `TypeOK` of `Settings` showed that it was false for
`Depth = 0`, a value the run does not have: when the second configuration file is
unreadable, the first is still in `layers`. It now bounds their number phase by
phase.

Assumptions. They are the named ones on constants, and TLC evaluates each.
Values that stand for "none" differ from all others (`ProcAssumption`, the
`NoneAssumption`s); flags are Boolean, bounds are natural numbers, a page has
at least one place and a request is sent at least once (`AttemptsAssumption`);
storages are of the two there are (`BackendsAssumption`); exit codes of a process
that ends by itself are bytes (`CodesAssumption`); the ways to name a host are
finitely many (`HostsAssumption`), as the fields of `Cache` are; the members of an
archive are a sequence of names (`UploadsAssumption`); the driver is a tool
(`NamesAssumption`); what is asked of GitHub is a version and a name
(`WantedAssumption`). Nothing is assumed of the mappings of names of `Download`:
two architectures may have one name in a source.

Only model-checked:

- Liveness: `CallsReturn`, `EndsAfterTool`, `InterruptEnds`, `FetchEnds`, `CallsEnd`.
  Fairness and ENABLED are out of the prover's reach.
- The three violated properties: a counterexample is all there is to them.

Nothing here needs induction over data or a recursive operator.

## Findings

The three violated properties quote a document or comment of the repository.
`WriteOnce`: the cache is not written once, as nobody looks again after taking
the lock (`download.go:179`). `SignalsForwarded`: a full channel or a tool just
being started loses signals (`invoke.go:89`). `AllPinnedSynced`: a registered
tool without a pin ends the sync (`download.go:84`).

What the models have and no run is about, since a glance at one step shows it:
`force_pinned` is without effect (`invoke.go:63`, `environment.go:65`); a download
without flags asks the source for Go's name of the architecture
(`download.go:42`), which `docs/setup.md:75` does not name; the status file of the
state cache is truncated before it is read (`state/filesystem.go:80`) and tool
files of a state cannot be written (`state/filesystem.go:269`); a cache whose
settings have no `Local` panics when it is refreshed (`state/state.go:51`).

## Not modelled

- The reads of the state cache after its refresh, which change nothing; the HTTP
  state, whose methods return at once; the lines after the failing `Write` in
  `writeToolState` and the `Push` after the failing `Commit`, which no execution
  reaches.
- The types of members of an archive, which the code does not look at: a link or
  folder with the path in a TAR is returned as an empty binary.
- The text of logs, messages and templates, command-line parsing, `env`,
  `versions` (which is not implemented), scripts and cloud resources.
- A lock file with a partly written PID: the PID is a few bytes in one `write`.

## Plan

1. Done: `FileLock`, `ToolFetch`, `BinaryCache` and their proofs; `Invoke`,
   `Settings`, `Sync`, `Download`, `GitHubRelease` with runs.
2. Done: `Archive`, `RemoteStore` and `StateCache` with runs; I/O faults in
   `tool_fetch_live`.
3. Done: every safety property of the runs as a theorem, in eight modules.
4. Left: an abstract specification of `Sync` (a set of tools that are usable and
   cached) and of `RemoteStore` (an object that is put), with the step-by-step
   refinement that `ToolFetch` has.
