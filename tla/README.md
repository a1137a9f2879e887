# Verification of ai-identity-manager

TLA+ models of the program in `src/`, the TLC configurations that check them on
small instances, and proofs of their main invariants for every instance, checked
by TLAPS. Line numbers refer to the repository; `PROJECT.json` maps every
definition that models code to the lines it stands for.

## The system

`ai-identity-manager` pins the traffic of AI clients to one static exit. It is a
command line: every command is a short process; nothing of it stays resident
except `monitor --watch`, `watch` and what Task Scheduler starts. What the
commands share lives outside them: the enhancement files of the Clash profile,
the state files under `.ai-identity`, the Windows firewall, the scheduled task,
the proxy kernel behind its controller.

| component | state | operations | talks to |
| --- | --- | --- | --- |
| UDP kill switch (`internal/killswitch`, `runKillSwitch`) | firewall rules named after a target's label; the refresh task | status, apply, apply --no-persist, remove; the task repeats apply | PowerShell, one call at a time |
| Session monitor (`runMonitor`, `internal/identity/session`) | the tracker (baseline, counts, worst level), last answer, time of the last sample | poll, sample, scan logs, report, sleep | controller, exit probe, logs |
| Enhancement files (`enhancement.go`, `runApply`, `runSwitchBootstrap`) | proxies, groups and rules files, dated backups | apply, apply --dry-run, switch-bootstrap, inspect | profile directory, shared with Clash |
| Status (`status.go`, `evidence/`) | none: a verdict over files, logs, state | evaluate | enhancement files, logs, state files |
| State files (`state.go`, `audit.go`) | last verify, last apply and reload, audit log | save, record, append, load | every command |
| Controller transport (`internal/controller`) | a connection and a watchdog goroutine per request | open (TCP, then pipe), ping, connections, reload | the kernel's HTTP API |
| reload, verify, doctor | none | one pass each | controller, probe, state files, kill switch |
| Configuration, profile paths, logs, redaction | none | parse | files |
| Legacy keeper (`archive/legacy-20260617`) | a circuit breaker, the listener, a tunnel per client | accept, handle, retry, tunnel, close on a signal | clients, the upstream proxy |
| Scripts, browser extension | | | outside the program |

What is hard in it:

* **Overlap without locks.** A user's `killswitch apply` and the scheduled one
  interleave call by call on the same rules; `apply`, `switch-bootstrap` and Clash
  on the same files; every command on `activity.json`. All work from what they
  read some calls ago.
* **Processes that stop half way.** A PowerShell call fails, a write is cut
  off after the file was emptied; there is no journal, only the next run.
* **A long loop beside an unreliable world.** The monitor's polls and samples fail
  independently, connections come and go between answers, time passes in every
  call, and its verdict must not depend on the order.
* **A server that need not answer.** The controller may answer in parts, late or
  never, over a named pipe that knows no deadlines; only a goroutine that closes the
  connection frees the reader.
* **Handlers that share a breaker.** In the retired keeper, every client's goroutine asks
  the breaker before a dial and tells it afterwards; setups end in another order than
  they began.
* **Names as keys.** Firewall rules are matched by display name, releases by the
  string order of a path, backups by the second.

What makes each component correct, in a sentence: the kill switch blocks every
application it resolved, and in the end every one that runs; the monitor's verdict
is what all its observations call for; a command never destroys a file's content
without a backup of it; status never shows GREEN on stale or missing evidence; the
state files survive crashes and overlaps; the transport answers or fails in bounded
time, leaves nothing open behind it and says what happened; the keeper refuses clients
just while its upstream fails, answers every other, and ends when told to.

## Modules

| module | models | checked by |
| --- | --- | --- |
| `KillSwitch` | the kill switch and the processes around it | `MCKillSwitch`, `KillSwitchProofs` |
| `Monitor` | the monitor's loop and tracker | `MCMonitor`, `MonitorProofs` |
| `Enhancement` | apply and switch-bootstrap on the enhancement files | `MCEnhancement`, `EnhancementProofs` |
| `Archive` | abstract: what the owner of the profile is promised | implemented by `Enhancement` |
| `Lists`, `Names` | the loops over lists (`dedupeNonEmpty`, the items collected and left out), the names in them | all of the next three |
| `GroupsText` | the lines of the groups file, what renders, extracts and edits them, and what Clash reads in them | `GroupsTextProofs` |
| `EnhancementText` | the lists of `Enhancement` as the lines of `GroupsText` | `MCEnhancement`, `EnhancementProofs` |
| `HandEdits` | a file changed by hand and switched again and again | `MCHandEdits`, `HandEditsProofs` |
| `IdentityStatus` | status and watch, and the logs, activity and verify files they read | `MCIdentityStatus`, `IdentityStatusProofs` |
| `Controller` | the transport to the controller; reload, monitor's first poll, doctor's check | `MCController`, `ControllerProofs` |
| `Reload` | abstract: what reload promises | implemented by `Controller` |
| `Keeper` | the retired keeper: handlers, breaker, tunnels, shutdown | `MCKeeper`, `KeeperProofs` |

Each operator beginning with a comment "a slip" is a mutated form of the
definition below it, used to make sure that a property would notice the mistake.

### KillSwitch

One action is one PowerShell call. Every process (the users' command lines and the
one the scheduled task starts) has a program counter, the targets it resolved, the
removals and additions left of its plan. `Resolve`, `List` are the first two calls;
`List` makes the plan at once (`ComputePlan`, pure code); `RemoveRule` and `AddRule`
are the loops of `Apply` and `Remove`; `Finish` is the last call of each command
(register, unregister or look up the task). `Fail` ends a command at any point, and
a failing removal may have removed some of the rules it names. `RefreshFires` starts
`apply --no-persist` while the task is registered. `PackageChange` and
`VersionChange` are the applications' installers.

Abstractions: a rule's name is its target's label, its identity a package or a
release, so a rule and a target are one kind of record, `rules` is a set of them
(two identical rules count as one), and a removal call is known by the rule or target
behind it. One package pattern and one glob are configured, as the configuration
allows (`config.go:210-214`). Task Scheduler starts one instance at a time.

The variable `touched` is history: the names other processes changed since a process
made its list. The properties promise nothing about those, nor about a name that two
targets share; about every other they promise:

* `LabelCovered`: even of targets that share a name, apply leaves one blocked
  (they lose each other's rules, but never the last);
* `SuccessMeansCovered`: success reported means every resolved target is blocked;
* `LeavesNoOrphan`: no rule is left under a name without a target;
* `NeverDuplicates`: apply adds no second rule of a name, which would hide the first;
* `NeverUncovers`: apply's removals take the block off no resolved target;
* `UpdatesKeepBlocked` (liveness): once applications and users rest and the task is
  registered, every application that runs is blocked for good.

`UpdatesKeepBlocked` assumes that Task Scheduler fires again and again while the task
is registered and no instance runs (its trigger repeats every five minutes), and
that a started PowerShell call returns or fails (the task's time limit ends it after
ten minutes, `scripts.go:113`).

### Monitor

The loop of `runMonitor` with `pc` between its calls: `Open`; `Begin` decides whether
a sample is due; `ConnectionsOk`/`ConnectionsErr`; `FetchOk`/`FetchErr`; `EndStep`
prints the reason code and scans the log; `Check` looks at the deadline; `Wake` ends
the sleep. `Tick` moves the clock during every one of them. The tracker's fields and
functions keep their names.

Abstractions: of a connection only its id and its kind matter: `other`, `static` (an
AI target whose chain holds both the static node and the final group), `leak` (an
AI target off it). The probe's own connection to ipinfo.io is such a target. An id
that left an answer is not used again (the kernel gives random ids). A verdict
depends on the identity sampled and on whether anything is expected at all. `--watch`
has a `--duration`; without one the loop is the same and never leaves.

* `WorstIsVerdict`: the worst level, and the exit code, equal what the whole session's
  observations call for (`Condemned`, `Doubtful` are defined over history, not over
  the tracker), whatever their order and though they passed;
* `GreenReportVerified`: `G-VERIFIED` is only printed if this session sampled the exit,
  all samples fitted, none failed, no leak was ever seen;
* `CountsExact`: each AI connection seen and gone is counted once, failed polls
  between or not; each log line once;
* `ReasonFits`: a red reason code is only printed in a session that deserves it and
  names what it saw, though the code puts the present snapshot beside the worst level of
  the session; `R-VERIFY-MISMATCH` may stand for a leak since gone;
* `SampleSpacing`: samples keep `--ip-interval` apart, however polls fail;
* `Terminates` (liveness): a bounded watch ends.

Fairness is weak, on the program and on the clock: every call has a time limit
(controller 3 s, probe 20 s), so the loop goes on, and time passes.

### Enhancement and Archive

One action per file operation, for any number of command lines at once. `Start`
picks a command with its arguments; `Read` reads one file and plans its write if its
rendering differs (for `switch-bootstrap`: if the group lists the node); then for each
write `OpenBackup`, `FillBackup`, `OpenFile`, `FillFile`: `os.WriteFile` empties a file
before it fills it, and a process may stop in between (`Fail`). When somebody else has
written the open file meanwhile, what remains is either's content or a jumble. `Edit`
is Clash saving a file. `Tick` is the second the backups are named after.

Abstractions: a content is absent, torn, foreign or managed; a managed one
is known by its credentials (proxies) or its candidates (groups), as the tool reads them: a
name is a node and the number of single quotes inside it, and what has been written is read
with twice as many (`Doubled`), since `yamlSingleQuote` doubles them and the tool
never takes one of two away. `--bootstrap` and `--node` may give names with quotes, too
(`Given`). A torn or foreign
groups file holds no bootstrap group, so `switch-bootstrap` ends with its error, which
is `Fail`. Configuration may change between commands (a command reads it once), the
names of groups and nodes do not.

History: `overtaken` are the files others wrote since a process read them, `owed` the
whole contents commands have emptied, `spoiled` the files ever written from a stale
read or backed up over an existing backup.

* `NothingLost`: unless a file is spoiled, everything owed is whole in a backup at every
  moment, so after every crash;
* `AppliedIsOnDisk`: when apply ends, every file of its scope is as rendered, unless it
  was overtaken;
* `SwitchOnlyReorders`: the switched file lists the candidates of its backup, each
  once, the chosen first, and every quote inside a name is there twice;
* `ArchiveKept` (refinement): the commands implement `Archive`, which knows a file, the
  set of whole contents archived of it, and whether it was disturbed. Step by step: a file is
  only emptied when its content is archived; nothing leaves the archive; what enters it
  is in the file at that moment, unless others rewrite that file; what fills an emptied file is
  rendered from a configuration or is an archived list with one candidate moved
  ahead, the others in their order. `disk` is the file, the whole contents of its
  backups the archive, `spoiled` the disturbed. Unlike `NothingLost` it says what a step may do,
  and needs no memory of what was owed.

### GroupsText, EnhancementText and HandEdits

`Enhancement` knows a groups file by its list of candidates. `GroupsText` has the lines. A line
is the first of a group (`- name:`, at any indentation), a top-level key, `proxies:`, an item,
another key of a group, a comment, or blank; `proxies:` and the items have the column they begin at,
an item its name between the quotes (a node and the number of single quotes inside), the way
it is quoted, and whether a comment follows on its line. `extractBootstrapCandidates`,
`SwitchBootstrapInGroups`, `renderGroupEnhancement` and `yamlSingleQuote` keep the code's
names; its loops over the lines are the sets of lines they look for
(`GroupStarts`, `ProxiesLines`, `BlockEnd`).

The file has two readers. The tool (`Trimmed`) takes the rest of an item's line and trims
the quotes at its ends: two quotes inside single quotes stay two, and a comment, with
the quote before it, becomes part of the name (`remark`). Clash (`ClashReads`, `ClashLists`,
external) reads YAML: two quotes in single quotes are one, a comment is none of the
name, and a list ends at another key or at an item to the left of its `proxies:`. What the tool
writes has all quotes doubled and stands at column 2 (`Column`), whatever is around it.

`Understood` says of a group that the two find the same in it and that column 2 is inside
its list: only items, blank lines and comments after `proxies:`, all items at one column,
`proxies:` at column 2 or to the left of it, no comment on an item's line, no quote inside single
quotes. The file apply renders from names without quotes is such a file.

Not modelled: quotes at the ends of a name (the tool strips them), a comment that ends
in a quote, a group whose name is itself quoted or followed by a comment (the tool does not find
it), and what Clash does with a file that is not YAML any more.

`EnhancementText` states, of the groups file on the disk, whatever commands, Clash and
crashes have made of it, and for names with quotes inside:

* `TextIsList`: from the text of its list the code extracts that list, and switching the
  text gives the text of the switched list, or is refused when the name is not in the list as the
  tool reads it; so `Enhancement` may know the file by its list. (A candidate `a'b` that
  apply was given stands as `a''b` in that list: `--node "a'b"` is refused.)
* `ClashReadsWhatApplyWasGiven`: when apply has made its last write, Clash reads each candidate it was
  given, once, in their order, with every quote, unless somebody wrote the file meanwhile.

`HandEdits` is one file, edited by somebody, and any number of switches of it:

* `OtherGroupsSurvive`: in a file of any shape, however often it is switched, groups and keys
  stay as they were edited, and Clash finds in every other group what it found there;
* `CandidatesSurvive`: over one switch of a file that is `Understood`, and any number when its
  names have no quotes, Clash finds the nodes chosen, the last one first, then those never chosen
  in the order of the edited file: none lost, none doubled, no name changed. (With quotes the first
  switch keeps the names and leaves a file that is no longer `Understood`; the second changes them.)
  Nothing is said of a file that is not `Understood`: there the first switch already changes names or
  loses the list or a key, see "Disagreements no run shows".

### IdentityStatus

The verdict of `status`, of each round of `watch`, and everything it is made of. The log is
one sequence of lines in the order the kernel wrote them, each with its file
(`Log`, `Rotate`); a line is a route of a target (static, direct, other; with a time or
without), an error of one of the three sources that count, or health-check noise. A
status is four calls: `Inspect` the enhancement files and list the log files,
`ReadLogs`, `LoadVerify`, `Evaluate` with the clock and `activity.json` of that moment.
`apply` and `reload` record themselves (`Done`, `LoadActivity`, `OpenActivity`,
`FillActivity`), `verify` saves its result (`Probed`, `OpenVerify`, `FillVerify`): each
write empties the file before it fills it, none is locked, and `Fail` ends a command
anywhere.

The evaluation keeps the code's names: `routeIsNewer`, `LatestByTarget`, `Fresh`,
`leakLive`, `EvaluateStatus`. It is a pure function of the lines read; as the code ranges
over a map and returns at the first live leak, it gives a set of codes. The
order lines were read in (`ReadAfter`) is not the order they were written in: the latest file
comes first, then the rotated ones, newest first.

Abstractions: host and process of a route (the newest of each is the newest of the
target, since newer is a total order); the tails of 256 KiB and the five rotated files
kept (fewer files are read in the model); what the chain lacks (a Boolean); of a verify,
whether anything is expected and whether it fits (`Verdicts`). Config and controller
are always given as good (`cli.go:692-697`).

History: `recorded` is what a record written atomically would hold, `disturbed`
tells that two recordings overlapped or one died in the middle.

* `LeaksJudged`: a status that read every line reports a leak exactly when the last
  route of some target, in the order written, leaks, is not older than `MaxAge` and does not
  precede the apply it read of; provided that the log tells the order at all
  (`Telling`: times, or places in one file; an untimed line counts as the oldest);
* `GreenIsBacked`: GREEN needs the chain, a matching verify, no error of the static node or of
  an AI client, and a target whose last route is static and recent;
* `LevelDetermined`: the colour does not depend on the map's order;
* `ActivityIsMerged`: `activity.json` holds the last apply and the last reload, until the
  history is disturbed. (After a crash in the middle the file is empty and every later
  record is dropped unheard, which is why nothing can be promised then.)

No fairness is assumed: the commands of this module promise no progress.

### Controller and Reload

One command at a time, with what is configured (TCP address, pipe, secret). `Start`,
`OpenFailed`, `Opened`, `Reloaded`, `Listed` are the command between its requests: `Open`
asks for the version over TCP, then over the pipe; reload goes on with the reload and the
list, the monitor with its first list, doctor's check is done. A request is an exchange of
its own, numbered by `n`: `Dial`, `Write`/`WriteErr`, `Head`/`HeadErr`,
`Decode`/`DecodeErr`, `CloseBody`. The watchdog of exchange `i` is a goroutine: `Expire(i)`
is the timeout, `DogCloses(i)` its closing of the connection, at any moment between two
steps of the reader; an expired watchdog can no longer be stopped, and closes a connection
that is closed already. The server sends its answer in three parts (head, value, end), with any
status or nonsense, may hang up between them, and may apply a reload after the client has given
up. What was read into a buffer before the connection was closed can still be decoded, so
an answer and an error are both possible then.

Abstractions: of an answer only the status, whether its value is good, and whether closing
its body first reads the rest (`drains`) count; of the connections, the AI
targets and which of them leak. The monitor's later polls are module `Monitor`'s.

* `NothingLeftOpen`: when a call has returned, its connection is closed and its watchdog not
  armed, whichever way it ended;
* `RecordedMeansReloaded`: a recorded reload, so any exit code 0 or 1, judged connections
  listed after the configuration was read again;
* `ToldTheTruth`: "unauthorized" follows a 401; "unreachable" means that no transport
  answered and nothing was reloaded; a call of an opened controller that fails is never told
  as "unreachable". (The converse does not hold: `Open` wraps its errors with `%v`, so a 401
  of `/version` is told as unreachable, and the branch for it at `cli.go:187` is
  never taken.)
* `EveryCommandEnds` (liveness): every command ends, even if the server sends nothing, or
  half an answer;
* `ReloadPromise` (refinement): a reload implements `Reload`, in which the proxy reads
  its configuration, then a look is taken at the open connections, once and at one moment, and
  the exit code and the record are of that look; or the command fails, after which the proxy
  may or may not have read it, or may yet. A reload command is mapped by `applied` = the
  server has done the reload, `seen` = the list the server answered; the two other commands
  map to a promise nobody asks for.

Fairness: the program's own steps, a dial (the operating system ends it; it is not
under the request's timeout, `http.go:40`), the timer and its goroutine. Nothing of the
server is fair, and a write or a read is not, until the server acts or the connection is
closed. `docs/monitor-usage.md:41` says reload does not write audit records; `runReload`
does, after every outcome. The audit log is not modelled.

### Keeper

`archive/legacy-20260617`, retired but whole. Every client has a goroutine: `Read` its
request, `Check` the breaker (`allow`), `Transport` and `ConnectOk`/`ConnectErr` for each
attempt of `dialConnect`, `SetupFailed` or `SetupOk` with the breaker's `failure` or
`success`, `Established`, the two directions of the tunnel (`EndOut`, `EndBack`), and
`Leave`, when both have ended. `Serve` and `main` are `ServeStarts`, `Accept`, `AcceptErr`,
`Signal`, `Close` (two steps: mark, then close the listener) and `Ends`. A client's place
is taken by another once it is gone. `SetupRetries`, `Threshold` and `OpenDuration` are
what `withDefaults` makes of the flags. The breaker's mutex is held in one call at a time, so each call
is one step, and the dial between two calls is many.

* `RefusesDuringStreak`: a client is refused exactly while the last `Threshold` setups to
  end failed and the last of them is no more than the open period ago. The order is that in
  which they ended: a success that began before the streak and ended in it lets all in;
* `AnswerFits`: a tunnel only over an open upstream, a bad gateway only after at most
  1 + `SetupRetries` attempts, nothing tried for the refused, no upstream left open by a
  handler, and no handler gone before both directions of its tunnel;
* `CleanShutdown`: exit code 1 only if `Accept` failed by itself; that is why `Close` marks
  before it closes;
* `EveryClientAnswered` (liveness): every accepted client gets a tunnel or an answer, or
  the keeper has ended;
* `SignalEnds` (liveness): a signal that comes once `Serve` has its listener ends the keeper.
  Before that `Close` has nothing to close, and `main` waits for ever: the premise excludes it.

Fairness: the handlers' own steps with the timeout of an attempt, `Serve`'s start, an
`Accept` on a closed listener, `Close` and `Ends`. A tunnel's peers are not fair: a tunnel
may stay open for ever. The branch for `errCircuitOpen` (`server.go:100`) is never
reached, as nothing returns that error. What the upstream sends in one packet with its answer to
CONNECT is lost with the reader that took it (`upstream.go:69`); the bytes of a tunnel are not
modelled.

## Runs

| run | shows | bounds |
| --- | --- | --- |
| `killswitch_packages` | no orphan rules, a blocking rule per label, types | two packages of one label, one release, one user, the task |
| `killswitch_updates` | coverage, no duplicates, liveness after updates | two releases sorting as released |
| `killswitch_names` | finding: string order picks the old release | the same, sorting the other way |
| `monitor` | all properties of the monitor | three connections, three identities, a log line, four ticks |
| `monitor_exit` | finding: exit code 0 without a sample | same model |
| `enhancement` | all properties of the files and their text, and that they implement `Archive` | two command lines, two commands, two seconds, two files there at first, a node with a quote in its name |
| `enhancement_backups` | finding: backups of one second | one command line, nobody else |
| `hand_edits` | hand-edited files: other groups untouched, no candidate lost | blocks of up to three lines in three layouts, with another group or a key around, three switches |
| `status` | all properties of the status | two command lines, two commands, two lines, two files, three moments |
| `status_probe` | finding: verify's probe turns status GREEN | one command line, only the probe in the log |
| `controller` | all properties of the transport and of reload | one command, up to four exchanges, a static and a leaking connection |
| `keeper` | all properties of the keeper | two places for clients, three setups, one retry, threshold two, an open period of one tick, two ticks |

Why these bounds are enough for the interesting cases. Kill switch: two processes is
what really overlaps (a user and the task), two packages of one label are what collides,
a name needs two identities to go stale and
two names to leave an orphan; two releases are an update. Controller: a
command makes at most four requests, so the number is no bound; one connection of each kind
gives each verdict. Keeper: two handlers overlap in every way two can; three setups
are a failure and a success in either order around a streak of two (`MaxSetups`), and two ticks
pass the open period and its end (`MaxTime`). Monitor: with a leaking, a
static and an unrelated connection all classes of a snapshot occur; identities
differ in address and in verdict, two share the address; four ticks with a sample every
two leave room for three samples (an address that changes and changes back), failed
polls between them and a poll that steps over the deadline (`MaxTime` stops the clock
one tick later). Enhancement: two commands from any files an earlier session may have
left give every overlap of two, and a crash followed by another command
(`MaxCommands`); two seconds separate commands that share a stamp from those that do
not (`MaxClock`); of the files, the rules file is absent at first (`Leftover`): its
rendering never changes, so it would only repeat what the proxies file shows; one quote in
one name gives names with one, two and four of them. Hand edits: three lines after `proxies:` are a
name, what is between, and a name it may be confused with; three switches are one after the
tool has written the file, and one more that comes back to a node (`MaxSwitches`). Status: two lines of one target, in one file or in two, with times or
without, are what `routeIsNewer` decides between (`MaxLines`, `MaxFiles`); of two targets,
they are the two leaks of a map in either order; three moments with an age limit of one
let a route grow old and an apply fall before, with or after it (`MaxClock`); two commands are
two recordings that overlap or follow each other, or a verify or an apply beside a
status (`MaxCommands`). The two command lines are interchangeable, which the symmetry set
uses. Those runs may stop (nobody has to type a third command), so they do not
check for deadlock.

### Disagreements the runs show

1. `killswitch_names`: the resolve script sorts paths as strings (`scripts.go:47`), so
   after an update from app-1.9 to app-1.10 the task keeps blocking the old release,
   while the help says updates keep UDP blocked (`cli.go:996`).
2. `monitor_exit`: the guide's exit code 0 means a verified identity (`:64`); a watch
   whose every poll failed returns it too.
3. `enhancement_backups`: `README.md:17` promises a backup before every write; a second
   command in the same second replaces the first one's backup.
4. `status_probe`: GREEN says "AI traffic used AI-Static" (`status.go:172`), and is to be
   YELLOW when "no AI client hit was observed" (`:174`); but verify's own request to
   ipinfo.io, routed through AI-Static by the managed rules (`enhancement.go:260`), counts
   as such a hit.

### Disagreements no run shows

The models contain these as the code has them; no run is spent on them.

* The guide promises a sample when an AI connection disappears (`docs/monitor-usage.md:24`); the
  code samples on schedule only (`cli.go:281`, `:315`), and so does `Monitor`.
* `README.md:71` says that switch-bootstrap only adjusts the order of the candidates. Besides it
  1. doubles the quotes inside names: they are read without undoubling them
     (`enhancement.go:314`) and written with them doubled (`:335`, `:361`). apply writes `a'b`
     rightly, the switch after it makes it `a''b` for Clash, the next one a name with four quotes;
     `--node "a'b"` is refused;
  2. loses the list of an indented file: the group is found at any indentation (`:277`, `:293`),
     the items are written behind two spaces (`:335`), to the left of their list, which is then empty
     for Clash;
  3. makes a comment behind a name a part of the name (`:314`);
  4. drops a key of the group that follows its list (`:302-317`, `:338`).

## Proofs

The proofs hold for all values of the constants, under the assumptions named
`KillSwitchAssumption`, `MonitorAssumption`, `EnhancementAssumption`,
`NodesAssumption`, `HandEditsAssumption`, `StatusAssumption`, `ControllerAssumption` and `KeeperAssumption`, which
only give the constants their types (`Editable` are files of the profile; no node is
nameless, as an empty `--node` is refused at `cli.go:598` and `dedupeNonEmpty` drops empty
candidates; no target is called "none"; no connection is both static and a leak; flags are
integers of either sign). What the recursive functions of `Lists` and `GroupsText` return is
proved for lists and texts of every length.

`KillSwitchProofs`: the invariant `IInv` is type correctness and, for each process, what
its plan still owes the rules: a target that is its name's only one and whose name
nobody touched is blocked already or in `toAdd`; a rule without a target, or stale
beside an addition, is in `toRemove`; a removal left takes no block off. The
properties alone are not inductive, because they speak of the end of a plan only.
The step of another process is one lemma (`Bystander`): it either leaves a name's rules
alone or adds the name to `touched`. From `IInv` follow `KillSwitchTyped`,
`SuccessCovers`, `RulesPruned`, `LabelsCovered` (whose part of the plan is `LabelPlaced`: a
label nobody touched has a blocking rule that stays or is still to be added), and with it each step satisfies the action properties
`NoDuplicates` and `CoverKept`.

`MonitorProofs`: `IInv` joins type correctness, the relation of the tracker's baseline
to the identities ever taken, `worst = Verdict`, that a first sample stays due until
one was made, that a sample is never due earlier than an interval after the last, and
the counts as cardinalities. It gives `MonitorTyped`, `ExitIsVerdict`, `GreenIsVerified`,
`CountsAreExact` and `SamplesSpaced`; for `ReasonsFit`, `ReasonInv` remembers of a printed
code what was true when it was printed.

`EnhancementProofs`: neither property says anything of the middle of a write, so `IInv`
adds what holds there: a file a process has yet to write, and that nobody overtook, is
as it read it, or empty by its own hand (`AsRead`); a backup a process has opened is its
own, no other process holds one of the same name, and it holds what was read, except
while it is being filled (`OwnBackup`); everything owed was whole (`OwedWhole`), so
emptying a backup that was not there before, and filling one that is still empty, lose
nothing; every file apply has read is as rendered or waits to be written (`Planned`).
Each action has its lemma, one step per conjunct. From it follow `NothingIsLost` and
`ApplyWrites`. Type correctness is not inductive by itself: the next content of a groups
file is only a list without repetitions because the command is one that can be typed
(`Underway`), and a switch moves a node that was in the list it read (`SwitchPlan`: it
writes the groups file only, and only after it has found the node there). `JInv` joins these
and `SwitchDone`: when a switch's writes are over, the file is what it made of what it read,
unless overtaken, and the backup is what it read, unless spoiled. It gives `Types`, and
`SwitchReordersTheList` with what `Lists` says of a list with one element moved ahead.
`ImplementsArchive` is the refinement, with one more invariant (`KnownReads`): what a process is
about to back up, though it read it long ago, is in the file or archived already, as
whoever overtook it archived it first. Reading, stamping, ending and crashing stutter
(`QuietOwner`); each other action is one of `Archive`'s (`FillBackupOwner`, `OpenFileOwner`,
`FillFileOwner`: `Keep`, `Empty`, `Fill`, or `Disturb` when the process was overtaken or the
backup's name was in use).

Two more theorems join the lists to the text (`EnhancementText`). `AnyListIsItsText`: for every list of any
length, names repeated or with any number of quotes inside, extracting from its text gives the
list, and switching the text gives the text of the switched list or is refused; its lemmas say
where the list is between the two ends (`BetweenTheEnds`, `TheEnds`). With `Types`,
`TheTextIsTheList` follows. `ClashReadsTheCandidates` needs `ApplyWrites`, and that undoubling
what was doubled gives the name back (`ClashFindsTheWritten`).

`GroupsTextProofs`, first part: what the loops of `Lists` return, for lists of any length. The library's
induction theorems take an operator and cannot be used; `NatSet` says the same of a set (one
that holds 0 and, with n, n + 1, holds every natural number), by the least element that is
not in it, and `UpTo` and `SeqSet` bring it to the numbers up to a length and to
sequences. A loop is a run of steps over its prefixes (`Run`); a run exists (`Recursion`), so
the recursive function that defines the loop satisfies its equation, and what holds
of every prefix holds of the result. Of `Within`: its elements are those of the list that are
in the set, none repeated that was not; doing it twice is doing it with the intersection;
it distributes over concatenation and commutes with renaming the elements. Of
`dedupeNonEmpty`: the same elements, each once. Taking one element out of a list
without repetitions closes the gap and moves nothing else (`WithoutPlaces`).

Second part: where a group is in a text is a matter of the least line of a kind (`Located`), and
stays one when lines elsewhere are replaced: a group before the list that is written keeps its
lines, one behind it has them shifted (`Moved`). What is written is a run of items only, which
starts no group and ends none, so headings are kept (`HeadingsKept`), and another group's list is
what it was (`OtherGroups`); what stands in the group itself is what Clash reads of the names
written (`OwnGroup`). From these follows `SwitchOfAnyText`, with no bound on anything: for every text, in any
layout, with comments and keys anywhere, every group and node, a switch that is not
refused keeps the headings and what Clash finds in every other group, and where the list is
`Understood`, Clash finds the node first, then the others in their order. The
premise excludes just the four things a switch does besides ("Disagreements no run shows").

`HandEditsProofs`: `HandEditsTypes` and `OtherGroupsAlwaysSurvive`
are that theorem at every step. `CandidatesSurvive` is not inductive, as it says nothing of the lines:
`SimpleInv` adds that the text is the edited one before the first switch, and that a file that was
`Simple` when edited stays so (`StaysSimple`: what is written has no comment and, as there was no
quote, none to double); and reordering by one more node is reordering the chosen ones
(`ReorderedAgain`). It gives `CandidatesAlwaysSurvive`.

`IdentityStatusProofs`: type correctness (`StatusTyped`) splits into the log (`Place`), the
files (`Settled`) and the memories (`Remembered`), one lemma per kind of command. All
codes of one evaluation have one level (`LevelIsDetermined`), because each of several is a
leak's. `LeaksAreJudged` and `GreenIsAlwaysBacked` rest on one lemma: where the log tells
the order, the newest route of a target is its last line (`NewestIsLast`), though files are
read newest first; the rest unfolds the evaluation of the step that concludes.
`ActivityMerged` needs more than it says: `Orderly` adds that whoever is about to write the
record will write what was recorded merged with its own time, and that nobody else is
while a command fills the file.

`ControllerProofs`: `IInv` numbers the exchanges (`OrderInv`: which request is which
exchange, and that the pipe comes second), says that nothing of a later exchange
exists yet (`SocketInv`), ties the client's place to how much of the answer there can
be (`AnswerInv`: only the head's success leads to decoding, and a reload's success
means done), and what has been told (`ToldInv`). One lemma per action. From it follow
`TypeCorrect`, `LeavesNothingOpen`, `RecordsAreTrue`, `TellsTheTruth`. `KeepsThePromise` is
the refinement: the initial states map to `Reload`'s; the exchange's own steps
and the watchdog's stutter (`ExchangeIsQuiet`); the server's are `Apply`, `Look`, `Change` or
stutter (`ServerKeepsPromise`, where `Look` needs that a list comes after the reload
was done); the commands' are `Judge`, `Fail` or stutter (`CommandKeepsPromise`). `Reload` states
no fairness, so this is safety alone.

`KeeperProofs`: `BreakerInv` says that the breaker's count is the number of failures at the
end of the outcomes, and that it is open from the threshold on until the last of them
plus the period; with it `RefusesInStreaks` is a matter of the one step that asks
(`OpenInStreak`, `OnlyCheckAsks`). `ClientInv` says what has been done for a client by where
its handler is, which gives `AnswersFit`; `ServerInv` that a closed listener was marked
first, which gives `ShutsDownCleanly`.

Only model-checked: the five liveness properties `UpdatesKeepBlocked`, `Terminates`,
`EveryCommandEnds`, `EveryClientAnswered` and `SignalEnds` (temporal reasoning under
fairness and ENABLED is out of the prover's reach). Every invariant and every action property of
a passing run, and each refinement, is a theorem.

## Not modelled

Configuration and profile discovery (`config.go`, `clash_paths.go`): a line parser for a
subset of YAML and a key=value file, sequential and without state; its results are constants
here. (A `key: value` line without indentation after a section is read as that section's
key, and lists under `killswitch.appx` are ignored; the example file has neither.) Redaction, the
audit log (appended to, never judged by), doctor's checks of files, the keeper's key=value
file, output formats: sequential code without state. The scripts and the browser extension
are outside the program. Whether the kernel, the firewall or Task Scheduler do what
they say is assumed. `apply --dry-run` changes nothing. `RuntimeConfig` has no caller. See
`PROJECT.json` for each part.

Hazards no property covers: a drop calls for no sample (`cli.go:281`); what a switch does to a file
edited in another shape than its own (`enhancement.go:335`, above); the verify result has no age limit (`cli.go:674`; no document
sets one); a log file rotated away between listing and reading is missed (`cli.go:670`; the
model has it, `LeaksJudged` excludes it); a signal before `Serve` has its listener hangs the keeper
(`server.go:63`).

Overlaps the models contain and the properties except, each with a note in `PROJECT.json`: what two
kill-switch commands on one name leave between them when they end (`touched`; the refresh task
repairs it, `UpdatesKeepBlocked`), a rule the task adds behind a remove, a status report mixed from
three moments; content written to an enhancement file between a command's read and its
write (`overtaken`, `spoiled`); recordings of `activity.json` that overlap or die in the middle
(`disturbed`); log lines that do not tell their order. In each the loss is real, it is how
the code behaves, and no document promises otherwise; what the properties show is that
nothing is lost besides.

## Plan

Done: `KillSwitch`, `Monitor`, `Enhancement`, `IdentityStatus`, `GroupsText`, `HandEdits`, `Controller` with
its abstract specification `Reload`, `Keeper`; all safety properties and the
refinements of `Reload` and `Archive` are proved. Left, in this order:

1. Abstract specifications of the other components: `Blocking` (a set of blocked
   applications that the commands change atomically), which `KillSwitch` implements for
   undisturbed commands; `Session` (a verdict over a set of observations), which
   `Monitor` implements; an atomic `Record` for `IdentityStatus`, until the history is
   disturbed. Their refinements are to be proved as `KeepsThePromise` is.
2. A breaker of its own for the keeper's proofs, as an abstract specification: a list of
   outcomes and a clock.
3. `Config`: the parser's sections over kinds of lines, as `GroupsText` does.
