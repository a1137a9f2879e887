---------------------------- MODULE Enhancement -----------------------------
(***************************************************************************)
(* "apply" and "switch-bootstrap" (runApply and runSwitchBootstrap in      *)
(* internal/cli/cli.go, internal/identity/enhancement.go): they write the  *)
(* profile's enhancement files, each beside a backup of what it replaces.  *)
(*                                                                         *)
(* A command reads a file, makes its next content of what it read, writes  *)
(* the backup, writes the file.  Writing is not atomic (os.WriteFile       *)
(* empties the file, then fills it), nothing is locked, and the process    *)
(* may fail or die between any two calls; commands, and Clash itself,      *)
(* interleave on the files.  A backup's path ends with the time to the     *)
(* second, and a backup of the same second is written over.                *)
(*                                                                         *)
(* A content is a record: absent, torn (emptied, or a jumble of two        *)
(* writers'), foreign (without the group switch-bootstrap looks for), or   *)
(* managed, with the data in which two managed contents of one file may    *)
(* differ: the proxies' credentials, the groups' bootstrap candidates as   *)
(* the tool reads them, the quotes inside a name doubled by every writing. *)
(***************************************************************************)
EXTENDS Lists, Names

CONSTANTS Procs,       \* command lines
          Credentials, \* what proxy-secret.local may hold
          Nodes,       \* bootstrap nodes
          Given,       \* the names --bootstrap and --node give them
          Bootstraps,  \* the values of apply's repeated --bootstrap
          Editable,    \* the files Clash or the user rewrites meanwhile
          Leftover,    \* bound: the files that may be there at first
          MaxClock,    \* bound: the last second of the clock
          MaxCommands  \* bound: commands run

ASSUME EnhancementAssumption ==
    /\ Bootstraps \subseteq Seq(Given) \ {<<>>}
    /\ Editable \subseteq {"proxies", "groups", "rules"}
    /\ MaxClock \in Nat /\ MaxCommands \in Nat

(* No node is nameless: "--node" must not be empty, and dedupeNonEmpty     *)
(* drops the candidates that are (cli.go:598, enhancement.go:368-369).     *)
ASSUME NodesAssumption == "" \notin Nodes /\ Given \subseteq NamesOf(Nodes)

VARIABLES disk,       \* the enhancement files
          backups,    \* the backups of each file, by second
          clock,
          commands,   \* commands run so far
          pc,         \* idle, or what a process does next
          job,        \* the command it runs
          unread,     \* the files it has yet to read
          existing,   \* what it read of each
          unwritten,  \* the files it has yet to write
          stamp,      \* the second its backups are named after
          \* history
          overtaken,  \* files others wrote since a process read them
          owed,       \* whole contents commands have emptied or written over
          spoiled     \* files written from a stale read, or to a used backup

files == <<disk, backups>>
local == <<pc, job, unread, existing, unwritten, stamp>>
vars  == <<files, clock, commands, local, overtaken, owed, spoiled>>

Files   == {"proxies", "groups", "rules"}
Seconds == 0..MaxClock

Content(kind, data) == [kind |-> kind, data |-> data]
Absent  == Content("absent", <<>>)
Torn    == Content("torn", <<>>)
Foreign == Content("foreign", <<>>)

Whole(c) == c.kind \in {"foreign", "managed"}

Apply(secret, candidates, rules) ==
    [cmd |-> "apply", secret |-> <<secret>>, nodes |-> candidates, rules |-> rules]
Switch(name) == [cmd |-> "switch", secret |-> <<>>, nodes |-> <<name>>, rules |-> FALSE]
NoJob == [cmd |-> "none", secret |-> <<>>, nodes |-> <<>>, rules |-> FALSE]

Applies == {Apply(s, b, r) : s \in Credentials, b \in Bootstraps, r \in BOOLEAN}
Jobs    == Applies \cup {Switch(n) : n \in Given}

Scope(j) ==
    IF j.cmd = "switch" THEN {"groups"}
    ELSE {"proxies", "groups"} \cup (IF j.rules THEN {"rules"} ELSE {})

(* The files are read, and then written, in this order. *)
Place(f) == CASE f = "proxies" -> 1 [] f = "groups" -> 2 [] OTHER -> 3

IsNext(f, S) == f \in S /\ \A g \in S : Place(f) <= Place(g)

Rendered(f, j) ==
    Content("managed", CASE f = "proxies" -> j.secret
                         [] f = "groups"  -> AsWritten(dedupeNonEmpty(j.nodes))
                         [] OTHER         -> <<>>)

(* A slip: the node is put first without being taken out. *)
SwitchedTwice(s, n) == AsWritten(<<n>> \o s)

(* The list that reading, reordering and writing the text leave. *)
Switched(s, n) == AsWritten(<<n>> \o Without(s, n))

(* A slip: any managed file passes for up to date. *)
ChangedKind(c, next) == c.kind # next.kind

Changed(c, next) == c # next

(* A slip: the other candidates are dropped. *)
NextContentShort(f, j, c) ==
    IF j.cmd = "apply" THEN Rendered(f, j)
    ELSE Content("managed", SubSeq(Switched(c.data, j.nodes[1]), 1, 1))

(* What command j makes of a file f it found as c. *)
NextContent(f, j, c) ==
    IF j.cmd = "apply" THEN Rendered(f, j)
    ELSE Content("managed", Switched(c.data, j.nodes[1]))

(* What writing c over an open file leaves: c when the file is as this     *)
(* process emptied it, else c or a mixture.                                *)
Filled(old, c) == IF old = Torn THEN {c} ELSE {c, Torn}

(* What an earlier session may have left of file f. *)
Found(f) == {c \in {Absent, Foreign} \cup {Rendered(f, j) : j \in Applies} :
               c = Absent \/ f \in Leftover}

-----------------------------------------------------------------------------
Init ==
    /\ disk \in {d \in [Files -> UNION {Found(f) : f \in Files}] :
                    \A f \in Files : d[f] \in Found(f)}
    /\ backups = [f \in Files |-> [s \in Seconds |-> Absent]]
    /\ clock = 0 /\ commands = 0
    /\ pc = [p \in Procs |-> "idle"]
    /\ job = [p \in Procs |-> NoJob]
    /\ unread = [p \in Procs |-> {}]
    /\ existing = [p \in Procs |-> [f \in Files |-> Absent]]
    /\ unwritten = [p \in Procs |-> {}]
    /\ stamp = [p \in Procs |-> 0]
    /\ overtaken = [p \in Procs |-> {}]
    /\ owed = [f \in Files |-> {}]
    /\ spoiled = {}

(* File f changes under every process but p. *)
Overtake(p, f) ==
    overtaken' = [q \in Procs |-> IF q = p \/ pc[q] = "idle" THEN overtaken[q]
                                  ELSE overtaken[q] \cup {f}]

End(p) ==
    /\ pc' = [pc EXCEPT ![p] = "idle"]
    /\ job' = [job EXCEPT ![p] = NoJob]
    /\ unread' = [unread EXCEPT ![p] = {}]
    /\ existing' = [existing EXCEPT ![p] = [f \in Files |-> Absent]]
    /\ unwritten' = [unwritten EXCEPT ![p] = {}]
    /\ stamp' = [stamp EXCEPT ![p] = 0]
    /\ overtaken' = [overtaken EXCEPT ![p] = {}]

(* Content that a command empties or writes over must be in a backup. *)
Owe(f) ==
    owed' = IF Whole(disk[f]) THEN [owed EXCEPT ![f] = @ \cup {disk[f]}] ELSE owed

Spoil(p, f) == spoiled' = IF f \in overtaken[p] THEN spoiled \cup {f} ELSE spoiled

(* apply takes its stamp before it reads, once for all files. *)
Start(p) ==
    /\ pc[p] = "idle"
    /\ commands < MaxCommands
    /\ commands' = commands + 1
    /\ \E j \in Jobs :
         /\ job' = [job EXCEPT ![p] = j]
         /\ unread' = [unread EXCEPT ![p] = Scope(j)]
    /\ pc' = [pc EXCEPT ![p] = "read"]
    /\ stamp' = [stamp EXCEPT ![p] = clock]
    /\ UNCHANGED <<files, clock, existing, unwritten, overtaken, owed, spoiled>>

(* apply plans a write of every file that differs from its rendering. *)
ReadApply(p, f) ==
    /\ job[p].cmd = "apply"
    /\ unwritten' = [unwritten EXCEPT ![p] =
                        IF Changed(disk[f], Rendered(f, job[p])) THEN @ \cup {f} ELSE @]
    /\ pc' = [pc EXCEPT ![p] = IF unread[p] = {f} THEN "backup" ELSE "read"]

(* switch-bootstrap goes on only when the group lists the node (else it    *)
(* ends, see Fail), and writes even when the node is first already.        *)
ReadSwitch(p, f) ==
    /\ job[p].cmd = "switch"
    /\ disk[f].kind = "managed" /\ Contains(disk[f].data, job[p].nodes[1])
    /\ unwritten' = [unwritten EXCEPT ![p] = {f}]
    /\ pc' = [pc EXCEPT ![p] = "stamp"]

Read(p) ==
    /\ pc[p] = "read"
    /\ \E f \in unread[p] :
         /\ IsNext(f, unread[p])
         /\ ReadApply(p, f) \/ ReadSwitch(p, f)
         /\ existing' = [existing EXCEPT ![p][f] = disk[f]]
         /\ unread' = [unread EXCEPT ![p] = @ \ {f}]
         /\ overtaken' = [overtaken EXCEPT ![p] = @ \ {f}]
    /\ UNCHANGED <<files, clock, commands, job, stamp, owed, spoiled>>

Stamp(p) ==
    /\ pc[p] = "stamp"
    /\ stamp' = [stamp EXCEPT ![p] = clock]
    /\ pc' = [pc EXCEPT ![p] = "backup"]
    /\ UNCHANGED <<files, clock, commands, job, unread, existing, unwritten,
                   overtaken, owed, spoiled>>

(* The next write begins: its backup is opened, and so emptied; a file     *)
(* that was not there needs none.                                          *)
OpenBackup(p) ==
    /\ pc[p] = "backup"
    /\ \E f \in unwritten[p] :
         /\ IsNext(f, unwritten[p])
         /\ IF existing[p][f] = Absent
            THEN /\ pc' = [pc EXCEPT ![p] = "write"]
                 /\ UNCHANGED <<backups, spoiled>>
            ELSE /\ pc' = [pc EXCEPT ![p] = "copy"]
                 /\ backups' = [backups EXCEPT ![f][stamp[p]] = Torn]
                 /\ spoiled' = IF backups[f][stamp[p]] = Absent THEN spoiled
                               ELSE spoiled \cup {f}
    /\ UNCHANGED <<disk, clock, commands, job, unread, existing, unwritten, stamp,
                   overtaken, owed>>

(* A slip: the backup gets the new content. *)
FillBackupNew(p) ==
    /\ pc[p] = "copy"
    /\ \E f \in unwritten[p] :
         /\ IsNext(f, unwritten[p])
         /\ \E c \in Filled(backups[f][stamp[p]],
                            NextContent(f, job[p], existing[p][f])) :
              backups' = [backups EXCEPT ![f][stamp[p]] = c]
    /\ pc' = [pc EXCEPT ![p] = "write"]
    /\ UNCHANGED <<disk, clock, commands, job, unread, existing, unwritten, stamp,
                   overtaken, owed, spoiled>>

FillBackup(p) ==
    /\ pc[p] = "copy"
    /\ \E f \in unwritten[p] :
         /\ IsNext(f, unwritten[p])
         /\ \E c \in Filled(backups[f][stamp[p]], existing[p][f]) :
              backups' = [backups EXCEPT ![f][stamp[p]] = c]
    /\ pc' = [pc EXCEPT ![p] = "write"]
    /\ UNCHANGED <<disk, clock, commands, job, unread, existing, unwritten, stamp,
                   overtaken, owed, spoiled>>

OpenFile(p) ==
    /\ pc[p] = "write"
    /\ \E f \in unwritten[p] :
         /\ IsNext(f, unwritten[p])
         /\ disk' = [disk EXCEPT ![f] = Torn]
         /\ Owe(f)
         /\ Spoil(p, f)
         /\ Overtake(p, f)
    /\ pc' = [pc EXCEPT ![p] = "fill"]
    /\ UNCHANGED <<backups, clock, commands, job, unread, existing, unwritten, stamp>>

FillFile(p) ==
    /\ pc[p] = "fill"
    /\ \E f \in unwritten[p] :
         /\ IsNext(f, unwritten[p])
         /\ \E c \in Filled(disk[f], NextContent(f, job[p], existing[p][f])) :
              disk' = [disk EXCEPT ![f] = c]
         /\ unwritten' = [unwritten EXCEPT ![p] = @ \ {f}]
         /\ Owe(f)
         /\ Spoil(p, f)
         /\ Overtake(p, f)
    /\ pc' = [pc EXCEPT ![p] = "backup"]
    /\ UNCHANGED <<backups, clock, commands, job, unread, existing, stamp>>

WritesDone(p) == pc[p] = "backup" /\ unwritten[p] = {}

Finish(p) ==
    /\ WritesDone(p)
    /\ End(p)
    /\ UNCHANGED <<files, clock, commands, owed, spoiled>>

(* A call fails, the group or the node is not there, or the process dies:  *)
(* what is written stays, what is not never will be.                       *)
Fail(p) ==
    /\ pc[p] # "idle"
    /\ End(p)
    /\ UNCHANGED <<files, clock, commands, owed, spoiled>>

(* Clash or the user saves a file. *)
Edit ==
    /\ \E f \in Editable :
         /\ disk' = [disk EXCEPT ![f] = Foreign]
         /\ overtaken' = [q \in Procs |-> IF pc[q] = "idle" THEN overtaken[q]
                                          ELSE overtaken[q] \cup {f}]
    /\ UNCHANGED <<backups, clock, commands, local, owed, spoiled>>

Tick ==
    /\ clock < MaxClock
    /\ clock' = clock + 1
    /\ UNCHANGED <<files, commands, local, overtaken, owed, spoiled>>

Step(p) ==
    \/ Start(p) \/ Read(p) \/ Stamp(p)
    \/ OpenBackup(p) \/ FillBackup(p) \/ OpenFile(p) \/ FillFile(p)
    \/ Finish(p) \/ Fail(p)

Next == Edit \/ Tick \/ \E p \in Procs : Step(p)

Spec == Init /\ [][Next]_vars

-----------------------------------------------------------------------------
(* What file f may hold; apply never lists a candidate twice. *)
IsContent(f, c) ==
    \/ c \in {Absent, Torn, Foreign}
    \/ /\ c = Content("managed", c.data)
       /\ CASE f = "proxies" -> c.data \in {<<s>> : s \in Credentials}
            [] f = "groups"  -> c.data \in Seq(NamesOf(Nodes)) /\ IsInjective(c.data)
            [] OTHER         -> c.data = <<>>

(* Types; whole files hold what their kind may hold, bootstrap groups no   *)
(* candidate twice (enhancement.go:197-272, 364-376).                      *)
TypeOK ==
    /\ DOMAIN disk = Files /\ DOMAIN backups = Files
    /\ \A f \in Files :
         /\ IsContent(f, disk[f])
         /\ DOMAIN backups[f] = Seconds /\ \A s \in Seconds : IsContent(f, backups[f][s])
    /\ clock \in Seconds /\ commands \in 0..MaxCommands
    /\ pc \in [Procs -> {"idle", "read", "stamp", "backup", "copy", "write", "fill"}]
    /\ job \in [Procs -> Jobs \cup {NoJob}]
    /\ unread \in [Procs -> SUBSET Files] /\ unwritten \in [Procs -> SUBSET Files]
    /\ \A p \in Procs, f \in Files : IsContent(f, existing[p][f])
    /\ stamp \in [Procs -> Seconds]
    /\ overtaken \in [Procs -> SUBSET Files]
    /\ spoiled \subseteq Files

(* Nothing that was whole is lost: what a command emptied is whole in a    *)
(* backup, from that moment on, through every crash, unless two commands   *)
(* (or Clash) were at one file together, or a backup of the same second    *)
(* was written over (enhancement.go:86-103, cli.go:622-630).               *)
NothingLost ==
    \A f \in Files \ spoiled :
        owed[f] \subseteq {backups[f][s] : s \in Seconds}

(* When apply has made its last write, every file it manages is as it      *)
(* rendered it, written now or found so, unless somebody wrote it since    *)
(* apply read it (enhancement.go:86-104, 136-153).                         *)
AppliedIsOnDisk ==
    \A p \in Procs :
        WritesDone(p) /\ job[p].cmd = "apply" =>
            \A f \in Scope(job[p]) \ overtaken[p] : disk[f] = Rendered(f, job[p])

(* When switch-bootstrap has made its write, the file lists the candidates *)
(* of its backup, each once, the chosen one first, with nothing changed    *)
(* but the quotes inside, doubled, unless somebody wrote either meanwhile  *)
(* (enhancement.go:319-340, 360-362).                                      *)
SwitchOnlyReorders ==
    \A p \in Procs :
        /\ WritesDone(p) /\ job[p].cmd = "switch"
        /\ "groups" \notin overtaken[p] \cup spoiled
        =>
            LET old == backups["groups"][stamp[p]].data
                new == disk["groups"].data
            IN  /\ Len(new) = Len(old) /\ ToSet(new) = {Doubled(m) : m \in ToSet(old)}
                /\ new[1] = Doubled(job[p].nodes[1])

(* The commands, their writes cut in two, crashes and overlaps included,   *)
(* keep the promise of module Archive: no file is emptied unless its       *)
(* content is in a backup, no content leaves the backups, and what fills a *)
(* file is rendered, or an archived list with one candidate moved ahead,   *)
(* the quotes inside its names doubled                                     *)
(* (enhancement.go:86-103, 274-362, cli.go:603-630).                       *)
Archived == [f \in Files |-> {c \in {backups[f][s] : s \in Seconds} : Whole(c)}]
Owner == INSTANCE Archive WITH
    file       <- disk,
    archive    <- Archived,
    disturbed  <- spoiled,
    Saved      <- Foreign,
    Renderings <- [f \in Files |-> {Rendered(f, j) : j \in Applies}]
ArchiveKept == Owner!Spec

(* README.md:17 promises a backup before every real write: what a command  *)
(* emptied is whole in a backup.                                           *)
BackedUp == \A f \in Files : owed[f] \subseteq {backups[f][s] : s \in Seconds}

=============================================================================
