# A TLA+ model of vcd, the Linux-VServer control daemon

This directory holds a specification of the daemon `vcd`, of its kernel helper
`vshelper` and of its clients `vcc`, `vce`, `vgc`, `vcdadm` and `vxpasswd`
(`src/src/vcd`, `src/src/vshelper`, `src/src/vcc`, `src/src/vxpasswd`): modules,
TLC configurations, and proofs checked by TLAPS.  `PROJECT.json` lists the
components, the runs, the mutants that show each property can fail, the lines
each definition models, the findings, the hazards and the theorems.

## 1. The system

`vcd` is an XML-RPC server that manages virtual servers ("vservers").  Its
persistent state is one SQLite file, the *vxdb*, plus one directory tree (the
*vdir*) per vserver; its volatile state is in the kernel: a *context* and a
*network context* per running vserver.  A vserver is known by a name to users
and by a number, the *xid*, to the kernel and to most tables.

### Processes

* The **master** process binds a socket and runs abyss, which forks one **child** per
  connection.  A child runs one request and exits (`keepalive_max_conn = 0`);
  a request may be xmlrpc-c's `system.multicall`.
* `vx.start` and `helper.shutdown` fork **grandchildren**.
* The kernel runs **vshelper** when a context or network context comes up or
  goes away, or when a guest calls reboot(2).  vshelper calls the daemon's
  `helper` methods over XML-RPC, i.e. another child of the same daemon.
* The **clients** are started by users, one process per command line: options and
  configuration give host, user and password, the command gives one call (two for
  `vcc login`), and the answer is printed.  `vxpasswd` writes to the vxdb itself.

### Components

| component | state | operations | interacts with |
|---|---|---|---|
| method_init (`methods.c`) | lock files, `lockfd`, counters in table vcd | authenticate, check capabilities and owner, lock a name | every method |
| auth (`auth.c`, `lists.c`) | tables user, user_caps, xid_uid_map | auth_isvalid, isadmin, capable, isowner, getnextuid | method_init, the vcd methods |
| vxdb layer (`vxdb.c`) | the SQLite handle, the global statement `dbr` | open, sanity check, prepare/step/exec, getxid, getname, getvdir, getgid | all |
| registry of vservers (`vx_create.c`, `vx_remove.c`, `vx_rename.c`) | xid_name_map, vdir, all per-xid tables, the vdirs | create (and rebuild), remove, rename | lifecycle (must not be running), configuration |
| lifecycle (`vx_start.c` ... `vx_exec.c`, `methods/helper`, `vshelper/main.c`) | kernel contexts, table restart | start, stop, restart, reboot, exec, kill, helper.* | kernel, registry |
| configuration (`methods/vxdb`) | per-xid tables | get, set, add, remove | helper.startup and helper.netup read them |
| users (`methods/vcd`) | user, user_caps | user.set, user.remove, caps.add, caps.remove, login, status | auth |
| groups (`methods/vg`) | groups, xid_gid_map | add, remove, list, start/stop/restart/reboot of all members | registry, lifecycle |
| daemon (`main.c`, `cfg.c`) | socket, signal handlers, row of table vcd | start, reload on SIGHUP, shut down | children |
| validators, lists, conversions (`validate.c`, `lists.c`) | none | predicates, tables of flags | all methods |
| queries (`methods/vxdb/*_get.c`, `vx_status.c`, ...) | none | build an answer from tables and kernel counters | clients |
| clients (`vcc/main.c`, `vcc/{vcc,vce,vgc,vcdadm}`, `vxpasswd`) | settings, the answer | read options, ask for a password, call, decompose, print | daemon, vxdb |
| vlogin (`vcc/vlogin.c`) | mode of the terminal, pseudo terminal, child | copy keys and output, forward signals, reset and exit | shell in a vserver |

### What is hard here

* **Children interleave at every SQL statement and system call.**  The lock is per
  *name*; xids, users and groups are shared between names and are chosen as
  "maximum plus one" in one statement and used in a later one.
* **Test and lock are two calls** (`lockf(F_TEST)`, then `lockf(F_LOCK)`), and a signal
  the child means to ignore breaks a sleeping `F_LOCK`.
* **The helper methods take no lock** and one of them, `helper.shutdown`, starts a vserver
  from a grandchild seconds later, when the name may be gone, renamed or being
  rebuilt.
* **A reboot is a handshake** between a guest, the kernel, vshelper and the daemon through
  one row of table restart; every message of it may be lost when the daemon is
  reloading.
* **Files and tables change separately**: vx.create unlinks and builds a tree before its
  transaction, vx.remove unlinks after it.
* **Failure in the middle** of every method: a busy database makes `vxdb_exec` fail after
  500 ms, a child may die at any point.
* **Settings outlive the context**: a disk limit belongs to a filesystem and a cpuset is a
  directory; a start that fails half way leaves them behind for the next one.
* **Two programs, one protocol**: every command and every method spells out the types of
  its parameters and answers; nothing compares the two, and each optional argument
  is another path through both.
* **Names are looked up once**: an xid, a directory or a list of group members is read in one
  call or statement and used in another, while others rename and rebuild.
* **vlogin lives in its signal handlers**: SIGCHLD may interrupt any step, before the loop,
  inside a copy or on the way out, and every exit must give the terminal back.
* **Boundaries**: the last xid, timeouts of zero, the page/byte conversions in 64 bits.

### What makes each component correct

| component | property |
|---|---|
| method_init | two children never hold one name; a child that waits gets in; no two children wait for each other |
| registry | a name, its xid, its vdir row and its tree belong together; a method changes only the vserver whose lock it holds; nothing is left of a removed vserver |
| lifecycle | only a registered vserver runs; a reboot, and only a reboot, starts it again; every request ends unless a reload comes between; init is inside its contexts |
| configuration, helper.startup | init runs with the configuration of its vserver, all of it, and with nothing of an earlier run; no limit is above what was asked for |
| users, groups | a capability, owner or membership row outlives its user, vserver or group only by a race of two methods; the daemon is up only with an admin and a vshelper user |
| daemon | a reload touches the database only when no child runs, and it ends |
| queries, clients | both sides agree on every format; a vce command that succeeds has done what its line says, or shows all there is; a change reaches the vserver that was named; a password goes with its own user |
| groups | after a stop without a fault no member runs, unless someone else interfered |
| vlogin | it ends when the shell does, shows what the shell wrote as far as its writes are not cut short, and gives the terminal back |

## 2. Modules

`NameMutex`, `MethodLock`, `VxRegistry`, `VxLifecycle`, `Accounts`, `Daemon`,
`Startup`, `VceSpec`, `Client` and `Vlogin` are specifications; `Configuration`,
`VxdbMethods`, `VcdMethods`, `Commands` and `Wire` are parts they are made of.

    Wire -- VxdbMethods -- Configuration -- Startup
                 |
             VcdMethods --+
    Wire -- Commands -----+-- Client     (implements VceSpec)
    MethodLock (implements NameMutex);  VxRegistry, VxLifecycle, Accounts,
    Daemon and Vlogin stand alone

`MC*` modules hold the values of
constants TLC needs; `*Proofs` modules hold the theorems.  Definitions have the
names of the C functions where there is one.  A definition whose comment begins
with "Mutant" is a wrong variant of the one after it; only the mutation checks
use it.

### MethodLock and NameMutex: `methods.c`, `auth.c`

The prologue of every method.  `holder[n]` is the child that has the kernel's lock on
the lock file of name n, `lockfd[p]` the global variable of child p, `pc[p]` its place
in `method_init` (flags, lock, wait, body).  `lockf(F_TEST)` and `lockf(F_LOCK)`
are separate actions; the kernel grants a lock to any sleeper.  A child may run
several calls (system.multicall), may die anywhere, and the children in the constant
`Signalled` may be hit by a signal while they sleep, which lets them into the method without the
lock because the result of `F_LOCK` is ignored.  `NameMutex` is what the lock promises: a
lock that is taken and released in one step; MethodLock implements it.

### VxRegistry: `vx_create.c`, `vx_remove.c`, `vx_rename.c`

One action per statement or transaction on xid_name_map, vdir and the per-xid
tables (constant `Tables`), and per operation on the trees: create looks the name up,
chooses an xid (`find_free_xid`), unlinks the old tree, copies the template, and
commits; remove commits and then unlinks; a configuration method looks the xid up
and then inserts.  Any statement may fail and any child may die.
`Ops` selects the methods, `Creators` the processes that may call vx.create.

### VxLifecycle: `methods/vx`, `methods/helper`, `vshelper/main.c`

One vserver against the kernel.  Clients run the methods of users and groups, waiters
are the grandchildren of helper.shutdown, `vx`/`nx` are the contexts, `boot` and
`death` the vshelper processes on the way up and down, `restart` the row of that
table.  `Adverse` selects what goes wrong (a fault of a helper method, a reload, a
child that dies while its grandchild goes on, timeouts, a vserver that does not come
up) and `GuestMay` what a guest does on its own.  The group methods are modelled for a
group of one vserver.  `master` serves, reloads or is dead.  While it reloads, nobody accepts:
vshelper's call waits in the queue of the socket that the master has closed, as long as
a child or grandchild still has it open (`Held`), and is refused when none has.  The
master waits for its children, not for grandchildren, and binds the port again
(`Reopen`), which fails and ends the daemon if a descendant still holds it.

### Accounts: `methods/vcd`, `methods/vg`, owners, `vxdb.c` (sanity check)

Tables user, user_caps, groups, xid_uid_map and xid_gid_map, the methods that write
them with one action per statement, run by concurrent children without any lock, and
the daemon's restart with `vxdb_sanity_check`, which repairs the database or gives up.
`LostCaps`, `LostOwners` and `LostMembers` are the rows that belong to nobody; `MaxRequests` bounds
the requests.

### Daemon: `main.c`

The master process: start, one child per connection, SIGHUP, SIGTERM, the reload
that never leaves its signal handler, and the exit.  Children inherit the listening
socket.  A child that starts a vserver waits for a vshelper process that connects to the
daemon again; some connections start grandchildren that outlive the child.
A reload reads the configuration, opens the database and binds the port again, and each
of these may fail and end the daemon (`Die`): the history variable `failed` says that one did.

### Wire, VxdbMethods and VcdMethods: the methods as operators

`Wire` has XML-RPC values with their types, `xmlrpc_decompose_value` as a check of
members against a format, and the numerals that both sides put into strings.  `Numerals` gives
the number sscanf reads of a text: "5", "05" and "5x" are all 5, and printf writes the
first; `Digits` are the texts that str_isdigit accepts, leading zeros included.
A method is an operator of the state and the structure of parameters; it gives a
fault or an answer and the next state, with its checks in the order of the code.
`VxdbMethods` has every method on the rows of one vserver (`vxdb.dx.*`, `init`,
`mount`, `nx.*`, `vx.*`), the tables as functions from the unique column to the row,
the validators, and the conversion between KB and pages in machine words.
`VcdMethods` has all the others (`vcd.*`, `vg.*`, `vx.*`, `vxdb.list`, `xid`, `name`,
`vdir`, `owner`), the checks of users, capabilities and owners, and what each method
asks method_init for.  Methods whose single statements matter are modelled a second time,
step by step, in Accounts, VxRegistry and VxLifecycle; here each is one step.

### Configuration and Startup: `methods/vxdb`, `helper_startup.c`, `helper_netup.c`

`Configuration` applies the methods of `VxdbMethods` that change something to one
vserver, with the lock of its name.  `Startup` extends it with the steps of helper.netup
and helper.startup in their order, each reading one table and applying it or faulting;
`kern` is what the contexts got, `disk` and `cpuset` what outlives them.  A start either
holds the name's lock (vx.start) or not (after a reboot, or for a group).

### Commands, Client and VceSpec: `src/src/vcc`, `vxpasswd`

`Commands` has every command of the four programs: how many arguments it wants, the
defaults, the call, and the format it decomposes the answer with; `Printed` is what
it prints of it.  `Script` stands for other programs that call the few methods
without a command (`src/test/vxdb.php`).  `Client` composes commands and methods: `proc[c]` is the program of
client c together with the child of the daemon that serves it, `held[c]` the lock
that child has, `late[c]` those of children that have answered and not yet
exited.  A program starts with the settings of vcc.conf; `getopt` applies one option per
step to `settings[c]`, and `main` finds the command and makes its call.  A method that is not
registered meets `method_default`; helper.*, which only vshelper calls, is in
VxLifecycle and not among the `Methods` of this module.  `method_init` and `method_lock` are
separate steps, a configuration method looks up its xid in one step and executes its
statement in another, a group's method makes its list and then takes one member per
step; any other method is one step.  A child may die at any step, or its answer get
lost after its statement (`Lost`), and any statement may fail; guests may end by themselves.  `touched[c]` is a history variable: the
names whose xid, directory or context others have changed since the command began.
`DbOK` is the order the methods rely on and keep up in the registry and among the users;
`InitialDbAssumption` asks it of the database the daemon finds.  `SessionsAssumption` says what a
command line is (`Given`): one of the programs, any strings as command, arguments and options.

`VceSpec` is what vce promises, without daemon, tables or conversions: `lines[x][t]` are
the lines a get command would show of vserver x, `called` says which vserver has which
name, and `job[c]` is the command line client c was given and how far it has come.  A line
is asked for (`Ask`), finds the vserver that has its name (`Aim`), and is done by one step of
its own: `Change` changes the lines of that vserver, which must still have the name,
according to the usage text of this command and its arguments; `Show` prints all lines there
are at that moment.  `Fail` changes nothing, `Lose` leaves the client without an answer, before or after
the change, and `End` prints.  No other step changes lines but those of `Registry`: `Create`,
`Remove` and `Rename` by other programs.  So a command cannot succeed without its change
or without its lines, nor act on another vserver or as another command.
`Client` implements it under the map from rows to the lines that get commands print
of them (`LinesOf`) and from processes to jobs (`Job`).  The lines include what a
user may not expect: garbage for a cpuid that is no number, and a cpuset that
survives the removal of its vserver.  Two conditions go with it.  `KnownLines`: the constants
`InitialLines` and `FreshLines` are the lines of the rows in the beginning and of the rows
vx.create makes from a template, and no row in the beginning prints as an empty line.
`ExactLimits`: the numbers of dx.limit.set fit into 32 bits, and those of a memory limit
are whole pages that do not wrap; the code gives others back cut or rounded
(`vxdb_dx_limit_set.c:61`, `vxdb_vx_limit_set.c:33`).  TLC evaluates both for its instance.

### Vlogin: `vcc/vlogin.c`

`pc` is the place in `do_vlogin`, `hand` the place in the SIGCHLD handler, `tty` the mode of the
user's terminal, `pending` the signals that have arrived, `child` the life of the
forked process, `inq` and `outq` the bytes in the pseudo terminal, `buf` those between a
read and a write.  Signals are delivered between any two steps.  A write goes byte by
byte and waits for room; a handler that runs after its first byte (`part`) makes it return
short when it resumes (`Resume`), and nobody looks at the count (`short`).  `terminal_kill` sends to the foreground
group of the pseudo terminal; while there is none, before TIOCSCTTY and after the shell's
end, TIOCGPGRP gives `NoGroup`: with 0 the signal goes to vlogin's own group, so it is in `self`
and its handler comes next, again.  `Size` is the size of a buffer.  Keys,
end of input, resizing, kills, and a shell that reads, writes, stops or ends are the
environment's; the shell need do none of it.

### External code

The kernel (contexts, file locks, signals, terminals, mounts, disk limits, cpusets),
SQLite, abyss/xmlrpc-c, the users and the guests are modelled from how this code uses them, and marked
external in `PROJECT.json`.

## 3. Runs

| run | what it shows | instance |
|---|---|---|
| lock | children never share a name, unless a signal let one in without the lock; every request ends; MethodLock implements NameMutex | 3 children, 2 names, 2 calls per child, one child may be signalled |
| registry | rows of one vserver stay together, none is left over, a name keeps its xid except by create, remove or rename, and only the holder of the lock changes a vserver | 3 processes, one of which creates, 2 names, xids to 4 |
| registry_trees | create and remove never unlink the tree of another vserver; a committed vserver has a tree | 2 creators, no rename |
| lifecycle | a running vserver is registered; every request ends although vx.start waits, through the kernel and vshelper, for the daemon, but for a start whose vshelper calls while the master reloads | 2 clients, no reboots, all adversities but orphans |
| lifecycle_reboot | a vserver is started again only if its guest asked; a recorded request brings it back | 2 clients, 1 waiter, orphans and timeouts |
| accounts | a row comes to belong to nobody only by an INSERT after the removal that its look-up came before; a daemon that comes up has an admin and a vshelper user | 2 children at a time, 4 requests, users admin, vshelper and jo, uids to 4, 1 vserver, 1 group |
| daemon | the database is never closed or opened while a child runs; a reload and an exit end if the helpers they wait for do, with a daemon that serves unless configuration, database or port failed | 1 starting connection, 2 helpers, 1 reboot, 1 other, 2 signals |
| startup | init runs with the configuration of its vserver; limits survive conversion, wrap and correction | 2 changes, 2 cpus, 3 types of limits, 2 mounts, words of 4 bits |
| client | no command sends or gets what the other side cannot decompose; vce implements `VceSpec`; rows change only for the vserver that carries the name at that moment; login and group stop are right unless someone interferes; passwords are not mixed; the registry and the keys of all rows stay in order | every command alone; pairs of a change and a get on each table; status, login, set and get of a name against rename, rebuild and a change of the row, login and set also against stop, remove and create; a group stop against renames, restarts, stops and changes of the group, the other group commands against one or two of these; users against changes of their rights |
| vlogin | it ends with its shell, shows its output, moves output while input waits, and gives the terminal back on every exit; each of the first three with the exceptions the code has | 2 bytes per direction and per buffer, 3 keys, 3 bytes of output, all signals, `NoGroup` 0 |

Two runs end in a violation, each a disagreement between the code and what it
or the manual says (`findings`):

| run | what happens |
|---|---|
| registry_two_creators | two vx.create of different names choose the same xid; the second transaction wipes the first vserver |
| lifecycle_stale_row | a reload loses the call that consumes the restart row; a later halt starts the vserver again |

### Bounds

Two actors per shared object are the least for a race, and a third shows that an
actor with no part in it cannot disturb the other two; two names tell "the lock of
this name" from "a lock".  `MaxXid`, `MaxUid` are large enough that numbers are
reused and that the search at the end of the xid space runs.  `MaxCalls` 2 gives
a multicall that meets its own lock.  `MaxSignals` 2 gives a second signal during
and after a reload.  `MaxChanges` 2 in `startup` is a row that is set and then
replaced or removed between two starts, or two tables changed during one; starts are
not bounded.  Words of 4 bits with 2 for a KB and pages of 4 have all cases of
the conversion: exact, rounded, wrapped, refused.

In `client` the sessions are a fixed set (`MCSessions`): the races are between one
command and up to three commands of a second client that change what its name,
its group or its user means.  Two vservers of one group run; only one of them (`Mortal`)
may end by itself, which gives both cases.  Limits in KB are multiples of a page, so that
what is set can be shown again; `startup` has the others.  `Garbage` has -2, which means
all cpus, and a valid cpuid.  Some numerals have leading zeros or a letter at
the end.  In `vlogin` two bytes fill a direction, so that writes
block, and a third remains to be moved; a buffer of two bytes is the least that a short
write can cut.  `NoGroup` is 0, as in kernels since 2.6.21; the properties hold with -1, the
value of older ones, too.  `MaxRequests` 4 in `accounts` is enough for a user to be made,
removed against a method that adds a row for it, and one method more, and a lost row takes the
first three; `MaxUid` 4 has uids given out again.

### Fairness

`EveryRequestEnds`, `RequestsEnd`, `RebootComesBack`, `ReloadEnds`, `ExitEnds`,
`EndsWithShell` and `OutputMoves` are
checked under weak fairness of single steps, and nothing is assumed of clients: a
process that can run is scheduled; a method body ends; the kernel grants a free
lock, runs vshelper and releases contexts nobody holds; a guest that was told
to halt or reboot does it; the master delivers its signals and accepts what is
queued while it listens.  `ReloadEnds` and `ExitEnds` say under which condition
on the helper processes they hold; without it see section 5.  In Vlogin the process
runs, handlers are entered, the user's terminal takes output, and the child goes on to
its shell.  Nothing is assumed of the shell: it need not read what is typed, so a shell and
a vlogin that block each other are among the behaviours, and `OutputMoves` names them.
Crashes, signals and faults are never fair.  Strong fairness is not needed: the calls
of a child are bounded, so nobody can take a lock again and again ahead of a sleeper.

## 4. Proofs

All theorems hold for every number of processes, names, tables and xids, every word
and page size, and every bound; what else one assumes is a named hypothesis of the
theorem, and the run that checks the same property satisfies it.  Every proof has
the same shape: an inductive invariant, one lemma per action (or one for all actions
that leave the same things alone), and a temporal step at the end.

* `MethodLockProofs`.  `TypeCorrect`, `LockInvariant`, `Exclusion`, `Refinement`.
  `MutualExclusion` is not inductive: it says nothing of who holds the lock.  `LockInv`
  adds that a child inside a locking method holds the lock of its name unless a signal let it
  in, that a holder is alive, past `F_LOCK` and has that name's file open, and that
  a sleeper has the file of the name it waits for; with `TypeOK` it is inductive.  Refinement maps every
  step of MethodLock to taking, releasing or stuttering in NameMutex.
* `VxRegistryProofs`.  `TypeCorrect` and `TablesStayTogether` (xid_name_map and vdir agree)
  need nothing beyond the constants' types.  `BindingIsStable`, `HolderChanges` and
  `NoOrphans` assume `OneCreator`, and `NoOrphans` also that every table is among those
  the code sweeps and that no row is inserted by a method without lock.  The inductive
  invariant `LockedInv` says beside the types that a process past its lookup holds
  the lock (`HoldsLock`), that the xid it looked up is still that of its name
  (`Bound`), and that an xid chosen for a new vserver is still free or its own
  (`OursOrFree`): the last fails with two creators, as `registry_two_creators` shows.
  The trees are safer than the rows: `TreeBeforeRow` and `TreesAreSafe` allow any number
  of creators and assume `OwnDirs` (no admin passes a directory, nothing is renamed).  Then a
  directory belongs to one name (`DirsInv`), the lock of the name protects it, and
  the tree a creator has built is still its own when it commits (`BuiltInv`).
* `VxLifecycleProofs`.  `TypeCorrect`.  `RestartsAreRequested` assumes `NoCallLost` (neither
  a lost call nor a reload; `lifecycle_stale_row` shows why): the row of table restart
  exists only between the request of a guest and the end of its context (`DeathInv`,
  `RequestInv`).
  `LockedStartsAreSafe` needs no such assumption, but that every start in progress
  holds the lock: then vx.remove cannot be between its check and its transaction while a
  context is made (`RegisteredInv`).  `RunsRegistered` derives it from the operations
  (`NoUnlockedStart`): without group starts, reboots and grandchildren whose child died,
  everybody who starts got the lock first (`StarterInv`).  With them the property fails; see
  section 5.
* `AccountsProofs`.  `TypeCorrect`; `ComesUpWithUsers`, where `AccountsInv` says that admins
  are users, and that a daemon which is not up has no children and room for the users the
  next start may add.
  `RowsAreLostOnlyByRaces` allows any number of children.  No lock protects these tables, so
  a row may come to belong to nobody; the theorem says by which step.  Its lemma `RowsStep` takes
  every action: those that delete a user, a group or a vserver delete all that refers to it
  in the same transaction, those that insert use ids that their child has found
  (`ChildrenOK`, a part of `AccountsInv`), and a start of the daemon only adds users (`Starts`).
* `DaemonProofs`.  `TypeCorrect`.  `ReloadIsQuiet`: `QuietInv` adds to `QuietReload` that no child
  runs at the other places where the master touches the database, and where it is
  open.
* `StartupProofs`.  `TypeCorrect`, `LimitsReadBack`, `LimitsNotAbove`, `ConfiguredWhenUp`, for any
  requests.  First, arithmetic: division with remainder by any divisor, and
  what `bytestopages` and `pagestobytes` do to a word (`Paged`).  Second, what a
  method may do to the rows (`MethodEffect`): a get changes nothing, a remove deletes
  keys of one table, a set inserts one row with an allowed key, and
  vxdb.vx.limit.set the row its parameters say.  From these follows `ConfInv`: keys are allowed,
  and a limit is stored as it was last asked for.  Third, the order of a start: `Place` numbers
  its steps, `StepOf` says which step applies a table, and `AppliedInv`, the heart of
  the invariant `StartInv`, says that a table which no method touched since the start
  began is in the kernel once its step is done.  `InitAsConfigured` is the
  case of the last step; `NoLimitAboveAsked` follows from it and `ConfInv`.  While vx.start
  holds the lock nothing is touched (`LockInv`), and nothing is mounted before the root
  entry (`MountsInv`).  `RequestsAssumption` is the only assumption on requests: they are for
  methods on the configuration, and a number in a string fits into a word (what
  sscanf makes of a larger one is up to the C library).
* `ClientProofs`.  `OwnPasswordHolds`, `TypeCorrect`, `ChangesNamedHolds`, `LoginIntoOneHolds`,
  `GroupStoppedHolds`, `SameFormatsHolds`, `PromiseKept`, for any clients, sessions and options and any
  outcome of a call to the kernel.
  The assumptions are `InitialDbAssumption`, `SessionsAssumption` and `RegistryAssumption`: xids are the
  numbers from 2 to some greatest one, an empty name is no name (validate_name), every name has a
  directory below vbasedir, and what vx.create mounts if a template says nothing are absolute paths.
  An empty string is neither a numeral (`NumeralAssumption`) nor an address (`AddrsAssumption`).
  `PassInv` says that settings hold no password or one from a file with that
  user.  Then, what a method may do to the database: all but vx.create, vx.remove and
  vx.rename leave names, directories and rows alone (`QuietKeeps`), those three change only
  the vserver they name (`CreateKeeps`, `RemoveKeeps`, `RenameKeeps`), and find_free_xid finds a free xid or none
  (`FreeXid`).  Rows keep keys that their tables allow: a configuration method inserts only what
  its validator let pass (`ConfKeepsRows`), vx.create what the template or the
  defaults have (`TemplateRows`).  `LockInv` is `DbOK` together with how far each process has come: one that
  locks works under the lock of its name, nobody else has that lock, and between the
  look-up and the statement the name keeps its xid.  Others keep it because a name changes
  only under its lock (`DbStep`, `OthersFlow`); `ChangesNamed` follows.  `MeantInv` is what an
  answer said: the xid and the directory that login was told, the xids a group's list has, and
  that a listed vserver which is done with does not run, each unless the name is in `touched`.
  Others keep it because whoever changes a name tells all the others (`StepTells`,
  `OthersMeant`).  None of the three can be weakened to the property itself: after one step
  of the call the property says nothing yet of what the process knows.

  `SameFormats` compares both ends of every call.  `FormatInv` ties a process to its command line: its
  call was made from that line by its program (`Asked`), so that its parameters have
  the members and types the method wants (`MadeFits`, a case per command of the four programs), and an answer it
  has got is a fault or has the form the command decomposes (a case per method).

  `PromiseKept` is the refinement of `VceSpec`, from `ExactLimits` and `KnownLines`.  A row and its
  line are related table by table: inserting a row inserts the line the command asked
  for, with defaults and numbers converted there and back, deleting keys deletes their lines
  (`VceChanges`), and what a get command prints are the lines of the rows it was
  asked for (`VceShows`).  `VisibleInv` is needed for the last: three get commands print nothing
  for a row whose first column is empty, so no such row may ever be stored.  Then every
  step of the system is one of `VceSpec` for the command line of its client, or a stutter (`PromiseStep`): `main` is `Ask`;
  `Lookup` is `Aim`; `Execute` of a configuration method is `Change` or `Show` of the line that
  the call was made from, which `FormatInv` provides, and on the vserver that still has the name,
  which `LockInv` provides; every refusal is `Fail`, `Lost` is `Lose`, `Receive` is `End`; and
  `Body` of vx.create, vx.remove and vx.rename is `Create`, `Remove` and `Rename`
  (`BodyRegisters`).
* `VloginProofs`.  `TypeCorrect`, `TerminalIsRestored`, `OutputIsShown`.  `ModeInv` says that
  t.state is "reset" only when the terminal is, so that atexit may rely on it; `BytesInv`
  accounts for every byte the shell wrote: it was printed, is in the pseudo terminal, or in
  the buffer of a copy or of the handler, unless SIGCHLD has cut off a copy or a write to
  stdout has returned short.  It also says where a write can be half done (`part`), since only there
  a signal loses bytes.

What is only model-checked, and why: liveness (`EveryRequestEnds`, `RequestsEnd`,
`RebootComesBack`, `ReloadEnds`, `ExitEnds`, `EndsWithShell`, `OutputMoves`) needs fairness and
ENABLED, which the prover does not handle.  Every invariant, every action property and both
refinements are proved as well.

## 5. Other disagreements the models show

These follow from the models with other constants; no run is spent on them.

* `NoOrphanRows` fails with `Tables = {"vx_cpuset"}`: the lists of tables in `vx_remove.c:52`
  and `vx_create.c:415` forget it.  It also fails with "map" in `Ops` and table
  xid_uid_map: `vxdb_owner_add.c:50` inserts without a lock.
* Rows of nobody exist (`LostOwners`, `LostCaps`, `LostMembers` in Accounts are not always empty):
  `vxdb_owner_add.c` looks the uid up at line 43 and inserts it at line 50; a user removed
  between leaves an owner row that the next user with that uid inherits.
  `RowsLostOnlyByRaces` says that nothing else does this.
* `ForeignTreesSafe` fails with rename and a forced rebuild: the tree to unlink is computed from
  the name (`vx_create.c:340`), and after a rename it is another vserver's.
* `RunsOnlyIfRegistered` fails with reboots and vx.remove (`helper_shutdown.c:127`), and with
  vg.vx.start and vx.remove (`vg_vx_start.c:53`): these starts take no lock.
* `StartTellsTruth` (VxLifecycle) fails if a start may fail: the grandchild exits with success
  whatever nx_create and vx_create returned (`vx_start.c:103`).
* `DaemonStarts` (Accounts) fails: a user named admin without the admin flag makes the repair
  of the database violate a unique index, and the daemon gives up (`vxdb.c:285`).
* `MountedOnce` (Startup) fails with a root entry: the query below "mount non-root
  entries" has no condition on dst (`helper_startup.c:640`).
* vxdb.dx.limit.set reads space and inodes into 32 bits (`vxdb_dx_limit_set.c:61`): a larger number
  is stored, and shown, as another one (`ExactLimits`).
* A large limit wraps: 2^54 KB of RSS is stored as 0 pages (`vxdb_vx_limit_set.c:33`).  The
  daemon never grants more than was asked for, but may grant nothing.
* After a reboot a vserver can start with tables of two configurations, and if its vshelper still
  sits in the old cpuset, in that cpuset (`helper_startup.c:330`).
* `Isolated` (VxLifecycle) fails: vx.start waits for the old context only (`vx_start.c:69`), the old
  network context disappears under the new vserver, and vshelper executes init although
  nx_migrate failed (`vshelper/main.c:217`); the manual says the vserver runs inside both
  (`doc/manual/intro/vcd.tex:395`).
* `EveryReloadEnds` (Daemon) fails: a reload during vx.start waits (`main.c:112`) for a child that
  waits for a vshelper, whose connection stays in the queue of a socket the children
  still hold and nobody accepts.  In VxLifecycle the same circle is why `RequestsEnd` has an
  alternative: such a start never ends.
* `LoginIntoOne` fails without its exception: a rename and a create between the two calls of login
  (`vcc/vcc/login.c:44-62`) give the xid of one vserver and the directory of another.
* vxdb.list for a user who does not exist lists all vservers (uid 0, `vxdb_list.c`).
* vx.sched.get and .remove of vce with a cpuid that is no number send an uninitialised variable
  (`vce/vx_sched.c:40`, `:88`); if it is -2, every row is shown or removed.
* vxdb.init.get answers a timeout of 15 without a row (`vxdb_init_get.c:68`); `vce init.set` without a
  timeout stores 0.
* A vx_cpuset row survives vx.remove and belongs to the next vserver with that xid; `VceSpec` has
  it in `Renewed`.
* vx.status ends without an answer when the context disappears between vx_info and vx_stat:
  the loads are null pointers (`vx_status.c:81`).
* A lock is kept until the child exits, which is after its answer: a quick second
  command on the same name can be refused with MEBUSY (`late` in Client).
* vx.exec moves the child itself into the vserver (`vx_exec.c:62-72`); later members of a group's stop or
  reboot, and the start within vx.restart, run from there and may fault.
* The usage text of the clients says "default: admin" for -u (`vcc/vcc.h:56`), but read_config
  always runs and sets the user of the file or none (`vcc/main.c:73`), so without a user in the file
  the program ends.
* vlogin: the exit status is always 0 (`exit(WEXITSTATUS(sig))`, `vlogin.c:171`); "shuffle all output"
  (`vlogin.c:126`) misses bytes that a copy had read and not yet written; a shell that is stopped
  makes the handler reset the terminal and wait for its end.
* vlogin: the counts of `vlogin.c:123` and `:147` are not looked at: a write to the user's terminal that
  SIGWINCH or SIGINT finds half done loses the rest (`short`).
* vlogin: without a foreground group terminal_kill (`vlogin.c:87-90`) signals vlogin's own group, whose
  handler signals again.  Before the child has its terminal this ends by itself; on top of the
  handler of SIGCHLD, after the shell's end, it does not, and vlogin does not exit
  (`EndsWithShell`).
* vlogin and a shell that writes without reading can block each other for ever (`OutputMoves`): vlogin in
  its write to the shell's input, which is full, the shell in its write to an output nobody takes.
* In Daemon a grandchild that keeps the port makes init_listen_socket fail (`main.c:90`), and
  after the first reload all signals stay blocked (`main.c:241`).

## 6. Not modelled

* The vendored headers below `src/syscall` (system call numbers of every architecture, close to
  half of the lines of the repository's C files) and `syscall-compat.c`: no state, no control.
* What is in the configuration files of daemon and vshelper (`cfg.c`): tables of options read by
  libconfuse, at the daemon's start and again at a reload.  That reading them fails is in Daemon.
* In the database layer the check of table layouts and indexes (`vxdb.c:60-150`), and the
  recursion of a query that finds the database busy; busy is a fault.
* The copying of a template (`handle_file` in `vx_create.c`) beyond success or failure.
* XML and HTTP, wording and layout of what is printed, the digest of passwords, and which
  strings the validators of names, paths and addresses accept.

## 7. Plan

1. Startup as a refinement of the two helper steps of VxLifecycle.
2. The walk over a tree (`handle_file`), checked against a reference definition.
