--------------------------- MODULE Installation ---------------------------
(***************************************************************************)
(* What the installing commands do to one machine account (magicvault/src/ *)
(* setup.rs, magicvault-service/src/{installation,native,storage,          *)
(* service_linux}.rs, on Unix): the application directory with its         *)
(* versions and its `current' link, the vault root with its instance file  *)
(* and the writer's lease, the service definition, and the files that let  *)
(* a browser extension reach the daemon.                                   *)
(*                                                                         *)
(* A command is a process; it may fail or be killed between any two steps  *)
(* (Die).  Every check of the code whose failure ends the command is a     *)
(* guard, and Die is what happens otherwise.  An archived directory is one *)
(* that the application path no longer names; its files stay.              *)
(* Another program may write a browser's manifest at any moment (Foreign). *)
(***************************************************************************)
EXTENDS Naturals, Sequences

CONSTANTS
  Proc,       \* running commands
  Version,    \* versions of the bundle, numbers
  Ext,        \* identities of extensions
  Bundled,    \* EXTENSION_ID
  Manifests,  \* the browsers' manifest files, in the order they are written
  None,       \* absence of a value
  MaxOps      \* bound of the model: how many commands are run

ASSUME InstallationAssumption ==
  /\ Version \subseteq Nat /\ Bundled \in Ext /\ MaxOps \in Nat
  /\ "daemon" \notin Proc /\ Ext \cap {"absent", "torn", "foreign", "ours"} = {}
  /\ None \notin Proc \cup Ext \cup {"daemon", "absent", "torn"}

VARIABLES
  app,      \* the directory the application path names, or 0
  dir,      \* the directories made for it
  tree,     \* the version directories made in them
  vault,    \* instance.json, the pairing, and the two files of the service
  native,   \* the files of the native host
  defLock,  \* who holds native-install.lock
  lease,    \* who holds daemon.lock
  daemon,   \* the daemon, if one runs, and whether it is the service
  proc,     \* what each command is doing
  ops       \* how many commands have been started

vars == <<app, dir, tree, vault, native, defLock, lease, daemon, proc, ops>>

Paths    == {Manifests[i] : i \in 1..Len(Manifests)}

\* The manifests are files of the browsers, outside the vault root.
ASSUME ManifestsAssumption ==
  Manifests \in Seq(Paths) /\ {"wrapper", "config"} \cap Paths = {}

\* Faulty variant: the config is written before the manifests.
PublishConfigFirst == <<"config", "wrapper">> \o Manifests

Publish  == <<"wrapper">> \o Manifests \o <<"config">>
Withdraw == Manifests \o <<"wrapper", "config">>

Daemon == [at : {"starting", "running", "draining"}, service : BOOLEAN]
Dir    == [owned : BOOLEAN, lockFile : BOOLEAN, holder : Proc \cup {None}, current : Nat]
Tree   == [dir : Nat, version : Nat, done : BOOLEAN]
State  == {"absent", "torn", "ours"}
Ops    == {"setup", "files", "upgrade", "uninstall", "add", "remove"}
Step   == {"open", "lock", "claim", "current", "stage", "copy", "activate", "init", "unit",
           "record", "load", "ready", "pair", "look", "service", "drain", "define", "write", "put",
           "unhook", "undefine", "erase", "unlink", "unserve", "unrecord", "retire", "release"}

\* dir, fresh: the directory whose lock file was opened, and whether this command
\* made it; tree: what it staged; init, def, restart: what it found; id, old, k: the
\* extension registered, the registration found, and the next file.  raced is a history
\* variable: another program wrote that file after this command last looked at it.
Cmd(o, v, x) ==
  [op |-> o, at |-> IF o = "remove" THEN "undefine" ELSE "open",
   version |-> IF o \in {"setup", "files", "upgrade"} THEN v ELSE 0, id |-> x,
   dir |-> 0, fresh |-> FALSE, tree |-> 0, init |-> FALSE, def |-> FALSE, restart |-> FALSE,
   old |-> None, k |-> 0, raced |-> FALSE]

NewVault == [instance |-> FALSE, paired |-> FALSE, unit |-> "absent", record |-> "absent"]
Bare     == [f \in Paths \cup {"wrapper", "config"} |-> "absent"]

Init ==
  /\ app = 0 /\ dir = << >> /\ tree = << >>
  /\ vault = NewVault
  /\ native = Bare
  /\ defLock = None /\ lease = None /\ daemon = None
  /\ proc = [p \in Proc |-> None] /\ ops = 0

-----------------------------------------------------------------------------
At(p, s) == proc[p] # None /\ proc[p].at = s
Goes(p, s) == proc' = [proc EXCEPT ![p].at = s]
Installed == app # 0 /\ dir[app].current # 0
Running == daemon # None /\ daemon.at = "running"
Loaded == daemon # None /\ daemon.service /\ daemon.at # "draining"
Managed == vault.unit = "ours" /\ vault.record = "ours"
Unserved == vault.unit = "absent" /\ vault.record = "absent"

\* What a command that ends gives back.
Free(p) ==
  /\ dir' = [d \in DOMAIN dir |->
               IF dir[d].holder = p THEN [dir[d] EXCEPT !.holder = None] ELSE dir[d]]
  /\ lease' = IF lease = p THEN None ELSE lease
  /\ defLock' = IF defLock = p THEN None ELSE defLock
  /\ proc' = [proc EXCEPT ![p] = None]
Finish(p) ==
  /\ Free(p)
  /\ UNCHANGED <<app, tree, vault, native, daemon, ops>>

Begin(p) ==
  /\ proc[p] = None /\ ops < MaxOps
  /\ \E o \in Ops, v \in Version, x \in Ext :
       /\ o = "add" \/ x = Bundled
       /\ proc' = [proc EXCEPT ![p] = Cmd(o, v, x)]
  /\ ops' = ops + 1
  /\ UNCHANGED <<app, dir, tree, vault, native, defLock, lease, daemon>>

(***************************************************************************)
(* Installation::open.  The owner and the lock file are looked up by path, *)
(* the lock is taken on whatever file was opened.                          *)
(***************************************************************************)
MakeDirectory(p) ==
  /\ At(p, "open") /\ app = 0 /\ proc[p].op \in {"setup", "files"}
  /\ dir' = Append(dir, [owned |-> FALSE, lockFile |-> FALSE, holder |-> None, current |-> 0])
  /\ app' = Len(dir')
  /\ proc' = [proc EXCEPT ![p].at = "lock", ![p].fresh = TRUE]
  /\ UNCHANGED <<tree, vault, native, defLock, lease, daemon, ops>>

FindDirectory(p) ==
  /\ At(p, "open") /\ app # 0 /\ dir[app].owned
  /\ Goes(p, "lock")
  /\ UNCHANGED <<app, dir, tree, vault, native, defLock, lease, daemon, ops>>

OpenLockFile(p) ==
  /\ At(p, "lock") /\ app # 0 /\ dir[app].lockFile = ~proc[p].fresh
  /\ dir' = [dir EXCEPT ![app].lockFile = TRUE]
  /\ proc' = [proc EXCEPT ![p].at = "claim", ![p].dir = app]
  /\ UNCHANGED <<app, tree, vault, native, defLock, lease, daemon, ops>>

Claim(p) ==
  LET d == proc[p].dir IN
  /\ At(p, "claim") /\ dir[d].holder = None /\ app # 0
  /\ proc[p].fresh \/ dir[app].owned
  /\ dir' = [dir EXCEPT ![d].holder = p, ![d].owned = @ \/ proc[p].fresh]
  /\ Goes(p, "current")
  /\ UNCHANGED <<app, tree, vault, native, defLock, lease, daemon, ops>>

\* current(): what each command does with the version it finds.
ReadCurrent(p) ==
  LET c == proc[p]
      v == IF Installed THEN tree[dir[app].current].version ELSE 0
      to == CASE c.op \in {"setup", "files"} /\ v = 0 -> "stage"
              [] c.op = "setup" /\ v = c.version -> "init"
              [] c.op = "files" /\ v = c.version -> "release"
              [] c.op = "upgrade" /\ v # 0 /\ v <= c.version -> "stage"
              [] c.op = "uninstall" /\ v # 0 -> "look"
              [] c.op = "add" /\ v # 0 -> "define"
              [] OTHER -> "refused"
  IN /\ At(p, "current") /\ app # 0 /\ to # "refused"
     /\ Goes(p, to)
     /\ UNCHANGED <<app, dir, tree, vault, native, defLock, lease, daemon, ops>>

-----------------------------------------------------------------------------
\* stage: a version directory, and last the bundle.json that completes it.
Stage(p) ==
  /\ At(p, "stage") /\ app # 0
  /\ tree' = Append(tree, [dir |-> app, version |-> proc[p].version, done |-> FALSE])
  /\ proc' = [proc EXCEPT ![p].at = "copy", ![p].tree = Len(tree')]
  /\ UNCHANGED <<app, dir, vault, native, defLock, lease, daemon, ops>>

Copy(p) ==
  /\ At(p, "copy") /\ tree[proc[p].tree].dir = app
  /\ tree' = [tree EXCEPT ![proc[p].tree].done = TRUE]
  /\ Goes(p, IF proc[p].op = "upgrade" THEN "look" ELSE "activate")
  /\ UNCHANGED <<app, dir, vault, native, defLock, lease, daemon, ops>>

\* activate: verified again, then a link renamed over `current'.  An upgrade goes on
\* to repair the native host's files when there are any.
Activate(p) ==
  LET c == proc[p]
      t == c.tree
      repair == c.op = "upgrade" /\ c.init /\ native["config"] # "absent"
  IN /\ At(p, "activate") /\ tree[t].dir = app /\ tree[t].done
     /\ dir' = [dir EXCEPT ![app].current = t]
     /\ IF repair
        THEN proc' = [proc EXCEPT ![p].at = "define", ![p].id = native["config"]]
        ELSE Goes(p, IF c.op = "setup" THEN "init" ELSE "release")
     /\ UNCHANGED <<app, tree, vault, native, defLock, lease, daemon, ops>>

\* retire: the directory keeps its lock file, held, and leaves the path.
Retire(p) ==
  /\ At(p, "retire") /\ app # 0
  /\ app' = 0
  /\ Goes(p, "release")
  /\ UNCHANGED <<dir, tree, vault, native, defLock, lease, daemon, ops>>

-----------------------------------------------------------------------------
(***************************************************************************)
(* The vault, the service and the daemon.                                  *)
(***************************************************************************)
\* initialize, by setup or by `magicvault init', under the writer's lease.
Initialize(p) ==
  /\ At(p, "init")
  /\ vault.instance \/ lease = None
  /\ vault' = [vault EXCEPT !.instance = TRUE]
  /\ Goes(p, "unit")
  /\ UNCHANGED <<app, dir, tree, native, defLock, lease, daemon, ops>>

InitCommand ==
  /\ ~vault.instance /\ lease = None
  /\ vault' = [vault EXCEPT !.instance = TRUE]
  /\ UNCHANGED <<app, dir, tree, native, defLock, lease, daemon, proc, ops>>

\* verify_executable and install: a definition is exact, or written where none is.
WriteUnit(p) ==
  /\ At(p, "unit") /\ (Managed \/ Unserved)
  /\ vault' = [vault EXCEPT !.unit = "ours"]
  /\ Goes(p, IF Managed THEN "load" ELSE "record")
  /\ UNCHANGED <<app, dir, tree, native, defLock, lease, daemon, ops>>

WriteRecord(p) ==
  /\ At(p, "record") /\ vault.record = "absent"
  /\ vault' = [vault EXCEPT !.record = "ours"]
  /\ Goes(p, "load")
  /\ UNCHANGED <<app, dir, tree, native, defLock, lease, daemon, ops>>

\* A start that finds a daemon's process leaves it: the second one is Busy and exits.
Started == IF daemon = None THEN [at |-> "starting", service |-> TRUE] ELSE daemon

Load(p) ==
  /\ At(p, "load") /\ Managed
  /\ Loaded \/ proc[p].op = "upgrade" \/ lease = None
  /\ daemon' = IF Loaded THEN daemon ELSE Started
  /\ Goes(p, "ready")
  /\ UNCHANGED <<app, dir, tree, vault, native, defLock, lease, ops>>

AwaitReady(p) ==
  /\ At(p, "ready") /\ Running
  /\ Goes(p, IF proc[p].op = "upgrade" THEN "release" ELSE "pair")
  /\ UNCHANGED <<app, dir, tree, vault, native, defLock, lease, daemon, ops>>

Pair(p) ==
  /\ At(p, "pair") /\ Running
  /\ vault' = [vault EXCEPT !.paired = TRUE]
  /\ Goes(p, "define")
  /\ UNCHANGED <<app, dir, tree, native, defLock, lease, daemon, ops>>

\* Upgrade and uninstall: is there a vault, and then is the service ours and loaded?
LookForVault(p) ==
  LET past == IF proc[p].op = "upgrade" THEN "activate" ELSE "retire" IN
  /\ At(p, "look")
  /\ proc' = [proc EXCEPT ![p].init = vault.instance,
                          ![p].at = IF vault.instance THEN "service" ELSE past]
  /\ UNCHANGED <<app, dir, tree, vault, native, defLock, lease, daemon, ops>>

StopService(p) ==
  LET stops == Managed /\ Loaded IN
  /\ At(p, "service") /\ (Managed \/ Unserved)
  /\ daemon' = IF stops THEN [daemon EXCEPT !.at = "draining"] ELSE daemon
  /\ proc' = [proc EXCEPT ![p].at = "drain", ![p].def = Managed,
                          ![p].restart = stops /\ proc[p].op = "upgrade"]
  /\ UNCHANGED <<app, dir, tree, vault, native, defLock, lease, ops>>

\* Faulty variant: the lease is only seen to be free.
DrainAndDrop(p) ==
  /\ At(p, "drain") /\ lease = None
  /\ Goes(p, IF proc[p].op = "upgrade" THEN "activate" ELSE "unhook")
  /\ UNCHANGED <<app, dir, tree, vault, native, defLock, lease, daemon, ops>>

Drain(p) ==
  /\ At(p, "drain") /\ lease = None
  /\ lease' = p
  /\ Goes(p, IF proc[p].op = "upgrade" THEN "activate" ELSE "unhook")
  /\ UNCHANGED <<app, dir, tree, vault, native, defLock, daemon, ops>>

\* The end of an upgrade that stopped the service starts it again; other ends are ends.
Release(p) ==
  /\ At(p, "release")
  /\ IF proc[p].restart /\ lease = p
     THEN /\ lease' = None
          /\ Goes(p, "load")
          /\ UNCHANGED <<app, dir, tree, vault, native, defLock, daemon, ops>>
     ELSE Finish(p)

Unserve(p) ==
  /\ At(p, "unserve")
  /\ IF proc[p].def
     THEN /\ Managed /\ vault' = [vault EXCEPT !.unit = "absent"]
          /\ Goes(p, "unrecord")
     ELSE UNCHANGED vault /\ Goes(p, "retire")
  /\ UNCHANGED <<app, dir, tree, native, defLock, lease, daemon, ops>>

Unrecord(p) ==
  /\ At(p, "unrecord")
  /\ vault' = [vault EXCEPT !.record = "absent"]
  /\ Goes(p, "retire")
  /\ UNCHANGED <<app, dir, tree, native, defLock, lease, daemon, ops>>

\* `serve': in the foreground, of any build, or by the session that enabled the service.
Serve ==
  /\ daemon = None
  /\ \E service \in {FALSE} \cup {Managed /\ Installed} :
       daemon' = [at |-> "starting", service |-> service]
  /\ UNCHANGED <<app, dir, tree, vault, native, defLock, lease, proc, ops>>

DaemonOpens ==
  /\ daemon # None /\ daemon.at = "starting"
  /\ IF lease = None /\ vault.instance
     THEN daemon' = [daemon EXCEPT !.at = "running"] /\ lease' = "daemon"
     ELSE daemon' = None /\ UNCHANGED lease
  /\ UNCHANGED <<app, dir, tree, vault, native, defLock, proc, ops>>

\* It stops on a signal, on request, or because it crashes; the lease goes with it.
DaemonStops ==
  /\ daemon # None
  /\ daemon' = None
  /\ lease' = IF lease = "daemon" THEN None ELSE lease
  /\ UNCHANGED <<app, dir, tree, vault, native, defLock, proc, ops>>

-----------------------------------------------------------------------------
(***************************************************************************)
(* native::install and native::remove, each under native-install.lock.     *)
(***************************************************************************)
Desired(f, x) == IF f = "wrapper" THEN "ours" ELSE x

\* Every file is absent, as desired, or as the registration before has it.
Preflight(x, old) ==
  \A f \in DOMAIN native :
    native[f] \in {"absent", Desired(f, x)} \cup (IF old = None THEN {} ELSE {Desired(f, old)})

Define(p) ==
  LET old == IF native["config"] = "absent" THEN None ELSE native["config"] IN
  /\ At(p, "define") /\ defLock = None /\ Installed
  /\ vault.instance /\ vault.paired
  /\ old \in Ext \cup {None} /\ Preflight(proc[p].id, old)
  /\ defLock' = p
  /\ proc' = [proc EXCEPT ![p].at = "write", ![p].old = old, ![p].k = 1]
  /\ UNCHANGED <<app, dir, tree, vault, native, lease, daemon, ops>>

\* The next file, or the end of the registration.
NextFile(p) ==
  LET last == proc[p].k = Len(Publish) IN
  /\ defLock' = IF last THEN None ELSE p
  /\ proc' = [proc EXCEPT ![p].at = IF last THEN "release" ELSE "write", ![p].k = @ + 1]

\* Faulty variant: what was looked at before the first write is not looked at again.
WriteUnlooked(p) ==
  LET c == proc[p]
      f == Publish[c.k]
  IN /\ At(p, "write")
     /\ native' = [native EXCEPT ![f] = Desired(f, c.id)]
     /\ NextFile(p)
     /\ UNCHANGED <<app, dir, tree, vault, lease, daemon, ops>>

\* Each file is looked at again: as desired it stays, absent it is created and only
\* then (create_new), of the registration before it is to be replaced.
WriteDefinition(p) ==
  LET c == proc[p]
      f == Publish[c.k]
  IN /\ At(p, "write")
     /\ \/ native[f] \in {"absent", Desired(f, c.id)}
           /\ native' = [native EXCEPT ![f] = Desired(f, c.id)]
           /\ NextFile(p)
        \/ native[f] # Desired(f, c.id) /\ c.old # None /\ native[f] = Desired(f, c.old)
           /\ proc' = [proc EXCEPT ![p].at = "put", ![p].raced = FALSE]
           /\ UNCHANGED <<native, defLock>>
     /\ UNCHANGED <<app, dir, tree, vault, lease, daemon, ops>>

\* A rename over the file, whatever it is by now.
ReplaceDefinition(p) ==
  /\ At(p, "put")
  /\ native' = [native EXCEPT ![Publish[proc[p].k]] = Desired(Publish[proc[p].k], proc[p].id)]
  /\ NextFile(p)
  /\ UNCHANGED <<app, dir, tree, vault, lease, daemon, ops>>

\* Uninstall removes a registration only when there is one.
Unhook(p) ==
  /\ At(p, "unhook") /\ native["config"] # "torn"
  /\ Goes(p, IF native["config"] = "absent" THEN "unserve" ELSE "undefine")
  /\ UNCHANGED <<app, dir, tree, vault, native, defLock, lease, daemon, ops>>

Undefine(p) ==
  LET x == native["config"] IN
  /\ At(p, "undefine") /\ defLock = None /\ vault.instance
  /\ x \in Ext
  /\ \A f \in DOMAIN native : native[f] \in {"absent", Desired(f, x)}
  /\ defLock' = p
  /\ proc' = [proc EXCEPT ![p].at = "erase", ![p].old = x, ![p].k = 1]
  /\ UNCHANGED <<app, dir, tree, vault, native, lease, daemon, ops>>

\* Each file but the config is looked at again, and removed only as expected.
EraseDefinition(p) ==
  LET c == proc[p]
      f == Withdraw[c.k]
  IN /\ At(p, "erase") /\ f # "config"
     /\ \/ /\ native[f] = "absent"
           /\ proc' = [proc EXCEPT ![p].k = @ + 1]
        \/ /\ native[f] = Desired(f, c.old)
           /\ proc' = [proc EXCEPT ![p].at = "unlink", ![p].raced = FALSE]
     /\ UNCHANGED <<app, dir, tree, vault, native, defLock, lease, daemon, ops>>

RemoveDefinition(p) ==
  /\ At(p, "unlink")
  /\ native' = [native EXCEPT ![Withdraw[proc[p].k]] = "absent"]
  /\ proc' = [proc EXCEPT ![p].at = "erase", ![p].k = @ + 1]
  /\ UNCHANGED <<app, dir, tree, vault, defLock, lease, daemon, ops>>

RemoveConfig(p) ==
  /\ At(p, "erase") /\ Withdraw[proc[p].k] = "config"
  /\ native' = [native EXCEPT !["config"] = "absent"]
  /\ defLock' = None
  /\ Goes(p, IF proc[p].op = "uninstall" THEN "unserve" ELSE "release")
  /\ UNCHANGED <<app, dir, tree, vault, lease, daemon, ops>>

\* A file that p has looked at for the last time and has yet to replace or remove.
Passed(p, f) == \/ At(p, "put") /\ f = Publish[proc[p].k]
                \/ At(p, "unlink") /\ f = Withdraw[proc[p].k]

\* Another program takes a manifest's place.
Foreign(m) ==
  /\ native[m] # "foreign"
  /\ native' = [native EXCEPT ![m] = "foreign"]
  /\ proc' = [p \in Proc |-> IF Passed(p, m) THEN [proc[p] EXCEPT !.raced = TRUE] ELSE proc[p]]
  /\ UNCHANGED <<app, dir, tree, vault, defLock, lease, daemon, ops>>

\* A command is refused, fails, times out or is killed.  A file it was creating may
\* be left incomplete: new files are not written through a temporary one.
Die(p) ==
  LET c == proc[p]
      creating == At(p, "write") /\ native[Publish[c.k]] = "absent"
  IN /\ c # None
     /\ Free(p)
     /\ native' \in {native} \cup
          (IF creating THEN {[native EXCEPT ![Publish[c.k]] = "torn"]} ELSE {})
     /\ vault' \in {vault} \cup
          (IF At(p, "unit") /\ Unserved THEN {[vault EXCEPT !.unit = "torn"]} ELSE {}) \cup
          (IF At(p, "record") /\ vault.record = "absent"
           THEN {[vault EXCEPT !.record = "torn"]} ELSE {})
     /\ UNCHANGED <<app, tree, daemon, ops>>

-----------------------------------------------------------------------------
Command(p) ==
  \/ Begin(p) \/ MakeDirectory(p) \/ FindDirectory(p) \/ OpenLockFile(p) \/ Claim(p)
  \/ ReadCurrent(p) \/ Stage(p) \/ Copy(p) \/ Activate(p) \/ Retire(p)
  \/ Initialize(p) \/ WriteUnit(p) \/ WriteRecord(p) \/ Load(p) \/ AwaitReady(p) \/ Pair(p)
  \/ LookForVault(p) \/ StopService(p) \/ Drain(p) \/ Release(p) \/ Unserve(p) \/ Unrecord(p)
  \/ Define(p) \/ WriteDefinition(p) \/ ReplaceDefinition(p)
  \/ Unhook(p) \/ Undefine(p) \/ EraseDefinition(p) \/ RemoveDefinition(p) \/ RemoveConfig(p)
  \/ Die(p)

Next ==
  \/ \E p \in Proc : Command(p)
  \/ \E m \in Paths : Foreign(m)
  \/ InitCommand \/ Serve \/ DaemonOpens \/ DaemonStops

Spec == Init /\ [][Next]_vars

-----------------------------------------------------------------------------
Replaces(d) == d \in DOMAIN dir /\ dir[d].current # 0 /\ dir'[d].current # dir[d].current
Swaps == \/ \E d \in DOMAIN dir : Replaces(d)
         \/ app # 0 /\ app' = 0

\* Who can reach the daemon: the browser starts the host for an extension that a
\* manifest names, through the wrapper, and the host refuses all but the one of its
\* config (load_config).
Admitted ==
  {x \in Ext : native["wrapper"] = "ours" /\ native["config"] = x /\ \E m \in Paths : native[m] = x}

\* A command that found a vault replaces or retires the application only while it
\* holds the writer's lease itself, although the service may have been started again
\* and a foreground daemon may come at any time (setup.rs, drained and its callers).
LeaseThroughSwap ==
  [][Swaps => \E p \in Proc : /\ proc'[p] # proc[p] /\ proc[p] # None
                              /\ proc[p].init => (lease = p /\ ~Running)]_vars

\* An extension that could not connect comes to be admitted only by the step that
\* completes a registration of it, or by repairing one that named it before: an
\* interrupted change of identity may deny connections, and admits nobody
\* (native.rs, "Config is last").
NeverBroadens ==
  [][\A x \in Admitted' \ Admitted :
       \E p \in Proc : /\ At(p, "write") \/ At(p, "put")
                       /\ proc[p].id = x
                       /\ proc[p].k = Len(Publish) \/ proc[p].old = x]_vars

\* Another program may take a manifest's place before, between or after the steps of a
\* registration or a removal, interrupted ones included.  Its file is lost only to a
\* command that had looked at the path for the last time before that file came: the look
\* just before each write and each removal is what narrows it to that (native.rs, "never
\* foreign bytes", "Never remove another installation's manifest").
ForeignKept ==
  [][\A f \in DOMAIN native : native[f] = "foreign" /\ native'[f] # "foreign" =>
       \E p \in Proc : Passed(p, f) /\ proc[p].raced]_vars

\* setup.rs:237-238: the daemon's lease is "held through activation/removal.  An
\* unregistered foreground daemon also prevents replacement."
NoSwapUnderDaemon == [][Swaps => ~Running]_vars
=============================================================================
