------------------------ MODULE Installation_proofs ------------------------
(***************************************************************************)
(* Proofs about Installation, for any commands running at once, versions,  *)
(* extensions and browsers, and any number of commands.                    *)
(***************************************************************************)
EXTENDS Installation, TLAPS

-----------------------------------------------------------------------------
(* The invariants. *)

Commands ==
  [op : Ops, at : Step, version : Nat, id : Ext \cup {"torn"}, dir : Nat, fresh : BOOLEAN,
   tree : Nat, init : BOOLEAN, def : BOOLEAN, restart : BOOLEAN, old : Ext \cup {None}, k : Nat,
   raced : BOOLEAN]

Files == Paths \cup {"wrapper", "config"}

\* The state of the files: another program owns a manifest or nothing, and a config
\* that is not complete names nobody.
NativeType ==
  /\ native \in [Files -> Ext \cup {"absent", "torn", "foreign", "ours"}]
  /\ native["wrapper"] \in {"absent", "torn", "ours"}
  /\ native["config"] \in Ext \cup {"absent", "torn"}

TypeOK ==
  /\ app \in Nat
  /\ dir \in Seq(Dir)
  /\ tree \in Seq(Tree)
  /\ vault \in [instance : BOOLEAN, paired : BOOLEAN, unit : State, record : State]
  /\ NativeType
  /\ daemon \in Daemon \cup {None}
  /\ proc \in [Proc -> Commands \cup {None}]

\* Before a command has looked for a vault, and once it has waited for the lease.
Early == {"open", "lock", "claim", "current", "stage", "copy", "look"}
Late  == {"activate", "unhook", "undefine", "erase", "unlink", "unserve", "unrecord", "retire"}

\* A command that found a vault holds the lease from the wait to the swap, and only
\* the daemon that holds the lease runs.
LeaseInv ==
  /\ \A p \in Proc : proc[p] # None /\ proc[p].init =>
       /\ proc[p].at \notin Early
       /\ proc[p].at \in Late => lease = p
  /\ Running => lease = "daemon"

AtWork(p)  == At(p, "write") \/ At(p, "put")
AtErase(p) == At(p, "erase") \/ At(p, "unlink")

\* One registration at a time changes the files.
OneWriter == \A p \in Proc : AtWork(p) \/ AtErase(p) => defLock = p

\* Between two files of a registration the config is the one it found, and the
\* wrapper is there before a manifest.
Writing ==
  \A p \in Proc : AtWork(p) =>
    /\ proc[p].k \in 1..Len(Publish)
    /\ native["config"] = IF proc[p].old = None THEN "absent" ELSE proc[p].old
    /\ proc[p].k > 1 => native["wrapper"] = "ours"

\* No manifest that a removal has passed names an extension: the wrapper goes after
\* the manifests, and the config after all that is looked at again.
Erasing ==
  \A p \in Proc : AtErase(p) =>
    /\ proc[p].k \in 1..Len(Withdraw) /\ proc[p].old \in Ext
    /\ \A i \in 1..Len(Manifests) : i < proc[p].k => native[Manifests[i]] \notin Ext
    /\ At(p, "unlink") => Withdraw[proc[p].k] # "config"

\* A file that was looked at for the last time is another program's only if that came
\* since.
LookedAt ==
  \A p \in Proc, f \in Files : Passed(p, f) => native[f] # "foreign" \/ proc[p].raced

\* A manifest that names an extension leads to the wrapper.
Wrapped == (\E m \in Paths : native[m] \in Ext) => native["wrapper"] = "ours"

FilesInv == OneWriter /\ Writing /\ Erasing /\ LookedAt /\ Wrapped

-----------------------------------------------------------------------------
(* Type correctness. *)

ProcType == proc \in [Proc -> Commands \cup {None}]

LEMMA ManifestsType ==
  /\ Len(Manifests) \in Nat
  /\ \A i \in 1..Len(Manifests) : Manifests[i] \in Paths
  /\ "wrapper" \notin Paths /\ "config" \notin Paths
  BY ManifestsAssumption

\* What each place in the two orders is.
LEMMA Orders ==
  /\ Len(Publish) = Len(Manifests) + 2
  /\ Publish[1] = "wrapper" /\ Publish[Len(Publish)] = "config"
  /\ \A k \in 2..(Len(Publish) - 1) : Publish[k] \in Paths
  /\ Len(Withdraw) = Len(Manifests) + 2
  /\ \A k \in 1..Len(Manifests) : Withdraw[k] = Manifests[k]
  /\ Withdraw[Len(Manifests) + 1] = "wrapper" /\ Withdraw[Len(Manifests) + 2] = "config"
  BY ManifestsAssumption, ManifestsType DEF Publish, Withdraw

LEMMA PlacesAreFiles ==
  /\ \A k \in 1..Len(Publish) : Publish[k] \in Files
  /\ \A k \in 1..Len(Withdraw) : Withdraw[k] \in Files
<1>1. ASSUME NEW k \in 1..Len(Publish) PROVE Publish[k] \in Files
  <2>1. k = 1 \/ k = Len(Publish) \/ k \in 2..(Len(Publish) - 1)
    BY ManifestsType, Orders
  <2> QED
    BY <2>1, Orders DEF Files
<1>2. ASSUME NEW k \in 1..Len(Withdraw) PROVE Withdraw[k] \in Files
  <2>1. k \in 1..Len(Manifests) \/ k = Len(Manifests) + 1 \/ k = Len(Manifests) + 2
    BY ManifestsType, Orders
  <2> QED
    BY <2>1, Orders, ManifestsType DEF Files
<1> QED
  BY <1>1, <1>2

\* A command that goes on stays a command, whatever else it notes.
LEMMA GoesType ==
  ASSUME ProcType, NEW p \in Proc, proc[p] # None, NEW s \in Step, Goes(p, s)
  PROVE  ProcType'
<1>1. proc[p] \in Commands
  BY DEF ProcType
<1>2. [proc[p] EXCEPT !.at = s] \in Commands
  BY <1>1 DEF Commands
<1>3. proc' = [proc EXCEPT ![p] = [proc[p] EXCEPT !.at = s]]
  BY DEF Goes, ProcType
<1> QED
  BY <1>2, <1>3 DEF ProcType

LEMMA NotesType ==
  ASSUME ProcType, NEW p \in Proc, NEW c \in Commands \cup {None}, proc' = [proc EXCEPT ![p] = c]
  PROVE  ProcType'
  BY DEF ProcType

LEMMA FreeType ==
  ASSUME TypeOK, NEW p \in Proc, Free(p)
  PROVE  dir' \in Seq(Dir) /\ ProcType'
<1>1. \A d \in DOMAIN dir : dir[d] \in Dir
  BY DEF TypeOK
<1>2. \A e \in Dir : [e EXCEPT !.holder = None] \in Dir
  BY DEF Dir
<1>3. dir' = [d \in DOMAIN dir |->
               IF dir[d].holder = p THEN [dir[d] EXCEPT !.holder = None] ELSE dir[d]]
  BY DEF Free
<1>4. \A d \in DOMAIN dir : dir'[d] \in Dir
  BY <1>1, <1>2, <1>3
<1>5. dir' \in [1..Len(dir) -> Dir] /\ Len(dir) \in Nat
  BY <1>3, <1>4 DEF TypeOK
<1> QED
  BY <1>5 DEF TypeOK, ProcType, Free

\* A directory that is noted to have changed.
LEMMA DirType ==
  ASSUME dir \in Seq(Dir), NEW d, NEW e, d \in DOMAIN dir => e \in Dir,
         dir' = [dir EXCEPT ![d] = e]
  PROVE  dir' \in Seq(Dir)
<1>1. dir \in [1..Len(dir) -> Dir] /\ Len(dir) \in Nat
  OBVIOUS
<1>2. dir' \in [1..Len(dir) -> Dir]
  BY <1>1
<1> QED
  BY <1>1, <1>2

LEMMA TypeInit == Init => TypeOK
<1> SUFFICES ASSUME Init PROVE TypeOK
  OBVIOUS
<1>1. Bare \in [Files -> {"absent"}]
  BY DEF Bare, Files
<1>2. NativeType
  BY <1>1, ManifestsType DEF Init, NativeType, Files
<1>3. vault \in [instance : BOOLEAN, paired : BOOLEAN, unit : State, record : State]
  BY DEF Init, NewVault, State
<1> QED
  BY <1>2, <1>3 DEF Init, TypeOK

\* The type of everything but the commands.
RestType ==
  /\ app \in Nat
  /\ dir \in Seq(Dir)
  /\ tree \in Seq(Tree)
  /\ vault \in [instance : BOOLEAN, paired : BOOLEAN, unit : State, record : State]
  /\ NativeType
  /\ daemon \in Daemon \cup {None}

LEMMA TypeParts == TypeOK <=> RestType /\ ProcType
  BY DEF TypeOK, RestType, ProcType

LEMMA RunningType ==
  ASSUME TypeOK, NEW p \in Proc, proc[p] # None
  PROVE  proc[p] \in Commands
  BY DEF TypeOK

LEMMA OpeningType ==
  ASSUME TypeOK, NEW p \in Proc,
         \/ Begin(p) \/ MakeDirectory(p) \/ FindDirectory(p) \/ OpenLockFile(p) \/ Claim(p)
         \/ ReadCurrent(p)
  PROVE  TypeOK'
<1>0. RestType /\ ProcType
  BY TypeParts
<1>1. CASE Begin(p)
  <2>1. PICK o \in Ops, v \in Version, x \in Ext : proc' = [proc EXCEPT ![p] = Cmd(o, v, x)]
    BY <1>1 DEF Begin
  <2>2. Cmd(o, v, x) \in Commands
    BY InstallationAssumption DEF Cmd, Commands, Step, Ops
  <2>3. ProcType'
    BY <1>0, <2>1, <2>2, NotesType
  <2> QED
    BY <1>0, <1>1, <2>3, TypeParts DEF Begin, RestType, NativeType, TypeOK, ProcType
<1>2. CASE MakeDirectory(p)
  <2> DEFINE new == [owned |-> FALSE, lockFile |-> FALSE, holder |-> None, current |-> 0]
             c == [proc[p] EXCEPT !.at = "lock", !.fresh = TRUE]
  <2>1. new \in Dir
    BY DEF Dir
  <2>2. dir' \in Seq(Dir) /\ app' \in Nat
    BY <1>2, <2>1 DEF MakeDirectory, TypeOK
  <2>3. c \in Commands
    BY <1>2, RunningType DEF MakeDirectory, At, Commands, Step
  <2>4. ProcType'
    <3>1. proc' = [proc EXCEPT ![p] = c]
      BY <1>0, <1>2 DEF MakeDirectory, ProcType
    <3> QED
      BY <1>0, <2>3, <3>1, NotesType
  <2> QED
    BY <1>0, <1>2, <2>2, <2>4 DEF MakeDirectory, RestType, NativeType, TypeOK, ProcType
<1>3. CASE FindDirectory(p)
  <2>1. ProcType'
    BY <1>0, <1>3, GoesType DEF FindDirectory, At, Step
  <2> QED
    BY <1>0, <1>3, <2>1 DEF FindDirectory, RestType, NativeType, TypeOK, ProcType
<1>4. CASE OpenLockFile(p)
  <2> DEFINE c == [proc[p] EXCEPT !.at = "claim", !.dir = app]
  <2>1. c \in Commands
    <3>1. proc[p] \in Commands /\ app \in Nat
      BY <1>4, RunningType DEF OpenLockFile, At, TypeOK
    <3> QED
      BY <3>1 DEF Commands, Step
  <2>2. ProcType'
    <3>1. proc' = [proc EXCEPT ![p] = c]
      BY <1>0, <1>4 DEF OpenLockFile, ProcType
    <3> QED
      BY <1>0, <2>1, <3>1, NotesType
  <2>3. dir' \in Seq(Dir)
    <3>1. dir' = [dir EXCEPT ![app] = [dir[app] EXCEPT !.lockFile = TRUE]]
      BY <1>4 DEF OpenLockFile
    <3>2. ASSUME app \in DOMAIN dir PROVE [dir[app] EXCEPT !.lockFile = TRUE] \in Dir
      <4>1. dir[app] \in Dir
        BY <3>2 DEF TypeOK
      <4> QED
        BY <4>1 DEF Dir
    <3> QED
      BY <3>1, <3>2, DirType DEF TypeOK
  <2> QED
    BY <1>0, <1>4, <2>2, <2>3 DEF OpenLockFile, RestType, NativeType, TypeOK, ProcType
<1>5. CASE Claim(p)
  <2>1. ProcType'
    BY <1>0, <1>5, GoesType DEF Claim, At, Step
  <2>2. dir' \in Seq(Dir)
    <3>1. proc[p] \in Commands
      BY <1>5, RunningType DEF Claim, At
    <3>2. proc[p].fresh \in BOOLEAN
      BY <3>1 DEF Commands
    <3>3. PICK d, b : d = proc[p].dir /\ b = proc[p].fresh
      OBVIOUS
    <3> DEFINE e == [dir[d] EXCEPT !.holder = p, !.owned = @ \/ b]
    <3>4. dir' = [dir EXCEPT ![d] = e]
      BY <1>5, <3>3 DEF Claim
    <3>5. ASSUME d \in DOMAIN dir PROVE e \in Dir
      <4>1. dir[d] \in Dir
        BY <3>5 DEF TypeOK
      <4>2. (dir[d].owned \/ b) \in BOOLEAN
        BY <3>2, <3>3, <4>1 DEF Dir
      <4>3. PICK o \in BOOLEAN : o = (dir[d].owned \/ b)
        BY <4>2
      <4>4. e = [dir[d] EXCEPT !.holder = p, !.owned = o]
        BY <4>3
      <4> QED
        BY <4>1, <4>4 DEF Dir
    <3> QED
      BY <3>4, <3>5, DirType DEF TypeOK
  <2> QED
    BY <1>0, <1>5, <2>1, <2>2 DEF Claim, RestType, NativeType, TypeOK, ProcType
<1>6. CASE ReadCurrent(p)
  <2>1. PICK s \in Step : Goes(p, s)
    BY <1>6 DEF ReadCurrent, Step
  <2>2. ProcType'
    BY <1>0, <1>6, <2>1, GoesType DEF ReadCurrent, At
  <2> QED
    BY <1>0, <1>6, <2>2 DEF ReadCurrent, RestType, NativeType, TypeOK, ProcType
<1> QED
  BY <1>1, <1>2, <1>3, <1>4, <1>5, <1>6

LEMMA StagingType ==
  ASSUME TypeOK, NEW p \in Proc, Stage(p) \/ Copy(p) \/ Activate(p) \/ Retire(p)
  PROVE  TypeOK'
<1>0. RestType /\ ProcType
  BY TypeParts
<1>1. CASE Stage(p)
  <2> DEFINE new == [dir |-> app, version |-> proc[p].version, done |-> FALSE]
             c == [proc[p] EXCEPT !.at = "copy", !.tree = Len(tree')]
  <2>1. proc[p] \in Commands /\ app \in Nat
    BY <1>1, RunningType DEF Stage, At, TypeOK
  <2>2. new \in Tree
    BY <2>1 DEF Tree, Commands
  <2>3. tree' \in Seq(Tree) /\ Len(tree') \in Nat
    BY <1>1, <2>2 DEF Stage, TypeOK
  <2>4. c \in Commands
    BY <2>1, <2>3 DEF Commands, Step
  <2>5. proc' = [proc EXCEPT ![p] = c]
    BY <1>0, <1>1 DEF Stage, ProcType
  <2>6. ProcType'
    BY <1>0, <2>4, <2>5, NotesType
  <2> QED
    BY <1>0, <1>1, <2>3, <2>6 DEF Stage, RestType, NativeType, TypeOK, ProcType
<1>2. CASE Copy(p)
  <2>1. ProcType'
    <3>1. PICK s \in Step : Goes(p, s)
      BY <1>2 DEF Copy, Step
    <3> QED
      BY <1>0, <1>2, <3>1, GoesType DEF Copy, At
  <2>2. tree' \in Seq(Tree)
    <3>1. PICK t : t = proc[p].tree
      OBVIOUS
    <3> DEFINE e == [tree[t] EXCEPT !.done = TRUE]
    <3>2. tree' = [tree EXCEPT ![t] = e]
      BY <1>2, <3>1 DEF Copy
    <3>3. ASSUME t \in DOMAIN tree PROVE e \in Tree
      <4>1. tree[t] \in Tree
        BY <3>3 DEF TypeOK
      <4> QED
        BY <4>1 DEF Tree
    <3>4. tree \in [1..Len(tree) -> Tree] /\ Len(tree) \in Nat
      BY DEF TypeOK
    <3>5. tree' \in [1..Len(tree) -> Tree]
      BY <3>2, <3>3, <3>4
    <3> QED
      BY <3>4, <3>5
  <2> QED
    BY <1>0, <1>2, <2>1, <2>2 DEF Copy, RestType, NativeType, TypeOK, ProcType
<1>3. CASE Activate(p)
  <2>1. proc[p] \in Commands
    BY <1>3, RunningType DEF Activate, At
  <2>2. PICK t \in Nat : t = proc[p].tree
    BY <2>1 DEF Commands
  <2>3. dir' \in Seq(Dir)
    <3>1. dir' = [dir EXCEPT ![app] = [dir[app] EXCEPT !.current = t]]
      BY <1>3, <2>2 DEF Activate
    <3>2. ASSUME app \in DOMAIN dir PROVE [dir[app] EXCEPT !.current = t] \in Dir
      <4>1. dir[app] \in Dir
        BY <3>2 DEF TypeOK
      <4> QED
        BY <4>1 DEF Dir
    <3> QED
      BY <3>1, <3>2, DirType DEF TypeOK
  <2>4. ProcType'
    <3>1. CASE proc[p].op = "upgrade" /\ proc[p].init /\ native["config"] # "absent"
      <4> DEFINE c == [proc[p] EXCEPT !.at = "define", !.id = native["config"]]
      <4>1. native["config"] \in Ext \cup {"torn"}
        BY <3>1 DEF TypeOK, NativeType
      <4>2. c \in Commands
        BY <2>1, <4>1 DEF Commands, Step
      <4>3. proc' = [proc EXCEPT ![p] = c]
        BY <1>0, <1>3, <3>1 DEF Activate, ProcType
      <4> QED
        BY <1>0, <4>2, <4>3, NotesType
    <3>2. CASE ~(proc[p].op = "upgrade" /\ proc[p].init /\ native["config"] # "absent")
      <4>1. PICK s \in Step : Goes(p, s)
        BY <1>3, <3>2 DEF Activate, Step
      <4> QED
        BY <1>0, <1>3, <4>1, GoesType DEF Activate, At
    <3> QED
      BY <3>1, <3>2
  <2> QED
    BY <1>0, <1>3, <2>3, <2>4 DEF Activate, RestType, NativeType, TypeOK, ProcType
<1>4. CASE Retire(p)
  <2>1. ProcType'
    BY <1>0, <1>4, GoesType DEF Retire, At, Step
  <2> QED
    BY <1>0, <1>4, <2>1 DEF Retire, RestType, NativeType, TypeOK, ProcType
<1> QED
  BY <1>1, <1>2, <1>3, <1>4

\* A command gives back what it holds and is gone.
LEMMA FinishType ==
  ASSUME TypeOK, NEW p \in Proc, Finish(p) PROVE TypeOK'
  BY FreeType, TypeParts DEF Finish, RestType, NativeType, TypeOK, ProcType

LEMMA ServiceType ==
  ASSUME TypeOK, NEW p \in Proc,
         \/ Initialize(p) \/ WriteUnit(p) \/ WriteRecord(p) \/ Load(p) \/ AwaitReady(p) \/ Pair(p)
         \/ Unserve(p) \/ Unrecord(p) \/ Drain(p) \/ Unhook(p)
  PROVE  TypeOK'
<1>0. RestType /\ ProcType
  BY TypeParts
<1>1. proc[p] # None /\ \E s \in Step : Goes(p, s)
  BY DEF Initialize, WriteUnit, WriteRecord, Load, AwaitReady, Pair, Unserve, Unrecord, Drain,
         Unhook, At, Step
<1>2. ProcType'
  BY <1>0, <1>1, GoesType
<1>3. vault' \in [instance : BOOLEAN, paired : BOOLEAN, unit : State, record : State]
  <2>1. vault \in [instance : BOOLEAN, paired : BOOLEAN, unit : State, record : State]
    BY DEF TypeOK
  <2>2. \/ vault' = vault
        \/ vault' = [vault EXCEPT !.instance = TRUE] \/ vault' = [vault EXCEPT !.paired = TRUE]
        \/ \E x \in State : \/ vault' = [vault EXCEPT !.unit = x]
                            \/ vault' = [vault EXCEPT !.record = x]
    BY DEF Initialize, WriteUnit, WriteRecord, Load, AwaitReady, Pair, Unserve, Unrecord, Drain,
           Unhook, State
  <2> QED
    BY <2>1, <2>2
<1>4. daemon' \in Daemon \cup {None}
  <2>1. daemon' \in {daemon, Started}
    BY DEF Initialize, WriteUnit, WriteRecord, Load, AwaitReady, Pair, Unserve, Unrecord, Drain,
           Unhook
  <2>2. daemon \in Daemon \cup {None}
    BY DEF TypeOK
  <2>3. Started \in Daemon \cup {None}
    BY <2>2 DEF Started, Daemon
  <2> QED
    BY <2>1, <2>2, <2>3
<1>5. UNCHANGED <<app, dir, tree, native>>
  BY DEF Initialize, WriteUnit, WriteRecord, Load, AwaitReady, Pair, Unserve, Unrecord, Drain,
         Unhook
<1> QED
  BY <1>0, <1>2, <1>3, <1>4, <1>5 DEF RestType, NativeType, TypeOK, ProcType

LEMMA StoppingType ==
  ASSUME TypeOK, NEW p \in Proc, LookForVault(p) \/ StopService(p) \/ Release(p)
  PROVE  TypeOK'
<1>0. RestType /\ ProcType
  BY TypeParts
<1>1. proc[p] \in Commands
  BY RunningType DEF LookForVault, StopService, Release, At
<1>2. CASE LookForVault(p)
  <2>1. PICK s \in Step, b \in BOOLEAN : proc' = [proc EXCEPT ![p].init = b, ![p].at = s]
    BY <1>2 DEF LookForVault, Step, TypeOK
  <2>2. proc' = [proc EXCEPT ![p] = [proc[p] EXCEPT !.init = b, !.at = s]]
    BY <1>0, <2>1 DEF ProcType
  <2>3. [proc[p] EXCEPT !.init = b, !.at = s] \in Commands
    BY <1>1 DEF Commands
  <2>4. ProcType'
    BY <1>0, <2>2, <2>3, NotesType
  <2> QED
    BY <1>0, <1>2, <2>4 DEF LookForVault, RestType, NativeType, TypeOK, ProcType
<1>3. CASE StopService(p)
  <2>1. PICK b \in BOOLEAN, r \in BOOLEAN :
          proc' = [proc EXCEPT ![p].at = "drain", ![p].def = b, ![p].restart = r]
    <3>1. PICK b \in BOOLEAN : b = Managed
      BY DEF Managed
    <3>2. PICK r \in BOOLEAN : r = (Managed /\ Loaded /\ proc[p].op = "upgrade")
      OBVIOUS
    <3> QED
      BY <1>3, <3>1, <3>2 DEF StopService
  <2>2. proc' = [proc EXCEPT ![p] = [proc[p] EXCEPT !.at = "drain", !.def = b, !.restart = r]]
    BY <1>0, <2>1 DEF ProcType
  <2>3. [proc[p] EXCEPT !.at = "drain", !.def = b, !.restart = r] \in Commands
    BY <1>1 DEF Commands, Step
  <2>4. ProcType'
    BY <1>0, <2>2, <2>3, NotesType
  <2>5. daemon' \in Daemon \cup {None}
    <3>1. CASE Managed /\ Loaded
      <4>1. daemon \in Daemon
        BY <3>1 DEF Loaded, TypeOK
      <4>2. daemon' = [daemon EXCEPT !.at = "draining"]
        BY <1>3, <3>1 DEF StopService
      <4> QED
        BY <4>1, <4>2 DEF Daemon
    <3>2. CASE ~(Managed /\ Loaded)
      BY <1>3, <3>2 DEF StopService, TypeOK
    <3> QED
      BY <3>1, <3>2
  <2> QED
    BY <1>0, <1>3, <2>4, <2>5 DEF StopService, RestType, NativeType, TypeOK, ProcType
<1>4. CASE Release(p)
  <2>1. CASE proc[p].restart /\ lease = p
    <3>1. ProcType'
      BY <1>0, <1>4, <2>1, GoesType DEF Release, At, Step
    <3> QED
      BY <1>0, <1>4, <2>1, <3>1 DEF Release, RestType, NativeType, TypeOK, ProcType
  <2>2. CASE ~(proc[p].restart /\ lease = p)
    BY <1>4, <2>2, FinishType DEF Release
  <2> QED
    BY <2>1, <2>2
<1> QED
  BY <1>2, <1>3, <1>4

\* A file that gets another content: the config names an extension or nobody.
LEMMA NativeChange ==
  ASSUME NativeType, NEW f \in Files,
         NEW x \in Ext \cup {"absent", "torn", "ours"},
         f = "wrapper" => x \in {"absent", "torn", "ours"},
         f = "config" => x \in Ext \cup {"absent", "torn"},
         native' = [native EXCEPT ![f] = x]
  PROVE  NativeType'
  BY DEF NativeType, Files

LEMMA FilesType ==
  ASSUME TypeOK, NEW p \in Proc,
         \/ Define(p) \/ WriteDefinition(p) \/ ReplaceDefinition(p)
         \/ Undefine(p) \/ EraseDefinition(p) \/ RemoveDefinition(p) \/ RemoveConfig(p),
         AtWork(p) => proc[p].k \in 1..Len(Publish),
         AtErase(p) => proc[p].k \in 1..Len(Withdraw)
  PROVE  TypeOK'
<1>0. RestType /\ ProcType
  BY TypeParts
<1>1. proc[p] \in Commands
  BY RunningType DEF Define, WriteDefinition, ReplaceDefinition, Undefine, EraseDefinition,
     RemoveDefinition, RemoveConfig, At
<1>2. PICK n \in Nat : n = proc[p].k + 1
  BY <1>1 DEF Commands
<1>3. ASSUME NEW s \in Step, proc' = [proc EXCEPT ![p].at = s, ![p].k = @ + 1] PROVE ProcType'
  <2>1. proc' = [proc EXCEPT ![p] = [proc[p] EXCEPT !.at = s, !.k = n]]
    BY <1>0, <1>2, <1>3 DEF ProcType
  <2>2. [proc[p] EXCEPT !.at = s, !.k = n] \in Commands
    BY <1>1 DEF Commands
  <2> QED
    BY <1>0, <2>1, <2>2, NotesType
<1>4. ASSUME NEW s \in Step, proc' = [proc EXCEPT ![p].at = s, ![p].raced = FALSE] PROVE ProcType'
  <2>1. proc' = [proc EXCEPT ![p] = [proc[p] EXCEPT !.at = s, !.raced = FALSE]]
    BY <1>0, <1>4 DEF ProcType
  <2>2. [proc[p] EXCEPT !.at = s, !.raced = FALSE] \in Commands
    BY <1>1 DEF Commands
  <2> QED
    BY <1>0, <2>1, <2>2, NotesType
<1>5. ProcType'
  <2>1. CASE Define(p)
    <3>1. PICK o \in Ext \cup {None} :
            proc' = [proc EXCEPT ![p].at = "write", ![p].old = o, ![p].k = 1]
      BY <2>1 DEF Define
    <3>2. proc' = [proc EXCEPT ![p] = [proc[p] EXCEPT !.at = "write", !.old = o, !.k = 1]]
      BY <1>0, <3>1 DEF ProcType
    <3>3. [proc[p] EXCEPT !.at = "write", !.old = o, !.k = 1] \in Commands
      BY <1>1 DEF Commands, Step
    <3> QED
      BY <1>0, <3>2, <3>3, NotesType
  <2>2. CASE Undefine(p)
    <3>1. PICK x \in Ext : proc' = [proc EXCEPT ![p].at = "erase", ![p].old = x, ![p].k = 1]
      BY <2>2 DEF Undefine
    <3>2. proc' = [proc EXCEPT ![p] = [proc[p] EXCEPT !.at = "erase", !.old = x, !.k = 1]]
      BY <1>0, <3>1 DEF ProcType
    <3>3. [proc[p] EXCEPT !.at = "erase", !.old = x, !.k = 1] \in Commands
      BY <1>1 DEF Commands, Step
    <3> QED
      BY <1>0, <3>2, <3>3, NotesType
  <2>3. CASE WriteDefinition(p) \/ ReplaceDefinition(p)
    <3>1. NextFile(p) \/ proc' = [proc EXCEPT ![p].at = "put", ![p].raced = FALSE]
      BY <2>3 DEF WriteDefinition, ReplaceDefinition
    <3>2. NextFile(p) => \E s \in Step : proc' = [proc EXCEPT ![p].at = s, ![p].k = @ + 1]
      BY DEF NextFile, Step
    <3> QED
      BY <1>3, <1>4, <3>1, <3>2 DEF Step
  <2>4. CASE EraseDefinition(p)
    <3>1. CASE proc' = [proc EXCEPT ![p].k = @ + 1]
      <4>1. proc' = [proc EXCEPT ![p] = [proc[p] EXCEPT !.k = n]]
        BY <1>0, <1>2, <3>1 DEF ProcType
      <4>2. [proc[p] EXCEPT !.k = n] \in Commands
        BY <1>1 DEF Commands
      <4> QED
        BY <1>0, <4>1, <4>2, NotesType
    <3> QED
      BY <1>4, <2>4, <3>1 DEF EraseDefinition, Step
  <2>5. CASE RemoveDefinition(p)
    BY <1>3, <2>5 DEF RemoveDefinition, Step
  <2>6. CASE RemoveConfig(p)
    <3>1. PICK s \in Step : Goes(p, s)
      BY <2>6 DEF RemoveConfig, Step
    <3> QED
      BY <1>0, <2>6, <3>1, GoesType DEF RemoveConfig, At
  <2> QED
    BY <2>1, <2>2, <2>3, <2>4, <2>5, <2>6
<1>6. NativeType'
  <2>1. CASE UNCHANGED native
    BY <1>0, <2>1 DEF RestType, NativeType
  <2>2. CASE (WriteDefinition(p) \/ ReplaceDefinition(p)) /\ native' # native
    <3>1. PICK f \in Files : f = Publish[proc[p].k]
      BY <2>2, PlacesAreFiles DEF WriteDefinition, ReplaceDefinition, AtWork
    <3>2. PICK x \in Ext \cup {"torn"} : x = proc[p].id
      BY <1>1 DEF Commands
    <3>3. native' = [native EXCEPT ![f] = Desired(f, x)]
      BY <2>2, <3>1, <3>2 DEF WriteDefinition, ReplaceDefinition
    <3> QED
      BY <1>0, <3>3, NativeChange DEF RestType, Desired
  <2>3. CASE RemoveDefinition(p) \/ RemoveConfig(p)
    <3>1. PICK f \in Files : f = Withdraw[proc[p].k]
      BY <2>3, PlacesAreFiles DEF RemoveDefinition, RemoveConfig, AtErase
    <3>2. native' = [native EXCEPT ![f] = "absent"]
      BY <2>3, <3>1 DEF RemoveDefinition, RemoveConfig
    <3> QED
      BY <1>0, <3>2, NativeChange DEF RestType
  <2> QED
    BY <2>1, <2>2, <2>3 DEF Define, Undefine, EraseDefinition
<1>7. UNCHANGED <<app, dir, tree, vault, daemon>>
  BY DEF Define, WriteDefinition, ReplaceDefinition, Undefine, EraseDefinition, RemoveDefinition,
         RemoveConfig
<1> QED
  BY <1>0, <1>5, <1>6, <1>7 DEF RestType, TypeOK, ProcType

\* Another program changes one manifest, and of a command only what it missed.
LEMMA ForeignSteps ==
  ASSUME TypeOK, NEW m \in Paths, Foreign(m)
  PROVE  /\ native' = [native EXCEPT ![m] = "foreign"]
         /\ \A p \in Proc : \/ proc'[p] = proc[p] /\ ~Passed(p, m)
                            \/ /\ proc[p] \in Commands /\ Passed(p, m)
                               /\ proc'[p] = [proc[p] EXCEPT !.raced = TRUE]
         /\ UNCHANGED <<app, dir, tree, vault, defLock, lease, daemon, ops>>
  BY RunningType DEF Foreign, Passed, At

\* What a command is doing is not changed by another program.
LEMMA ForeignLeaves ==
  ASSUME TypeOK, NEW m \in Paths, Foreign(m), NEW p \in Proc
  PROVE  /\ proc'[p] # None => proc[p] # None
         /\ proc'[p] \in Commands \cup {None}
         /\ proc[p] # None => /\ proc'[p].at = proc[p].at /\ proc'[p].init = proc[p].init
                              /\ proc'[p].k = proc[p].k /\ proc'[p].old = proc[p].old
<1>1. proc[p] \in Commands \cup {None}
  BY DEF TypeOK
<1>2. CASE proc'[p] = proc[p]
  BY <1>1, <1>2
<1>3. CASE /\ proc[p] \in Commands /\ Passed(p, m)
           /\ proc'[p] = [proc[p] EXCEPT !.raced = TRUE]
  <2>1. proc'[p] \in Commands /\ proc[p] # None
    BY <1>3 DEF Commands, Passed, At
  <2> QED
    BY <1>3, <2>1 DEF Commands
<1> QED
  BY <1>2, <1>3, ForeignSteps

LEMMA ForeignType ==
  ASSUME TypeOK, NEW m \in Paths, Foreign(m)
  PROVE  TypeOK'
<1>0. RestType /\ ProcType
  BY TypeParts
<1>1. ProcType'
  BY ForeignLeaves DEF Foreign, ProcType
<1>2. NativeType'
  BY <1>0, ForeignSteps, ManifestsType DEF RestType, NativeType, Files
<1> QED
  BY <1>0, <1>1, <1>2, ForeignSteps DEF RestType, TypeOK, ProcType

LEMMA DieType ==
  ASSUME TypeOK, NEW p \in Proc, Die(p), AtWork(p) => proc[p].k \in 1..Len(Publish)
  PROVE  TypeOK'
<1>0. RestType
  BY TypeParts
<1>1. dir' \in Seq(Dir) /\ ProcType'
  BY FreeType DEF Die
<1>2. NativeType'
  <2>1. CASE native' = native
    BY <1>0, <2>1 DEF RestType, NativeType
  <2>2. CASE native' # native
    <3>1. At(p, "write") /\ native' = [native EXCEPT ![Publish[proc[p].k]] = "torn"]
      BY <2>2 DEF Die
    <3>2. PICK f \in Files : f = Publish[proc[p].k]
      BY <3>1, PlacesAreFiles DEF AtWork
    <3>3. native' = [native EXCEPT ![f] = "torn"]
      BY <3>1, <3>2
    <3> QED
      BY <1>0, <3>3, NativeChange DEF RestType
  <2> QED
    BY <2>1, <2>2
<1>3. vault' \in [instance : BOOLEAN, paired : BOOLEAN, unit : State, record : State]
  <2>1. vault' = vault \/ vault' = [vault EXCEPT !.unit = "torn"]
          \/ vault' = [vault EXCEPT !.record = "torn"]
    BY DEF Die
  <2> QED
    BY <2>1 DEF TypeOK, State
<1> QED
  BY <1>0, <1>1, <1>2, <1>3 DEF Die, RestType, TypeOK, ProcType

LEMMA DaemonType ==
  ASSUME TypeOK, InitCommand \/ Serve \/ DaemonOpens \/ DaemonStops
  PROVE  TypeOK'
<1>0. RestType /\ ProcType
  BY TypeParts
<1>1. CASE InitCommand
  <2>1. vault' \in [instance : BOOLEAN, paired : BOOLEAN, unit : State, record : State]
    BY <1>1 DEF InitCommand, TypeOK
  <2> QED
    BY <1>0, <1>1, <2>1 DEF InitCommand, RestType, NativeType, TypeOK, ProcType
<1>2. CASE Serve
  <2>1. PICK b \in BOOLEAN : daemon' = [at |-> "starting", service |-> b]
    <3>1. (Managed /\ Installed) \in BOOLEAN
      BY DEF Managed, Installed
    <3> QED
      BY <1>2, <3>1 DEF Serve
  <2>2. daemon' \in Daemon
    BY <2>1 DEF Daemon
  <2> QED
    BY <1>0, <1>2, <2>2 DEF Serve, RestType, NativeType, TypeOK, ProcType
<1>3. CASE DaemonOpens
  <2>1. daemon \in Daemon
    BY <1>3 DEF DaemonOpens, TypeOK
  <2>2. daemon' \in Daemon \cup {None}
    BY <1>3, <2>1 DEF DaemonOpens, Daemon
  <2> QED
    BY <1>0, <1>3, <2>2 DEF DaemonOpens, RestType, NativeType, TypeOK, ProcType
<1>4. CASE DaemonStops
  BY <1>0, <1>4 DEF DaemonStops, RestType, NativeType, TypeOK, ProcType
<1> QED
  BY <1>1, <1>2, <1>3, <1>4

LEMMA TypeNext ==
  ASSUME TypeOK, Writing, Erasing, Next
  PROVE  TypeOK'
<1>1. ASSUME NEW p \in Proc, Command(p) PROVE TypeOK'
  <2>1. AtWork(p) => proc[p].k \in 1..Len(Publish)
    BY DEF Writing
  <2>2. AtErase(p) => proc[p].k \in 1..Len(Withdraw)
    BY DEF Erasing
  <2> QED
    BY <1>1, <2>1, <2>2, OpeningType, StagingType, ServiceType, StoppingType, FilesType, DieType
       DEF Command
<1> QED
  BY <1>1, DaemonType, ForeignType DEF Next

LEMMA TypeStutter == TypeOK /\ UNCHANGED vars => TypeOK'
  BY DEF TypeOK, NativeType, vars

-----------------------------------------------------------------------------
(* The lease and the swap of the application. *)

LEMMA LeaseInit == Init => LeaseInv
  BY DEF Init, LeaseInv, Running

\* No command takes the lease another holds, and none makes a daemon run.
LEMMA OthersKeepLease ==
  ASSUME TypeOK, NEW p \in Proc, Command(p)
  PROVE  /\ \A q \in Proc \ {p} : proc'[q] = proc[q] /\ (lease = q => lease' = q)
         /\ lease = "daemon" => lease' = "daemon"
         /\ Running' => Running
<1>1. "daemon" \notin Proc \cup {None} /\ None \notin Proc
  BY InstallationAssumption
<1>2. daemon' = daemon \/ (daemon' # None => daemon'.at # "running")
  <2>1. daemon \in Daemon \cup {None}
    BY DEF TypeOK
  <2>2. CASE StopService(p)
    <3>1. CASE Managed /\ Loaded
      <4>1. daemon' = [daemon EXCEPT !.at = "draining"] /\ daemon \in Daemon
        BY <2>1, <2>2, <3>1 DEF StopService, Loaded
      <4> QED
        BY <4>1 DEF Daemon
    <3>2. CASE ~(Managed /\ Loaded)
      BY <2>2, <3>2 DEF StopService
    <3> QED
      BY <3>1, <3>2
  <2>3. CASE Load(p)
    BY <2>3 DEF Load, Started
  <2>4. CASE ~StopService(p) /\ ~Load(p)
    BY <2>4 DEF Command, Begin, MakeDirectory, FindDirectory, OpenLockFile, Claim, ReadCurrent,
       Stage, Copy, Activate, Retire, Initialize, WriteUnit, WriteRecord, AwaitReady, Pair,
       LookForVault, Drain, Release, Unserve, Unrecord, Define, WriteDefinition, ReplaceDefinition, Unhook,
       Undefine, EraseDefinition, RemoveDefinition, RemoveConfig, Die, Finish
  <2> QED
    BY <2>2, <2>3, <2>4
<1>3. \A q \in Proc \ {p} : proc'[q] = proc[q]
  <2>0. ProcType
    BY TypeParts
  <2>1. CASE \/ Begin(p) \/ MakeDirectory(p) \/ FindDirectory(p) \/ OpenLockFile(p) \/ Claim(p)
             \/ ReadCurrent(p) \/ Stage(p) \/ Copy(p) \/ Activate(p) \/ Retire(p)
    BY <2>0, <2>1 DEF Begin, MakeDirectory, FindDirectory, OpenLockFile, Claim, ReadCurrent, Stage,
       Copy, Activate, Retire, Goes, ProcType
  <2>2. CASE \/ Initialize(p) \/ WriteUnit(p) \/ WriteRecord(p) \/ Load(p) \/ AwaitReady(p)
             \/ Pair(p) \/ LookForVault(p) \/ StopService(p) \/ Drain(p) \/ Unserve(p)
             \/ Unrecord(p) \/ Unhook(p)
    BY <2>0, <2>2 DEF Initialize, WriteUnit, WriteRecord, Load, AwaitReady, Pair, LookForVault,
       StopService, Drain, Unserve, Unrecord, Unhook, Goes, ProcType
  <2>3. CASE \/ Release(p) \/ Define(p) \/ WriteDefinition(p) \/ ReplaceDefinition(p)
             \/ Undefine(p) \/ EraseDefinition(p) \/ RemoveDefinition(p) \/ RemoveConfig(p)
             \/ Die(p)
    BY <2>0, <2>3 DEF Release, Define, WriteDefinition, ReplaceDefinition, NextFile, Undefine,
       EraseDefinition, RemoveDefinition, RemoveConfig, Die, Finish, Free, Goes, ProcType
  <2> QED
    BY <2>1, <2>2, <2>3 DEF Command
<1>4. lease' = lease \/ lease \in {p, None}
  BY DEF Command, Begin, MakeDirectory, FindDirectory, OpenLockFile, Claim, ReadCurrent, Stage,
         Copy, Activate, Retire, Initialize, WriteUnit, WriteRecord, Load, AwaitReady, Pair,
         LookForVault, StopService, Drain, Release, Unserve, Unrecord, Define, WriteDefinition,
         ReplaceDefinition, Unhook, Undefine, EraseDefinition, RemoveDefinition, RemoveConfig,
         Die, Finish, Free
<1> QED
  BY <1>1, <1>2, <1>3, <1>4 DEF Running

\* What LeaseInv says of one command.
Leased(p) ==
  proc[p] # None /\ proc[p].init =>
    proc[p].at \notin Early /\ (proc[p].at \in Late => lease = p)

LEMMA LeasedCommand ==
  ASSUME TypeOK, NEW p \in Proc, Leased(p), Command(p)
  PROVE  Leased(p)'
<1> USE DEF Leased, Early, Late
<1>0. ASSUME proc[p] # None PROVE proc[p] \in Commands
  BY <1>0, RunningType
<1>1. CASE Begin(p)
  <2>1. PICK o, v, x : proc' = [proc EXCEPT ![p] = Cmd(o, v, x)]
    BY <1>1 DEF Begin
  <2>2. proc'[p].init = FALSE
    BY <2>1 DEF Cmd, TypeOK
  <2> QED
    BY <2>2
<1>2. CASE \/ MakeDirectory(p) \/ FindDirectory(p) \/ OpenLockFile(p) \/ Claim(p)
           \/ ReadCurrent(p) \/ Stage(p) \/ Copy(p)
  <2>1. proc[p] # None /\ proc[p].at \in Early
    BY <1>2 DEF MakeDirectory, FindDirectory, OpenLockFile, Claim, ReadCurrent, Stage, Copy, At
  <2>2. ~proc[p].init
    BY <2>1
  <2>3. proc'[p].init = proc[p].init
    <3>1. CASE MakeDirectory(p) \/ FindDirectory(p) \/ OpenLockFile(p)
      BY <1>0, <3>1, <2>1 DEF MakeDirectory, FindDirectory, OpenLockFile, Goes, TypeOK, Commands
    <3>2. CASE Claim(p) \/ ReadCurrent(p)
      BY <1>0, <3>2, <2>1 DEF Claim, ReadCurrent, Goes, TypeOK, Commands
    <3>3. CASE Stage(p) \/ Copy(p)
      BY <1>0, <3>3, <2>1 DEF Stage, Copy, Goes, TypeOK, Commands
    <3> QED
      BY <1>2, <3>1, <3>2, <3>3
  <2> QED
    BY <2>2, <2>3
<1>3. CASE \/ Activate(p) \/ Initialize(p) \/ WriteUnit(p) \/ WriteRecord(p) \/ Load(p)
           \/ AwaitReady(p) \/ Pair(p) \/ StopService(p) \/ Define(p) \/ WriteDefinition(p)
           \/ ReplaceDefinition(p) \/ Retire(p)
  <2>1. proc[p] # None
    BY <1>3 DEF Activate, Initialize, WriteUnit, WriteRecord, Load, AwaitReady, Pair, StopService,
       Define, WriteDefinition, ReplaceDefinition, Retire, At
  <2>2. proc'[p].at \notin Early \cup Late
    BY <1>0, <1>3, <2>1 DEF Activate, Initialize, WriteUnit, WriteRecord, Load, AwaitReady, Pair,
       StopService, Define, WriteDefinition, ReplaceDefinition, NextFile, Retire, Goes, TypeOK,
       Commands
  <2> QED
    BY <2>2
<1>4. CASE \/ Unserve(p) \/ Unrecord(p) \/ Unhook(p) \/ Undefine(p) \/ EraseDefinition(p)
           \/ RemoveDefinition(p) \/ RemoveConfig(p)
  <2>1. proc[p] # None /\ proc[p].at \in Late /\ lease' = lease
    BY <1>4 DEF Unserve, Unrecord, Unhook, Undefine, EraseDefinition, RemoveDefinition,
       RemoveConfig, At
  <2>2. proc'[p].init = proc[p].init /\ proc'[p].at \notin Early
    BY <1>0, <1>4, <2>1 DEF Unserve, Unrecord, Unhook, Undefine, EraseDefinition,
       RemoveDefinition, RemoveConfig, Goes, At, TypeOK, Commands
  <2> QED
    BY <2>1, <2>2
<1>5. CASE Drain(p)
  <2>1. lease' = p /\ proc'[p].at \notin Early
    BY <1>0, <1>5 DEF Drain, At, Goes, TypeOK, Commands
  <2> QED
    BY <2>1
<1>6. CASE LookForVault(p)
  <2>1. CASE vault.instance
    <3>1. proc'[p].at = "service"
      BY <1>0, <1>6, <2>1 DEF LookForVault, At, TypeOK, Commands
    <3> QED
      BY <3>1
  <2>2. CASE ~vault.instance
    <3>1. proc'[p].init = vault.instance
      BY <1>0, <1>6 DEF LookForVault, At, TypeOK, Commands
    <3> QED
      BY <2>2, <3>1
  <2> QED
    BY <2>1, <2>2
<1>7. CASE Release(p)
  <2>1. CASE proc[p].restart /\ lease = p
    <3>1. proc'[p].at = "load"
      BY <1>0, <1>7, <2>1 DEF Release, At, Goes, TypeOK, Commands
    <3> QED
      BY <3>1
  <2>2. CASE ~(proc[p].restart /\ lease = p)
    <3>1. proc'[p] = None
      BY <1>7, <2>2 DEF Release, Finish, Free, TypeOK
    <3> QED
      BY <3>1
  <2> QED
    BY <2>1, <2>2
<1>8. CASE Die(p)
  <2>1. proc'[p] = None
    BY <1>8 DEF Die, Free, TypeOK
  <2> QED
    BY <2>1
<1> QED
  BY <1>1, <1>2, <1>3, <1>4, <1>5, <1>6, <1>7, <1>8 DEF Command

LEMMA LeaseParts ==
  LeaseInv <=> (\A p \in Proc : Leased(p)) /\ (Running => lease = "daemon")
  BY DEF LeaseInv, Leased

LEMMA LeaseNext ==
  ASSUME TypeOK, LeaseInv, Next
  PROVE  LeaseInv'
<1>0. "daemon" \notin Proc \cup {None} /\ None \notin Proc
  BY InstallationAssumption
<1>1. ASSUME NEW p \in Proc, Command(p) PROVE LeaseInv'
  <2>1. Leased(p)'
    BY <1>1, LeaseParts, LeasedCommand
  <2>2. ASSUME NEW q \in Proc \ {p} PROVE Leased(q)'
    <3>1. proc'[q] = proc[q] /\ (lease = q => lease' = q)
      BY <1>1, OthersKeepLease
    <3> QED
      BY <3>1, LeaseParts DEF Leased
  <2>3. Running' => lease' = "daemon"
    BY <1>1, OthersKeepLease, LeaseParts
  <2> QED
    BY <2>1, <2>2, <2>3 DEF LeaseInv, Leased
<1>2. CASE InitCommand \/ Serve \/ DaemonOpens \/ DaemonStops
  <2>1. proc' = proc /\ \A q \in Proc : lease = q => lease' = q
    BY <1>0, <1>2 DEF InitCommand, Serve, DaemonOpens, DaemonStops
  <2>2. Running' => lease' = "daemon"
    BY <1>0, <1>2, LeaseParts DEF InitCommand, Serve, DaemonOpens, DaemonStops, Running
  <2>3. \A q \in Proc : Leased(q)'
    BY <2>1, LeaseParts DEF Leased
  <2> QED
    BY <2>2, <2>3 DEF LeaseInv, Leased
<1>3. ASSUME NEW m \in Paths, Foreign(m) PROVE LeaseInv'
  <2>1. \A p \in Proc : Leased(p)'
    BY <1>3, ForeignSteps, ForeignLeaves, LeaseParts DEF Leased
  <2>2. lease' = lease /\ Running' = Running
    BY <1>3 DEF Foreign, Running
  <2> QED
    BY <2>1, <2>2, LeaseParts DEF LeaseInv, Leased
<1> QED
  BY <1>1, <1>2, <1>3 DEF Next

LEMMA LeaseStutter == LeaseInv /\ UNCHANGED vars => LeaseInv'
  BY DEF LeaseInv, Running, vars

-----------------------------------------------------------------------------
(* The files of the native host. *)

LEMMA Words ==
  /\ None \notin Proc /\ None \notin Ext /\ None \notin {"absent", "torn"}
  /\ "absent" \notin Ext /\ "torn" \notin Ext /\ "foreign" \notin Ext /\ "ours" \notin Ext
  BY InstallationAssumption

\* What FilesInv says of one command.
FilesOf(p) ==
  /\ AtWork(p) \/ AtErase(p) => defLock = p
  /\ AtWork(p) =>
       /\ proc[p].k \in 1..Len(Publish)
       /\ native["config"] = IF proc[p].old = None THEN "absent" ELSE proc[p].old
       /\ proc[p].k > 1 => native["wrapper"] = "ours"
  /\ AtErase(p) =>
       /\ proc[p].k \in 1..Len(Withdraw) /\ proc[p].old \in Ext
       /\ \A i \in 1..Len(Manifests) : i < proc[p].k => native[Manifests[i]] \notin Ext
       /\ At(p, "unlink") => Withdraw[proc[p].k] # "config"
  /\ \A f \in Files : Passed(p, f) => native[f] # "foreign" \/ proc[p].raced

LEMMA FilesParts == FilesInv <=> (\A p \in Proc : FilesOf(p)) /\ Wrapped
  BY DEF FilesInv, OneWriter, Writing, Erasing, LookedAt, FilesOf

\* A command that is at none of the four steps.
LEMMA FilesIdle ==
  ASSUME NEW p \in Proc, ~AtWork(p), ~AtErase(p) PROVE FilesOf(p)
  BY DEF FilesOf, AtWork, AtErase, Passed

LEMMA FilesInit == Init => FilesInv
<1> SUFFICES ASSUME Init PROVE FilesInv
  OBVIOUS
<1>1. \A p \in Proc : FilesOf(p)
  BY FilesIdle DEF Init, At, AtWork, AtErase
<1>2. \A m \in Paths : native[m] = "absent"
  BY DEF Init, Bare
<1>3. Wrapped
  BY <1>2, Words DEF Wrapped
<1> QED
  BY <1>1, <1>3, FilesParts

FileStep(p) ==
  \/ Define(p) \/ WriteDefinition(p) \/ ReplaceDefinition(p)
  \/ Undefine(p) \/ EraseDefinition(p) \/ RemoveDefinition(p) \/ RemoveConfig(p) \/ Die(p)

\* The steps that neither touch the files nor begin to.
LEMMA Elsewhere ==
  ASSUME TypeOK, NEW p \in Proc, Command(p), ~FileStep(p)
  PROVE  /\ native' = native
         /\ defLock' = defLock \/ defLock = p
         /\ ~AtWork(p)' /\ ~AtErase(p)'
<1> DEFINE Filing == {"write", "put", "erase", "unlink"}
<1> USE DEF AtWork, AtErase
<1>0. ProcType /\ (proc[p] # None => proc[p] \in Commands)
  BY TypeParts, RunningType
<1>1. CASE Begin(p)
  <2>1. PICK o, v, x : proc' = [proc EXCEPT ![p] = Cmd(o, v, x)]
    BY <1>1 DEF Begin
  <2>2. proc'[p].at \in {"open", "undefine"}
    BY <1>0, <2>1 DEF Cmd, ProcType
  <2> QED
    BY <1>1, <2>2 DEF Begin, At
<1>2. CASE \/ MakeDirectory(p) \/ FindDirectory(p) \/ OpenLockFile(p) \/ Claim(p)
           \/ ReadCurrent(p) \/ Stage(p) \/ Copy(p) \/ Activate(p) \/ Retire(p)
  <2>1. proc[p] # None
    BY <1>2 DEF MakeDirectory, FindDirectory, OpenLockFile, Claim, ReadCurrent, Stage, Copy,
       Activate, Retire, At
  <2>2. proc'[p].at \notin Filing
    <3>1. CASE ReadCurrent(p)
      <4>1. PICK s \in Step \ Filing : Goes(p, s)
        BY <3>1 DEF ReadCurrent, Step
      <4> QED
        BY <1>0, <2>1, <4>1 DEF Goes, ProcType, Commands
    <3>2. CASE ~ReadCurrent(p)
      BY <1>0, <1>2, <2>1, <3>2 DEF MakeDirectory, FindDirectory, OpenLockFile, Claim, Stage,
         Copy, Activate, Retire, Goes, ProcType, Commands
    <3> QED
      BY <3>1, <3>2
  <2> QED
    BY <1>2, <2>2 DEF MakeDirectory, FindDirectory, OpenLockFile, Claim, ReadCurrent, Stage, Copy,
       Activate, Retire, At
<1>3. CASE \/ Initialize(p) \/ WriteUnit(p) \/ WriteRecord(p) \/ Load(p) \/ AwaitReady(p)
           \/ Pair(p) \/ LookForVault(p) \/ StopService(p) \/ Drain(p) \/ Unserve(p)
           \/ Unrecord(p) \/ Unhook(p)
  <2>1. proc[p] # None
    BY <1>3 DEF Initialize, WriteUnit, WriteRecord, Load, AwaitReady, Pair, LookForVault,
       StopService, Drain, Unserve, Unrecord, Unhook, At
  <2>2. proc'[p].at \notin Filing
    BY <1>0, <1>3, <2>1 DEF Initialize, WriteUnit, WriteRecord, Load, AwaitReady, Pair,
       LookForVault, StopService, Drain, Unserve, Unrecord, Unhook, Goes, ProcType, Commands
  <2> QED
    BY <1>3, <2>2 DEF Initialize, WriteUnit, WriteRecord, Load, AwaitReady, Pair, LookForVault,
       StopService, Drain, Unserve, Unrecord, Unhook, At
<1>4. CASE Release(p)
  <2>1. CASE proc[p].restart /\ lease = p
    <3>1. proc'[p].at = "load"
      BY <1>0, <1>4, <2>1 DEF Release, At, Goes, ProcType, Commands
    <3> QED
      BY <1>4, <2>1, <3>1 DEF Release, At
  <2>2. CASE ~(proc[p].restart /\ lease = p)
    <3>1. proc'[p] = None
      BY <1>0, <1>4, <2>2 DEF Release, Finish, Free, ProcType
    <3> QED
      BY <1>4, <2>2, <3>1 DEF Release, Finish, Free, At
  <2> QED
    BY <2>1, <2>2
<1> QED
  BY <1>1, <1>2, <1>3, <1>4 DEF Command, FileStep

\* While one command changes the files, another does not.
LEMMA FilesOthers ==
  ASSUME TypeOK, FilesInv, NEW p \in Proc, Command(p), NEW q \in Proc \ {p},
         AtWork(q) \/ AtErase(q)
  PROVE  native' = native /\ defLock' = defLock
<1>1. defLock = q /\ defLock # None /\ defLock # p
  BY Words DEF FilesInv, OneWriter
<1>2. ~AtWork(p) /\ ~AtErase(p)
  BY <1>1 DEF FilesInv, OneWriter
<1>3. FileStep(p) => Die(p)
  BY <1>1, <1>2
  DEF FileStep, Define, Undefine, WriteDefinition, ReplaceDefinition, EraseDefinition,
      RemoveDefinition, RemoveConfig, AtWork, AtErase
<1>4. CASE Die(p)
  BY <1>1, <1>2, <1>4 DEF Die, Free, AtWork
<1>5. CASE ~Die(p)
  BY <1>1, <1>3, <1>5, Elsewhere
<1> QED
  BY <1>4, <1>5

\* What the acting command writes is never a file of another program.
LEMMA WrittenIsOurs ==
  ASSUME NEW x \in Ext \cup {"torn"}, NEW f
  PROVE  Desired(f, x) \in Ext \cup {"torn", "ours"} /\ Desired(f, x) # "foreign"
  BY Words DEF Desired

LEMMA DefineFiles ==
  ASSUME TypeOK, NEW p \in Proc, Define(p) \/ Undefine(p)
  PROVE  FilesOf(p)'
<1>0. ProcType /\ proc[p] \in Commands /\ NativeType
  BY TypeParts, RunningType DEF Define, Undefine, At, TypeOK
<1>1. Len(Publish) \in Nat /\ Len(Publish) >= 2 /\ Len(Withdraw) \in Nat /\ Len(Withdraw) >= 2
  BY Orders, ManifestsType
<1>2. CASE Define(p)
  <2>1. PICK old : old = IF native["config"] = "absent" THEN None ELSE native["config"]
    OBVIOUS
  <2>2. /\ old \in Ext \cup {None}
        /\ proc' = [proc EXCEPT ![p].at = "write", ![p].old = old, ![p].k = 1]
        /\ defLock' = p /\ native' = native
    BY <1>2, <2>1 DEF Define
  <2>3. proc'[p].at = "write" /\ proc'[p].old = old /\ proc'[p].k = 1
    BY <1>0, <2>2 DEF ProcType, Commands
  <2>4. native["config"] = IF old = None THEN "absent" ELSE old
    BY <2>1, <2>2, <1>0, Words DEF NativeType
  <2>5. /\ proc'[p].k \in 1..Len(Publish) /\ ~(proc'[p].k > 1)
        /\ native'["config"] = IF proc'[p].old = None THEN "absent" ELSE proc'[p].old
    BY <1>1, <2>2, <2>3, <2>4
  <2>6. ~AtErase(p)' /\ \A f : ~Passed(p, f)'
    BY <2>3 DEF At, AtErase, Passed
  <2> QED
    BY <2>2, <2>5, <2>6 DEF FilesOf
<1>3. CASE Undefine(p)
  <2>1. PICK x \in Ext : x = native["config"]
    BY <1>3 DEF Undefine
  <2>2. proc'[p].at = "erase" /\ proc'[p].k = 1 /\ proc'[p].old = x
    BY <1>0, <1>3, <2>1 DEF Undefine, ProcType, Commands
  <2>3. \A i \in 1..Len(Manifests) : ~(i < 1)
    BY ManifestsType
  <2>4. defLock' = p /\ native' = native
    BY <1>3 DEF Undefine
  <2> QED
    BY <1>1, <2>2, <2>3, <2>4 DEF FilesOf, At, AtWork, AtErase, Passed
<1> QED
  BY <1>2, <1>3

\* A file comes to be as desired, and the next one is looked at.
LEMMA NextFiles ==
  ASSUME TypeOK, FilesInv, NEW p \in Proc, AtWork(p), NextFile(p),
         native' = [native EXCEPT ![Publish[proc[p].k]] = Desired(Publish[proc[p].k], proc[p].id)]
  PROVE  FilesOf(p)' /\ Wrapped'
<1>0. ProcType /\ proc[p] \in Commands /\ NativeType /\ FilesOf(p) /\ Wrapped
  BY TypeParts, RunningType, FilesParts DEF At, AtWork, TypeOK
<1>1. PICK k \in 1..Len(Publish) : k = proc[p].k
  BY <1>0 DEF FilesOf
<1>2. PICK x \in Ext \cup {"torn"} : x = proc[p].id
  BY <1>0 DEF Commands
<1>3. PICK f \in Files : f = Publish[k]
  BY PlacesAreFiles
<1>4. native' = [native EXCEPT ![f] = Desired(f, x)]
  BY <1>1, <1>2, <1>3
<1>5. Len(Publish) \in Nat /\ (k = 1 \/ k = Len(Publish) \/ k \in 2..(Len(Publish) - 1))
  BY Orders, ManifestsType
<1>6. "config" \in Files /\ "wrapper" \in Files /\ DOMAIN native = Files /\ DOMAIN native' = Files
  BY <1>0, <1>4 DEF Files, NativeType
<1>7. k > 1 => native["wrapper"] = "ours"
  BY <1>0, <1>1 DEF FilesOf
<1>8. k < Len(Publish) => f # "config"
  BY <1>3, <1>5, Orders, ManifestsType
<1>9. k > 1 => f # "wrapper"
  BY <1>3, <1>5, Orders, ManifestsType
<1>10. native'["wrapper"] = "ours"
  BY <1>3, <1>4, <1>5, <1>6, <1>7, <1>9, Orders DEF Desired
<1>11. Wrapped'
  BY <1>10 DEF Wrapped
<1>12. CASE k = Len(Publish)
  <2>1. proc'[p].at = "release"
    BY <1>0, <1>1, <1>12 DEF NextFile, ProcType, Commands
  <2> QED
    BY <1>11, <2>1 DEF FilesOf, At, AtWork, AtErase, Passed
<1>13. CASE k # Len(Publish)
  <2>1. proc'[p].at = "write" /\ proc'[p].k = k + 1 /\ proc'[p].old = proc[p].old /\ defLock' = p
    BY <1>0, <1>1, <1>13 DEF NextFile, ProcType, Commands
  <2>2. k + 1 \in 1..Len(Publish)
    BY <1>5, <1>13
  <2>3. native'["config"] = native["config"]
    BY <1>4, <1>5, <1>8, <1>13
  <2> QED
    BY <1>0, <1>10, <1>11, <2>1, <2>2, <2>3 DEF FilesOf, At, AtWork, AtErase, Passed
<1> QED
  BY <1>12, <1>13

LEMMA WriteFiles ==
  ASSUME TypeOK, FilesInv, NEW p \in Proc, WriteDefinition(p) \/ ReplaceDefinition(p)
  PROVE  FilesOf(p)' /\ Wrapped'
<1>0. AtWork(p) /\ FilesOf(p) /\ Wrapped /\ ProcType /\ proc[p] \in Commands
  BY TypeParts, RunningType, FilesParts DEF WriteDefinition, ReplaceDefinition, At, AtWork
<1>1. PICK f : f = Publish[proc[p].k]
  OBVIOUS
<1>2. \/ NextFile(p) /\ native' = [native EXCEPT ![f] = Desired(f, proc[p].id)]
      \/ /\ WriteDefinition(p) /\ proc[p].old # None /\ native[f] = Desired(f, proc[p].old)
         /\ proc' = [proc EXCEPT ![p].at = "put", ![p].raced = FALSE]
         /\ UNCHANGED <<native, defLock>>
  BY <1>1 DEF WriteDefinition, ReplaceDefinition
<1>3. CASE NextFile(p) /\ native' = [native EXCEPT ![f] = Desired(f, proc[p].id)]
  BY <1>0, <1>1, <1>3, NextFiles
<1>4. CASE /\ WriteDefinition(p) /\ proc[p].old # None /\ native[f] = Desired(f, proc[p].old)
           /\ proc' = [proc EXCEPT ![p].at = "put", ![p].raced = FALSE]
           /\ UNCHANGED <<native, defLock>>
  <2>1. /\ proc'[p].at = "put" /\ proc'[p].k = proc[p].k /\ proc'[p].old = proc[p].old
        /\ native' = native /\ defLock' = defLock
    BY <1>0, <1>4 DEF ProcType, Commands
  <2>2. native[f] # "foreign"
    BY <1>0, <1>4, WrittenIsOurs DEF Commands
  <2> QED
    BY <1>0, <1>1, <2>1, <2>2 DEF FilesOf, At, AtWork, AtErase, Passed, Wrapped
<1> QED
  BY <1>2, <1>3, <1>4

\* The next file of a removal, when no manifest passed names an extension.
LEMMA NextErase ==
  ASSUME TypeOK, FilesInv, NEW p \in Proc, AtErase(p),
         Withdraw[proc[p].k] # "config", native'[Withdraw[proc[p].k]] = "absent",
         \A f \in Files \ {Withdraw[proc[p].k]} : native'[f] = native[f],
         proc'[p].at = "erase", proc'[p].k = proc[p].k + 1, proc'[p].old = proc[p].old,
         defLock' = defLock
  PROVE  FilesOf(p)' /\ Wrapped'
<1>0. FilesOf(p) /\ Wrapped /\ NativeType
  BY FilesParts DEF TypeOK
<1>1. PICK k \in 1..Len(Withdraw) : k = proc[p].k
  BY <1>0 DEF FilesOf
<1>2. PICK f \in Files : f = Withdraw[k]
  BY PlacesAreFiles
<1>3. Len(Manifests) \in Nat /\ Len(Withdraw) = Len(Manifests) + 2 /\ k # Len(Manifests) + 2
  BY <1>1, Orders, ManifestsType
<1>4. ASSUME NEW i \in 1..Len(Manifests), i < k + 1 PROVE native'[Manifests[i]] \notin Ext
  <2>1. Manifests[i] \in Files
    BY ManifestsType DEF Files
  <2>2. CASE i = k
    <3>1. f = Manifests[i]
      BY <1>2, <2>2, Orders
    <3> QED
      BY <1>1, <1>2, <3>1, Words
  <2>3. CASE i # k
    <3>1. i < k /\ native[Manifests[i]] \notin Ext
      BY <1>0, <1>1, <1>4, <2>3, ManifestsType DEF FilesOf
    <3> QED
      BY <1>1, <1>2, <2>1, <3>1, Words
  <2> QED
    BY <2>2, <2>3
<1>5. Wrapped'
  <2>1. CASE k \in 1..Len(Manifests)
    <3>1. f # "wrapper"
      BY <1>2, <2>1, Orders, ManifestsType
    <3>2. \A m \in Paths : native'[m] \in Ext => native[m] \in Ext
      BY <1>1, <1>2, Words DEF Files
    <3>3. native'["wrapper"] = native["wrapper"]
      BY <1>1, <1>2, <3>1 DEF Files
    <3> QED
      BY <1>0, <3>2, <3>3 DEF Wrapped
  <2>2. CASE k = Len(Manifests) + 1
    <3>1. \A i \in 1..Len(Manifests) : native'[Manifests[i]] \notin Ext
      BY <1>3, <1>4, <2>2
    <3>2. \A m \in Paths : native'[m] \notin Ext
      BY <3>1 DEF Paths
    <3> QED
      BY <3>2 DEF Wrapped
  <2> QED
    BY <1>3, <2>1, <2>2
<1>6. k + 1 \in 1..Len(Withdraw)
  BY <1>3
<1> QED
  BY <1>0, <1>1, <1>4, <1>5, <1>6 DEF FilesOf, At, AtWork, AtErase, Passed

LEMMA EraseFiles ==
  ASSUME TypeOK, FilesInv, NEW p \in Proc,
         EraseDefinition(p) \/ RemoveDefinition(p) \/ RemoveConfig(p)
  PROVE  FilesOf(p)' /\ Wrapped'
<1>0. ProcType /\ proc[p] \in Commands /\ NativeType /\ AtErase(p) /\ FilesOf(p) /\ Wrapped
  BY TypeParts, RunningType, FilesParts
  DEF EraseDefinition, RemoveDefinition, RemoveConfig, At, AtErase, TypeOK
<1>1. PICK f \in Files : f = Withdraw[proc[p].k]
  BY <1>0, PlacesAreFiles DEF FilesOf
<1>2. CASE EraseDefinition(p) /\ native[f] = "absent" /\ proc' = [proc EXCEPT ![p].k = @ + 1]
  <2>1. proc'[p].at = "erase" /\ proc'[p].k = proc[p].k + 1 /\ proc'[p].old = proc[p].old
    BY <1>0, <1>2 DEF EraseDefinition, At, ProcType, Commands
  <2> QED
    BY <1>0, <1>1, <1>2, <2>1, NextErase DEF EraseDefinition
<1>3. CASE /\ EraseDefinition(p) /\ native[f] = Desired(f, proc[p].old)
           /\ proc' = [proc EXCEPT ![p].at = "unlink", ![p].raced = FALSE]
  <2>1. /\ proc'[p].at = "unlink" /\ proc'[p].k = proc[p].k /\ proc'[p].old = proc[p].old
        /\ native' = native /\ defLock' = defLock /\ f # "config"
    BY <1>0, <1>1, <1>3 DEF EraseDefinition, ProcType, Commands
  <2>2. native[f] # "foreign"
    BY <1>0, <1>3, WrittenIsOurs DEF FilesOf
  <2> QED
    BY <1>0, <1>1, <2>1, <2>2 DEF FilesOf, At, AtWork, AtErase, Passed, Wrapped
<1>4. CASE RemoveDefinition(p)
  <2>1. proc'[p].at = "erase" /\ proc'[p].k = proc[p].k + 1 /\ proc'[p].old = proc[p].old
    BY <1>0, <1>4 DEF RemoveDefinition, ProcType, Commands
  <2>2. native' = [native EXCEPT ![f] = "absent"] /\ defLock' = defLock /\ At(p, "unlink")
    BY <1>1, <1>4 DEF RemoveDefinition
  <2>3. f # "config"
    BY <1>0, <1>1, <2>2 DEF FilesOf
  <2>4. native'[f] = "absent" /\ \A g \in Files \ {f} : native'[g] = native[g]
    BY <1>0, <2>2 DEF NativeType
  <2> QED
    BY <1>0, <1>1, <2>1, <2>2, <2>3, <2>4, NextErase
<1>5. CASE RemoveConfig(p)
  <2>1. proc'[p].at \in {"unserve", "release"}
    BY <1>0, <1>5 DEF RemoveConfig, Goes, ProcType, Commands
  <2>2. Wrapped'
    <3>1. native' = [native EXCEPT !["config"] = "absent"] /\ "wrapper" # "config"
      BY <1>5 DEF RemoveConfig
    <3>2. \A m \in Paths : native'[m] = native[m]
      BY <3>1, ManifestsType
    <3> QED
      BY <1>0, <3>1, <3>2 DEF Wrapped
  <2> QED
    BY <2>1, <2>2 DEF FilesOf, At, AtWork, AtErase, Passed
<1> QED
  BY <1>1, <1>2, <1>3, <1>4, <1>5 DEF EraseDefinition

LEMMA DieFiles ==
  ASSUME TypeOK, FilesInv, NEW p \in Proc, Die(p)
  PROVE  FilesOf(p)' /\ Wrapped'
<1>1. proc'[p] = None
  BY DEF Die, Free, TypeOK
<1>2. FilesOf(p)'
  BY <1>1 DEF FilesOf, At, AtWork, AtErase, Passed
<1>3. CASE native' = native
  BY <1>2, <1>3 DEF FilesInv, Wrapped
<1>4. CASE native' # native
  <2>1. PICK f : /\ native[f] = "absent"
                 /\ native' = [native EXCEPT ![f] = "torn"]
    BY <1>4 DEF Die
  <2>2. Wrapped
    BY DEF FilesInv
  <2>3. \A m \in Paths : native'[m] \in Ext => native[m] \in Ext /\ m # f
    BY <2>1, Words DEF TypeOK, NativeType, Files
  <2>4. native["wrapper"] = "ours" => native'["wrapper"] = "ours"
    BY <2>1
  <2> QED
    BY <1>2, <2>2, <2>3, <2>4 DEF Wrapped
<1> QED
  BY <1>3, <1>4

\* Another program takes no command's lock and names no extension; whoever had looked
\* at its manifest has missed it.
LEMMA ForeignFiles ==
  ASSUME TypeOK, FilesInv, NEW m \in Paths, Foreign(m)
  PROVE  FilesInv'
<1>1. /\ native' = [native EXCEPT ![m] = "foreign"] /\ defLock' = defLock /\ NativeType
      /\ m # "wrapper" /\ m # "config" /\ m \in Files
  BY ForeignSteps, ManifestsType DEF TypeOK, Files
<1>2. /\ native'["config"] = native["config"] /\ native'["wrapper"] = native["wrapper"]
      /\ \A f \in Files : native'[f] \in Ext => native[f] \in Ext
      /\ \A f \in Files : f # m => native'[f] = native[f]
  BY <1>1, Words DEF NativeType
<1>3. Wrapped'
  BY <1>2 DEF FilesInv, Wrapped, Files
<1>4. ASSUME NEW p \in Proc PROVE FilesOf(p)'
  <2>1. FilesOf(p) /\ \A s : At(p, s)' => At(p, s)
    BY FilesParts, ForeignLeaves DEF At
  <2>2. AtWork(p)' \/ AtErase(p)' =>
          proc[p] # None /\ proc'[p].k = proc[p].k /\ proc'[p].old = proc[p].old
    BY <2>1, ForeignLeaves DEF At, AtWork, AtErase
  <2>3. (AtWork(p)' => AtWork(p)) /\ (AtErase(p)' => AtErase(p))
    BY <2>1 DEF AtWork, AtErase
  <2>4. ASSUME AtErase(p)', NEW i \in 1..Len(Manifests), i < proc'[p].k
        PROVE  native'[Manifests[i]] \notin Ext
    <3>1. native[Manifests[i]] \notin Ext /\ Manifests[i] \in Files
      BY <2>1, <2>2, <2>3, <2>4, ManifestsType DEF FilesOf, Files
    <3> QED
      BY <1>2, <3>1
  <2>5. ASSUME NEW f \in Files, Passed(p, f)'
        PROVE  native'[f] # "foreign" \/ proc'[p].raced
    <3>1. Passed(p, f)
      BY <2>1, <2>2, <2>5 DEF Passed, AtWork, AtErase
    <3>2. CASE f = m
      <4>1. proc[p] \in Commands /\ proc'[p] = [proc[p] EXCEPT !.raced = TRUE]
        BY <3>1, <3>2, ForeignSteps
      <4> QED
        BY <4>1 DEF Commands
    <3>3. CASE f # m
      <4>1. native[f] # "foreign" \/ proc[p].raced
        BY <2>1, <3>1 DEF FilesOf
      <4>2. proc[p].raced => proc'[p].raced
        <5>1. CASE proc'[p] = proc[p]
          BY <5>1
        <5>2. CASE proc[p] \in Commands /\ proc'[p] = [proc[p] EXCEPT !.raced = TRUE]
          BY <5>2 DEF Commands
        <5> QED
          BY <5>1, <5>2, ForeignSteps
      <4> QED
        BY <1>2, <3>3, <4>1, <4>2
    <3> QED
      BY <3>2, <3>3
  <2> QED
    BY <1>1, <1>2, <2>1, <2>2, <2>3, <2>4, <2>5 DEF FilesOf
<1> QED
  BY <1>3, <1>4 DEF FilesInv, OneWriter, Writing, Erasing, LookedAt, FilesOf

LEMMA FilesNext ==
  ASSUME TypeOK, FilesInv, Next
  PROVE  FilesInv'
<1>1. ASSUME NEW p \in Proc, Command(p) PROVE FilesInv'
  <2>1. FilesOf(p)' /\ Wrapped'
    <3>1. CASE Define(p) \/ Undefine(p)
      <4>1. native' = native
        BY <3>1 DEF Define, Undefine
      <4> QED
        BY <3>1, <4>1, DefineFiles DEF FilesInv, Wrapped
    <3>2. CASE WriteDefinition(p) \/ ReplaceDefinition(p)
      BY <3>2, WriteFiles
    <3>3. CASE EraseDefinition(p) \/ RemoveDefinition(p) \/ RemoveConfig(p)
      BY <3>3, EraseFiles
    <3>4. CASE Die(p)
      BY <3>4, DieFiles
    <3>5. CASE ~FileStep(p)
      <4>1. native' = native /\ ~AtWork(p)' /\ ~AtErase(p)'
        BY <1>1, <3>5, Elsewhere
      <4> QED
        BY <4>1 DEF FilesOf, FilesInv, Wrapped, Passed, AtWork, AtErase
    <3> QED
      BY <3>1, <3>2, <3>3, <3>4, <3>5 DEF FileStep
  <2>2. ASSUME NEW q \in Proc \ {p} PROVE FilesOf(q)'
    <3>1. proc'[q] = proc[q]
      BY <1>1, OthersKeepLease
    <3>2. CASE AtWork(q) \/ AtErase(q)
      <4>1. native' = native /\ defLock' = defLock
        BY <1>1, <3>2, FilesOthers
      <4> QED
        BY <3>1, <4>1, FilesParts DEF FilesOf, At, AtWork, AtErase, Passed
    <3>3. CASE ~AtWork(q) /\ ~AtErase(q)
      BY <3>1, <3>3 DEF FilesOf, At, AtWork, AtErase, Passed
    <3> QED
      BY <3>2, <3>3
  <2>3. \A q \in Proc : FilesOf(q)'
    BY <2>1, <2>2
  <2> QED
    BY <2>1, <2>3 DEF FilesInv, OneWriter, Writing, Erasing, LookedAt, FilesOf
<1>2. CASE InitCommand \/ Serve \/ DaemonOpens \/ DaemonStops
  <2>1. UNCHANGED <<native, defLock, proc>>
    BY <1>2 DEF InitCommand, Serve, DaemonOpens, DaemonStops
  <2> QED
    BY <2>1
    DEF FilesInv, OneWriter, Writing, Erasing, LookedAt, Wrapped, At, AtWork, AtErase, Passed
<1> QED
  BY <1>1, <1>2, ForeignFiles DEF Next

LEMMA FilesStutter == FilesInv /\ UNCHANGED vars => FilesInv'
  BY DEF FilesInv, OneWriter, Writing, Erasing, LookedAt, Wrapped, At, AtWork, AtErase, Passed, vars

-----------------------------------------------------------------------------
(* The theorems. *)

Inv == TypeOK /\ LeaseInv /\ FilesInv

LEMMA InvNext ==
  ASSUME Inv, [Next]_vars PROVE Inv'
<1>1. CASE Next
  <2>1. Writing /\ Erasing
    BY DEF Inv, FilesInv
  <2> QED
    BY <1>1, <2>1, TypeNext, LeaseNext, FilesNext DEF Inv
<1>2. CASE UNCHANGED vars
  BY <1>2, TypeStutter, LeaseStutter, FilesStutter DEF Inv
<1> QED
  BY <1>1, <1>2

\* Every state is of the declared types, a command that found a vault holds the lease
\* from the wait for it to the swap, and the files of the native host are in the order
\* of a registration or a removal (setup.rs, drained; native.rs, install and remove).
THEOREM InstallationInvariant == Spec => []Inv
<1>1. Init => Inv
  BY TypeInit, LeaseInit, FilesInit DEF Inv
<1>2. Inv /\ [Next]_vars => Inv'
  BY InvNext
<1> QED
  BY <1>1, <1>2, PTL DEF Spec

\* Only these two steps replace the application or take it away.
LEMMA SwapSteps ==
  ASSUME TypeOK, [Next]_vars, Swaps
  PROVE  \E p \in Proc : Activate(p) \/ Retire(p)
<1> SUFFICES ASSUME \A p \in Proc : ~Activate(p) /\ ~Retire(p) PROVE FALSE
  OBVIOUS
<1> DEFINE Same == \A d \in DOMAIN dir : dir'[d].current = dir[d].current
<1>0. \A d \in DOMAIN dir : dir[d] \in Dir
  BY DEF TypeOK
<1>1. SUFFICES Same /\ (app # 0 => app' # 0)
  BY DEF Swaps, Replaces
<1>2. ASSUME NEW p \in Proc, Command(p) PROVE Same /\ (app # 0 => app' # 0)
  <2>1. CASE MakeDirectory(p)
    BY <2>1 DEF MakeDirectory, TypeOK
  <2>2. CASE OpenLockFile(p)
    <3>1. ASSUME NEW d \in DOMAIN dir
          PROVE  dir'[d] = dir[d] \/ dir'[d] = [dir[d] EXCEPT !.lockFile = TRUE]
      BY <2>2 DEF OpenLockFile
    <3> QED
      BY <1>0, <2>2, <3>1 DEF OpenLockFile, Dir
  <2>3. CASE Claim(p)
    <3>1. ASSUME NEW d \in DOMAIN dir
          PROVE  \/ dir'[d] = dir[d]
                 \/ \E o : dir'[d] = [dir[d] EXCEPT !.holder = p, !.owned = o]
      BY <2>3 DEF Claim
    <3>2. UNCHANGED app
      BY <2>3 DEF Claim
    <3> QED
      BY <1>0, <3>1, <3>2 DEF Dir
  <2>4. ASSUME Free(p) PROVE Same
    <3>1. ASSUME NEW d \in DOMAIN dir
          PROVE  dir'[d] = dir[d] \/ dir'[d] = [dir[d] EXCEPT !.holder = None]
      BY <2>4 DEF Free
    <3> QED
      BY <1>0, <3>1 DEF Dir
  <2>5. CASE Release(p) \/ Die(p)
    BY <2>4, <2>5 DEF Release, Finish, Die
  <2>6. CASE UNCHANGED <<app, dir>>
    BY <2>6
  <2> QED
    BY <1>2, <2>1, <2>2, <2>3, <2>5, <2>6 DEF Command, Begin, FindDirectory, ReadCurrent, Stage,
       Copy, Initialize, WriteUnit, WriteRecord, Load, AwaitReady, Pair, LookForVault, StopService,
       Drain, Unserve, Unrecord, Define, WriteDefinition, ReplaceDefinition, Unhook, Undefine,
       EraseDefinition, RemoveDefinition, RemoveConfig
<1>3. CASE \/ InitCommand \/ Serve \/ DaemonOpens \/ DaemonStops
           \/ UNCHANGED vars \/ \E m \in Paths : Foreign(m)
  BY <1>3 DEF InitCommand, Serve, DaemonOpens, DaemonStops, Foreign, vars
<1> QED
  BY <1>2, <1>3 DEF Next

\* A command that found a vault replaces or retires the application only while it holds
\* the writer's lease itself and no daemon runs (setup.rs, drained and its callers).
THEOREM LeaseThroughSwapHolds == Spec => LeaseThroughSwap
<1> DEFINE A == Swaps => \E p \in Proc : /\ proc'[p] # proc[p] /\ proc[p] # None
                                         /\ proc[p].init => (lease = p /\ ~Running)
<1>1. Inv /\ [Next]_vars => A
  <2> SUFFICES ASSUME Inv, [Next]_vars, Swaps
               PROVE  \E p \in Proc : /\ proc'[p] # proc[p] /\ proc[p] # None
                                      /\ proc[p].init => (lease = p /\ ~Running)
    OBVIOUS
  <2>1. PICK p \in Proc : Activate(p) \/ Retire(p)
    BY SwapSteps DEF Inv
  <2>2. proc[p] # None /\ proc[p].at \in {"activate", "retire"}
    BY <2>1 DEF Activate, Retire, At
  <2>3. proc'[p].at \notin {"activate", "retire"}
    BY <2>1, <2>2, RunningType DEF Activate, Retire, Goes, Inv, TypeOK, Commands
  <2>4. proc[p].init => lease = p
    BY <2>2 DEF Inv, LeaseInv, Late
  <2>5. lease = p => ~Running
    BY InstallationAssumption DEF Inv, LeaseInv
  <2> QED
    BY <2>2, <2>3, <2>4, <2>5
<1>2. Spec => [][A]_vars
  BY <1>1, InstallationInvariant, PTL DEF Spec
<1> QED
  BY <1>2 DEF LeaseThroughSwap

\* The steps that change the files.
LEMMA NativeSteps ==
  ASSUME TypeOK, [Next]_vars, native' # native
  PROVE  \/ \E p \in Proc : \/ WriteDefinition(p) \/ ReplaceDefinition(p)
                            \/ RemoveDefinition(p) \/ RemoveConfig(p) \/ Die(p)
         \/ \E m \in Paths : Foreign(m)
<1>1. ASSUME NEW p \in Proc, Command(p)
      PROVE  \/ WriteDefinition(p) \/ ReplaceDefinition(p)
             \/ RemoveDefinition(p) \/ RemoveConfig(p) \/ Die(p)
  BY <1>1, Elsewhere DEF FileStep, Define, Undefine, EraseDefinition
<1>2. CASE \/ InitCommand \/ Serve \/ DaemonOpens \/ DaemonStops
           \/ UNCHANGED vars
  BY <1>2 DEF InitCommand, Serve, DaemonOpens, DaemonStops, vars
<1> QED
  BY <1>1, <1>2 DEF Next

\* Another program's manifest, whenever it comes, is lost only to a command that had
\* looked at the path for the last time before (native.rs, "never foreign bytes", "Never
\* remove another installation's manifest").
THEOREM ForeignKeptHolds == Spec => ForeignKept
<1> DEFINE A == \A f \in DOMAIN native : native[f] = "foreign" /\ native'[f] # "foreign" =>
                  \E p \in Proc : Passed(p, f) /\ proc[p].raced
<1>1. Inv /\ [Next]_vars => A
  <2> SUFFICES ASSUME Inv, [Next]_vars, NEW f \in DOMAIN native,
                      native[f] = "foreign", native'[f] # "foreign"
               PROVE  \E p \in Proc : Passed(p, f) /\ proc[p].raced
    OBVIOUS
  <2>0. TypeOK /\ NativeType /\ f \in Files /\ FilesInv /\ native' # native
    BY DEF Inv, TypeOK, NativeType
  <2>1. ASSUME NEW m \in Paths, Foreign(m) PROVE FALSE
    BY <2>0, <2>1 DEF Foreign, NativeType
  <2>2. PICK p \in Proc : \/ WriteDefinition(p) \/ ReplaceDefinition(p)
                          \/ RemoveDefinition(p) \/ RemoveConfig(p) \/ Die(p)
    BY <2>0, <2>1, NativeSteps
  <2>3. ~Die(p)
    BY <2>0, Words DEF Die
  <2>4. ~RemoveConfig(p)
    BY <2>0, Words DEF RemoveConfig, NativeType
  <2>5. ~WriteDefinition(p)
    <3> SUFFICES ASSUME WriteDefinition(p) PROVE FALSE
      OBVIOUS
    <3>1. PICK g : g = Publish[proc[p].k]
      OBVIOUS
    <3>2. /\ native[g] \in {"absent", Desired(g, proc[p].id)}
          /\ native' = [native EXCEPT ![g] = Desired(g, proc[p].id)]
      BY <2>0, <3>1 DEF WriteDefinition
    <3>3. f = g /\ native[g] = Desired(g, proc[p].id)
      BY <2>0, <3>2 DEF NativeType
    <3> QED
      BY <3>2, <3>3
  <2>6. CASE ReplaceDefinition(p)
    <3>1. At(p, "put") /\ f = Publish[proc[p].k]
      BY <2>0, <2>6 DEF ReplaceDefinition, NativeType
    <3> QED
      BY <2>0, <3>1 DEF Passed, FilesInv, LookedAt
  <2>7. CASE RemoveDefinition(p)
    <3>1. At(p, "unlink") /\ f = Withdraw[proc[p].k]
      BY <2>0, <2>7 DEF RemoveDefinition, NativeType
    <3> QED
      BY <2>0, <3>1 DEF Passed, FilesInv, LookedAt
  <2> QED
    BY <2>2, <2>3, <2>4, <2>5, <2>6, <2>7
<1>2. Spec => [][A]_vars
  BY <1>1, InstallationInvariant, PTL DEF Spec
<1> QED
  BY <1>2 DEF ForeignKept

\* An extension that could not connect comes to be admitted only by the step that
\* completes a registration of it, or by repairing one that named it before
\* (native.rs, "Config is last").
THEOREM NeverBroadensHolds == Spec => NeverBroadens
<1> DEFINE A == \A x \in Admitted' \ Admitted :
                  \E p \in Proc : /\ At(p, "write") \/ At(p, "put")
                                  /\ proc[p].id = x
                                  /\ proc[p].k = Len(Publish) \/ proc[p].old = x
<1>1. Inv /\ [Next]_vars => A
  <2> SUFFICES ASSUME Inv, [Next]_vars, NEW x \in Admitted' \ Admitted
               PROVE  \E p \in Proc : /\ At(p, "write") \/ At(p, "put")
                                      /\ proc[p].id = x
                                      /\ proc[p].k = Len(Publish) \/ proc[p].old = x
    OBVIOUS
  <2>0. /\ TypeOK /\ NativeType
        /\ x \in Ext /\ native'["wrapper"] = "ours" /\ native'["config"] = x
        /\ \E m \in Paths : native'[m] = x
    BY DEF Inv, TypeOK, Admitted
  <2>1. PICK m \in Paths : native'[m] = x
    BY <2>0
  <2>2. ~(native["wrapper"] = "ours" /\ native["config"] = x /\ native[m] = x)
    BY <2>0 DEF Admitted
  <2>3. native' # native
    BY <2>0, <2>1, <2>2
  <2>4. "absent" \notin {"ours", x} /\ "torn" \notin {"ours", x} /\ "foreign" \notin {"ours", x}
    BY <2>0, Words
  <2>5. ASSUME NEW f, NEW y \in {"absent", "torn", "foreign"}, native' = [native EXCEPT ![f] = y]
        PROVE  FALSE
    <3>1. "wrapper" \in DOMAIN native /\ "config" \in DOMAIN native /\ m \in DOMAIN native
      BY <2>0 DEF NativeType, Files
    <3> QED
      BY <2>0, <2>1, <2>2, <2>4, <2>5, <3>1
  <2>5a. ASSUME NEW n \in Paths PROVE ~Foreign(n)
    BY <2>5 DEF Foreign
  <2>5b. ASSUME NEW p \in Proc PROVE ~RemoveDefinition(p) /\ ~RemoveConfig(p) /\ ~Die(p)
    BY <2>3, <2>5 DEF RemoveDefinition, RemoveConfig, Die
  <2>6. PICK p \in Proc : AtWork(p) /\ (WriteDefinition(p) \/ ReplaceDefinition(p))
    BY <2>0, <2>3, <2>5a, <2>5b, NativeSteps DEF WriteDefinition, ReplaceDefinition, AtWork
  <2>7. PICK k \in 1..Len(Publish), f \in Files, id \in Ext \cup {"torn"} :
          /\ k = proc[p].k /\ f = Publish[k] /\ id = proc[p].id
          /\ native' = [native EXCEPT ![f] = Desired(f, id)]
    <3>1. proc[p].k \in 1..Len(Publish)
      BY <2>6 DEF Inv, FilesInv, Writing
    <3>2. proc[p].id \in Ext \cup {"torn"}
      BY <2>0, <2>6, RunningType DEF At, AtWork, Commands
    <3> QED
      BY <2>3, <2>6, <3>1, <3>2, PlacesAreFiles DEF WriteDefinition, ReplaceDefinition
  <2>8. native["config"] = IF proc[p].old = None THEN "absent" ELSE proc[p].old
    BY <2>6 DEF Inv, FilesInv, Writing
  <2>9. "config" \in DOMAIN native /\ m \in DOMAIN native
    BY <2>0 DEF NativeType, Files
  <2>10. CASE k = Len(Publish)
    <3>1. f = "config"
      BY <2>7, <2>10, Orders
    <3>2. id = x
      BY <2>0, <2>7, <2>9, <3>1 DEF Desired
    <3> QED
      BY <2>6, <2>7, <2>10, <3>2 DEF AtWork
  <2>11. CASE k # Len(Publish)
    <3>1. Len(Publish) \in Nat /\ (k = 1 \/ k \in 2..(Len(Publish) - 1))
      BY <2>11, Orders, ManifestsType
    <3>2. f = "wrapper" \/ f \in Paths
      BY <2>7, <3>1, Orders
    <3>3. f # "config"
      BY <3>2, ManifestsType
    <3>4. native["config"] = x
      BY <2>0, <2>7, <2>9, <3>3
    <3>5. proc[p].old = x
      BY <2>4, <2>8, <3>4
    <3>6. id = x
      <4>1. CASE f = m
        BY <2>1, <2>7, <2>9, <4>1, ManifestsType DEF Desired
      <4>2. CASE f # m
        <5>1. native[m] = x
          BY <2>1, <2>7, <2>9, <4>2
        <5>2. native["wrapper"] = "ours"
          BY <2>0, <5>1 DEF Inv, FilesInv, Wrapped
        <5> QED
          BY <2>2, <3>4, <5>1, <5>2
      <4> QED
        BY <4>1, <4>2
    <3> QED
      BY <2>6, <2>7, <3>5, <3>6 DEF AtWork
  <2> QED
    BY <2>10, <2>11
<1>2. Spec => [][A]_vars
  BY <1>1, InstallationInvariant, PTL DEF Spec
<1> QED
  BY <1>2 DEF NeverBroadens

=============================================================================
