# Verification of MagicVault

MagicVault is a local credential broker. A daemon (`magicvault-service`) holds
credentials in an encrypted store (`magicvault-core`); paired clients (a CLI or an
MCP server) ask it to *use* a credential — in a registered process, an HTTP request, a
browser form — and never see it. A human approves each use in a native dialog. This
directory holds TLA+ models of that code, TLC configurations that check them on small
instances, and proofs checked by TLAPS for every value of the constants.

`PROJECT.json` maps each definition to the source lines it models, each property to a
run and to a faulty variant of the code that breaks it, and lists the hazards.

## 1. The system

| Component | Code | State | Operations | How it interacts |
|---|---|---|---|---|
| Broker service | `service/src/broker.rs` | registry (peers, profiles, consents), jobs, epochs, fault flag under one mutex; one human permit; shutdown token | pair, enroll, request_access, revoke, stop, quiesce | connections of `ipc::serve` call it; it writes `clients.json` and the audit log |
| Delivery broker | `broker/delivery.rs`, `broker/consent.rs` | delivery jobs, spent operations, remembered consents | register/remove a destination, secure_delivery, status, cancel, revoke consent | reserves the permit in a transaction, then a spawned task prompts, authorizes, runs the effect, completes |
| Effects | `effect/src/{http,process}.rs` | one request or child process | start, dispatch, cancel, settle | called by the task; answer with an outcome and `may_have_run` |
| Browser broker | `broker/browser.rs`, `broker/browser/prompt.rs` | browser instances, target handles, fills, permissions, native grants, session consents | authorize_native, targets, secure_fill, disconnect, prompt_fill | adapters (CDP or extension) are asked between transactions |
| Browser adapters | `effect/src/{cdp,bridge}.rs`, `extension/worker.js` | sessions, pages, frames | discover, fill | native-messaging socket or CDP |
| One-time custody | `core/src/one_time.rs`, `store.rs` 1671–1826 | codes, reservations, generation counter | register, reserve, consume, release, cancel, sweep, retire | under the store's write lock; journaled after it |
| Plain ephemeral entries | `core/src/store.rs` 1465–1667 | values with an optional deadline | register, get, sweep, clear | clock read before the lock |
| Secret store | `core/src/store.rs` | provisioned, captured and OAuth partitions, each a map, a file and a status | store, delete, capture, clear, flush, write and take OAuth documents, open | state lock, one lock per file, durable writes; OAuth commits keep the state lock |
| Captured sessions | `core/src/store.rs` 1828–2451, `injection.rs` 183–362 | an entry per origin with a generation and a stale mark | capture, evict, clear, get_session, mark stale or fresh | merges without a lock; a lease names generations |
| Access policy and grants | `core/src/policy.rs`, `store.rs` 1182–1463 | daily counts, challenges, approvals, grants, each under a lock of its own | evaluate, approve, issue, redeem (alone or in a batch), discard, record a use | called by hosts on several threads |
| Durable writes | `primitives/src/durable_io.rs`, `private_fs.rs` | files | temp, sync, rename, sync directory | used by every persistent part |
| Native prompt | `service/src/human.rs`, `magicvault-prompt` | a dialog | ask, cancel | blocking; one at a time by the permit |
| Installation, lease | `magicvault/src/setup.rs`, `service/src/{storage,installation,native,service_linux,launch_agent}.rs` | application directory and its `current` link, instance file, service unit, native-host files, three lock files | setup, upgrade, uninstall, add and remove an extension, init, serve | processes that meet only in the file system |
| CLI, MCP, native host, protocol | `magicvault`, `magicvault-mcp`, `magicvault-protocol`, `service/src/client.rs` | none | parse, call, print | each call reads the daemon's incarnation (`status.epoch`) and addresses its request to that one |

What is hard, by component:

- **Delivery broker.** Every handler takes the same mutex, but a delivery is four
  transactions and two waits: registrations, revocations, cancellations, shutdown and
  crash fall between them. The human answers late or never. Durable writes fail before
  or after they took effect. A client repeats what it got no reply to. Correct means:
  one incarnation of the daemon runs an operation at most once, and only on a request
  addressed to it, on what the human read, under authority that still stands; its
  receipt never denies what may have happened; the permit always comes back. *Not*
  promised, by the code or here, is one use over restarts: the daemon forgets which
  operations it admitted, a client that calls again reads the new incarnation
  (`client.rs` 57–65), and its old operation identifier is then admitted as a new use
  (`docs/protocol.md` 190–192, 240–243; `docs/delivery-usage.md` 185–193).
- **Registry.** Memory and disk must agree after any failed write and any crash; what
  is on disk must be accepted at the next start; a revoked consent must not return.
- **Browser broker.** The same, plus an adapter that answers between two transactions,
  handles that may be used once, and consents that end with a session.
- **Access.** Two files are written one after the other, and an access request is decided
  by a human after its job expired, was reaped or was revoked.
- **One-time custody.** Holders keep a reservation while the code expires, is cancelled
  or superseded; they retry; the clock is the wall clock. Correct means one submission,
  of the newest code, by its holder, in time.
- **Plain ephemeral entries.** Values and deadlines are two maps; the clock was read
  before the lock was waited for. Correct means a value ends at its own deadline.
- **Secret store and durable writes.** A commit may fail after the rename, a rename may be
  undone by a power failure, two writers of one file may pass each other, and a file may
  be unreadable when the store is opened. Correct means: what callers were told is true
  of every file a restart may read.
- **Captured sessions.** Captures merge into what they read earlier; a rejected replay
  must mark what it used and nothing newer.
- **Policy and grants.** Each call takes several locks in turn while entries, days and
  approvals change. Correct means: a grant reaches only what the policy covers, and an
  approval and a grant are spent once.
- **Installation.** Commands and daemons are killed at any point and see each other's
  files half written, and other programs write manifests to the same paths.

`PROJECT.json` "hazards" lists them line by line with the properties that cover them.

## 2. Modules

| Module | What it is |
|---|---|
| `DeliveryBroker` | the delivery broker with the parts of the broker service it shares state with |
| `OneUse` | abstract: what the owner of an operation and the recipient may rely on in each life of the daemon |
| `DeliveryRefinement` | DeliveryBroker with a history variable, and its mapping to `OneUse` |
| `DeliveryBroker_proofs`, `DeliveryRefinement_proofs` | theorems about DeliveryBroker, and that it implements `OneUse` |
| `OneTime` | the one-time code table with the store's sweeps, clock and journal |
| `OneTime_proofs` | theorems about OneTime |
| `BrowserBroker`, `BrowserBroker_proofs` | the browser half of the broker, with its adapters up to the wire; theorems about it |
| `Access`, `Access_proofs` | pairing, enrolment, access requests, revocation, and the two files they are kept in; theorems about them |
| `SecretStore`, `SecretStore_proofs` | the durable partitions: maps, files, locks, failures, opening; theorems about them |
| `CapturedSession` | captured entries: merging, eviction, replay, leases |
| `Grants` | policies, requested domains, approvals, daily counts, single-use grants |
| `EphemeralEntries` | values typed for one run, with or without a deadline |
| `Tables_proofs` | theorems about Grants, CapturedSession and EphemeralEntries, one part for each |
| `Installation`, `Installation_proofs` | the installing commands, the daemon's start and stop, and their files; theorems about them |
| `MCDelivery`, `MCDeliveryRefinement`, `MCOneTime`, `MCBrowser`, `MCStore`, `MCInstallation` | instances for TLC |
| `MCTables` | one instance of Grants, CapturedSession, Access and EphemeralEntries together |

### DeliveryBroker and the code

One transaction of the code (`Broker::transaction`, one mutex) is one action, with every
write in it: audit line, save, epoch, cancellation. The authorization is the exception:
it looks at the clock and the shutdown token again after its disk writes, so it is
`Authorize` (keeps `lock`) and then `Release` or `ReleaseRefused`.

| Model | Code |
|---|---|
| `reg`, `disk`, `faulted` | `State.registry`, `clients.json`, the fault flag set by `save` and `audit` |
| `job`, `spent`, `cancel`, `late` | `DeliveryJobs.jobs`, `.spent`, cancellation tokens, deadline timers |
| `pc`, `ticket`, `result` | where `run_delivery` is, its `ConsentTicket`, the outcome it will publish |
| `gate`, `admin` | the human permit, and the administrative request that holds it |
| `phase`, `shutdown`, `epoch` | `ipc::serve`, the token, the daemon's incarnation |
| `issued`, `Issue` | the incarnations an operation's requests were addressed to; `Client::call`, which reads the present one and may do so again after a restart |
| `log` | what this incarnation appended to the audit log |
| `runs`, `revoked`, `void` | ghosts: dispatches of this incarnation, acknowledged revocations, decisions that became void |
| `Reserve`, `Spawn` | `secure_delivery`: the admission transaction, the handover to the task |
| `Decide`, `PromptExpires`, `PromptCancelled` | the human's answer, its deadline, cancellation |
| `Authorize*`, `Release*` | the authorization transaction of `run_delivery` with `authorize_use` |
| `EffectStarts`, `EffectCancelled`, `Dispatch`, `NotDispatched`, `Settled` | the executor up to, at, and after the point where the recipient may act |
| `Complete` | the completion transaction: audit, receipt, permit |
| `RemoveProfile`, `RevokeConsent`, `ClearConsents` | `remove_delivery`, `revoke_consent` |
| `RegisterBegin` … `AdminEnd` | `register_delivery`, `revoke`, `Stop`: check, prompt, commit |
| `Signal`, `StopAccepting`, `Drained`, `StopAll`, `QuiesceAcquire`, `Exit` | signal handler, end of the accept loop, abort of late connections, `quiesce` |
| `Crash`, `Restart` | loss of memory at any point; `with_components`, which refuses an invalid file |

A save or an audit either happens, or fails without effect, or fails having taken effect
(`Persist`, `AuditFails`): that is what `write_bytes_durably_with_mode_sync` leaves open.
Data is abstract: what a human reads of a destination is a number (`content`), fresh for
every registration. Labels, request-kind mismatches, list and status reads are left out.
Which clients hold which credentials (`Usable`) is a constant here; pairing and enrolment
are in Access.

A request that was sent stays on its way for ever and may arrive any number of times, in
any incarnation: `issued` is a set that only grows, and `ThisIncarnation` is the one check
that keeps a request of an earlier life out. `DeliveryRefinement` adds the history variable
`given`, which counts for every incarnation what it gave the recipient (the broker's
`runs` starts again with each incarnation), and maps it to the variable of the same name of
`OneUse`.

### OneTime and the code

`entries`, `reservations` and `nextGeneration` are `OneTimeTable`; `Key` joins the two
names the way the code does, so that different pairs may have the same key. Each store
method takes the write lock, reads the clock, changes the table and journals afterwards;
it is one action. `register` and `reserve` sweep every due entry first, the others touch
one. `journal` counts the final lines of each code (appending them is best effort, in any
order, and decides nothing). `Tick` moves the clock anywhere, back as well. `code`,
`attempt`, `newest` and `spent` are ghosts. The adapter that holds a reservation is
external: it may consume or release, once, twice, or never, at any time.

### BrowserBroker and the code

A transaction is one action, as in DeliveryBroker; what lies between two transactions (the
adapter's answer, a dialog) is an action of its own.

| Model | Code |
|---|---|
| `reg`, `disk`, `epochs`, `faulted` | permissions, native grants and consents of the registry, `clients.json`, consent epochs, the fault flag |
| `inst`, `bound`, `job`, `spent` | `BrowserState.instances`, `.targets`, `.fills`, `.used_operations` |
| `pc`, `ticket`, `result`, `cancel`, `gate`, `admin` | the task of a fill, what it captured, its outcome, its token, the permit and who holds it |
| `conn`, `probe`, `link`, `wire`, `page`, `flight` | native connections, a discovery in progress, the adapter's socket and exchange, the document a tab shows, fills on their way to the page |
| `NativeHello` … `NativeRegister` | `accept_native`, `authorize_native`, `register_adapter` |
| `BrowserTargets`, `TargetsFound`, `TargetsFail`, `BindTargets` | `browser_targets` and the adapter's discovery |
| `SecureFill`, `SecurePromptFill`, `Spawn`, `Decide`, `Authorize*` | `secure_fill`, `secure_prompt_fill`, `prompt_fill`, the authorization transaction |
| `EffectStarts` … `Cut`, `Complete` | `perform_fill` of bridge.rs and cdp.rs, `complete_fill` |
| `ConfigureBegin/Commit`, `DisconnectBrowser`, `RevokeConsent`, `ClearConsents`, `Revoke*` | the administrative requests |

`Acts` is the page: external, it may write all, some or none of the fields long after the
daemon gave up. Time is not modelled: a handle may be forgotten, a prompt may expire and
an exchange may be cut at any moment. OneUse is not refined by fills: a page may still
write after the receipt says `uncertain`, which OneUse does not allow a recipient;
HonestFill says what a receipt promises here.

Every client has the credentials `Cred` for as long as it is paired, since no operation
takes a reference from a paired client; the part of `valid_permissions` that looks for the
reference and its fields (`browser.rs` 198–203) therefore always holds and is not in
`ValidRegistry`. Access has the references. In DisconnectForgets an approval counts when it
is committed: the code does not look again at what happened while its dialog was open, so an
answer given before a disconnect and committed after it approves the profile again.

### Access and the code

`peers`, `clients`, `vault`, `vaultFile` are the registry and the credentials, in memory
and on disk; `dialog` is the request that holds the permit, with the step it is at. Every
transaction starts from `ReapedJobs`. `StoresFirst` is the order of `enroll`: the
credential reaches its file before the reference that names it. A daemon starts on any
files it accepts (`Acceptable` is the check of `with_components`), so Init has all of them.

### SecretStore and the code

`mem` and `file` are the three maps and files; `older` holds files that a power failure
may bring back until the directory was synced; `saved` is what quarantine moved aside.
`pen` is the lock of a partition's file, `guard` the state lock kept over an OAuth commit.
A call goes through the steps `mark`, `persist`, `locked`, `publish`, `sync` (captured and
provisioned) or `commit`, `settle` (OAuth); each may fail. `Open` has the three ways to open
a store (`SecretStore::new`, `open`, the resolver) and what may be wrong with a file.

### CapturedSession, Grants, EphemeralEntries and the code

`Capture` is the read of the entry and the merge, `Insert` the write of the result, so that
captures overlap as threads do. A content maps cookies and items to the number of the
capture that saw them. `Applies` is the cookie filter on labels and path segments.

In Grants one lock section is one action: `Evaluate` reads the entry, `Reap` and `Consume`
are `ApprovalTable::consume`, `Challenge` is `issue`; `IssueGrant` reads the entry again;
`ReadLimit` and `RecordUse` are `record_usage`; `RedeemBatch` checks and reads the clock,
`BatchRedeemed` holds the lock. Host names are sequences of labels and `Reaches` is the
domain part of `check_policy`; `Covered` in WithinReach is the independent definition it
is checked against. Fields and targets of a grant are left out: issuing copies them. The
fingerprint of a request is a tuple: the code joins its parts with `|` for requests of no
or one domain (`request_fingerprint`), so that names which contain that character could
meet there and do not meet here.

EphemeralEntries has one action per call, with the reading of the wall clock as an input:
it was taken before the lock, so any value may come in any order. Keys join two names as
the code does.

### Installation and the code

Each command is a process with a step (`proc`); directories and version trees are numbered
as they are made, so that a command may hold a lock file in a directory that no longer has
the path. `Publish` and `Withdraw` are the orders in which the native host's files are
written and removed, `Die` a refusal, failure or kill at any step, which may leave a file
incomplete. `Foreign` is another program that takes a manifest's place, at any moment and
any number of times. Every file is looked at in the preflight and again just before it is
written or removed; a file that is to be created is created only if it is absent
(`create_new`), one that is to be replaced or removed is looked at (`WriteDefinition`,
`EraseDefinition`) and then renamed over or unlinked (`ReplaceDefinition`,
`RemoveDefinition`), and between these two steps the code cannot see another program's
write. ForeignKept says that this window is the only one. Windows differs in how links and services are made and is left out.

## 3. Runs

| Run | Question | Bounds |
|---|---|---|
| `delivery_admission` | two operations of one client compete for the permit while their destination is registered, removed and registered again with another content, consents are reset, writes fail and the daemon stops, crashes and starts again: OneWorkflow, FinishedIsReleased, HonestReceipt, VoidNeverRuns, ReleaseAsApproved, FaultFreezes, and the refinement ImplementsOneUse | 1 client, 1 destination with 2 contents, 2 operations that may be sent in both incarnations, 1 remembered consent, 1 reset; 2 incarnations, the second where no consent was remembered or reset and the destination was registered once (`Family`) |
| `delivery_restart` | what survives a crash: AtMostOnce, AuditedFirst, ConsentBindsContent, RevokedStaysRevoked, DiskReopens | 2 clients, 2 destinations, 2 registrations, 2 consents of which the registry holds 1, 2 incarnations, 1 operation that may be sent in both |
| `delivery_liveness` | under fairness: EveryTaskEnds, ShutdownEnds | 1 of each, 1 incarnation; no symmetry |
| `onetime_codes` | SpentOnce, JournaledOnce, NewestOnly, HolderSubmits, InTime | 2 executions, 2 inputs, 3 keys (two pairs share one), 2 codes bound to a destination and a challenge, 2 reservations, two claims, clock 0–2 with retention 1 |
| `onetime_superseded` | expected violation, see Findings | 1 name |
| `browser_fills` | two fills, target handles, rediscovery, withdrawal, a page that acts late: HandleUsedOnce, HonestFill, VoidNeverFills, TakenUnderAuthority | 1 client, 1 credential, 2 operations, 2 target handles, an automation endpoint, 1 incarnation |
| `browser_restart` | native connections, disconnects, failing writes, crash, pages replaced before a fill reaches them: NoUnattendedLoop, DisconnectForgets, BrowserReopens, ConsentStaysRevoked | 2 connections, 2 browser handles, 1 target, 2 documents, 1 operation, 2 incarnations; two families of behaviours (`Family`) |
| `store_commits` | AckedSurvives, DiskFollowsMemory, TakenIsGone | 1 secret, 1 origin, 2 documents of one record, 2 threads, 5 calls, opened twice, damaged files, failures of every write, power failures |
| `store_unread` | expected violation, see Findings | 2 secrets, 1 thread |
| `installation_commands` | LeaseThroughSwap, NeverBroadens, ForeignKept | 3 commands of any kind, 2 at a time, 2 versions, 2 extensions, 2 manifests, each of which another program may take at any moment |
| `installation_swap` | expected violation, see Findings | the same |
| `store_tables` | four tables that share no state: WithinReach, SpentAtMostOnce (Grants); RejectsWhatWasUsed (CapturedSession); AccessReopens, AllowedIsKept, AnswerStands (Access); HeldForItsTerm (EphemeralEntries) | below |

`store_tables` lets one of its four modules move while the others are at rest, so its
states are the sum of theirs. Threads, capturers and clients share two names, references
and request identifiers two, so that permuting them is sound for each module. Grants: one
secret, four policies (none listed, a host, a suffix, everything), texts that are a host in
another case, a host below it, no host, and nothing; `GrantFamily` follows one thread with
any request, or two threads with several requests of a secret confined to no domain, or two
grants of one request and the batches that redeem them. CapturedSession: three origins of
which two fit, three captures, two at a time within a second (`CapturedFamily`). Access: two
clients, two references, two requests, a job that expires at 1 and is dropped at 2, two
incarnations. EphemeralEntries: four pairs of names with three keys, three registrations,
clock 0–2.

Why the bounds are enough: the permit admits one workflow, so two operations show every
competition for it; two contents tell a destination registered again while the human is
prompted from the one that was approved; two consents let one be
revoked while the other is in flight, and room for one of them shows the decision that
finds none left; two incarnations show every effect of a restart, since nothing but files
and clients' requests passes from one to the next, and an operation sent in both tells a
late request of the first from a new one in the second. Two
codes and two reservations show supersession, release and re-reservation. Two target
handles tell one that was consumed from one that was found again, two connections let one
greet while another is prompted. Two writers of one file can pass each other, and five
calls leave room for a change, a failed one, a flush and a second opening. Two commands
meet at every lock, and the third follows what an interrupted one left. What the bounds
cut off is what the theorems of section 4 cover for those they are about.

Deadlock checking is off in all runs: the daemon may be down with no incarnation left,
and the counters of the models end.

**Fairness** (`DeliveryBroker!Fairness`): tokio runs a task that can run, timers fire, a
prompt ends at its deadline or when cancelled and so does an effect; hence weak fairness
of the steps of a started task, of an administrative request in progress and of the
shutdown sequence. Nothing is assumed of the human's answer, of clients' requests, of
disk writes succeeding, or of crashes and restarts.

Each property of a passing run is violated when one mapped definition is replaced by a
faulty variant kept beside it (named in `PROJECT.json` "mutants").

## 4. Proofs

Every invariant and every action property of the passing runs, the refinement included, is
a theorem of its specification, for any clients, operations, names, processes, threads and
bounds. Each module of proofs goes the same way: a type invariant; for each property an
inductive strengthening, with one lemma per group of actions; and a last step in temporal
logic. TLC checked the strengthenings that are new in shape before they were proved. No
proof uses fairness.

**Assumptions on constants.** They are named, beside the constants, and TLC evaluates them
in each run. They say that special values (`None`, `NoEntry`, `Absent`, ...) are none of the
values they stand beside, that bounds are natural numbers, and that what the code counts
(operations, clients, references, documents, texts) is finite. Those that say more:

| Assumption | Why the code justifies it |
|---|---|
| `OneTimeAssumption`: positive retention, well-formed bindings | a constant of `one_time.rs`; the type of a registration |
| `BrowserAssumption`: names of operations, connections and "admin" differ, profiles are no handles | they are different types of the code |
| `ManifestsAssumption`, `InstallationAssumption`: the paths of manifests are neither the wrapper nor the config, extensions are none of the words that describe a file | different files; the contents are told apart by parsing them |
| `GrantsAssumption`: lowering is idempotent, a pattern for what is below a name has a name, texts and sites are sequences of labels | `to_ascii_lowercase`; `domain_matches` strips the prefix `*.` from what is never empty |
| `SiteAssumption`: a text that reads as a host, lowered, is a place a request may end up at | what WithinReach calls a place; without it `Covered` would leave out places a request reaches |

`AckedSurvivesHolds` and `DiskFollowsMemoryHolds` are proved for `Faults \subseteq
{"damaged"}`: a file that cannot be got at when the store is opened breaks both, which is
what the run `store_unread` shows of the first. Every other failure (of a write, a rename,
a sync, the power, a damaged file) is covered. `TakenIsGoneHolds` needs no such hypothesis.

**DeliveryBroker.**

- `OneWorkflowHolds`. With the domain of `pc`, OneWorkflow is inductive: the permit is
  taken only when free and given up only by its holder or by the shutdown that ends it.
- `TypeCorrect`. `TypeInv` adds that a running task has its ticket and result (`Captured`)
  and that a consent to be remembered has a number left (`Room`); it uses OneWorkflow,
  since capacities are checked at admission and only the permit's holder can use them up
  before the commit.
- `AtMostOnceHolds`, `HonestReceiptHolds`. `OnceInv`: an operation not in this
  incarnation's `spent` set was not dispatched by it, one that is in it was asked for in
  this incarnation, a task that has not reached its recipient has
  `runs = 0`, and from the release to the receipt the job and the pending result say
  `mayHaveRun` as soon as `runs > 0`.
- `FinishedIsReleasedHolds`, `AuditedFirstHolds`. `StatusInv` ties the status a client reads
  to the step of the task (`TaskJob`) and to the lines of the log (`Recorded`, `Retained`);
  neither property says anything of the steps between, so neither is inductive.
- `FaultFreezesHolds`, by cases over the actions. Only `Release` does not look at the fault
  flag; `LockInv` says that whoever is inside the authorization transaction has the lock
  and that nothing has failed since.
- `ConsentBindsContentHolds`, `RevokedStaysRevokedHolds`, `DiskReopensHolds`.
  `RegistryInv` says of memory and of the file alike that they are coherent (a consent has
  its profile, with the content), that identifiers of consents are below the next one and
  not among the revoked, so that a failed save may leave either behind.
- `ReleaseAsApprovedHolds`. `StandingInv`: until it is released, a delivery whose token has
  not fired has its destination in the registry (removing it fires the token), and inside
  the authorization the consent it relies on is there too.
- `VoidNeverRunsHolds`. `VoidInv`: what is void has a token that fired, an owner that is no
  longer paired or an epoch that has passed, and cannot be admitted a second time.

**The refinement.** `ImplementsOneUseHolds`: `OutcomeInv` says what result a task carries to
its receipt, `GivenInv` that the history variable agrees with `runs` in this incarnation and
is zero for those to come. Then each action is a step of `OneUse` or a stutter under the
mapping of `DeliveryRefinement`.

**OneTime.** SpentOnce needs that no two keys hold the same code, that no entry is newer
than the generation counter, and that codes not yet registered and codes still held were
never submitted (`OnceInv`). `BoundInv` (an entry carries the deadline and binding its code
was registered with) gives `NewestOnlyHolds` and `InTimeHolds`; `HolderInv` (the reservation
of an entry is the only outstanding one of its code, and its claim was admitted) gives
`HolderSubmitsHolds`; `JournalInv` adds to JournaledOnce that codes to come have no line, and
`Accounts` says what a step that ends several codes has to write.

**BrowserBroker.** `Base` is the type invariant with the holder of the permit, the tickets of
running tasks and the room a lasting decision relies on. `HandleInv` and `OutcomeInv`
relate a handle to the one fill that consumed it, and an outcome to what the page did, from
the moment the task has it. `RegistryInv` is the counterpart of DeliveryBroker's, with
permissions and native grants and the order in which a withdrawal cuts what rests on them.
`NoUnattendedLoopHolds` and `DisconnectForgetsHolds` rest on `ProfilesInv` (a profile that
was asked for is on record, in memory and on disk) and `OneConnection` (a profile has one
connection). `VoidInv` and `HandlesMove` serve `VoidNeverFillsHolds`. For
`TakenUnderAuthorityHolds`, `PlaceInv` ties a ticket's scope to the connection it was made
under, and `StandsInv` says that a released fill has its authority until its token has fired or
its adapter has stopped: every withdrawal does one of these in its own transaction.

**SecretStore.** `CallsInv` says what a call in progress is at each step and which lock it
holds. `ProvisionedInv` follows an answered change through the map, every snapshot that is
yet to be renamed and the file; the writer of a file is alone with it. `CapturedInv`: a clean
map that its file does not follow has a writer on the way, also when that writer's
snapshot has been overtaken. `OauthInv`: an open partition is on disk as in memory but for
the commit of the thread that has the state lock.

**Access.** `FilesInv` says that the files are acceptable together at every moment, and that
an enrolment still has the room it found; `AllowedInv` that a request which says allowed has
its reference in memory and on disk. `AnswerStandsHolds` looks at one request over one step
(`Stands`).

**Installation.** `LeaseInv`: a command past the wait holds the lease, and a daemon runs only
with it. `FilesInv`: one registration at a time writes the native host's files, between two
of them the config is the one it found, and a manifest that names an extension leads to a
wrapper; its part `LookedAt`, that a file a command has looked at for the last time is
another program's only if that came since (`raced`), is what ForeignKept rests on. `InstallationInvariant` is their conjunction with the types.

**Grants, CapturedSession, EphemeralEntries** (`Tables_proofs`).

- `WithinReachHolds`. `GrantsType` says that a call which judges a request, and a grant,
  carry a policy that lets it through; `PermittedIsWithinReach` is the lemma that what
  `Reaches` lets through `Covered` covers, for the two were defined apart.
- `SpentAtMostOnceHolds`. `Single`: a challenge, an approval and a call that is about to give
  one never share an identifier; `Unused`: an identifier that is in any of these places
  was issued and not used; `Unredeemed` the same of grants. Reaping and taking out of a
  sequence of approvals are proved to keep each of the others once (`ReapedPlaces`,
  `TakenPlaces`); that the request is the one approved is `SameFingerprint`.
- `RejectsWhatWasUsedHolds`. `Lineage` adds that an undisturbed origin that a lease names
  still has its entry, and that the lease's generation is not the newer one: a capture
  that is put back then has a number that no lease knows.
- `HeldForItsTermHolds`. `InStep` adds that a held value was registered; erasing the same
  keys of both maps keeps them in step (`Erasing`), a registration replaces both, and a read
  takes what was not due by the clock it brought. Nothing is assumed of the order of the
  clock's readings or of the names.

The type invariants are proved and so are not checked again by the runs.

**Only model-checked**: EveryTaskEnds and ShutdownEnds of `delivery_liveness`, since fairness
and `~>` are outside the prover's reach. The three expected violations are TLC's as well.
Two operators were put in a form the prover can read: `Reaped` (what `retain` keeps) by its
places instead of a library filter, and the merge of a capture (`Over`) as a function.

## 5. Findings

`onetime_superseded`: a comment in `one_time.rs` (340–341) says that a reservation made
against a removed code answers `Superseded`. If the newer registration is refused because
its own deadline has passed, the older entry has been removed and nothing replaces it;
`reserved_entry` then answers `NotFound`. Nothing is submitted in either case.

`store_unread`: a comment on `SecretPartitionStatus` (`store.rs` 479–483) says that the
bytes which could not be read are already preserved under a `.corrupt-` name, so that a
later write replaces nothing that quarantine has not saved. A file that could not be got at
(an I/O error, no key) is not moved; the store opens with an empty map and the next write
renames over the intact file.

`installation_swap`: a comment in `setup.rs` (237–238) and `docs/architecture.md` say that
the daemon's lease is held through the replacement of the application and that a
foreground daemon prevents it. A command that finds no vault takes no lease; the vault may
be initialised and a daemon started before the application is replaced or retired. When
the vault was there, the lease is held: LeaseThroughSwap.

Seen while modelling, with no run of their own: an approval given for no domain is consumed
by a request for the empty domain and the other way round, since both have one fingerprint
(`policy.rs` 1053–1094); neither reaches a host, so SpentAtMostOnce takes them for the same
request, although the comment at `store.rs` 1437–1438 says "exactly `domains`". A value
typed under scope `a::b` for input `c` and one typed under `a` for `b::c` replace each
other. Overlapping captures of one origin may give one generation to two contents, so
RejectsWhatWasUsed leaves out origins whose captures overlapped.

## 6. Not modelled, and what is left

Next, in this order:

1. That what a permit protects is the same in DeliveryBroker, BrowserBroker and Access: one
   abstract permit that the three refine.
2. Liveness of fills, under the fairness of `DeliveryBroker!Fairness` and an adapter whose
   exchanges time out.
3. Deferred capture tasks and the drain at the end of an execution; the audit file.

Left out for good: encryption, dialogs, argument parsing and output, the CDP and
native-messaging encodings, substitution in templates and redaction of output
(`injection.rs`, `json_traversal.rs`: text processing over unbounded strings), request
construction and process limits of the effects, doctor and inspect reads, the Windows
service, test support, the npm packages and scripts. They hold no state the properties
speak of. One daemon per root is what the lease of Installation gives; the other modules
assume it.
