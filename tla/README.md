# TLA+ models of DARM Guard

DARM Guard mediates between an AI agent and its tools: the agent proposes
`{tool, args}` over a socket, the *broker* decides with a compiled kernel, executes
exactly the admitted invocation and keeps evidence of both. These modules model the
broker's own state machine: who holds which lock, what is durable when, what other
threads, other processes and crashes can do between two steps. They are written from
the code under `src/darm_guard/`; documents serve as the statement of what the code
is for.

Contents: [the system](#1-the-system) · [plan](#2-plan) · [modules](#3-modules-and-the-code)
· [runs](#4-runs) · [fairness](#5-fairness) · [proofs](#6-proofs) ·
[disagreements](#7-where-the-code-and-its-documents-disagree) · [left out](#8-what-is-not-modelled)

## 1. The system

    agent --socket--> handler thread --nonce, proposal--> kernel process
                          |   ^------- decision ------------'
                          |-- Broker._lock: decide, key table, intents, prepared record
                          |-- audit log (hash chain) --hook--> checkpoint sink
                          |-- workspace: compare-and-swap, rename, attestations in xattrs
                          '-- outcome record, settlement of the intent, reply

One Python process serves. Each connection has a daemon handler thread; the threads
share `Broker` and run `_handle` concurrently, holding `Broker._lock` only from the
decision to the prepared record. Other processes edit the workspace, the principal
edits the intents and revocations files, `darm-broker --rotate-keys` is a second
process on the same key files, and the process may die anywhere.

| Component | State it keeps | Operations | Talks to | What makes it correct |
| --- | --- | --- | --- | --- |
| **Request path** (`Broker._handle`, `decide`, `_execute`, `reconcile_pending`) | lock, key table, one request's before-state, effect and verdict | decide, prepare, execute, observe, record outcome, answer a reused key; at startup close what was open | log, workspace, kernel, intents | evidence before effect; at most one effect per key; every prepared request closed once; answers survive restarts |
| **verify_world, read gate** | none: reads log and workspace | report a path, judge a read | log, attestations, the principal's manifest | no false alarm; no false negative in what it looks at; no read delivered that is neither the logged nor a vouched one |
| **Compare-and-swap** (`_cas_replace`, `_cas_delete`) | the file, a private name | exchange, inspect, undo | other threads, foreign processes | atomic: takes effect only on the observed state, up to what it cannot inspect and to a further actor during an undo |
| **Rename** (`_rename_protocol`, `_recover_rename`) | the file at source, private name or destination, its attestation | claim, inspect, re-attest, place; recovery forward or back | other renames, foreign processes | one atomic move or none, honest record, nothing foreign signed, nothing lost |
| **Intents** (`_intent_fits`, `_refresh_intents`, `_settle_and_record`, `_persist_intents`) | available and reserved intents in memory and in two files, the freeze | match, reserve, settle, save, revoke, reload | log (verdicts), principal | no intent spent twice or lost; settled one way; nothing revoked is used |
| **Audit log and checkpoints** (`AuditLog`, `Checkpointer`, `main`) | chain head, file, counters, a re-entrancy flag, the sink | append, publish, record a failed publication, start, stop | every thread | own log accepted, rewriting noticed, bounded unprotected tail |
| **Signing keys** (`KeyRing`, `_load_or_create_keys`, `rotate_keys`, ...) | `.key`, `.pub.json`, `.legacy.key`, the lock on the log | create, load, rotate, upgrade, re-attest, retire | a second process | what was signed keeps verifying; nothing foreign is re-signed |
| **Kernel client** (`KernelClient`) | process, pipes, text buffer, lock | start, ask, time out, close | kernel process | an admission answers its own request; a failure costs one call |
| **In-process guards** (`KernelGuard`, `DARMGuard`, `Session`) | a log of decisions; a session's scope, events and lines of a file | check, wrap a tool, expand the credential, expire | kernel client, threads of the agent | what runs is what the record says; drift of a session is exact |
| **http_get** (`http_get.fetch`) | how far the call got, what was sent, the body read so far | resolve, check every address, connect, send, read interim answers, head and body | network | the decided call and no other; the outcome claims no more than what a server took |
| **Evidence commands** (`darm-audit`, `darm-report`) | the log and the workspace as read so far | read the log, list, read attestation and content, look for what is gone | log and workspace of a broker that may be running | a clean audit is a clean workspace; at rest, exactly the findings |
| **Paths, provenance, policy** (`_prefix_problem`, `assign_prov`, `_open_parent`, `_observe`) | a directory handle | refuse, match, walk, look, explain a refusal | decide, foreign processes | stays in the workspace and below the granted directories; no absence observed that was not there |
| Differential verification, coverage, CLI, dashboard, demo, installer, scripts | files, reports | one thread each | | not part of the running broker |

Hard behaviours: the lock is *released* before the effect, so effects, observations
and outcome records of different threads interleave; the process may die between any
two durable steps, and twice; files that belong together (`intents` and `.reserved`,
`.key` and `.pub.json`) are replaced one after the other; checks (attestation,
before-state, freeze) are made earlier than the effects that rely on them; replies of
the kernel may come late; appends and publications fail half-way, and an append may
raise although its record is durable; an audit reads log and workspace one after the
other while the broker goes on; several threads share one session; somebody puts a link or
an unreadable file where a file was; the kernel stops reading or answering while the broker
holds its lock. `PROJECT.json` lists them as hazards, each at its line.

## 2. Plan

Order of work, most important first. Done:

1. `Broker` with `MCBroker`, `BrokerProofs`: the request path and what is read from the log.
2. `Intents` implements `IntentLedger`.
3. `CasFile` implements `AtomicCas`: the step `Broker` takes as one.
4. `AuditLog`: the append `Broker` takes as one, checkpoints, start and stop.
5. `Rename` implements `AtomicMove`: the tool `Broker` leaves out.
6. `KeyStore`; 7. `Kernel`; 8. `Resolve`: from a path string to a file of the workspace.

9. `HttpGet` implements `RemoteCall`: the three outcomes `Broker` assumes of a fetch.
10. `Intents` with the rule of `_intent_fits`, premises, the order of the intents, failing
    saves and records.
11. `Guards` on top of `Kernel`, with `GuardsProofs`; `IntentsProofs`.
12. `Evidence` on top of `Broker`: the audit beside a running broker. Appends that raise
    after their record is durable, in `Broker` and `Intents`.

To come: `Broker` composed with the whole of `AuditLog` (a chain forked by a failed fsync,
which `AuditLog_broken` shows on its own, under the request path), and `rename_file` as a
tool of `Broker`.

Proofs: done for every safety property and every refinement the runs check (section 6).

Every module declares its parameters as CONSTANTS under a named assumption, has one
action per operation, and uses no RECURSIVE operator, so that it can be proved about.

## 3. Modules and the code

Conventions. A comment above an action names the code it models; `PROJECT.json` maps
each definition to its lines. An operator `M_x` is `x` with a plausible bug; it is used
nowhere, and each property names the mutated operator that breaks it. History
variables (marked so) record what no code reads.

**`Broker`** A handler thread `r` goes through `Arrive`, `Refuse` / `AnswerDuplicate` /
`Admit` (lock taken), `ObserveBefore`, `RecordPrepared` (lock released, or refused
because the append raised, before the record is durable or after, when the checkpoint
hook fails), one of `ExecWrite`, `ExecDelete`, `ExecRead`, `ExecHttp`,
`ExecFails`, then `ReadVerdict`, `ObserveAfter`, `RecordOutcome` (after which the reply may say
`outcome_unrecorded` of a record that is there), `UpdateKey`. `Crash`
forgets everything but log and files; `ReconcilePending` and `FinishStart` are the
startup pass. `Findings(p)` is what `verify_world` reports about a path, `Latest(p)`
is `_latest_entries`, `Attributed` is `_read_verdict`. Policy, credential and clock are
one nondeterministic choice (`Refuse` is possible whenever `Admit` is). A file is its
content and its attestation; digests are contents, so collisions are excluded. A write goes on
without an attestation where the file system takes none (`Attached`, fault "xattr"), and stands
with a failed reply where what it displaced cannot be inspected (`Unread`). The foreign
actor may put a link at a path, to a file or to nothing; the broker follows none, and
`verify_world` looks at no link and no name with `.darm-tmp-` in it (`Looked`), though its last question,
`os.path.exists`, follows links. A gated read is delivered on the log's word or on the principal's: the
manifest of vouched files may be anything within `Vouched` at each read.

**`CasFile`** opens the single step that `ExecWrite` and `ExecDelete` take: each system
call on the shared name is an action, and calls on the private name belong to the step
before. The promise is `AtomicCas`; the mapping shows the old file while an operation
holds a file that its next call puts back. After a crash at that point the undo never
happens: the mapping then changes like a foreign edit, which is what it is to others
(`AForeign` counts edits and deaths, so no step of an operation can pass for one).
Any number of operations and edits are at the file at once. What was displaced may be a link or a
file the broker cannot read (`Opaque`): the inspection raises, nothing is undone and the reply is a
failure (`Raise`); `blind` records it, and the promise allows it. `disturbed` says that somebody has come
between a swap by mistake and its undoing, `taken` that an undo took away what a further actor had put
there: the two exceptions of the properties, which the code has.
`stage`, `reply` and `edits` are what other modules call `pc`, `result` and `foreign`, so
that one module of proofs can extend both `Resolve` and `CasFile`.

**`Intents`** models `_refresh_intents` (`Refresh`), the search for an intent that fits and
its reservation under the lock (`Match`: the tool, every constraint and every premise hold;
the broadest first, `_order_intents`), the two halves of
`_persist_intents` (`SaveFile`, `SaveReserved`), `Execute`, `Outcome`, the settlement
record and the move that follows it, the principal's hand edits and revocations,
`Crash`, and startup (`Start`, `Reconcile`, `settle_reserved` as the `SettleRecord` of
lost requests). Each save and each record may raise (`SaveRaises`, `PrepareRaises`,
`OutcomeRaises`, `SettleRaises`), a save also after the file is replaced and a record also
after it is durable; where the exception goes is where the code catches it. `KernelBlocks` is a
kernel that keeps a decision, and with it the lock. The verdict of a tool with an observable
target is free (`Verdicts`): `_reconcile` compares the states before, intended and found, whoever made
them so, so that a delete of a file that is already gone "fails" and is confirmed, and an effect that somebody
undid is a confirmed failure, with one request at a time too. Only where nothing can be observed does
the answer of `_execute` decide (`ByAnswer`). Which premises hold is a free choice at each decision. The promise is `IntentLedger`: available, held by one request, or spent.
While the process is down the ledger is what the two files say.

**`AuditLog`** An append is one step (it has its own lock), with the failures an append may
end in: nothing written, part of a line, or a line written and the fsync failed. The
hook that follows is outside the lock: `Attempt`, `Publish` or `PublishFails` (with nothing, part
or all of the checkpoint in the sink: `garbled` when `load_published` cannot read it any more),
`SeeFailure`, `SetFlag`, `RecordFailure`. `strays` records whose append raised with something of it in the file. `MainRecord`, `CheckpointNow` and `Sigterm` are
`serve` and `main`; `Start` verifies the chain. An entry's hash is its serial number.

**`Rename`** One action per system call of `_rename_protocol` on a shared name, and of
`_recover_rename`: a rename is a file with an identity, a content and an attestation at
its source, its private name or its destination. Either record may fail (`RecordFails`): a prepared
record that raises after it is durable, or an outcome record that is swallowed, leaves the rename open
until the next start (`Unrecorded`). The promise is `AtomicMove`.

**`KeyStore`** Two processes, the broker and a rotation, run `_load_or_create_keys` under the
lock on the log; `KeyRing.save` is two actions. A key pair is a number.

**`Kernel`** One action per step of `KernelClient.decide`, with the pipe and the text buffer
of `readline` kept apart (select looks at the pipe only), and the kernel process as an
external actor that cannot be started, answers, is slow, dies, stops reading, repeats itself, writes
something else or stops in the middle of a line. A request may be more than a pipe holds
(`Large`; requests reach 1 MiB): it is written once the kernel reads, however long that takes (`Fits`).

**`Guards`** extends `Kernel`. A process uses one of two guards. `KernelGuard` asks the client
of `Kernel` and then keeps the decision (`KernelCheckReturns`); `DARMGuard` judges the
tools asked for against the credential (`Judge`, which is `check_transfer`), and then
`Session.check` reads the scope, writes it, compares, appends the event and writes a line
(`ReadScope`, `WriteScope`, `Compare`, `AppendEvent`, `SessionCheckReturns`), without a lock.
OBSERVE returns "admit" whatever was decided.

**`HttpGet`** One action per call of `fetch` that talks to the network: `Fetch` (refusals that
need none), `Resolve` and the check of every address, `Connect`, `Send` or `SendRaises`,
`Continue` (an interim answer), `ReadHead`, `ReadPiece`, `Succeed`, `NoAnswer`. `fetch` "never raises"
(`http_get.py:122`), but a credential file that is not text makes it (`Raises`, in `Resolve`: before anything is
sent). The server is
external: it takes the request at any time after it was sent (`ServerTakes`), also when the caller has given
up, answers with less than it announced, or stops. The promise is `RemoteCall`, which is what
`ExecHttp` of `Broker` takes as one step.

**`Evidence`** extends `Broker` with an audit in another process: `ReadLog`, `List`,
`ReadAttestation`, `ReadContent`, `CheckGone`, between which the broker takes any step. What the
audit concludes from the log it read is `Broker`'s own `Latest`, by an instance of `Broker`
whose log is that copy (`AsRead`). `RowEffect` is the effect column of `darm-report`.

**`Resolve`** One request from `decide` to the end of `_observe`: the prefixes of a broker that
loaded its configuration (`Init`), normal form and prefix match (`Decide`), one action per
directory opened (`OpenNext`, `OpenRefused`), the second walk of `_path_problem`
(`ExplainNext`, `ExplainEnds`), and the leaf (`LookAtLeaf`, `OpenLeaf`). A foreign actor
creates, replaces, removes and renames files, directories and links of the workspace
between any two of these. A path is its components; of a name only which other names
start with it matters. `Nodes` is what the operating system makes of the names of a path one
after the other, by recursion on their number (a recursive function, so that it can be unfolded in a
proof).

How they fit: `Broker` takes a compare-and-swap, an append, a fetch and a decision as one
step each, and any observation; `CasFile`, `AuditLog`, `HttpGet`, `Kernel` and `Resolve` say what
those steps do when opened. `Evidence` and `Guards` are built on `Broker` and `Kernel` and
take their steps unchanged. `Intents`
takes any verdict `Broker` may reach, and a decision that never comes from `Kernel`.

## 4. Runs

Eleven runs pass and one refutes a sentence of a document. Sizes are distinct states.

| Run | Instance | What it shows |
| --- | --- | --- |
| `Broker_safety` | 3 requests, 2 in flight, 1 path, 1 content, 1 key, writes with and without it; appends that raise before or after their record is durable, effects that fail after the change, writes without attestation; 2 crashes (@SAFETY@) | `EvidenceBeforeEffect`; `AtMostOncePerKey`; `ClosedOnce`; `RestartKeepsAnswers`; `NoFalseTamper`; `SerialWorldMatchesLog` |
| `Broker_foreign` | 3 requests, 2 in flight, 2 paths, 2 contents, 1 foreign edit (content, copied attestation or link), 1 private name, 1 vouched file, gate on (@FOREIGN@) | `CleanWorldIsLogged`: no finding means the logged content is there, or nothing that was looked at. `GatedReadIsLatest`: no stale or foreign read but what the principal vouched for |
| `Evidence_audit` | 2 requests one after the other, 1 path, 2 contents, failing appends, 1 crash, 1 foreign edit, an audit at any time (@AUDIT@) | `CleanAuditIsLogged`: a clean audit beside a running broker misses nothing it looks at. `AuditAtRestIsFindings`: undisturbed, it reports what one look reports and does not raise |
| `Intents_store` | 2 requests, a broad intent granted twice and a narrow one with a premise, any verdict, 1 crash, 1 failure (save, record or a kernel that keeps the decision), 1 hand edit, 1 revocation, each anywhere (773 k) | `IntentsConserved`, `SettledOneWay`, `RevokedNeverUsed`, `ImplementsLedger`, `ResolvedIsSettled`, `RequestsEndBrokerReturns` |
| `CasFile_atomic` | 3 operations and 2 foreign edits, all at once, 3 contents, links and unreadable files, 1 crash (3.8 M) | `ImplementsAtomicCas`, `NothingLost` |
| `AuditLog_chain` | 2 handler threads and main, interval 2, 5 entries, every failure of an append or a publication, 2 restarts, 1 rewrite (8.2 M) | `RestartAccepts`, `OwnLogPasses`, `RewriteDetected`, `UnprotectedBelowInterval` |
| `Rename_atomic` | 2 renames, 2 paths, 2 foreign edits of one path, 2 crashes, failing re-attestation and records (1.2 M) | `ImplementsAtomicMove`, `NoFileLost`, `NeverLaunders`, `EveryRenameClosed` |
| `KeyStore_keys` | 2 files, 4 keys, 5 deaths of which 2 cut a save, 2 foreign edits (629 k) | `RunningKeyIsOnDisk`, `RingsSuffice`, `SecretKept`, `NothingLaundered` |
| `Guards_calls` | 3 calls, 2 at once in a session, both guards and both modes, every kernel fault, a request larger than the pipe, an expansion and an expiry (783 k) | `DecidedAsRecorded`, `RejectedForOwnReason`, `DriftIsExact`, `EndsUnlessBlocked` |
| `Resolve_walk` | 4 directories, 2 names of which one starts the other, 7 paths, 3 changes of the tree (482 k) | `StaysInside`, `EndsBelowGrant`, `AbsentWasAbsent` |
| `HttpGet_fetch` | 2 fetches, 2 addresses of which one is private, URLs in and out of normal form, answers announced with up to 3 pieces against a limit of 1 (120 k) | `OnlyTheDecidedCall`, `ImplementsRemoteCall` |
| `HttpGet_short` | 1 fetch | refutes `SucceededIsComplete` |

`Broker_safety` checks its module's `TypeOK`; those of the other modules hold in the
instances above as well, as do `AllOrNothing` of `Rename` and `EndsUnlessContinued` of
`HttpGet` (add them to the configuration). Another passing configuration is run by hand: `Broker_live`
(2 requests, 1 crash, 15 k states), under fairness, with every fault but an append that raises
after its record is durable and an effect that fails after the change: `EveryRequestAnswered`, `StartupFinishes`.

**Why these bounds.** Three requests are what the longest stories need: two that conflict
and a third that retries, or reads what the first two left; two in flight make every pair
of steps interleave. One key suffices because keys do not interact; two contents
are needed only where a path may be restored. Two crashes reach the crash inside the
startup of the first one. The symmetry sets permute values that only equality looks at;
the runs with liveness properties use none. In `CasFile_atomic` a swap by mistake takes one operation
and an edit, and what comes between it and its undoing a third actor; the run has five, also
after files a crash left behind. Five entries are two above a checkpoint of three, so that a line
left by a failed append is followed by another one before and after a publication.
Three changes of the tree in `Resolve_walk` are enough to move a directory away, put another
object in its place and change what that one contains.
`Rename_atomic` states the refinement only up to the second rename (`Alone`): from
then on an observation may see what the other rename did and the verdict may be wrong.

**Conditions inside properties.** A property that holds only until something happened says so:
`Undisturbed` (no save of the intents torn, no hand edit), `unsaved` (a process died with
memory ahead of the two files of the intents), `torn = 0` and `torn <= 1`
(saves of the keys cut in two), `stale = {}` (no reply has answered another call),
`serial` (no two checks of the session overlapped), `still` (nothing moved during the audit),
`disturbed` and `taken` (somebody between a swap and its undoing), `strays = {}` and `~garbled` (no
failed append, no failed publication left something behind), `Unrecorded` (a rename whose record failed),
`Blocked` (a kernel that keeps the decision), a link or a private name at the path,
`rewrites = 0`, `failures = 0`, `foreign = 0`, `SerialLog(p)` (the log shows the changes
of the path one after the other). Each condition is a state the same run, or its sibling over the
same module, also leaves, and section 7 names what happens then.

**Liveness and deadlock.** `Broker_safety`, `Broker_foreign`, `Evidence_audit` and `Resolve_walk` check for
deadlock: an instance whose requests are all answered may stop (`Done`), any other may
not. The other configurations switch the check off because a finite instance runs out of requests,
crashes or log entries at many points.

## 5. Fairness

`FairSpec` gives weak fairness to each handler thread's steps, to recovery and to the end
of startup: Python schedules every runnable thread, and the lock is a `with` block, which an
exception leaves as well (`RequestsEndBrokerReturns` of `Intents` is about that). One step waits for a
peer: the kernel is asked with the lock held. `FairSpec` of `Broker` makes `Admit` and `Refuse` fair and so
assumes that it answers, and `Broker_live` shows no more than that the broker itself does not keep the lock.
`Kernel` says when the kernel does (`EndsUnlessBlocked`), and `Intents` has that as a fault: its
liveness is up to `Blocked`, where every request that wants the lock waits with the one that has it.
Each request takes the lock at most twice and instances have finitely many requests, so weak fairness
is enough for a thread that waits.

In `Intents` the first half of a save and both ends of startup have weak fairness too. `Start` after a crash is
the act of an operator or a service manager: what is said of the broker once it is
down (`mode = "up"` again, the settlement of what was reserved) is said of a broker that is started again, and
so is `EveryRenameClosed` of `Rename`, whose `Crash` leads to the startup at once.
In `HttpGet` a thread's step is fair because every socket call ends by the
timeout; the server's and the process's death are not. In `Guards` only the client's decisions
are fair. Nothing is assumed of the environment: crashes, failures, foreign edits, SIGTERM,
servers and the kernel process have no fairness (`EndsUnlessBlocked` holds with a kernel that
never writes a byte, because of the timeout, as long as it takes the request). A crash excuses a request (`lost`) but not its record:
`ResolvedIsSettled` and `EveryRenameClosed` hold over crashes, since crashes are finitely many.

## 6. Proofs

Eight modules hold proofs. Each theorem is about every value of the constants: any set of
requests (or calls, files, threads), any number of crashes, failures and edits, every choice
of faults but where a hypothesis below says otherwise.

| Theorem | States |
| --- | --- |
| `BrokerProofs!Invariance` | the inductive invariant of the request path |
| `BrokerProofs!TypeCorrect` | `TypeOK` |
| `BrokerProofs!EvidencePrecedesEffect` | `EvidenceBeforeEffect` |
| `BrokerProofs!KeyBuysOneEffect` | `AtMostOncePerKey` |
| `BrokerProofs!NoFalseAccusation` | `NoFalseTamper` |
| `BrokerProofs!CleanMeansLogged` | `CleanWorldIsLogged` |
| `BrokerProofs!GateDeliversLatest` | `GatedReadIsLatest`, when the gate is on |
| `BrokerProofs!EachClosedOnce` | `ClosedOnce` |
| `BrokerProofs!AnswersSurviveRestart` | `RestartKeepsAnswers` |
| `BrokerProofs!SerialWorldIsLogged` | `SerialWorldMatchesLog` |
| `BrokerProofs!CleanAuditMissesNothing` | `CleanAuditIsLogged` |
| `BrokerProofs!AuditAtRestIsOneLook` | `AuditAtRestIsFindings` |
| `GuardsProofs!RecordsKept` | the invariants of the kernel client and of the guards' records |
| `GuardsProofs!DecisionsAreRecorded` | `DecidedAsRecorded` |
| `GuardsProofs!DriftStaysExact` | `DriftIsExact` |
| `GuardsProofs!RejectionsAreOwn` | `RejectedForOwnReason` |
| `IntentsProofs!Invariance` | the inductive invariant of the intent store |
| `IntentsProofs!SettlesOneWay` | `SettledOneWay` |
| `IntentsProofs!RevokedStaysRevoked` | `RevokedNeverUsed` |
| `IntentsProofs!StoreImplementsLedger` | `ImplementsLedger`, the refinement of `IntentLedger` |
| `IntentsProofs!NeitherOverspentNorLost` | `IntentsConserved` |
| `HttpGetProofs!Invariance` | the inductive invariant of the fetch |
| `HttpGetProofs!DecidedCallOnly` | `OnlyTheDecidedCall` |
| `HttpGetProofs!Implementation` | `ImplementsRemoteCall`, the refinement of `RemoteCall` |
| `KeyStoreProofs!Invariance` | the inductive invariant of the key files |
| `KeyStoreProofs!KeyInMemoryIsOnDisk` | `RunningKeyIsOnDisk` |
| `KeyStoreProofs!SignaturesKeepVerifying` | `RingsSuffice` |
| `KeyStoreProofs!SecretIsKept` | `SecretKept` |
| `KeyStoreProofs!ReattestationIsHonest` | `NothingLaundered` |
| `AuditLogProofs!Invariance` | the inductive invariant of the log and its checkpoints |
| `AuditLogProofs!NeverShutOut` | `RestartAccepts` |
| `AuditLogProofs!OwnLogAccepted` | `OwnLogPasses` |
| `AuditLogProofs!PastIsFixed` | `RewriteDetected`, until an append leaves a stray line |
| `AuditLogProofs!IntervalKept` | `UnprotectedBelowInterval`, until an append leaves a stray line |
| `RenameProofs!Invariance` | the inductive invariant of the renames |
| `RenameProofs!NoFileDisappears` | `NoFileLost` |
| `RenameProofs!NoForeignFileSigned` | `NeverLaunders` |
| `RenameProofs!RenameIsAtomic` | `ImplementsAtomicMove`, the refinement of `AtomicMove` |
| `WorkspaceProofs!Invariance` | the inductive invariant of the walk |
| `WorkspaceProofs!WalkStaysInside` | `StaysInside` |
| `WorkspaceProofs!PrefixesAreDirectories` | `EndsBelowGrant` |
| `WorkspaceProofs!AbsenceIsTrue` | `AbsentWasAbsent` |
| `WorkspaceProofs!CasInvariance` | the inductive invariant of the compare-and-swap, for any number of actors |
| `WorkspaceProofs!NothingIsLost` | `NothingLost` |
| `WorkspaceProofs!CasIsAtomic` | `ImplementsAtomicCas`, the refinement of `AtomicCas` |
| `WorkspaceProofs!RepliesAreTrueForAll` | success is reported of an operation that displaced what it observed, a refusal of one that did not, a failure of one that displaced what it could not inspect |

Assumptions: the named ASSUME of each module (proposals are proposals, bounds are numbers, null
values are not values, faults are known ones; in `Resolve`, also that at first no directory and no file outside
the workspace has a name in it, which TLC evaluates on its tree). Calls of `Kernel` and the tools of one call
are finite; nothing else is. Some theorems have a hypothesis on the constants:

* `GateDeliversLatest` is about a broker with `read_requires_attestation` on; without it
  every read is delivered, and its label says so.
* `RenameIsAtomic` assumes `OneForeign`: foreign edits are of one path. A verdict
  is what the two paths show, and someone who edits both can imitate either end of a move.

`PastIsFixed` and `IntervalKept` have a hypothesis on the state: `Untouched`, that no append that raised
has left anything in the file so far. All failures are in the model; after such a one the chain forks with the
next entry, and then neither property can be had (`AuditLog_broken`, section 7). `NeverShutOut` has no such
hypothesis.

**`BrokerProofs`.** `AtMostOncePerKey` is not inductive: it says nothing of a request that is
about to be applied. `IInv` is the conjunction of `TypeOK` and two more parts.

* `KeyInv`: a request is *committed* when it runs past the prepared record or was applied. A
  committed request has a prepared record; its key is in the table whenever the broker
  serves; two committed requests have different keys; and the thread between `Admit` and
  `RecordPrepared` holds the lock and found its key free. A prepared record alone
  does not count: an append may raise after its record is durable, the request is then refused
  and its key is not in the table, so a second prepared record may bear that key. A restart
  rebuilds the table from all prepared records (`RebuiltKeysComplete`), which is why a crash
  does not break it; `MaxOfPositions` gives the last record of a scan, by the
  well-foundedness of the naturals.
* `EvidenceInv`: everything signed, and every attestation in the workspace, belongs to a
  request with a prepared record, and the log only grows (`LogGrows`, `HasGrows`).

Each part has a step theorem with one case per action (`TypeStep`, `KeyStep`,
`EvidenceStep`). `KeyStep` separates the quiet actions, which change neither the prepared
records nor the table (`QuietStep`), from `Admit`, `RecordPrepared` and the startup.

What the readers of the log conclude rests on `IInv` and four more invariants.

* `AttestInv`: an attestation is what its request wrote, a read saw one that was signed or none, and
  while nobody else edits, no path holds a link and each file is what its own attestation says, or
  has none because the request that wrote this content there could not attest it
  (`WroteUnattested`). With `LatestChanges`
  (the entry `_latest_entries` picks is the last success about the path) it gives
  `NoFalseTamper`, `CleanWorldIsLogged` and the gate.
* `CloseInv`: a closing record comes after the prepared one, there is one at most, and while the
  broker serves every request a crash interrupted is closed. A thread that has not recorded yet
  has none, which is what keeps its own record the only one.
* `AnswerInv`: the table holds a running request's key as pending; a key in the table names the
  last request prepared under it; and what it says, once settled and recorded, is what the
  record says. `RestartKeepsAnswers` compares this with the table a restart rebuilds.

* `WorldInv`, with nobody else editing and every target observable: a path whose log is serial up to
  now (`SerialSoFar`, which a longer log only loses: `SerialBefore`) holds what the log says, or
  what its one open change intended; and the thread of that change knows which. So the change is
  closed with success exactly if the path holds what it intended (`ClosedAsItHolds`), by its thread
  or at a restart, and whatever the effect reported. Neither half is inductive alone.
  `SerialWorldMatchesLog` speaks of observable targets for a reason: TLC shows, with the fault
  "observe" as well, a delete that reports an error after it took effect, or dies after it, and is then unresolved;
  `verify_world` calls the file gone.

An audit adds `AuditInv`. `SeenInv`: what it has read of the log is still a part of it, so that the
request the log it read calls the latest goes on meaning the same (`ReadIsKept`). `LookInv`: a walk that has
found nothing has read what that request intended, or has not read: the path changed, or is one the walk
skips. `RestInv`: while nothing has changed, what is found
so far is what one look reports but for the files that are gone, which come last; `ReportsByFile`
says what one look reports, by what is at the path.

**`GuardsProofs`.** `ClientInv` says why an admission is the call's own. `LockInv`: whoever is
between taking the lock and giving it back holds it. `LineInv`: every line in a pipe, in the
buffer of `readline` or in hand is `Truthful`, that is, it names a call only with the kernel's decision on
that call; late and repeated lines are not excluded, only ever seen for what they are.
`AnswerInv`: an admission needs a line with the call's own nonce. `RecordInv` ties records to
answers. `DriftInv` is inductive only while checks do not overlap (`serial`): then the scope is the
union of what all events asked for.

`RejectedForOwnReason` needs to know whose line a call reads first. `OwnInv` says it, until a reply has
answered another call: what is left in the pipes between two calls answers a call that has read an answer,
and after a request they hold such a line, or nothing while the request waits, or the
call's own answer once or twice. One process runs, the client's, because whatever goes wrong closes it;
and there is always one to start (`StartInv`, `ProcessLeft`: a call starts one at most).

**`IntentsProofs`.** `IInv` is `TypeOK` and four parts. `LockInv`: a save in progress belongs to the thread
that holds the lock, and a request the kernel blocks holds it. `SettleInv`: what is settled follows the
recorded verdict, and where nothing can be observed the verdict follows the effect. `RevokeInv`: a thread that has refreshed sees none of the intents revoked before. `SyncInv`: the
files are behind memory only while a save is due. From `SyncInv` comes the refinement
(`LedgerStep`): every step of the store is one of the ledger or a stutter; loading after a crash
is a stutter because the files are the ledger while the process is down (`CrashDoesNotShow`). It stops at a
process that dies with memory ahead of the files, and at a hand edit.

Conservation needs two more. `HoldInv`: whoever holds an intent, in memory or in the file, holds
the one it was admitted with. `BalanceInv`: of every intent, what is available, held or
used for an effect is what was granted, but for what revocations took. It counts effects but those
a verdict calls failures, and spent intents by their verdict, because a verdict may be wrong either
way: in memory while the
process runs, in the two files while neither is half a save ahead of the other. Each move of an intent is a
lemma on its own (`RevokingBalances`, `ReservingBalances`, `ReturningBalances`), about
cardinalities of the sets of holders.

**`HttpGetProofs`.** `IInv` says, per fetch, what its stage has settled (`ChoiceOf`: URL, addresses,
peer), that nothing of a request changes once it has left whole (`WireOf`), and that a server
that answers took it (`ToldOf`); and of the servers that they take each request once, as sent
(`TakenInv`). The refinement maps the number of times a request was taken.

**`KeyStoreProofs`.** `LockInv`: one process is at the keys, the one that holds the lock on the log.
`RingInv`: what it has in memory against the two files, step by step of a save. `PublicInv`: what signed is in
the public file, or after one cut save in it or the private file. `DigestInv`: whatever
carries or will carry a signature has the digest of what the broker wrote.

**`AuditLogProofs`.** `ChainInv`: the file is a chain of different hashes. `MemoryInv`: count, head and genesis in memory are
the end of the file. `HeadInv`: what a thread is about to publish is in the log, whatever
was appended since. `SinkInv`: a published head met again has the same hash below it, so
that a rewritten past cannot pass. `IntervalInv` (`Paced`) is the reason of the bounded tail: the interval
counts from an attempt that was or is being published, and a record beyond it has a
thread that is about to ask; it says so while no publication failed. `Greatest` and
`Downward` are the inductions over positions these need. All this is said while `Untouched` holds.

Why a start refuses the log holds over every failure and needs another invariant, `RInv`. A line is *odd* when it is not
whole or its append raised (`Odd`). `LinkInv`: a whole line names the one before it, or follows an
odd one. `HeadLine`: while the broker runs, the head in memory is the last line, or the last line is odd. Every
step adds at most one line (`Adds`), or cuts or continues the file while nobody runs (`LogSteps`), so the first line
that breaks the chain comes after an odd one, or is not whole itself.

**`RenameProofs`.** `ThreadInv` ties the stage of a request to the log (an open request runs, was cut short
by a crash, or is over because its record failed); `EvidenceInv` says who signed
what; `PrivateInv` says at which stages the private name holds a file, in the protocol and in
recovery. `FileCalls` reduces every step to what it does to files: nothing, a rename
to a free name, another attestation, or a foreign edit; `NoFileLost` follows. For the refinement, up to the second rename,
`SourceInv` and `TargetInv` say what an open rename did from what its source
and its destination hold, where that path is not the foreign actor's; `FirstInv` is why they hold when the record is
prepared, and `HonestRecord` why the verdict is then what happened.

**`WorkspaceProofs`, the walk.** `TrailInv`: the names opened and the components left are the path, which was admitted.
`InsideInv`: `Separate` holds of the tree at every moment, so a directory entry of the workspace leads into
it; a link leads anywhere, and is never opened.

`AbsentWasAbsent` compares a walk by handles with what a path names, which is a recursion over its
components. The induction is over the set of lengths for which a claim holds (`Upward`, from the
well-foundedness of the naturals), so it needs no principle with an operator as parameter:
`NodesUnfold` gives the recursion its one solution, `MissingStays` says that below a missing name everything
is, `LinkedLeads` that names which lead from one handle to the next lead there. `AbsenceInv` then says that
the names still lead where the handles went, or the path named nothing since the call began.
The step that needs an argument is a foreign one (`LinksBreak`): to replace a directory it must be
empty, and then the path named nothing before; to rename one leaves a missing name, and then it
names nothing now.

**`WorkspaceProofs`, the compare-and-swap.** `CasInv` is about any number of operations and edits. `Booked`:
what the stage of an operation says of its own variables, among it that an operation between its swap and
the inspection has taken effect exactly if it displaced what it observed, and blindly exactly if it cannot
inspect it (`RepliesAreTrueForAll` follows by itself). `Kept`, for `NothingLost`: what the name should hold is
under a private name whose operation will not unlink it (`Holds`), or under the name, and not because an
operation that is to be undone put the same content there; only an undo that takes away somebody else's file
breaks it, and sets `taken`. `UndoIsAlone`: undisturbed, one swap at most is to be undone, and the name still
holds what it put there.

For the refinement, an exchange or a claim of what was recorded is where the operation takes effect; one of
something else, and its undoing, are not seen (`ShownIs`, `CasRefinesStep`); one of what cannot be inspected is
the blind effect of the promise; and a death that leaves an undo undone is an edit. While somebody
has come in between, nothing is claimed, and when the last such undo is over the mapping is that of an
atomic file again.

**Only model-checked.** Liveness (`EveryRenameClosed`, `ResolvedIsSettled`,
`RequestsEndBrokerReturns`, `EndsUnlessBlocked` and those run by hand): the prover handles neither fairness
nor ENABLED.

## 7. Where the code and its documents disagree

One sentence is refuted by a run listed in `PROJECT.json`: `HttpGet_short` finds that `fetch`
(`http_get.py:167`) reports "succeeded" for a body that ended before its announced length,
where `assurance/claims.json:897` promises "unknown" for a call without a complete answer
(`read` with a size returns what came, without an exception).

More of the same kind are kept as configurations to be run by hand
(`tlc -config X.cfg M`, where `M` is the MC module or, where there is none, the module itself). TLC
finds each property violated within seconds; where a configuration names two or three, it stops
at the first one it meets, and `-continue` shows the others:

| Configuration, property | Document | What the code does |
| --- | --- | --- |
| `Broker_flags`, `LegitimateNeverFlags` | `assurance/claims.json:58` "Legitimate operations never flag" | Two concurrent writes of a path are applied in one order and recorded in the other; `_latest_entries` takes the last record and `verify_world` reports the file. The passing counterparts: no finding *of foreign content* (`NoFalseTamper`), and none at all where the log is serial (`SerialWorldMatchesLog`). |
| `Broker_flags`, `FailureIsNonEffect` | `broker.py:1441-1442` "confirmedFailure (a proven non-effect)" | Another request restores the before-state between effect and observation: an effect that took place is a confirmed failure. |
| `Broker_failedkey`, `FailedKeyAppliedNothing` | `broker.py:1121-1122` "nothing was applied" | An OSError after the replacement (fsync of the directory) marks the key failed with the target changed. |
| `Evidence_live`, `LiveAuditNeverAccuses` | `assurance/claims.json:58`, as above | An audit reads the log first: what a running broker writes afterwards looks changed or unattested to it. Counterpart: `AuditAtRestIsFindings`. |
| `Evidence_live`, `ReportTellsWhatHappened` | `evidence.py:6-7` "what happened, request by request, from the log alone" | The report looks for a field "verdict" (`evidence.py:91`) that no record has: a request closed at startup has the effect of its prepared record, none. |
| `Broker_links`, `CleanMeansAttested` | `broker.py`, `verify_world`: each latest write "must be the one its file attests, and must still exist" | A link put in place of a written file is skipped by the walk (1691), and `os.path.exists` follows it (1725): where it leads somewhere, nothing is reported. The same holds of `darm-audit`. Counterpart: `CleanWorldIsLogged`, `CleanAuditIsLogged`. |
| `CasFile_lost`, `NothingDestroyed` | `assurance/claims.json:9` "... otherwise nothing changes" | With three actors on the file, the exchange that undoes a conflicting write puts the displaced file back over what a third one has just put there, and that is unlinked. Counterpart: `NothingLost`, `ImplementsAtomicCas`. |
| `CasFile_lost`, `NothingBlind` | `assurance/claims.json:9` "takes effect only if the target is in the state recorded at admission" | A target replaced by a link, or by a file the broker cannot read, makes the inspection after the swap raise (`broker.py:424`): nothing is undone, and the reply (887) is a failure of a change that stands. |
| `Intents_crash`, `NoOverspend` | `broker.py:1443-1444` "a crash in between is repaired at startup from the same verdict (settling is idempotent)" | Between the two files of the save that returns an intent it is in both; after a crash there the restart returns it a second time. Counterpart: `IntentsConserved`. (A verdict that takes an effect for a failure returns an intent that was used, too; `NoOverspend` sets those effects aside, `FailureIsNonEffect` above shows one.) |
| `Intents_crash`, `IntentsNotLost` | `assurance/claims.json:187` "An intent is spent only by a confirmed effect" | A crash between the two files of the save that reserves an intent leaves it in neither. |
| `Intents_freeze`, `FrozenFileNotWritten` | `broker.py:1494-1495` "never write the file again" | A settlement saves without looking at the freeze. |
| `Intents_freeze`, `FreezeMeansEdit` | `broker.py:1494-1495` "someone else edited it, so freeze" | A save that fails after the replacement leaves the broker with the text of the file before: its own save then looks like an edit and freezes the intents. |
| `AuditLog_broken`, `OnlyEditsBreakTheChain` | `broker.py:314-315` "an edited or deleted entry breaks the chain" | An append whose fsync fails leaves its line in the file but not in memory; the next entry forks the chain, and no restart accepts it. Counterpart: `RestartAccepts` says that this, or part of a line, is the only reason. |
| `AuditLog_broken`, `EndsWithStop` | `broker.py:1839` "every log with a start record ends with stop and a final checkpoint" | Handler threads are daemons: one may append after the stop record. |
| `AuditLog_broken`, `FailuresRecorded` | `THREAT_MODEL.md:89` "a failure to publish is recorded in the log" | While one thread records a failure, `_in_hook` hides the failure of another. |
| `Rename_stamped`, `OnlyOntoOurOwn` | `broker.py:1373-1374` "only onto our own content" | The source may be replaced between recovery's move back and the attribute write by name. |
| `KeyStore_deaths`, `OwnRingSuffices` | `broker.py:1747-1748` "keeps the old public key in the ring" | Two rotations that die between the private key and the ring lose a public key. |
| `KeyStore_deaths`, `PublicRingSuffices` | `THREAT_MODEL.md:88` "from the public ring alone too" | After one such death the broker signs under a key the published ring lacks. |
| `KeyStore_deaths`, `LegacySecretKept` | `broker.py:701-702` | A first start that dies there leaves the new seed looking like a v1 secret, and the next start moves it over the real one. |
| `Kernel_calls`, `RestartedFirst` | `kernel.py:132` "restart it before the next request" | The nonce is looked at after the lock is released: another request may be on its way to the same process. |
| `Kernel_calls`, `EveryCallEnds` | `kernel.py:11` "any failure to obtain a kernel decision is a rejection" | Half a line makes select return and `readline` wait without a timeout, and a request larger than the pipe is written without one (`kernel.py:115`). Counterpart: `EndsUnlessBlocked`. |
| `HttpGet_continue`, `EveryFetchEnds` | `http_get.py:15` "bounds the body and the time" | `getresponse` skips 100 Continue answers in a loop, and each one restarts the socket's timeout. Counterpart: `EndsUnlessContinued`. |
| `Guards_threads`, `ScopeIsCumulative` | `docs/legacy-api.md:119` "Tracks cumulative scope across a session, within one process" | Two threads read the scope before either writes it: one call is missing from it. Counterpart: `DriftIsExact`. |
| `Guards_threads`, `LinesNameTheirCall` | `guard.py:66` "self.session.log[-1]" | Another thread's event may be the last one when the line of a check is written. |
| `Resolve_why`, `RecordOnly` | `broker.py:747-748` "for the record only. Never used for a decision" | `_observe` takes "a directory on the path does not exist" for an observation of absence; it is a true one (`AbsentWasAbsent`), but of a later moment than the refusal. |

None is reachable by one client at a time without a failing disk, a crash, a concurrent change of the
workspace (by hand included), an audit beside a running broker, a misbehaving kernel or a misbehaving server.

## 8. What is not modelled

* In `HttpGet`: the rules of a URL's normal form (a URL is in it or not) and the text that is
  withheld from a body. A server takes a request before it answers it: an answer that was there
  before the request would be reported as a success too (`http_get.py:166-173`), and is left to the servers.
* In `Guards`: alerts, callbacks and summaries. In `Evidence`: keys that are unknown or legacy,
  renamed files, and the other columns of the report, which format log fields.
* Parsing of the configuration, exact values and per-tool registries, URL prefixes: in the
  models the decision may go either way.
* In `Resolve`: hard links, permissions, and an atomic exchange of two directories by the
  foreign actor (`AbsentWasAbsent` is about creations, removals and renames).
* In `CasFile` and `Rename`: hard links, and a directory put in place of the file. In `Intents`: revocations of a
  whole tool and lines that cannot be read, which only revoke more.
* The fallback of the compare-and-swap without `renameat2` (it is documented as not
  atomic), `list_dir`, permissions, disk-full except as a failing append, save or effect.
* Time: the clock check, credential expiry other than at a moment of its own choosing.
* Cryptography: signatures are unforgeable and hashes injective by assumption.
* The kernel: external; its decisions are a constant of `Kernel`.
* Framing, size limits and backlog of the socket server; differential verification and
  coverage, installer, command line, dashboard, demo, scripts and deployment:
  single-threaded tools or I/O with no state of the running broker.
