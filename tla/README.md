# TLA+ models of Leelo

Leelo unlocks a LUKS2 volume with a TPM and a quorum of network evaluators. This
directory holds TLA+ models of its stateful parts, the TLC configurations that
check them on small instances, and TLAPS proofs for every instance.

## The system and its models

| Part | Code | Module |
| --- | --- | --- |
| Policy session and release gate | `leelo-policy` `lib.rs`, `verified.rs`; `leelo-engine` `release.rs` | `Gates` (operators), `GateApi` (any order of calls) |
| Policy compilation, its certificate, decision, hierarchical sharing | `leelo-policy` `lib.rs`, `verified.rs`, `verified_compile.rs` | `PolicyPlan`, `NetworkPolicy` |
| Secret sharing over GF(256) | `leelo-sss` | `Sharing` |
| Unlock operation | `leelo-engine` `lib.rs`, `recovery.rs`, `observation.rs` | `Unlock`, and its promise `Custody` |
| TPM provider | `leelo-tpm` `linux.rs` | `Tpm` |
| Network exchange and evaluation probe | `leelo-net` `lib.rs`, `leelo-probe` | `Probe` |
| enroll and resume-enrollment, LUKS2 adapter, journal reader | `leelo-cli` `enrollment.rs`, `leelo-luks` `linux.rs`, `leelo-collector` `reconcile.rs` | `Enrollment` |
| Evaluator: TLS frontend, key worker, gauge and stage timers | `leelod` `server.rs`, `worker.rs`, `metrics.rs` | `Evaluator` |
| Diagnostic rate limit of leelod | `leelod` `metrics.rs` | `EventWindow` |
| Startup, readiness, shutdown and accept loop of leelod | `leelod` `main.rs`, `worker.rs`, `server.rs`, `service.rs` | `Daemon` |
| Telemetry emitter | `leelo-telemetry` `lib.rs` | `Emitter` |
| Collector: registry, receive loop, log | `leelo-collector` `metrics.rs`, `linux.rs` | `Metrics`, `Collector` (extends `Emitter` and `Metrics`) |
| Collector: reconciliation | `leelo-collector` `reconcile.rs` | `Reconcile` |

How they interact: the CLI's `enroll` prepares an envelope with the engine, tests
it with an unlock, makes it durable and writes slot and token. An unlock
authenticates the envelope, collects shares from evaluators (`leelo-net` talks to
`leelod`), unseals the TPM share, opens the payload and passes both gates.
`leelod` and the CLI emit events; `leelo-collector` counts and reconciles them.

### Gates and GateApi

`session`, a `PolicySession`, is a record of its flags and the leaf positions that
answered. `Quorums` is the set of leaf sets the policy accepts; the model
assumes that it is monotone, has the full set and lacks the empty one
(`QuorumAssumption`), which `PlansMakeQuorums` proves of every plan that the
certificate check accepts.
An operator `x_error` gives the result of method `x`, `x` its effect.
`GateApi` calls all methods in any order, also with a foreign context. `calls`
records the evidence the release gate accepted, with the context and the flag (live,
before the deadline) of each call, so that the phase can be compared with it.

### Unlock

The operation's thread is `pc`; clock (`expired`), provider futures (`queued`,
`started`, `pending`) and the environment (`healthy`, `fault`, `live`, fixed at the
start, one fault at a time) are the rest. Each action is one stretch of code
between two points where the clock or a provider can intervene. Abstractions:

- cryptographic values are reduced to whether they authenticate; `signature`
  stands for any envelope authentication error, `Tpm` for any unseal error;
- `Surplus` is necessary for `InconsistentShares`, so the model allows, and does
  not force, that error when a share is wrong;
- the branch that reports `CanceledOperation` and the `Sharing` error need a node
  id outside the descriptor or an invalid share index; neither is reachable
  through `validate_descriptor`, and both are left out;
- `Timeout` may come with futures that were never polled, because `poll_next`
  yields after futures wake themselves.

`Custody` is what the operation promises: a credential leaves only with a quorum of
shares and the TPM factor, before the deadline, once. `KeepsCustody` is the
refinement (`shares <- available`, `tpm <- gate.phase >= 2`, `late <- expired`).

### Enrollment

Enrollers run a fixed `Script` of file operations around `add_enrollment`;
resumers run `resume-enrollment` on a retained bundle, again and again. A file is
its directory entry (absent, visible, durable) and the numbers of written and
synced records; a record that a failed or torn write leaves is counted as not
written, because `journal_committed` and `authenticate` reject it. The volume is
`header` with `surviving`, the set of metadata states a power loss can leave; a
write adds a state, `sync_all` leaves one. libcryptsetup is external: a conflicting
native write makes it refuse or work on what it reads, and a failed call may have
had its effect. `Space` abstracts the JSON area as a number of entries; the
4096-byte slot reserve is one entry. The lock is the OFD lock.

Disturbances (kills, power losses, failed calls, native writes) are counted. A
behaviour begins with a choice of who takes part: `Scenarios` lists the enrollers
that run, the enrollment each resumer works on and how many disturbances there may
be.

Outside the promise: a resume that finds the token already there returns without
`sync_all` (linux.rs 406-414). If the writer of that token was killed before its
own sync, the reported `committed` is not yet durable. The bundle is, so a further
resume repairs it. `StorageReportTruthful` therefore speaks of enrollers.

### Evaluator

A connection has a task in the frontend and, once the frontend connects to the
worker's socket, one in the worker. An action is what a task does between two
awaits; the curve evaluation has none, so it is part of `Read`. A deadline drops
the future at any await, which cancels its open timers (`conclude`), and closes its
end of the IPC stream: that is all the other process learns. The reply is written in
two writes, so it can be cut in between. The request is one write and the shutdown
that marks its end; until then the worker goes on reading, also when the frontend
already wrote every byte. Abstractions: an outcome category is
only that a timer was finished or dropped; requests are whole or not; 404 stands for
405; a failed call and the inner deadline that has the same effect are one action
(`ExchangeFails`, `HandleFails`). Accept errors and process start and end are in
`Daemon`.

### EventWindow

One call of `Metrics::event` is a clock read, a load and a compare-exchange.
Relaxed loads may be stale, which only adds suppressed events: the exchange decides.

### NetworkPolicy and Sharing

`Sharing` is the arithmetic of `leelo-sss`: a byte is the set of its one bits,
addition is symmetric difference, `mul`, `inverse_nonzero`, `split` and `reconstruct`
follow the code; randomness is an argument. `NetworkPolicy` compiles a tree to a
plan (`compile_node`), certifies it (`check_compilation`), splits a secret along
the plan and recovers it from supplied leaves, some of them altered. Its reference
is the tree itself: `RecoversAsTheTreeSays` and `CompilesFaithfully` compare what
the plan does with a direct reading of the tree, and `MiscompilationIsCaught` gives
the certificate check every plan one edit away from the right one: a gate with another
response, requirement or kind, a child or a gate replaced, dropped, added or exchanged,
a leaf with another identity. The tree also says what recovery cannot notice: a wrong
value in a group below its threshold does not count and is not checked against
anything, although a comment of `recover_network` (lib.rs 157) speaks of every supplied
leaf. Repeated leaves are refused by `responses`, before `reconstruct` sees them.
Secrets have two bytes; bytes are treated alike by the code. `SHARED` names the
policies along which secrets are split; all are compiled.

### Tpm

`Tpm` is every TPM command of `pcr_digest`, `seal` and `unseal`, each a step. In
between, PCRs are extended (which also advances the TPM's update counter), the
hierarchy is cleared or the machine restarts. A PCR value is the number of its
extensions since the start, so that a state can come back. One assumption is about the
TPM and the policy's author and not a check of the code: `CountedAssumption`. TPMs of
PC clients leave PCRs 16 and 21 to 23 out of their update counter; `validate_mask`
allows them, and the counter would not tell of their extension. The model has such
PCRs (`UNCOUNTED`) outside the mask.

### Probe

`Probe` is the exchange of `leelo-net` inside the probe: response head, chunks,
end of body, timer, verification, the calls that replace the textfile, and the report
printed at the end, which fails on a closed output.
Attempts overlap; file calls fail; processes are killed; power is lost. The timer
drops the exchange at an await, and what it stored before stays with the caller.
The unlock uses the same exchange; for `Unlock` only its result matters.

### Daemon

`Daemon` has the two services under a service manager that restarts them, with
startup step by step (any step can fail, the registration of the signal handler
included), readiness, signals, kills and the accept loop whose delay
doubles. A killed service leaves its socket; the manager removes the runtime
directory. The frontend's unit starts after the worker is ready.

### Emitter, Metrics, Collector and Reconcile

`Emitter` is `emit`, split where another thread can come between: the sequence
number, the record with the loss counter, the send. `Metrics` is the registry as
functions on a record. `Collector` composes them with a datagram queue that repeats,
the log with rotation, rollback and torn tail, crash and replay. `Reconcile` reads
inventory, observations, clock and journals in separate steps while all of them
change, and replaces its output in one rename (the temporary file beside it, which an
error removes and a kill leaves, is read by nobody and left out). `Fleets` lists what
the inventory expects, and the operator and the management plane list boots,
enrollments and reports in any order.

## Runs

| Run | Question | Bounds |
| --- | --- | --- |
| `gate_api` | release only with evidence, whatever the calls | 3 leaves: leaf 1 and one of 2, 3 |
| `unlock` | evidence, truthful errors, exact diagnostics, refinement; an unlock ends, and a quorum opens the volume | 4 providers, leaf 1 and 2 of the other 3; window 2, so that it is refilled |
| `enrollment` | slot, token, bundle and journal agree through contention and crashes; resume completes | 2 enrollers and 1 resumer with 1 disturbance, or 1 enroller and 2 resumers with 2; 3 ids |
| `evaluator` | one observation per stage, gauge within limit, truthful responses, no permit is lost | 2 connections, 1 permit in each process |
| `collector` | identities, log, replay and counts through races, crashes and failed writes | 4 threads, 2 of them of 1 emitter, 3 emitters with an attempt each, 3 events, socket of 1, replay memory of 2, 4 series, 2 faults, 1 copy |
| `reconcile` | boot verdicts and enrollment counts against what happened | 1 expected boot of a machine that boots twice, or 1 journal under 2 paths, clock to 2, validity 1, any number of failures |
| `daemon` | readiness, retry gauge and delay, the services come back | 2 services, 2 faults, 1 kill, 1 signal, 3 accept errors |
| `network_policy` | limits, certificate, decision, splitting and recovery against the tree | trees at each limit with `MAX_NODES` 11; 3 of them with secrets, 1 altered leaf |
| `tpm` | snapshot, release, refusals | 4 PCRs, 2 in the mask, 1 uncounted, 2 extensions each, 2 events |
| `probe` | textfile and exit status | 2 attempts, 2-byte responses, 2 disturbances |
| `event_window` | the rate limit within windows | 2 threads, 3 windows, 5 calls |
| `event_window_one` | the documented limit; violated | as above |

The bounds hold the cases that matter: a nested threshold with a mandatory leaf,
a window smaller than the number of providers, two processes with the same stale
slot, a crash of the repair of a crash, a worker that is still busy with a request
the frontend gave up, a replay memory smaller than the attempts, so that one is
forgotten, inputs that go stale between two reads, a fault during the
repair of a fault, a response that can be too long by one byte. `MAX_NODES` is 11
instead of 31 so that trees at the limit stay small; depth and share limits are
those of the code. Symmetry is used between the attempts of run `probe` and the
threads and attempts of run `collector`, which have no liveness properties.

Deadlock is not checked for unlock (the operation ends), the gates (a released
session refuses everything), the evaluator (each connection is made once), the
event window (calls are bounded), where attempts run once or leaves are supplied up
to a bound (`probe`, `network_policy`, `tpm`), where events are bounded (`collector`)
or services may be stopped (`daemon`).

### Fairness

- `FairSpec` of Unlock: the operation's thread runs and `timeout_at` fires; nothing is
  assumed of the TPM call, which no deadline interrupts (`unlock`: "This cannot
  interrupt a blocked TPM driver call"). Its two liveness properties name what else
  they need. `Terminates` needs that the clock advances (`ClockAdvances`) and nothing
  of providers; the one place where an unlock may wait forever is the TPM call
  (`TpmBlocks`). `QuorumOpens` needs that
  while providers are pending one of them is polled, answers or fails
  (`ProvidersAnswer`), because `leelo-net` bounds every exchange by five seconds
  (`evaluate_before`); the clock may or may not advance.
- `FairSpec` of Enrollment: a process that can step steps, and the operator runs
  `resume-enrollment` again when it has ended.
- `FairSpec` of Evaluator: accept loops run, ended tasks drop their guards, and
  `CONNECTION_DEADLINE` and the worker's `IPC_DEADLINE` fire. Nothing is assumed of
  clients, nor of the worker by the frontend.
- `LiveSpec` of Daemon: processes are scheduled, timers fire, and the manager restarts.
  Removing the runtime directory is strongly fair, because systemd removes it at
  every stop of the unit and the service can be down and up again in between.
  `ServesAgain` is about behaviours without a stop signal: a stop is final.

### Findings

`event_window_one`: leelod's README promises at most one diagnostic event per
five-second window. A call that read the clock before a window ended can set
`event_window` back and reopen the later window.

## Proofs

Eight modules hold theorems, each for every value of the constants that satisfies
the assumptions named with it. The invariant a proof rests on was first checked by
TLC on the instance of the run.

`UnlockProofs`: type correctness, `Coherent`, `ReleaseHasEvidence`,
`StatusHasCause`, `NetworkPrecedesTpm`, `AnswersStand`, `DiagnosticsExact`,
`WindowIsFull` and the refinement of `Custody`, for every number of providers,
window and policy. The properties are not inductive: they speak of the end of the
operation. `Coherent` says what is known at each `pc` of the loop's variables, the
session, the gate and the faults already ruled out; its four parts are preserved
separately (`StepNetwork`, `StepSession`, `StepGate`, `StepFault`).
`GatesNeverRefuse` then shows that, before the deadline and with live authorization
where the mode needs it, no gate refuses in a run, and `InsufficientHasCause` uses
that every provider was asked and that policies are monotone. `ReportState` says
that, until the operation ends, a provider has a failure exactly if its observation
says so; the three properties of the report follow from it. Assumptions: those of
the gates, `OperationsAssumption`, `KindsAssumption`.

The same module holds the theorems about the gates by themselves (`GateApi`): the
type invariant, `SessionReleaseJustified`, `SessionFrozen` and
`GateReleaseJustified`, for every number of leaves and every monotone policy. The
release gate's property is about what it accepted, call by call; the invariant adds
that phase and recorded calls agree. Assumptions:
`LeavesAssumption`, `QuorumAssumption`. `PlansMakeQuorums` discharges the second
for the policies there are: for every plan whose gates pass `leaf_checked` and
`threshold_checked`, of any length, the sets of answers for which the root decides
yes (`SatisfyingSets`) are upward closed, do not include the empty set and include
the set of all answers. The argument goes along the plan: children come before
their gate, so if every earlier value only grows when answers are added, so does
the number of children that are met.

`EnrollmentProofs`: the four invariants of run `enrollment` and `NothingOverwritten`,
for any number of enrollers, resumers, slots and disturbances. The properties speak
of every state of the volume that may survive a power loss, and none says how it
came about. The invariant has four parts: types; `Control`, that one process at a
time is inside `leelo-luks` and knows the slot its envelope signs; `Journals`, what
the files hold at each position of the script, and what may remain of them after
crashes (`Remains`); `Volume`, what every surviving state holds of an enrollment
while its command is at each step of `add_enrollment` and `attach_locked`
(`Holds`, `During`, `Now`, `Attached`). Native writes and other enrollments leave
the slots and tokens of an enrollment alone because targets are free when the
library call happens, which is `NothingOverwritten`. Assumptions:
`ProcessesAssumption`, `BoundsAssumption`, `ScenariosAssumption`.

`EvaluatorProofs`: `GaugeWithinLimit`, `OneObservation` and `ResponseTruthful`, for
every limit and any number of connections. `Gauges` says that free permits and
tasks that hold one add up to the limit, and that the gauge is the number of tasks
between `metrics.enter` and the drop of its guard; `Observed`, which timers of a
task may still end at each of its steps; `Exchanges`, what the tasks of the two
processes know of each other. The cardinalities come from `FiniteSetTheorems`.
Assumption: `LimitsAssumption`.

`LeelodProofs`: two parts of leelod that share no state. For `Daemon`,
`ReadyMeansReachable` and `OutageFollowsFailures`, for any services, errors, faults,
kills and signals. The first needs which steps of startup leave the socket open and
that a process that is gone is not notified (`Ready`); the second that a process
sleeps only after a failure and that one that does not serve has seen none
(`Outage`), and that powers of two grow, so that doubling a capped delay and capping
again is the next power, capped. Assumption: `RetryAssumption`. For `EventWindow`,
`OneEventUnlessOvertaken`, for any threads, windows and calls. As long as no call is
overtaken, a call inside `event` has read the window the clock is in, and that window
has an event only if `event_window` holds it. Assumption: `WindowAssumption`.

`TpmProofs`: `DigestIsOneState`, `ReleasedInBoundState` and `RefusalMeansChange`,
for any PCRs and any selection. The invariant says where a call is in its list of
commands and what is known by then: the values `pcr_digest` read and the update
counter they were read at, the assertions of the session, whether the parent is
held, and that the sealed object has the policy of the bound state. The update
counter is the version of the PCRs: what was read or compared at a counter holds
while the counter is the same. That the mask can be listed in increasing order is
proved by induction on its size (`SelectionIsList`). Assumptions: `PcrsAssumption`,
that there are finitely many PCRs and their indices are numbers, `MaskAssumption`,
which is `validate_mask`, and `CountedAssumption` (see Tpm above).

`CollectorProofs`: `IdentitiesDistinct`, `NeverAppendsToTail`,
`ReplayRestoresHistory` and `BoundsAccountedFor`, for any emitters, threads,
events, restarts and limits. The first needs that a number in a thread is below its
emitter's counter, held by no other thread and carried by no sent record; the second
that both logs are whole lines from the moment they were replayed. The other two rest
on `CInv`. Its part `Retained` says that, while no registry has evicted anything, no
two lines of the logs repeat each other (neither one identity nor two terminal
records of an attempt) and the registry of a running collector knows every line, also
the one it is about to append. A write that fails or a crash only cuts lines off, and
a rotation moves them, so this survives; a replay then meets nothing it knows, by
induction along the lines of both logs (`ReplayFollows`, `ReplayAdmits`). Its parts
`Registry` and `CountsOnce` give `BoundsAccountedFor`. `accept` adds one to a total, or
to `overflow`, exactly when it marks an attempt as completed; the attempts are those of
a queue without repetitions, and each that falls out of it adds one to the evictions,
so a completion that is forgotten is paid for before it can count again. A replay
starts from an empty registry. Assumptions: `OwnerAssumption`, `BoundsAssumption` (the
replay memory is not empty), and `EventsAssumption`, that no client reports the
operation `serve`.

`ReconcileProofs`: `VerdictsAreTimely`, `OrderIndependent`, `LateStaysLate` and
`CountsTellJournals`, for any fleet, reports, paths and journals, and any
interleaving with the operator, the management plane and the CLI. The properties are
about the exported file. `BootsInv` follows the process from what it read, which may
be old but is never taken back (`Sources`, `Read`), over the verdict (`Classified`)
to the file (`Exported`). A late success is final because the report that made it
late stays in the observations, and no report of an earlier time outranks it. The
verdict ignores the order of the reports because two reports of one time that
disagree are a conflict in either order. `CountsInv` goes along the list of
enrollments: those counted so far and not as unknown stand for as many different
journals, and those counted as committed for as many complete ones (`Tally`); a
complete journal stays complete. `TimelyInv` adds the times: what was read was not
written later than what is there now, so a file that is silent when the snapshot is
taken was stale when it was read, and a stale one has counted for nothing.
Assumptions: `PathAssumption`, `TimesAssumption`, `RecordsAssumption`,
`ValidityAssumption`.

`ProbeProofs`: the invariants of run `probe`, and that the textfile is one whole
report, that a report has the certificate of its own attempt and that the buffer is
bounded, for any attempts, response size and disturbances. They speak of the attempt
behind a report; the strengthening `IInv` says what an attempt has established at
each place (`Sound`) and that every report that can be read, now or after a power
loss, is of an attempt that is done and whose facts no longer change (`Readable`).
Assumption: `ResponseAssumption`.

### Induction over data

What a recursive function computes is proved by induction on a number: a set that
has 0 and with each number the next one has all of them (lemma `Induction`, from the
well-foundedness of `<`), applied to the set of the numbers for which the statement
holds. In the same way each recursive function is first shown to exist
(`PrefixesExist` and `EvaluationExists` for plans, `WalkExists` for the replay of a log), because
TLA+ defines it by CHOOSE. Replays, plans, powers of two and lists of PCRs
are within reach this way.

### Only model-checked

- Liveness: `Terminates` and `QuorumOpens` of Unlock, `ResumeCompletes` of
  Enrollment, `Drains` of Evaluator, `ServesAgain` of Daemon. Fairness and ENABLED
  are outside the prover.
- `CompilesFaithfully`, `MiscompilationIsCaught` and `RecoversAsTheTreeSays` of
  NetworkPolicy, with `Sharing`: recursive operators over trees, and polynomials over
  GF(256), which the prover cannot unfold. TLC compares them with their reference on
  the trees of the MC module.

## Not modelled

- Cryptographic primitives (`leelo-crypto`): authentication and proofs are facts in
  the models.
- Envelope codec (`leelo-envelope`) and wire protocol (`leelo-protocol`): fixed
  layouts without state; a model would repeat their byte offsets.
- TLS, DNS, HTTP, TSS and libcryptsetup internals: external, modelled by what the
  code can observe of them.
- Parsing of provider files, endpoint URLs and certificates: a step that works or
  fails.
- `leelo-assurance`, fuzzing, scripts, monitoring rules.
- Formatting of metrics text, JSON output and messages.
- `prepare` of the engine, and the unlock command around it: one thread that calls
  fallible steps in a fixed order and reports the first that fails.
- Key generation (`private_file.rs`, `keygen.rs`): a command that is run once by an
  operator; what a crash can leave of its two files is listed as a hazard.
- The snapshot exporter's connections (`snapshot.rs`) and the collector's reader of
  them; starting the exporter is a step of `Daemon`.
