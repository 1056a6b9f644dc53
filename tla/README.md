# DrainTracer: specifications and proofs

DrainTracer launches or attaches to a program, follows its whole process tree, samples what
the tree consumes, and reports growth as evidence. It is Python (`src/src/`), with a
terminal dashboard, a headless mode, an in-process API, a local agent service and a team
server. This directory holds TLA+ models of the parts whose correctness depends on
orderings nobody can enumerate in a unit test, the TLC instances that check them, and
proofs that hold for every instance.

## 1. Inventory

| Part | State it keeps | Operations | What is hard about it |
|---|---|---|---|
| Process control, `process_runner.py` | root PID and creation time, tracked PIDs with identities, departed members, suspended PIDs, poll thread | start, attach, refresh, pause, resume, detach, terminate, kill | PIDs are reused and processes fork, exit or become unreadable between any two system calls; an operation may fail half way |
| Session runtime, `session.py` | phase flags, pending cleanup, errors | start, poll, shutdown, forced cleanup | several cleanup steps each of which may fail; Ctrl+C in any of them; a sampling thread that may hang |
| Metrics stream, `events.py` | bounded queue, count of dropped samples | publish, drain | a slow reader and a publisher; loss must be counted |
| Session record, `session_facts.py`, `history.py`, `analysis.py` | exact facts, thinned snapshots, timeline | record, compact, snapshot, summarize | a long session halves its samples; short episodes and exits must survive |
| Leak detector, `leak_detector.py`, `process_history.py`, `stats.py` | evidence windows, warm-up, per-process histories | sample, restart windows, judge, attribute | gaps, sleep, unreadable processes, PID reuse inside one sample |
| Headless run, `headless.py`, `report.py` | evidence, errors, the report in memory and on disk | observe, export, exit status | one exit code out of many outcomes; the report is corrected after it was written |
| Checkpoints, `checkpoints.py` | one file and lock per path, a draft | open, capture, write, recover | a replacement against a crash; two sessions given one path |
| In-process API, `api.py` | command queue and futures, subscribers, status; per subscription a buffer and a turn | start, cancel, commands, subscribe, close, callbacks | one controller thread, caller threads with deadlines, four shared callback workers |
| Agent service, `agent_service.py`, `agent_state.py` | session records, request tombstones, reply cache, journal | start, restart, retire | persistence before launch, a restart between any two steps, retried and conflicting requests |
| Agent files and jobs, `agent_command.py`, `agent_diagnostics.py`, `agent_jobs.py` | fence, lock, credential, journal, jobs | start, serve, stop, remove | a removal interrupted between two unlinks, an agent that starts meanwhile |
| Agent pipe, `agent_transport.py` | one pipe instance | connect, challenge, exchange | a peer stalls or leaves anywhere in an exchange |
| Workload, `workload.py`, `workload_logs.py` | the run's stage, exercise outcomes, captured output | ready, exercise, clean up, exit | Ctrl+C or an error in a cleanup of a cleanup; secrets split over chunks |
| Terminal: `keys.py`, `dashboard.py`, `view_*.py` | terminal mode, held characters; view, confirmation, comparison worker; timeline, inspector | read keys, poll, draw, compare, pause, kill | escape sequences in pieces; confirmations that expire; a worker that ends at any time |
| Before a session: `main.py`, `startup.py`, `process_picker.py`, `config.py` | a list of processes, missing files, layers of settings | pick, repair, resolve | the list is old when a row is taken; files vanish while they are repaired |
| Comparison and baseline, `report_diff.py`, `repeat_comparison.py`, `baseline_control.py` | manifest with its audit, stored evidence | compare, promote, except, check | single and grouped verdicts; a death between evidence and manifest; two writers |
| Sharing, `privacy.py` | none | redact | a PID used twice, processes that start together |
| Team upload queue, `team_queue.py` | queued items, history, file | enqueue, flush, expire, retry | an answer lost after the server committed, a retry of the same upload |
| Team store, `team_store.py`, `team_evidence.py`, `team_governance.py`, `team_backups.py` | projects, credentials, reports, records, requests, backups | bootstrap, issue, revoke, ingest, approve, attest, back up, delete, change the policy | cascades of deletions, two transactions per upload, policies that are refused |
| Operating exercise, `service_*.py` | phases, failures, what it started | probe, stop, judge | one step of a long exercise fails, or is refused for the wrong reason |

Interactions: the dashboard, the headless runner, the workload runner and the API each drive
one `MonitorSession` (`session.py`), which owns one `ProcessManager` and one `LeakDetector`; the
detector's sampling thread refreshes the process tree and publishes to `MetricsStream`. The
API wraps a session in a controller thread; the agent service holds API sessions, writes its
journal and answers over its pipe; the upload queue sends what sessions exported to the team
server; the baseline store keeps what headless runs exported.

What makes each part correct, in one line:

- Process control: nothing that was suspended is forgotten, no control reaches a process
  outside the tree, a member stays tracked until it exits.
- Session: one error or one Ctrl+C never leaves the target half handled, and what cleanup left
  behind is said.
- Stream and buffers: what is lost is counted, what arrives arrives once and in order.
- Record: facts count every sample, thinning loses no episode, the timeline tells of every signal.
- Detector: a window compares totals of the same processes on one run of both clocks, and what
  an alert is attributed to adds up to what grew.
- Headless run and workload: the exit code is earned, and the report on disk says the same one.
- API: a caller that is told its command did not run can rely on it; every accepted command is
  answered; every subscriber hears of the end; a subscription's callbacks never overlap.
- Agent: nothing runs that is not in the journal, a repeated request starts nothing again; a
  removal takes away nothing that somebody uses, and can be repeated until it is done.
- Checkpoint: evidence on disk is replaced only by more of the same session.
- Baseline: the manifest always opens, an approval is never lost, and whatever is worse was
  approved by somebody.
- Upload queue: an entry is stored at most once, leaves the queue once, and "delivered" means
  stored, whatever crashes or is lost.
- Team store: what is retained is usable and within the policy, a retry finds what it created,
  a revoked credential stores no report, a refused policy costs nothing.
- Terminal: keys arrive as pressed, a foreign target dies only after a warning, the process
  hooked is the one meant, and nothing a view is about is left off the screen.

## 2. Modules

### Process control

`ProcessControl` models `process_runner.ProcessManager` and the operating system around it.
A PID names whichever process holds it; a process is its birth number, which is also its
creation time. The manager's state is the code's (`root`, `rootCreated`, `tracked`, `ident`,
`suspended`, `paused`, `departed`, `poll`); `op`, `phase`, `todo` are the operation that holds
the lock and what it has still to do, so the system runs between any two system calls of it.
`Refreshed` is one `_refresh_tracked_pids`: drop what is proven gone, take in the session's
members (Linux), walk the tree, adopt orphans of departed members. `PauseBegin`, `SuspendNext`,
`SuspendFails`, `SuspendDone` are `pause`; `ResumeBegin/Next/Done` `resume`; `DetachBegin`
`detach`; `EndBegin`, `SignalNext`, `WaitLook`, `WaitOn`, `WaitOver` `terminate` and `kill`;
`PollWake`, `PollRefresh` the poll thread. `Fork`, `Stranger`, `Exit`, `UserStop`,
`UserContinue`, `AccessChanges` are the system and its user.

### A session and what it leaves

- `Session`: `MonitorSession.start/shutdown/_force_cleanup/_abort_start`, the headless runner's
  last sample, `LeakDetector.start/stop/_sample_loop` and `MetricsStream`. `pc` is where the main
  thread is, `phase` which of start, monitoring, last sample, abort, shutdown or forced cleanup
  it is in; `Handled` says where an exception leads. The process manager appears as what
  `ProcessControl` lets it be: it tracks the root, leftovers or nothing, and may owe a resume.
- `SessionRecord` with `Analysis`: `SessionFacts`, `SnapshotHistory`, the timeline's marks and the
  report's summary. A sample arrives or is evicted by the stream. `Analysis` has the operators of
  `analysis.py` on sequences of samples, where an episode or a change is a function of the position
  it starts at; both are compared with the sequence of all samples. Stamps stay above 0, which the
  facts' own "none yet" is.
- `Detector` with `ProcessHistory`: one tick of `LeakDetector` is one action that measures,
  restarts windows where the code does, judges each window and attributes the alert. The wall clock
  is set by more than the one second that `_check_timing` tolerates, or not at all.
  `ProcessHistory` is `process_history.py` as operators on a record: who goes on, who ended, which
  tracks have points, what the deques with a `maxlen` keep. `overflow` is a history variable: one
  of these limits (`MaxTracked`, `MaxExited`, `MaxPoints`) cut something off.
- `HeadlessRun`: every path of `HeadlessRunner.run`, `build_report` and `export_log` to the exit code.
- `Checkpoint`: `CheckpointStore` and `_maybe_checkpoint`, for several sessions on one path. A report
  is its session and its cutoff.
- `Workload` and `TargetLog`: `WorkloadRunner` with its exercises, and the reader thread of captured
  output (`BoundedLog`) between a pipe and a file.

### The API, the record of a session and the agent

- `ApiSession`: `api.Session`: the controller thread of `_run`, the command futures, the caller's
  deadline, cancellation and the last event. `Subscription`: `api.Subscription` and the four
  shared callback workers. They meet where `_publish` offers an event: `ApiSession` takes the offer
  as one step and leaves delivery to `Subscription`.
- `Agent`: `AgentRegistry` and `AgentJournal` with the loop of `agent_command`.
- `AgentRemoval`: who creates and who removes the files of an agent, with every file operation a
  step, and the jobs of the processes it launched.
- `AgentExchange`: one request and its reply over the single named pipe, both ends polling.

### The terminal

- `Keyboard` (`keys.py`), `Dashboard` (`dashboard.py` loop, `view_comparison.py` worker), `Timeline`
  (annotations in `session.py`, chart in `view_timeline.py`), `Inspector` (`view_processes.py` and the
  shared lists of `dashboard.py`).
- `Picker` (`startup.py`, `process_picker.py`, `running_processes.py`), `Launch` (installation check and
  repair of `main.py`), `Settings` (`config.py` and `_resolve_settings`).

### Reports and the team

- `Comparison`: caveats, verdicts and exit codes of `report_diff.py`, `repeat_comparison.py` and
  `diff_command.py`, as operators. `Baseline` extends it with the store of `baseline_control.py`.
- `Privacy`: `redact_report`.
- `Selection`: what a list comprehension with a condition keeps of a list, and what `sum()` adds up,
  with their lemmas; used by `Picker`, `Agent`, `UploadQueue`, `LossyQueue`, `ProcessHistory` and
  `Detector`.
- `UploadQueue`: `team_queue.UploadQueue` with the request ledger of `team_evidence.TeamStore._request`,
  over a connection that loses or delays requests and answers.
- `TeamStore`: one project of the team authority. `now` is a clock; an operation is
  `Transaction(Purge(db))`, as each of them purges what expired before it looks. An upload is two
  transactions (`Begin`, then `Ingest`, `Approve`, `Attest` or `Settle`).
- `Exercise`: the phases and gates of the operating exercise.

### Abstract specifications

`LossyQueue` (a bounded queue may lose, but counts and never reorders) is implemented by the
`MetricsStream` of `Session` and by the buffer of each `Subscription` (`ImplementsLossyQueue`; in
run `control` a part of `EverybodyIsServed`); `UploadDelivery` (stored at most once, leaves the queue
once, delivered means stored) by `UploadQueue` with its server (`ImplementsDelivery`). All are
checked as refinements with `INSTANCE ... WITH`; that of the stream and that of the upload queue are
proved as well (section 4).

### Composition for TLC

Machines that share no state are checked side by side by one module, which EXTENDS them (or, as
`MCSession` the list of processes, instantiates them) and whose variable `part` says
which of them a behaviour is of while the others rest: the state spaces are added, not
multiplied, and nothing is assumed about one by another.

| Module | `part` |
|---|---|
| `MCControl` | `processes` (`ProcessControl`, on Windows), `commands` (`ApiSession`), `events` (`Subscription`) |
| `MCBuildMachine` | `processes` (`ProcessControl`, on Linux), `baseline` (`Baseline` with `Comparison`, whose verdicts are of constants) |
| `MCSession` | `session`, `uploads`, `timeline`, `chart` (of `Timeline`, of every short list of points), `list` (`Inspector`), `shared` (`Privacy`) |
| `MCMachines` | `record`, `detector`, `run`, `screen`, `picker`, `launch`, `settings`, `exercise` |
| `MCOperations` | `removal`, `exchange`, `checkpoint`, `workload`, `log`, `keyboard` |

A property with a name of its own in these modules is the machine's, or the conjunction of the
machine's named properties; the comment before it says which. An operator named `X_Something`,
with a comment that begins "Mutation", is `X` with a plausible bug in it: the properties are
meant to fail when it replaces `X`. `TypeOK` of a module without proofs documents its variables.

## 3. Runs

| Run | Question | Bounds |
|---|---|---|
| `control` | On Windows, where orphans keep their old parent PID and suspensions are counted: is a member ever lost or a frozen process forgotten? In the API: can a caller trust "did not run"; is every command answered, every subscriber told? Do turns, closings and full queues strand, reorder or duplicate events? Does a hanging callback stop others? | 3 PIDs, one birth after an application and its worker; one PID may be unreadable; 2 commands, 1 subscriber, queue, batch and buffer 1; 2 subscriptions, 2 workers, queue 1, buffer 2, 3 offers |
| `build` | On Linux, with sessions, reparenting to init and SIGSTOP, inside the terminal DrainTracer runs in: does a control ever reach DrainTracer or a stranger? Is what the user stopped left stopped? Do verdicts of groups and pairs hold; does the baseline store survive deaths, two writers and damage? | 4 PIDs, 2 births after the terminal, DrainTracer and a program; all readable; 2 processes on one store, 4 groups, audit of 3, clock 0..1, 1 damaged file; 2 runs per group over 7 drifts and 3 severities |
| `pc_discovery` | Does discovery go on after a failed detach? (not always) | 3 PIDs, 3 births |
| `session` | Does one error or Ctrl+C, anywhere, leave the target half handled or unreported, or two samplers at work? Does cleanup end? Is an upload stored twice, lost or claimed falsely after crashes, lost answers and late requests? Is what a session has on screen, or hands on, complete and true? | queue 2, 4 samples, 2 Ctrl+C, 1 error; 2 entries, queue 1, 2 attempts, 2 sends; stream 2, timeline 3, 3 samples; 4 lists of processes; 8 private reports |
| `selection` | Is a process with a reused PID ever taken for the one that is selected? (it is) | as `session` |
| `agent` | Does anything run off the record, or twice for one request, through crashes and failed writes? | 3 requests, 2 parameters, 1 active, 2 records, 3 tombstones, 1 reply, 4 admissions, clock 0..2 |
| `agent_replay` | Is a retained start always answered with its session? (not always) | as `agent` |
| `machines` | The smaller machines of a session, the screen and the start (see `MCMachines`) | history limit 12, checkpoint of 3, 13 samples; 3 PIDs, 2 tracked, 2 exits kept, 8 points, 8 ticks, windows of 4 and 6, 3 events; 3 troubles; 4 births and 4 keys of the picker; 2 lost files |
| `headless` | Does the saved report keep the run's own error? (not always) | 3 samples, 3 troubles |
| `operations` | What surrounds a session (see `MCOperations`) | 2 agents, 2 removers, 2 launched processes, 2 broken removals; 2 slow and 2 prompt clients; 2 sessions on one path, 2 samples, 2 faults; 2 exercises, 3 Ctrl+C, 2 mishaps; pipe 2, line 3, log 5; 2 keys |
| `fragments` | Is a secret ever left half in the log of a target? (it is) | as `operations` |
| `team` | Are backups, records, requests and policy kept consistent through every order of uploads, deletions, revocations and policy changes? | 2 reports, 1 approval, 1 receipt, 1 backup, 1 request, 2 administrators, clock 0..3, 1 operation in preparation, 2 policies |

Why the bounds are enough. PIDs: an interesting reuse needs a member, something that inherits
its children or its PID, and one stranger: in `control` the one birth is a child, a new holder of
a freed PID or a stranger on the third, with an orphan left at the old number; in `build` two births
make a child and a new holder of its parent's PID. Chains of several reuses are the theorems'. Queues
of one or two places are full after one event; two attempts distinguish the first, the last and
a blocked one; two records with one active session retire one, and three requests fill three
tombstones, which expire but are never pushed out (that they may be is in `JournalKept` and
`AdmissionTrue`, for any number). The one lifetime that a team record
asks for in the run is as long as the policy's longest, so it is the policy that ends it; the
theorems take any. In the team store two reports tell "this one" from "another one" and fill
the quotas of 3 and 2; the clock of four values is longer than both lifetimes and as long as the
request history. Two Ctrl+C reach the forced cleanup and interrupt it; the third, which the code
swallows, leads to the same state as the second. Thirteen samples pass a limit of twelve once,
and the stored half is small enough to lose any one of them. Two removals and two agents give
one that works and one that comes in the way of it, in either order; two failures break off the
removal and its retry. Two exercises tell the first from a later one. A secret of two characters
is split by every chunk and every limit of the log. An audit of three holds an approval before,
between and after a second baseline. The bounds are the constants whose comment says "bound".

`CHECK_DEADLOCK FALSE` stands where a modelled program really stops: in `session`,
`selection`, `control`, `build`, `operations`, `fragments`, `machines` and `headless` a session, an
exchange, a store, a run or a choice ends. The runs of the agent and the team store also show that
the modelled system never blocks.

### Fairness

- `control`: the controller thread and the callers' threads run, each under weak fairness, and every
  call into the monitor returns, as `session` shows of cleanup. Each callback worker takes, skips,
  begins and ends turns (weak fairness per action), because the four daemon threads loop for the
  life of the process; a callback of the hanging subscription need not end. Deadlines,
  cancellation and new commands are not fair.
- `session`: only the main thread is fair. The sampling thread may hang for ever in a system
  call, the target may live for ever. `CleanupEnds` therefore rests on the two-second join.
- `operations`: the agent's one loop and a client that works take their steps (weak fairness); a
  client is connected at last if the pipe is free again and again (strong fairness), which is
  what polling for it gives. Slow clients are not fair. A removal takes its steps, and the
  operator repeats one that broke off (strong fairness of beginning with confirmation); an agent
  that finds a removal under way ends. The log's reader thread runs.

No liveness is claimed of process control, the agent's records, the upload queue or the team
store: commands of their users drive them.

## 4. Proofs

Eight modules hold theorems. The assumptions are the named ones of the modules, which TLC evaluates
in every run that extends them; a hypothesis beyond them is part of the theorem and named below.
Where a theorem states a property of a run, the run shows it on a small instance and the theorem
for all values of the constants. Of the 35 properties of the passing runs that are not liveness
alone, 34 are proved.

| Module | About | Theorems (property) |
|---|---|---|
| `Selection` | lists filtered by position, sums | lemmas only |
| `ProcessControlProofs` | `ProcessControl` | `TypeCorrect`, `MembersTracked` (`MembersStayTracked`), `ResumeOwed` (`EverySuspendedIsOwed`), `ForeignNever` (`NothingForeign`), `UserStopsRespected` (`UserStopRespected`) |
| `SessionProofs` | `Session`, `Comparison`, `Baseline`, `Timeline`, `Privacy` | `CleanupTrue` (`CleanupIsTrue`), `StreamImplemented` (`ImplementsLossyQueue`), `AuditGrows` (`AuditOnlyGrows`), `ManifestOpens` (`BaselineReadable`), `ComparisonTrue` (`ComparisonHolds`), `TimelineTrue` (`TimelineIsCurrent`), `SharedAnonymous` (`SharedIsAnonymous`) |
| `ApiSessionProofs` | `ApiSession`, `Subscription`, `SessionRecord` | `ToldIsTrue` (`AnswersAreTrue`), `TurnsStayTrue` (`TurnsAreTrue`), `SubscriptionImplemented`, `FactsMatch` (`FactsMatchSamples`), `RecordTrue` (`RecordIsTrue`) |
| `AgentProofs` | `Agent` | `AdmissionTrue` (`AdmissionIsTrue`), `JournalKept` (`JournalIsKept`) |
| `OperationsProofs` | `AgentRemoval`, `Checkpoint`, `Workload`, `TargetLog`, `Keyboard` | `RemovalSafe` (`RemovalIsSafe`), `EvidenceStays`, `TailBounded`, `EvidenceKeptAlways` (`EvidenceKept`), `WorkloadEarned` (`WorkloadVerdictEarned`), `LogFaithful` (`LogIsFaithful`), `KeysTyped` (`KeysAreTyped`) |
| `MachineProofs` | `Detector`, `HeadlessRun`, `Dashboard`, `Picker`, `Launch`, `Settings`, `Exercise` | `RunTold` (`RunIsTrue`), `KillConfirmed` (`KillIsConfirmed`), `ComparisonIsOne` (`OneComparison`), `HookMeant` (`HookIsMeant`), `RepairCareful` (`RepairIsCareful`), `SettingsLayered` (`SettingsAreLayered`), `VerdictEarned` (`PrerequisitesAreEarned`), `DetectorRight` (`DetectorIsRight`) |
| `TeamProofs` | `TeamStore`, `UploadQueue` | `SnapshotsFollowAlways` (`SnapshotsFollow`), `AuthorityKept` (`AuthorityIsKept`), `LinksHoldAlways` (`LinksHold`), `EntriesAccounted` (`EveryEntryAccounted`), `DeliveryImplemented` (`ImplementsDelivery`) |

### Lists and sums

A list comprehension with a condition keeps some positions of a list in their order. `Selected`
says this as a recursive function over the positions, and everything that filters a list (the
process picker, the upload queue, the agent's journal, the queue that may lose) is written with
it. What it computes for every list is proved by induction over the length, with well-founded
sets in place of an induction rule: `Climb` (a set that has 0 and each successor has every natural
number, because a least exception would have a predecessor) gives `SelectedRuns`, that the function
exists; `SelectedPlaces` says that the result is the kept positions in ascending order,
`SelectedFrom` that it contains what was kept and nothing else, `SelectedEnd` that keeping a tail
is keeping the last positions.

`SumOver` adds up the values of a function on finitely many numbers, also as a recursive function.
`SumsExist` and `SumsAgree` give its value; from them, by the same induction, follow what the detector
needs: the sum of sums (`SumPlus`), the sum without one term (`SumWithout`), over two parts
(`SumParts`), and that neither the places of the terms matter nor those that are 0 (`SumMoved`, by
induction over the number of terms).

### Process control

For every set of PIDs, every initial process table, any number of births and either system:

- `TypeCorrect`: the type invariant, by one lemma for each group of actions (`TypeTree`,
  `TypeBind`, `TypePause`, `TypeEnd`, `TypeSystem`) on top of `RefreshedType`.
- `MembersTracked`: a process once tracked under its own identity stays tracked until it exits.
  `MembersStayTracked` is not inductive, because it does not say which identity is on record: a
  member whose entry named another birth would be proven gone by the next refresh. `IdentityInv`
  adds that births and recorded identities do not move between PIDs and lie behind the clock,
  and that a living member is recorded under its birth. `RefreshKeeps` is the core: a refresh
  drops only what is proven gone.
- `ResumeOwed`: every process DrainTracer suspended is tracked, on the list of owed resumes, and
  under the identity the resume will be checked against, assuming `~RebindLive`. `OwedInv` adds
  that a free PID is not stopped, without which a new process would inherit a debt, and that
  `pause` only has tracked PIDs to do. Without the assumption the statement is false:
  `start`/`attach` look only at the root, so a manager bound again while a suspended leftover of
  an earlier tree is tracked forgets it. No caller in `src/` binds a manager twice.
- `ForeignNever`: no suspend, resume or end signal reaches DrainTracer or a process that does not
  descend from the chosen program, and resumes are owed only to processes DrainTracer stopped,
  assuming that creation times can be read (`Deniable = {}`) and that a process which took over a
  member's PID outlives what is remembered of that member (`~FleetingHolders`); `FamilyAssumption`
  says that the initial process table is one of parents and children. Section 5 says why times
  must be readable. `LineInv` is the step that testing would not reach: whoever names a member as
  its parent, and was born in that member's time and before any later holder of its PID, descends
  from the program, for members that live and for those that are only remembered. The walk adopts
  the smallest set closed under its two rules, so `AdoptedAreOurs` only has to show that the
  descendants of the program are closed under them. `BoundInv` adds that a launched program is
  younger than DrainTracer and that nothing is done to a tree which contains DrainTracer.
- `UserStopsRespected`, without any hypothesis: only its user continues a process its user
  stopped, on Windows always, on Linux unless DrainTracer had suspended it before. `StopInv` says that
  a debt is to a tracked process under an identity, and that if this process still holds its PID,
  DrainTracer did suspend it (`halted`, a history variable: suspended and not resumed since); that on
  Windows, where suspensions are counted, it is still suspended then; and that a resume goes to whom
  it was owed when it began. The exception is what SIGCONT does: section 5.

### A session, its stream and annotations, the baseline and the shared report

- `CleanupTrue`: a cleanup called complete has released everything, one disturbance leaves nothing
  half handled, and nobody samples beside the thread, for every length of the queue and any number
  of samples, errors and presses of Ctrl+C. `TargetInv` relates what the manager tracks to what
  cleanup says of it, `SamplerInv` the thread to where the main thread is. The difficulty is "one
  disturbance": `CauseInv` says at each place how many disturbances it took to get there, and in
  particular that a cleanup which raised once is about to be finished by force.
- `StreamImplemented`, a refinement: every step of a session maps to a step of `LossyQueue` or to a
  stutter. `StreamInv` types the stream, which is all the mapping needs; one lemma takes each pair of
  actions that publish, drop or drain. An eviction is shown to keep the positions that `LossyQueue`
  lets a step keep (`SelectedEnd`).
- `AuditGrows` (`WriterInv`: whoever has the store open has read all of it) and `ManifestOpens`
  (`EvidenceInv`: a promotion publishes its evidence before it replaces the manifest, and what a
  process is about to append is replayable).
- `ComparisonTrue`, three results in one. `GroupsAgree`: a range beyond the noise of the medians is a
  change of every pair of runs, because the noise covers the floor and each median, and a median is
  never below the smallest value (`SpreadBounds`: the element with k values up to it exists; `Ends`: a
  group has extremes, by induction). `RefusalAgrees`: each caveat reads the same in either order
  (`CaveatsSwap`), and a report differs from itself in nothing (`SelfRefused`). The approvals:
  `EarnedInv` says of the entry a process is about to append that it was earned against the audit on
  record, which only the one writer can have changed, so the last promotion can answer for itself
  when the next one is recorded (`AppendKeepsEarned`), its own budgets and those of the baseline
  before it included; a check that passes found nothing that is not
  excepted (`PassMeans`), and whatever step follows withdraws what it said (`StepKeepsTold`).
- `TimelineTrue`: the timeline tells the truth about now, for any resources, processes and limits,
  whatever the stream dropped or the timeline evicted. `ViewInv` says of a view that its last
  annotations are what it holds, and that what it holds is annotated or was evicted; before the first
  sample nothing can be annotated at all, which is what makes the first one safe to take in silence.
  Lists of annotations come in three ways, and a lemma says for each what the last of a kind then is:
  one list after another (`ConcatTells`, `OneDecides`), the end of a list (`SuffixTells`), and one
  annotation for each element of a finite set in some order (`ListTells`). `NewMarks` puts the five
  parts of a sample together, `AcceptedTold` takes one sample, and `PollTold` all that are waiting, by
  induction over the recursive function of `AllAccepted`.
- `SharedAnonymous`: a report shares the same whatever is changed of its PIDs, creation times, date,
  names and texts, and it tells processes apart exactly as the report does, for any reports and both
  profiles. `Alike` says of two reports that they are of the same run: sample by sample and row by
  row, with PIDs and times renamed one to one and the clock moved by the same amount. Each of the five
  changes gives such a pair (`ElsewhereAlike`), and such a pair is redacted to the same
  (`RedactedAlike`). Two lemmas carry this. `RelatedJoined`: lists of lists that are related one by one
  are joined to related lists, by induction over the recursive function of `Joined`. `NumberRenamed`:
  the values that have appeared when one first does are renamed one to one with it, so they are as
  many. The other half is `NumberTells`: two values with one number are one, because the values
  before the later one include the earlier one and itself (`LaterNumber`).

### The API, the record of a session and the agent

- `ToldIsTrue`: `ToldInv` relates a command's future to where its caller and the controller are,
  `QueueInv` that what is queued is pending and nothing else waits, `RunInv` what the controller
  holds, `EndInv` what is left when the session is over, `StartInv` that one cancelled before its
  start never comes to run.
- `TurnsStayTrue` (`OneTurnEach` and `NothingStranded`): `DispatchInv` relates the scheduled flag of a
  subscription to the workers and the places of the shared queue, and says that no two of them are
  of one subscription; counting comes last (`TurnsCounted`). `ReleaseKeeps` and `RequeueKeeps` are
  the two ways a turn can end, `OfferKeeps` the one way it can begin.
- `SubscriptionImplemented`, a refinement: the buffer of a subscription implements `LossyQueue`,
  whatever the others do. The mapping of `ImplementsLossyQueue` has the subscription as a parameter of
  its INSTANCE, which the prover does not expand; the theorem has the same mapping for a constant
  `one` of which nothing is said but that it is a subscription. `LosesOldest` is the common part:
  keeping the end of the events and counting the others is what `LossyQueue` allows. An offer sends,
  and loses the oldest event to a full buffer or all to a full shared queue (`OfferSends`); closing
  loses all (`LosesAll`), a callback takes the first (`CallTakes`).
- `RecordTrue`: what a session leaves tells what its samples were, for any samples, limits and length.
  `WholeInv` has one part for each thing that is left, each a statement about the sequence `all` of
  samples that were published:
  - `FactsInv`: the running totals are counts and sums over `all`. The hard part is the signal
    (`SignalInv`): the episodes counted are the samples a signal appears at (`Opens`), every sample
    with a signal lies in the run of one of them (`Reached`), and the signal that is open is the one
    whose run has not ended (`Sounding`). A sample extends the last run, opens another or closes it,
    and one lemma takes each case (`SignalUnseen`, `SignalClears`, ...); sums over positions grow by one
    term (`LapsesAppend`). This is `FactsMatch`.
  - `HistInv`: the stored entries are some of the samples that arrived, in order, each under its
    number (`Arrived`), the latest of them the last. `PinsInv`: while nothing was evicted and the changes of
    state have pins, every change of state is pinned, and hence stored, however often the rest is
    halved.
  - `TimeInv`: the signal marks change rank, and pauses begin and end, one after the other (`Told`,
    `Halted`), and the marks that raise a signal are as many as the episodes.
  - `OrderInv`: as long as the clock is not set back, stamps rise.

  From these the property follows without another step of the system. A report, one made smaller
  and a checkpoint's are thinned lists of `all` (`PickedThinned`, `HalvedThinned`), loading them
  only permutes them (`LoadDrawn`), and a thinned list has no more episodes, no stronger signal and no
  higher peak than the whole (`FewerOpens`, `SeverityBound`, `PeakBound`): the greater of the fact and the list is
  the fact (`OneCovers`). A list with every change of state and the last sample (`Faithful`) shows at each
  of its gaps what was there (`Shows`), so the same changes, episodes, exits and spans are drawn
  (`ChangesDrawn`, `EpisodesDrawn`, `ExitsDrawn`, `WarmupDrawn`, `PausesDrawn`).
- `AdmissionTrue` and `JournalKept`, from one invariant over memory and disk. `LiveInv` says that what
  runs is unfinished in both; `StartInv` that of a request under way nothing is retained, and that
  once admitted it is the last on disk; `OnceInv` that two admissions of one request are further apart
  than tombstones are kept; `Recorded`, `Tombed` and `Covered` that entries name the session they are
  of, without repetition, and that no tombstone is missing that is still to be retained; `Agrees`
  that memory says of an ended session what the journal says. The steps that decide are retirement,
  where the registry loses its oldest finished record (`Retired`, `Kept`), a failed write, after which
  it comes back at another place, and restart, where memory becomes what the journal says.

### Operations around a session

- `RemovalSafe`, for any number of agents, removals and processes, dying anywhere. `FenceInv` says who
  holds the fence and the lock, `StartInv` what a starting agent has found, `JournalInv` what the
  journal on disk knows, `CheckInv` that what a removal has checked stays true until it is done: this
  is where an agent must not be able to start behind its back.
- `EvidenceStays` (evidence is only replaced by later evidence of the same session, except what came to
  the path, or was damaged there, between the look of a write and its replacement, where nothing holds
  the file, `checkpoints.py:194-219`; `overtaken` records those; `HolderInv`: one session holds the lock;
  `PrefixInv`: its draft covers at least what it wrote, wherever that was moved) and `TailBounded`
  (after a poll the checkpoint is younger than the cadence or the session says otherwise; `TailInv`
  carries this through every step of a write); `EvidenceKeptAlways` is both.
- `WorkloadEarned`: `WorkflowInv` says what went well as long as the workflow goes on, `TreeInv` that
  a living tree of an exercise is known to its manager and where it may be left, `EndInv` which
  combinations of state and flags an end can have, and therefore which exit code.
- `LogFaithful`: the log is the start of what the process wrote, redacted, for every output, every way
  to cut it into chunks, every limit and every moment of a stop. The text taken so far is split in two
  (`LogKeptAt`): what was written out, which is of whole lines (`KeptWhole`), and the line that is
  held, unless it grew too long. The file starts the redacted first part (`Covers`), and so starts
  whatever follows (`WholeStarts`). Only at the end of all that was written is the line that is held
  added; at the deadline of a stop it is not, since the log is marked truncated first (the mutant
  `CutLog_NotedLate` swaps the two). A secret that the process itself wrote half of is a finding (§5). `RedactedParts` says that a text cut where no secret
  is cut is redacted part by part; that it is not true elsewhere is why the code holds lines.
  `ConsumedKeeps` takes a chunk, by induction over the recursive function of `Consumed`.
- `KeysTyped`: the keys read are the keys pressed, for any number of presses and any pauses.
  `PosixInv` says that the presses are two lists of keys, those read in full and the rest, and that
  what is held back begins the rest. `DecodedSays` is the core: of characters that begin a list of
  keys, decoding names the first of these keys and holds back the beginning of the others.
  It rests on two facts about each key: what its characters and others after them say is the key and
  then what the others say (`NextKey`; of Escape only if no `[` follows, which is `Apart`), and a part
  of a key says nothing yet (`PartOfKey`). A lone Escape is the exception: after `Patience` ticks it
  is a key, which is right because the terminal does not pause that long after the Escape of a
  sequence (`PosixPass`).
  `WindowsInv` splits the rest once more, at what has arrived: a console's buffer holds whole keys.

### The machines of a session, the screen and the start

- `RunTold`: `ReportInv` says that what is on disk, and what is about to be, holds the exit code the
  run would now have, or that Ctrl+C made that code 130 since (`InterruptedStatus`: it makes it
  nothing else). `docs/reports.md:271` says the report holds the decision at its construction.
- `KillConfirmed`: the warning and its deadline are one (`ConfirmInv`). `ComparisonIsOne`: `CompareInv`
  adds that nothing is under way in any state in which the loop can begin a comparison.
- `HookMeant`: `ListInv` says that the rows are processes other than DrainTracer, `CursorInv` that the
  page on screen is the one with the row of the cursor. What a filter leaves of the rows follows
  from `SelectedFrom`.
- `RepairCareful`, `SettingsLayered`, `VerdictEarned`: `RepairInv` counts questions and attempts,
  `LayerInv` says what is in force after each layer, `ExerciseInv` that a mistake is on record and that
  an agent's phase which came to its end killed it. `LeftInv` says what may still run: every wait for a
  listener or the agent has a limit, so one may outlive its phase, and the first listener's handle is
  lost when the second is started; outside the phase that can still look for it, it is on record as a
  failed probe. Ctrl+C is the exception: between the agent's start and its `try`
  (`service_agent_exercise.py:51-59`), or inside a `finally`, it leaves what runs.

- `DetectorRight`: windows compare, what an alert is attributed by adds up to the change it was raised
  on, and no exit is replaced twice, for any windows, limits and processes, whatever starts, ends, takes
  over a PID, cannot be read or sets the clock. `MeasureInv` carries the first half: the points of the
  series lie behind now, are of one segment, and two of them are as far apart on one clock as on the
  other (`Comparable`); `ClocksAgree` is the step, which rests on the timing check, and on clocks that part by more than
  it tolerates or not at all.
  The second half has three parts. `HistoryInv` says, as long as no limit cut anything off, that the
  points of every track rise up to now (`Sound`), that each point of the series which a window can
  still reach was recorded by every process that was there (`Complete`), and that the total measured
  then is the sum of what the live and the departed tracks held at that time (`Accounted`). A sample
  keeps this: tracks go on, end or begin, and their old values move between the two lists without
  a loss (`StaysHeld`), while what the new points hold is the new total (`BecomesHeld`).
  `ChangeIs` says of one track that `Change` is what it holds now minus what it held then; `GrowthAdds`
  adds this up over all tracks, by the lemmas on sums; and `AlertInv` compares the sum with the two
  ends of the window (`WindowEnds`). `Complete` is what makes its baseline right: a process that was there when the
  window began has a point of that time (`Old`), with a value unless it is unreadable (`Clear`).

### The team

- `SnapshotsFollowAlways`: the invariant is the property itself, but stated of any rows
  (`Sound(rows, minimal)`), so that one lemma for each cascade can be used inside a transaction that
  performs several of them: `ReportsGo`, `PurgeKeeps`, `StricterHolds`, `ShortenedKeeps`. A policy
  update is sound under the new profile before it is installed, which is why the profile is a
  parameter of its own.
- `AuthorityKept`: a revoked credential stores no report and creates nothing that a request is
  remembered for (a record created without a request is not part of the statement), because every transaction that stores
  something removes its caller from the pending ones only if he is authorized then (`ByLeave`). A
  refused policy costs nothing: `AuthorityInv` adds that every report's time lies within the policy
  in force (`Lasting`), so that the transaction which installs the same policy again shortens
  nothing (`PolicyBounds`).
- `LinksHoldAlways`: `LinkInv` is `Linked(db)`, again stated of any rows, with one lemma for each
  cascade. Beyond the property it says that nothing outlives what it refers to: a record is due no
  later than the reports it is about and the approval it rests on, an approval rests on no other
  (`Grounded`), and a request is remembered with its target until its history is over (`Recalled`).
  This is what a purge and a shortened lifetime keep.
- `EntriesAccounted` and `DeliveryImplemented`: `UploadInv` is the shape of the queue's file and of
  what each step has loaded of it (`QueueFiles`), what a flush under way has done (`Flushing`), that
  nothing was sent more often than counted (`Counted`), and that what is on record as delivered is
  stored at the server (`Served`), also for answers and requests that are still under way. The
  refinement maps a queued entry to "queued" and any other to its fate.

### What is only model-checked

- What is shown: `ScreenTellsAll`, which rests on chart columns and subsequences computed by folds and
  recursive operators, for every input.
- Liveness and fairness (`EverybodyIsServed`, `CleanupEnds`, `ReplyArrives`, `RemovalFinishes`,
  `PipeDrains`), which with `ENABLED` are out of the prover's reach.

A recursive operator cannot be used in a proof here at all. A recursive function can, at the price
of the well-founded argument of `Selection`; folds have no such argument, since the theorem about
them takes the folded operator as a parameter.

## 5. What the code does not do as it says

Runs that find a disagreement:

- `pc_discovery`: `detach` joins the poll thread while holding the lock that thread waits for; the
  thread outlives the join, and a failed detach does not restart it (`process_runner.py:672`).
- `agent_replay`: a conflicting repetition of a retained request that is no longer in the reply
  cache (after a restart, or after enough other replies) has its refusal cached in place of the
  original, which is then refused as well; `docs/agent-recovery.md:17` says a repeated start
  returns the original session (`agent_service.py:377`).
- `headless`: when the HTML report fails after the JSON was written, the corrected JSON loses the
  run's own error; `docs/reports.md:261` says exceptions are monitor errors and headless runs
  still export evidence (`session.py:1085`).

- `fragments`: the unfinished line that is held when the pipe ends is redacted as it is and written,
  so half of a secret stays where a process ended, or was ended, in the middle of it
  (`workload_logs.py:122`); the docstring (`workload_logs.py:48`) says redaction runs on complete
  lines, "rather than retaining secret fragments".
- `selection`: when the selected process has exited and another has its PID, whose creation time
  cannot be read, the inspector marks the row of the other, although the one that was selected is
  listed among the exited (`view_processes.py:651`); `view_processes.py:7` says a reused PID is never
  confused with it. `ScreenTellsAll` excepts such lists and asks that a row it may be is shown.

Met while modelling, and kept by the models as the code has them:

- A child whose creation time cannot be read is adopted without the age check, and its own older
  child after it; `docs/observer-stress-results.md:112` says an unreadable creation time cannot
  authorize a process control (`process_runner.py:786`). `NothingForeign` therefore runs with
  readable times (`Deniable` empty).
- A command settled between the deadline and the look at the future raises the bare `TimeoutError`
  instead of `CommandTimeoutError` (`api.py:385`).
- A failed sample moves the detector's time of the last sample, so a gap around it is not seen by
  the check the comment at `leak_detector.py:522` describes (`NoHoleIsJudged` of `Detector`
  states it, and no run checks it).
- The grouped verdict may be "regressed" while every pair is "unchanged" when all old drifts are
  negative (`repeat_comparison.py:147` against `report_diff.py:464`); `GroupedVerdictsHold` excepts it.
- Baseline promotions that are each "unchanged" may creep.
- A workload interrupted by Ctrl+C during an exercise whose cleanup is then incomplete exits 6,
  where `docs/workloads.md` says Ctrl+C returns 130; an error of the target's cleanup likewise hides
  a Ctrl+C, and a second Ctrl+C in the exercise's kill leaves no `exercise_cleanup` record.
- `summary.episodes` may exceed the exact count when the wall clock is set back; the timeline's
  marks may then be out of range as well.
- `build_report(snapshot_limit)` multiplies the stride by the ratio of snapshots to the limit,
  while it picks evenly (`session.py:1112-1115`, `working-principle.md:648`).
- A checkpoint of another session that an operator puts back between the look of a write at the path
  (`checkpoints.py:194`) and its `os.replace` (219) is overwritten; `EvidenceKept` excepts it.
- A session whose list of monitor errors is full (20) does not report that its checkpoint failed.
- An agent that dies in `load_secret` between creating the credential and writing it leaves an
  empty one, which blocks both its start and its removal; a repeated removal that dies between
  creating `agent-state.lock` and writing its byte leaves an empty lock that blocks both for ever,
  while `docs/agent-operations.md` says a partial removal can be retried. `RemovalFinishes` excepts
  the second.
- The very first client of the agent's pipe that connects and leaves before the server polls
  makes `ConnectNamedPipe` fail for ever (`Wedged`); after the first exchange the idle server runs
  into its own three-second challenge, counts it as rejected, and may give up a client that
  connected just then.
- On Linux a process its user stops while DrainTracer has it suspended is continued by DrainTracer's
  resume, since one SIGCONT undoes every stop (`process_runner.py:1016-1017`). The comment at 999
  promises only that a stop which was there before is left alone; `UserStopRespected` states both.
- After a kill while paused the detector stays paused until Space is pressed.
- `--quiet` and `--plain` count as headless only after the installation check, whose prompt may
  therefore appear for them.

Known limits the models keep and the properties state around: a process that took over a member's
PID and exits again before the next look is confused with the member's own parentage
(`FleetingHolders`); a helper forked between the last refresh of a cleanup and its end is not
tracked; check and signal are one step, as psutil makes them; the picker's identity check is
several calls and one step of the model, since `attach` checks the creation time again.

## 6. Not modelled

Formatting, drawing, argument and file parsing, report layout, socket and HTTP I/O, cryptography
and the encoding of stored records are not modelled; where a model meets them it takes their
outcome as a choice (an answer arrives or not, a write succeeds or not, a payload has one of two
forms). Parts without a model of their own, each with its reason:

- Counting handles by type (`handle_types.py`): one table of the operating system parsed into counts.
- Team client, transport and server: frames over TLS with a deadline each and a thread per
  connection. `UploadQueue` takes a request as lost, late or answered, `TeamStore` each call as its
  transactions.
- Team records, receipts and credential files; experiment provenance; diagnostics, units, the
  update check; report pages, contract and investigation: validation, encoding and pure
  summaries that change no state a later step reads.
- Widgets, theme, resources.

Left out of modelled parts: in process control, output pipes, command quoting and tree depths; in
the agent, the event lists, storage inventory and forwarded controls; in the team store, the
audit trail, damaged payloads and the byte limit across projects; in the detector, CPU, I/O,
handle types and host pressure (memory stands for the judged metrics); in the dashboard, the
keys that only move what is drawn; in the timeline, the lifecycle kind `restarted` and a sample
that covers nothing; in a shared report, an unknown creation time; in the exchange over the pipe,
the client's deadline for connecting and the shutdown of the server; in a check against the
baseline, budgets given for that check. `PROJECT.json` says it for each component.

## 7. What remains

1. The team transport with its connection slots and deadlines, composed with `UploadQueue`
   in place of its connection.
2. `Detector` and `SessionRecord` composed, so that evicted and failed samples reach the detector's
   windows and the exact facts in one behaviour.
3. `ScreenTellsAll` as a theorem: its chart written with `Selected`, as the record is.
