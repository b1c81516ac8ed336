# TLA+ verification of switchboard-cli

switchboard-cli is a local-first command line orchestrator for ML training jobs: one process
per command, a SQLite database and a directory of artifacts per run as the only shared state,
and a set of provider adapters (a local process, a scripted mock, GCP Vertex AI, Lambda Cloud,
virtual machines of five Chinese clouds). This directory holds the TLA+ model of it, the TLC
configurations, and the TLAPS proofs.

Paths below are relative to `src/`.

## 1. Inventory

### 1.1 Components

| Component | Code | State it keeps | Operations |
|---|---|---|---|
| Run lifecycle | `internal/cli/root.go` 140-322, 521-602, 831-976, 1049-1068, 1155-1209 | rows of tables `runs`, `attempts`; the locals of `runAttempts` (attempt number, excluded providers, checkpoint) ; `summary.json` | `train`, `resume`, `cancel`, the attempt loop, `writeSummary` |
| State store | `internal/state/store.go` | SQLite tables `runs`, `attempts`, `provider_resources`, `routing_decisions` | one autocommitted statement per method; schema migration in `Open` |
| Provider resources | `internal/cli/root.go` 978-1019, 1211-1231, 1304-1603 | table `provider_resources` | `resources list/refresh/cleanup`, `persistProviderResource`, choice of the adapter that cancels |
| Log follower | `internal/cli/root.go` 1114-1137, 1233-1302 | a byte offset | `logs --follow` |
| Events and checkpoints | `internal/event/ingestor.go`, `internal/checkpoint/resolver.go`, `internal/summary/summary.go` | `events.jsonl` (append only) | parse and mirror protocol lines, read them back, pick the checkpoint to resume from, build the summary |
| Artifacts | `internal/artifact/artifact.go` | run directories, `summary.json` by write-and-rename | `EnsureHome`, `EnsureRun`, `WriteSummary` |
| Routing | `internal/routing/routing.go`, `internal/provider/registry.go` | none | `Select`: filter providers, rank them, explain rejections |
| Local adapter | `internal/provider/local/local.go`, `internal/runtimeprep/local.go` | a child process and two reader goroutines | `Submit`, `Cancel` |
| Mock adapter | `internal/provider/mock/mock.go` | none | scripted `Submit` |
| Lambda adapter | `internal/provider/lambda/*.go` | a cloud instance, its SSH session, log and event offsets | `Submit` (launch, boot, upload, start, monitor, terminate), `GetStatus`, `Cancel` |
| GCP adapter | `internal/provider/gcp/gcp.go` | a Vertex AI custom job, log cursors | `Submit` (create, poll, drain logs), `GetStatus`, `Cancel` |
| China cloud adapters | `internal/provider/chinacloud/*.go` | a virtual machine and its SSH session, like Lambda | `Submit`, `GetStatus`, `Cancel`, one API client per vendor |
| Credentials | `internal/credentials/*.go` | an encrypted file | `Set`, `Delete`, `Get`, `List`, resolver chain |
| Staging and data | `internal/staging/*.go`, `internal/data/preflight.go`, `runtime/container/switchboard_materialize_data.py` | uploaded objects | bundle preflight, uploads before a run |
| Sizing | `internal/sizing/probe.go` | none | one probe command whose output becomes routing hints |
| Packaging | `internal/packaging/docker.go` | a docker image | build and push |
| Configuration | `internal/config/config.go` | none | YAML and flags to a resolved configuration |
| Redaction | `internal/redact/redact.go` | none | replace secrets in strings |
| Planning and rendering | `internal/cli/root.go` 327-482, 604-714, 1605-1830 | none | `plan`, `providers` |

### 1.2 How they interact

* `train` inserts the run row and enters `runAttempts`; `resume` reads the run row and the newest
  checkpoint, prepares the job, restarts the row and enters the same loop. Each turn of the loop
  selects a provider (`routing.Select`, or the explicit one), inserts an attempt row and calls the
  adapter's `Submit`, which blocks until the job is over.
* While it blocks, the adapter calls back: `OnStarted` stores the provider's job reference in the
  attempt row; `OnResourceCreated/Updated` upsert `provider_resources`; log lines go to
  `logs.txt` and protocol lines to `events.jsonl`.
* `cancel` runs in another process. It finds the running attempt through the database, asks the
  adapter to stop the job, and writes its own final states into both rows. The `train` process
  notices only by reading the run row after `Submit` returns.
* `resources refresh/cleanup` run in further processes over the same table as the callbacks.
* `logs --follow` polls a log file and the run row.

There is no lock, no transaction that spans two statements, and no heartbeat: everything that
two commands know of one another goes through single SQLite statements and files.

### 1.3 What is hard

* **Interleaving of commands**: check-then-write in `runAttempt` against `cancelRun`; `resume` of a
  run that is still running; a cancel between two turns of the failover loop; `resources cleanup`
  writing back rows it read before a `train` updated them.
* **Failure**: a CLI process killed while it blocks in `Submit`; a database statement that fails in
  the middle of `runAttempt`; a provider call that fails after the job has started; an instance
  that cannot be terminated.
* **Ordering and numbers**: the attempt bound, excluded providers and checkpoint of the loop;
  checkpoints that repeat or go back in step number; offsets into remote logs that are truncated;
  readers of a process's output against the `Wait` that reaps it.
* **Liveness**: a started run must reach a final state; `logs --follow` must end.

The full list with lines is in `PROJECT.json` under `hazards`.

### 1.4 What makes each component correct

* Run lifecycle: a row that says `running` has somebody who will settle it; failover moves on and
  loses no progress; a resumed attempt can read its checkpoint; `summary.json` and exit status
  agree with the rows; a cancel is final; a started run settles.
* Provider resources: a resource that exists at the provider stays visible to `cleanup`; `refresh`
  and `cleanup` do not undo newer states.
* Remote adapters: an instance is terminated or recorded as one that still needs it; log lines
  arrive in order and once; an exit code is the job's.
* Routing: nothing that was rejected is selected, and the selection is the best of what is left; what
  `plan` reports is what `train` does.
* Virtual machines: the region in a row leads the commands that use it to the machine; what a row
  calls gone is gone.
* Files of a home: a save changes its own key only; an open database has every column.
* Log follower: it prints every byte of the log of a finished run, once and in order, and ends.

## 2. Plan

### 2.1 Modules

| Module | Models | State |
|---|---|---|
| `RunLifecycle` | train, resume, cancel and the attempt loop over the rows of one run | done, section 3 |
| `RunLifecycleProofs` | its theorems | done, section 3.3 |
| `InstanceLifecycle` | a Lambda instance between `Submit`, the cloud and the `resources` commands | done, section 4 |
| `InstanceProofs` | its theorems | done, section 4.3 |
| `Orders` | the order in which a loop visits positions | done, section 5.1 |
| `LineMirror` | abstract specification: a copy that follows its source by whole lines | done, section 5 |
| `RemoteLogs` | the poller of a remote job, the files it copies, the log follower; implements `LineMirror` | done, section 5 |
| `RemoteProofs` | its theorems | done, section 5.3 |
| `LocalJob` | child process, two pipe readers, `Wait`, interrupt by process id; implements `LineMirror` for each stream | done, section 6 |
| `LocalProofs` | its theorems | done, section 6.3 |
| `MC...` | instances of the above for TLC | done |
| `GcpJob` | Vertex AI jobs of a run: create, poll, drain, errors of one request, `cancel`, `refresh` | done, section 7 |
| `GcpProofs` | its theorems | done, section 7.3 |
| `VMLifecycle` | the machines of one run on a China cloud: vendors, regions, the adapters that later commands build from rows | done, section 8 |
| `VMProofs` | its theorems | done, section 8.3 |
| `HomeFiles` | the credentials file and the schema migration, shared by all processes of a home | done, section 9 |
| `HomeProofs` | its theorems | done, section 9.3 |
| `Routing` | `Select` and hardware selection as operators | done, section 10 |
| `Planning` | `plan`, `train` and `resume` from a configuration to the attempts of a run, over `Routing` | done, section 10 |
| `PlanningProofs` | theorems about `Routing` and `Planning` | done, section 10.3 |
| `RunContract` | abstract specification of a run as users see it (states and who may change them), implemented by `RunLifecycle` | open |
| `Staging` | which objects an upload that fails half way leaves behind | open |

`RunLifecycle` treats `Submit` as open: it may return anything an adapter may return. The adapter
modules look inside it. They share no variables; what connects them is that the outcomes of their
`Submit` are among those `RunLifecycle` allows and that the callbacks write the same columns.

### 2.2 Theorems still to prove

Every safety invariant and action property that a passing run checks, and every refinement of
`LineMirror`, is a theorem. What is left is that `RunLifecycle` implements `RunContract`, once that is
written.

## 3. The run lifecycle

### 3.1 `RunLifecycle`

One run and every process that works on it: the `train` that creates it (`Trainer`), any number of
`resume` invocations (`Resumers`) and of `cancel` invocations (`Cancelers`). Every SQL statement and
every file operation is an action, so the processes interleave exactly where the code lets them.

| Model | Code |
|---|---|
| `run`, `attempts` | rows of tables `runs` and `attempts`; id of an attempt = `<<launcher, attemptNumber>>` (random in the code) |
| `clock`, `attempts[a].started` | `started_at`, which orders `AttemptsByRun` |
| `events` | checkpoint events of `events.jsonl` (other events are read by nobody but the summary) |
| `summary`, `snap` | `summary.json`, and what `writeSummary` has read so far |
| `pc` | the position of each process between two statements |
| `number`, `excluded`, `resumeFrom`, `provider`, `target` | locals of `runAttempts` |
| `outcome`, `ret` | what `Submit` returned; the pair (code, err) the command returns |
| `left` | history: the invocations that may have left a row marked running: `run` and `attempt`, those killed at it or whose statement failed; `canceled`, those that found the run canceled after `Submit` and returned |

Choices worth knowing:

* `Submit` is open: before `OnStarted` it may return any error, after it a result or an error, with
  any exit code of `OutcomeCodes`. That over-approximates every adapter.
* `routing.Select` is open too, within what the loop depends on: it may choose any provider that is
  not excluded and reads the checkpoint's scheme, and it may find none.
* A failing `runAttempt` writes the summary itself and `runAttempts` writes it again; the model
  writes it once, except where the first write failed, which the second one retries.
* `SaveRoutingDecision` writes a row nobody reads back except to decorate the summary; left out.
* A job on the local provider may append to `events.jsonl` directly as well as through its output;
  both are `EmitCheckpoint`, and both happen only while the job runs.
* `Faults` turns on crashes (`"crash"`: the process stops between two statements) and failing
  statements or file operations (`"io"`).

### 3.2 Runs

All of them use `MCRunLifecycle`. Deadlock checking is off: commands end, and a system in which
every command has ended is where it should be.

| Run | Question | Instance |
|---|---|---|
| `failover` | does the attempt loop exclude, keep progress and settle correctly through every path and fault? | one `train`, three providers with different checkpoint schemes, three attempts, three checkpoints with two step numbers and two schemes (repeats and steps backwards included), crashes and I/O errors |
| `cancel` | what do a failing-over `train` and a `cancel` do to each other's rows, and does a started run settle? | `FairSpec`, two attempts, two providers, crashes and I/O errors |
| `sequential` | do summary and exit code agree with the rows when commands are issued one at a time, and does no attempt, after a failover or a `resume`, start where its checkpoint cannot be read? | `train`, `resume`, `cancel` with `Overlap = FALSE` |
| `cancel_overwritten` | what the documentation says and the code does not do (section 11) | small |

`failover`, `cancel` and `sequential` together reach every action; three attempts let an exclusion or a
checkpoint be forgotten one turn later than it was recorded; two step numbers and three events are
enough for an equal step, a step backwards and an overtaking one. `Overlap = FALSE` lets a command start only when the others
have ended, because with two active commands a stale summary is expected (each writes what it
read).

Fairness (`cancel`): weak fairness on the steps of a launcher and on `writeSummary`. A process
that is scheduled keeps executing its statements, and `SubmitReturns` is among them: a job ends, or
its adapter gives up on it. Nothing is assumed of users (no command must ever be issued), of jobs
(no checkpoint must be written) or of routing, and faults are never forced. `RunSettles` therefore
excuses a run whose invocation was killed in its attempt loop, or had the very statement fail that was to
settle the run row, and no other: nothing in the code repairs such a row before the next command.

`train`, `resume` and `cancel` all at once, and resumes that overlap, have too many states for a run; the
theorems below cover them (`RunningHasOwner` and `AttemptHasOwner` hold for any sets of commands).
`sequential` runs all three commands one at a time.

What `AttemptHasOwner` excuses: an attempt whose process was killed, or whose own statement failed, inside
`runAttempt`; and one whose invocation found the run canceled by a canceler that had picked another
attempt, which is the disagreement of section 11. An attempt that was picked itself is not excused.

### 3.3 Proofs

`RunLifecycleProofs` proves, for any sets of commands and providers and any `max_attempts`, with
crashes and I/O errors:

* `TypeCorrect` (`TypeOK`). The step lemma `TypeStep` has a step per action and under it a step per
  part of `TypeOK` the action can disturb.
* `RunningRunIsOwned` (`RunningHasOwner`), inductive relative to `TypeOK`, and `RunningAttemptIsOwned`
  (`AttemptHasOwner`). The second needs `AttemptOwnerInv`: `CancelInv` (only a canceler that has picked an attempt,
  one that does not run any more, marks the run), `LeftInv` (an invocation that left a row behind makes no other
  attempt) and `AttemptsInOrder` (below), which says that the rows of an invocation are those up to its `number`.
* `ResumedAttemptsCanRead` (`ResumeIsReadable`), `FailoverNeverReturns` (`FailoverMovesOn`) and
  `FailoverKeepsProgress` (`NoProgressLost`). None is inductive as it stands: each speaks of rows, and
  rows are written from locals that were chosen earlier. `AttemptsInOrder` says which rows of an
  invocation can exist; `ReadableInv`, `MovesOnInv` and `ProgressInv` add what the locals promise about
  the row that comes next (for `ProgressInv`: the checkpoint chosen after a failure is at least as far
  as everything the earlier attempts recorded, and nobody else records in their name).
  `QuietSteps` shows that all but eight actions leave everything these invariants speak of alone.

* `EarlyCancelsAreFinal` (`EarlyCancelIsFinal`), when nobody resumes the run: `Heeded` says where an invocation can be
  that finds the cancel when it looks or has found it, and holds from there on.

* `SummariesAreCurrent` (`SummaryIsCurrent`), if `~Overlap` and `Faults = {}`, and `ExitsTellRunState` (`ExitTellsRunState`), if
  `~Overlap` and `"io" \notin Faults`: commands come one at a time and nothing fails; for the second, commands may have died
  before. TLC finds counterexamples when either property is checked with overlap or I/O errors, or the first one
  with crashes, because rows may then be written after the summary, and a write that fails leaves the row behind
  the result. `EveryStepMoves` reduces all actions to four kinds of moves by one process: it works on its rows, waits,
  writes the summary, or dies; so one command runs at most (`OneAtATime`). `SummaryInv` says that the summary shows the rows
  whenever no command has unfinished business, and that what a command has read for its summary is still so.
  `ReturnInv` says at which places an invocation has an error to return, and that from the last write of the rows on
  its result agrees with them.

The assumptions are otherwise those of `LifecycleAssumption`. Liveness is model-checked only.


## 4. Instances

### 4.1 `InstanceLifecycle`

Lambda instances, each launched by one `Submit` call, and everybody who works on them: `Submit` in
the `train` process, the cloud, `cancel`, and operators who run `resources refresh` and `resources
cleanup`. The processes share the cloud's view of the instance and its row in `provider_resources`.

| Model | Code |
|---|---|
| `cloud` | status the Lambda API reports; what changes it by itself is external (`CloudStep`, `CloudFault`) |
| `row` | column `state`; the other columns that matter never change after the insert (`cleanup_policy` is a function of `config`) |
| `ref` | `attempts.provider_ref`, which `cancel` needs |
| `pc`, `outcome`, `final` | position and locals of `Submit` |
| `tool`, `todo`, `current`, `observed` | what an operator's command has read and is about to store |
| `asked` | history: who asked for termination |
| `Launch` ... `FinalNotRecorded` | `Submit`, `waitForActive`, `failureResult`; one action per API call, callback or return |
| `ReadRows`, `Refresh`, `Cleanup`, `SaveRow`, `ToolFails` | the two commands; a row is read, the cloud is asked, and the whole row is written back later |

Choices worth knowing:

* Every failing call is an action of its own, enabled by `Faults`. A failed terminate request may or
  may not have been carried out; a lost launch answer leaves an instance nobody knows.
* Nothing in the program handles signals, so an interrupt is a crash of the process.
* `cancel` is reduced to what reaches the instance: its row of the attempt is in `RunLifecycle`.
* Not modelled: statuses the documentation of the API does not name; an instance the API no longer
  knows (its error ends `refresh` of every run that includes its row, at the first such row);
  `--dry-run`; configuration that changes between `train` and `cleanup`.
* An instance that the cloud calls unhealthy is stored as `failed` by `refresh` and passed over by
  `cleanup`; `SurvivorIsReclaimed` is about instances that run, so it does not cover these.
* `CleanupPolicy` distinguishes four values and `cleanup` only looks for `never`. So the instance of
  a successful job under `on_failure`, recorded as `succeeded`, becomes eligible for `cleanup` once a
  `refresh` has found it running. `RetainedStays` promises only that `Submit` keeps it.

### 4.2 Runs

| Run | Question | Instance |
|---|---|---|
| `instance_race` | do rows tell the truth, does what is to be kept stay, whoever interleaves, and is every other instance that outlives `Submit` terminated in the end? | `FairSpec`, one instance, one operator, one `cancel`, all four configurations, every fault |
| `instance_pair` | does an instance that outlives `Submit` stay listed, and do commands over several rows keep them apart? | two instances, one operator, default configuration, every fault but refused launch and terminate requests |

One operator is enough for a stale row: a command holds the row it has read while `Submit` writes it.
Several operators at once are covered by the theorems, which hold for any number of them. Two
instances are the least for a command to have rows it has not reached. Everything else is a finite
control state, so larger numbers add no new kind of step. Deadlock checking is off because `Submit` calls end.

Fairness of `instance_race`. `Progress`: a live process executes, its job ends, and an instance that boots or is
being terminated gets there; failures of instances are never forced. `Diligence`: somebody runs both
commands for each run again and again, and when they can be carried out again and again, they succeed
in the end (strong fairness, because other commands and faults disable the steps). That is a procedure
for operators, which `docs/lambda-provider.md` describes, and not something the program does by
itself: nothing in it reclaims an instance unasked.

### 4.3 Proofs

`InstanceProofs` proves, for any numbers of instances and operators, any configurations and (but for
the last) all faults:

* `TypeCorrect` (`TypeOK`);
* `TerminatingRowsAreTrue` (`TerminatingIsTrue`). Not inductive: a stale writer could make it false.
  `GoingInv` adds that whatever a process is about to store (`final`, `observed`) is true as well, and
  stays true because instances never come back;
* `RetainedInstancesStay` (`RetainedStays`). `RetainedInv` ties what `Submit` has asked for to the
  outcome it decided on, and the rows a `cleanup` still holds to the policy it found;
* `SurvivorsAreListed` (`SurvivorIsListed`), assuming that launch and terminate requests do not fail.
  `ListedInv` says who owes what: `Submit` an active row from the moment others can know the instance,
  a command an active state for each running instance it has looked at.

`SurvivorIsReclaimed` is liveness and only model-checked.

## 5. Remote logs

### 5.1 `RemoteLogs`

The log and the events of a remote job on their way to the user: the job writes two files on its
machine; `monitorRemote` polls them over SSH; `followLogs` polls the local log. There are two adapters
with a `monitorRemote` of their own: that of Lambda, which copies whole lines and remembers the events it
has seen, and that of the virtual machines of the Chinese clouds, which copies whatever has arrived and
remembers no event.

| Model | Code |
|---|---|
| `file`, `exit` | `/tmp/switchboard/logs.txt`, `events.jsonl`, `exit.json`. A file is a sequence of pieces: a piece is the rest of a line with its newline, or a beginning of a line (`Partial`) |
| `adapter` | which of the two polls this attempt |
| `offset`, `seen` | `logOffset`, `eventOffset`, `seenEvents` |
| `localLog`, `localEvents`, `before` | `logs.txt` and `events.jsonl` of the run: what this attempt appended, and how much was there before |
| `pc` | which of its reads the poll is at, then the rest of `Submit` and of `runAttempt` |
| `follower`, `shown` | where `followLogs` is, and its offset |
| `canceler`, `row`, `atEnd` | a `cancel` in two steps, the run's state, and the length of the log when it ended |

Redaction, terminal output and the size limit of a line are left out; a job writes no plain text into
its events file. What a job does after its adapter has stopped polling is left out because nobody
sees it. Errors of reading the local log, and an interrupt, end a follower early and are left out.

`LineMirror` is the abstract specification: a copy that grows by whole lines in the order of its source.
What a loop over new events appends is in the order of their positions: `Ascending` of module `Orders` gives the
positions in that order, as a set of one sequence, without recursion, so that the modules can be proved about.

`LogIsMirrored` says that `RemoteLogs` implements it, with the entries of `logs.txt` that came from the
job (`Copied`) for the copy; a new attempt is its `Restart`. A virtual machine's adapter may cut a line where
its poll ends (`MayBeCut`): an event in that line is lost. So the mirror is by whole lines for Lambda (`byLine`),
and otherwise only in order and without gaps; `EventsArriveOnce` excuses events in lines that may be cut.

### 5.2 Runs

| Run | Question | Instance |
|---|---|---|
| `remote_logs` | do lines and events arrive whole, in order and once; does the follower print everything and end; does the end of a job end the polling? | two attempts, either adapter for each, two pieces per job, a `cancel`, SSH and status requests that fail at any time |

Two pieces make a line that arrives in two parts, an event in both files, and the same event twice.
Fairness: both processes keep running, and the exit marker, if it can be read again and again, is
read at some time (strong fairness of `ReadExit`; a connection that fails for ever keeps the adapter
polling until the cloud reports the machine gone or a status request fails). The job need not end.

### 5.3 Proofs

`RemoteProofs` proves, for any set of events and any numbers of pieces and attempts:

| Theorem | What |
|---|---|
| `LogsAreMirrored` | `Spec => LogIsMirrored`: `RemoteLogs` implements `LineMirror` |
| `FollowersPrintAll` | `Spec => []FollowerPrintsAll` |
| `EventsArrive` | `Spec => []EventsArriveOnce` |

All rest on `LogTypes`, whose step lemma also says that `logs.txt` never gets shorter. The assumption is
`LogsAssumption`, of which the proofs use that the adapter's own lines are none of the job's (`Own \notin Pieces`).

For the refinement, `Written` says what the local log consists of: the line that announces a later
attempt, then the first `offset["log"]` pieces of the remote log at their places, then at most the line about
the end of the machine, and that one only when the polling is over. It is needed because `Copied` has to tell the
job's lines from the adapter's own, and because a poll appends to the end of a file that it does not
look at. `CopiedFacts` derives that the copy is the beginning of the log up to the offset; `MirrorStep` then maps a
write of the job to `Grow`, a poll that finds something to `Catch`, `NextAttempt` to `Restart` and the
other steps to stutters. That Lambda never stops inside a line needs the maximum in `completeContent`
to exist and to be a member (`MaxOfBounded`, from the well-founded order of the numbers).

For the follower, `Following` adds that it drains only after the run has ended, and that a run nobody
canceled has ended only when `Submit` has returned, after which nothing is written.

For the events, `EventsInv` adds where they come from: each was read at a place that the offset has passed, and on Lambda
those that were appended are exactly those in `seen`, and no poll ends inside a line. The last is why an event is
read from the start of its line (`WholeLines`), so that none is missed; the second is why none
comes twice. `PollFacts` says what one poll adds in terms of `Ascending` (`AscendingFacts`: such a sequence has
every position once, in order); `EventsReadStep` derives that what is added lies behind what is there and is
complete up to the new offset.

The two liveness properties are model-checked only.

## 6. Local jobs

### 6.1 `LocalJob`

A job of the local provider (`internal/provider/local/local.go`): the child process, the goroutine of
`Submit`, the two goroutines that run `consume` on a pipe each, and a `cancel` in another process.

| Model | Code |
|---|---|
| `child`, `signaled` | the process, up to the zombie that `cmd.Wait` reaps; whether `Cancel` has interrupted it |
| `written`, `fetched`, `taken` | lines the job has written to a stream, those the scanner has read from the pipe, those `scanner.Scan` has returned. What lies between the first two is in the pipe, and lost if `Wait` closes it |
| `pipes`, `reader`, `mutex` | the reading ends, the position of each reader, `writeMu` |
| `log`, `events` | `logs.txt`, `events.jsonl` |
| `main` | where `Submit` is: `OnStarted`, `cmd.Wait`, `wg.Wait` |

The child, the pipes and `os/exec` are external and modelled by what the code relies on: a write to a
full pipe blocks, `Wait` closes both pipes, a read from a closed pipe is an error, and an interrupt of
a process that has exited is not.

A line is an atom of one of three kinds: text, an event, or too long for the scanner. Not modelled: a
line that is cut in two when its writer is killed; jobs that append to `events.jsonl` themselves, or
leave processes behind that keep the pipes open; a `train` that dies while its job runs, and a
process id that is used again; failing writes to the two files, whose errors `consume` ignores.

### 6.2 Runs

| Run | Question | Instance |
|---|---|---|
| `local_job` | do log and events agree, is each stream mirrored without a gap or a repetition, is everything written before `Submit` returns, and does it return? | `FairSpec`, four lines of every kind on either stream, pipes that hold one line, an interrupt at any time |

Pipes of one line fill, so that the job does block; four lines let each reader have one in its scanner, one in
the pipe and be overtaken by the other. Deadlock checking is off because the job ends.

Fairness: the goroutines keep running, and a job that is not blocked in a write ends at some time. An
interrupt need not stop it. `SubmitReturns` excuses one state only: the job still runs, the reader of a stream has
stopped at a line beyond the 16 MB of its buffer, and the pipe of that stream is full, so that job and `Submit` wait
for each other for ever. A job that writes such a line and ends is not excused.

### 6.3 Proofs

`LocalProofs` proves, for any kinds and numbers of lines and any capacity of the pipes:

* `TypeCorrect` (`TypeOK`);
* `ReturnedIsFinal` (`ReturnIsFinal`), an action property, from `ReaderInv`: who holds the mutex, when
  readers exist, and that one that has ended has taken all its scanner read;
* `FetchedLinesAreLogged` (`FetchedIsLogged`), from `LogInv`: the log has every line that was taken but
  the one in hand (`NotLost`), none early (`NotEarly`), none twice (`NotTwice`), and what a reader
  between its two writes has logged is still the last entry (`LastLogged`), which is what the mutex is for;
* `EventsAreInLogOrder` (`EventsFollowLog`). Its three parts are inductive together with `LogInv` and
  `NotYetEvent`, which says that the line in hand is not in `events.jsonl`: the event a reader appends
  is then that of the last entry of the log, behind those of all other events.

* `StreamsMirrored` (`StreamsAreMirrored`): the log, restricted to one stream, implements `LineMirror` for it.
  `InOrder` (the lines of a stream stand in the log in their order) and `LogInv` (which lines those are) are invariants; with
  them, the line numbers of the entries of a stream number these entries from 1 without a gap. A numbering that respects
  the order of an interval is the identity (`NumbersOfInterval`, by the least place where it would differ), so the
  copy is the beginning of the stream (`CopiedFacts`). `StreamStep` then maps a write of the job to `Grow`, the write of a
  reader to the log to `Catch`, and everything else, what the other reader does included, to a stutter.

`SubmitReturns` (liveness) is model-checked only.

## 7. GCP jobs

### 7.1 `GcpJob`

The Vertex AI custom jobs of a run on GCP (`internal/provider/gcp/gcp.go`). Each attempt has a `Submit` of
its own: the first is that of `train`, the others belong to `resume` commands, which may come while
an earlier one is still at work.

| Model | Code |
|---|---|
| `job` | state of the job at Vertex AI. `"running"` stands for every state that is not final (queued, pending, paused), `"failed"` for EXPIRED as well |
| `entries`, `arrived` | what the job has logged, numbered by timestamp, and what Cloud Logging can list of it so far |
| `run`, `attempt`, `ref`, `row` | the state columns of `runs`, `attempts` and `provider_resources`, and whether `provider_ref` is there |
| `log`, `seen` | `logs.txt` and `seenLogs` |
| `pc`, `result` | where `Submit` and then `runAttempt` are, and what they have seen |
| `canceler`, `tool` | a `cancel` and a `resources refresh` between two of their steps, with what they have read |
| `due`, `faulted` | history: what could be listed when a success was seen; which faults an attempt has met |

Choices worth knowing:

* A drain is one step: nobody else writes the log of its attempt. A crash in the middle of one leaves
  less of it, which no property excludes. Events go to their file with their lines and are left out;
  what matters of them is that a `resume` needs a checkpoint in the log.
* The statements before and after `Submit` are those of `RunLifecycle`, reduced to the states of the
  rows; failing ones are modelled there. After a failed attempt of an `auto` run the loop may turn to another
  provider; for the job on GCP that is the same as the end of its run.
* `"answer"` is a create request that is carried out while its answer is lost. A job may be canceled by
  others, and may end otherwise while it is being canceled.
* Not modelled: a create answer without a name, entries without an insert id, and what
  `refresh` does after its first failing row.

### 7.2 Runs

| Run | Question | Instance |
|---|---|---|
| `gcp_job` | do rows tell the truth and converge, is no job left behind without a fault, do log entries come once and in order, does `Submit` end with its job? | `FairSpec`, one attempt, two log entries, every fault, a `cancel`, a `refresh` |

Two entries can arrive in the wrong order, or one of them after the last drain. Jobs of different
attempts share the run row and the log; what the properties say of several attempts at once is covered by the
theorems, which hold for any number of them. Deadlock checking is off because commands end.

Fairness: a `Submit` that is not killed keeps going, and somebody runs `refresh` again and again and
it succeeds now and then for each row (strong fairness, because other commands and faults come between). Jobs
need not end and entries need not arrive.

### 7.3 Proofs

`GcpProofs` proves, for any numbers of attempts and entries and any faults, `RowsTellTheTruth`
(`RowsAreTrue`), `JobsAreAbandonedByFaultsOnly` (`NoJobIsAbandoned`), `AbandonedJobsAreListed`
(`LiveJobIsListed`) and `CanceledJobsAreAsked` (`CanceledJobIsAsked`). They share one invariant, `JobInv`, a
conjunction of five statements about each attempt: nobody knows of an attempt before its job exists
(`EarlyInv`), what `Submit` has seen is final (`SubmitInv`), what a `refresh` is about to store is
either "running" or true (`RowInv`), a `cancel` has asked before it writes (`CancelInv`), and why a job is left
behind (`LeftInv`). The types of the states (`StatesOK`) are proved with it.

Two more theorems are about the log: `EntriesComeOnce` (`EntriesOnceInOrder`) and `SuccessesAreDrained`
(`SuccessIsDrained`). Their invariant, `LogInv`, has the types of the logs and for each attempt `SeenInv` (what a
drain has seen is a beginning of what came up, it is in the log unless it is blank, and nothing else of the attempt is there)
and `DueInv` (what could be listed when `Submit` saw success is seen once the drain after it is over, unless
that drain failed, and a success is stored only then). `DrainStep` shows that a drain keeps `SeenInv`: it appends, in ascending
order, what came up behind everything it has seen. The liveness properties are model-checked only.

## 8. Virtual machines

### 8.1 `VMLifecycle`

The machines of one run on a China cloud (`internal/provider/chinacloud`), created by the attempts of `train`
and of later resumes, and reached again by `cancel` and `resources cleanup`, which build an adapter from a
row of `provider_resources`. A machine lives in one region; create, describe, terminate, the row and the
adapters of later commands each take the region from somewhere else.

| Model | Code |
|---|---|
| `vendor`, `setup` | the provider of the run and the configuration of each attempt: configured region, region of the hardware that routing selected, `terminate_on_completion`, `keep_instance_on_failure` |
| `Client(vendor)` | one record per API client: the region `CreateVM` puts a machine in, the region `GetVM` and `TerminateVM` look in, the region `GetVM` reports, and the table from the vendor's words for a state to `VMState` |
| `cloud` | what has become of the machine (external but for requests) |
| `row` | state and region in `provider_resources`; the order of the rows is that of the attempts |
| `ref`, `attempt`, `run` | `provider_ref` and the state columns |
| `pc`, `outcome`, `final` | where `Submit` is, how the job ended, the row it is about to store |
| `held`, `asked` | the rows a `cleanup` has read, and whether it has terminated the first of them already |
| `kept` | history: machines that `Submit` chose to keep, or was refused to terminate |

Choices worth knowing:

* `cancelAdapterForAttempt` takes the first row of the run with an external id. After a resume that is the
  row of an earlier attempt, perhaps in another region: `Cancel(a, b)` keeps the two apart. The request then
  fails, for the clients that look in one region only.
* The vendors' words for a state differ in more than spelling: Tianyi calls a machine that reboots
  terminating, so `monitorRemote` gives such a job up; Baidu ignores regions altogether.
* A request to terminate may be refused or carried out unanswered, a create answer may be lost. The clients of
  Alibaba and Huawei send no client token, so in the model a lost answer leaves a machine nobody knows,
  whoever the vendor is.
* A failing `OnResourceUpdated` for the running machine makes `Submit` return without terminating it
  (`RunningNotRecorded`); the row of its creation keeps it listed.
* The race of `cancel` with the end of a run is in `RunLifecycle`; request formats, signatures, SKU matching,
  the cloud-init script and the SSH commands are not modelled. Nor are the zone and the custom endpoint, which
  an adapter built from a row does not have. `resources refresh` does not support these machines.

### 8.2 Runs

| Run | Question | Instance |
|---|---|---|
| `vm_run` | are rows true, do they lead to the region the machine is in, do they list what outlives `Submit`, and does no `Submit` watch a dead machine for ever? | `FairSpec`, two regions; one attempt on each vendor, and an attempt with a resume for one vendor of each way to choose a region; every fault, cancel and cleanup at any time |

Two attempts make the first row another one than that of the running attempt, and two regions make a wrong
region possible. A third attempt adds no kind of step; the theorems cover any number. Deadlock checking is off because a
run ends.

Fairness: a `Submit` that is scheduled goes on, its job ends, and a machine that boots or is being deleted
gets there. Faults are not forced, and nobody has to cancel or clean up.

### 8.3 Proofs

`VMProofs` proves, for any regions, plans, numbers of attempts and faults and each vendor, `TypeCorrect`
(`TypeOK`), `GoneRowsAreTrue` (`GoneIsTrue`), `RowsLeadToVMs` (`RowLeadsToVM`) and `StrayVMsAreListed`
(`StrayVMIsListed`). They share one invariant, `IInv`, whose parts are

* `Early`: nothing is known of a machine before it is created, so that no stale claim meets a new machine;
* `Going`: what is about to be written is true as well: the row `Submit` holds (`final`), and the row of the
  machine that `cleanup` has just terminated;
* `Leads`: a `Submit` that is about to report a running machine has found it in the configured region;
* `Books`: a row that says succeeded or failed belongs to a machine that was kept.

Who writes which variable is stated once (`RowWriters`, `RowsInHand`, `GoneStays`, `PcMoves`), and the
step lemmas look at those actions only. `ClientFacts` and `SeesFacts` hold what the five clients have in common.
`VMEndIsSeen` is liveness and only model-checked.

## 9. The files of a home

### 9.1 `HomeFiles`

The two files all processes of one home share, and the two ways in which they are shared without a lock:
`credentials.enc` (`internal/credentials/encrypted_file.go`) is read whole when a process opens it and
rewritten whole when it changes a key; the schema of the database (`internal/state/store.go`, `migrate`) is
brought up to date column by column by every process that opens it.

| Model | Code |
|---|---|
| `command` | what a process runs: `credentials init`, `init --force`, `set`, `delete`, a command that only reads, or one that opens the database (`train` reads credentials before it, `resume` and `cleanup` after it) |
| `file` | no file, an empty one, or a document with a passphrase and items |
| `doc` | the items a process has read and would save |
| `tables`, `columns`, `at` | the database and the column `migrate` has reached |
| `since` | history: what other processes have stored since this one opened the file |

The cipher is a passphrase that matches or does not. `save` writes a temporary file and renames it; the rename is one
step, and a temporary file left behind by a crash is read by nobody. Permissions and `fsync` are left out.

What the model makes visible: two processes that set different keys at the same time lose one of
them (`SaveKeepsTheRest` promises only what had not changed since the process read the file), and
`init --force` needs the passphrase of the store it replaces and keeps its items.

### 9.2 Runs

| Run | Question | Instance |
|---|---|---|
| `home_files` | does a save change its own key only, is an open database complete, and is a lost race for a column over in the end? | `FairSpec`, two processes that run one command after another, two keys, one value, two passphrases, a new database or one with any of the columns, crashes and failing writes |

Two keys are the least for an update of one to lose the other; two processes are the least for a race;
two columns, one in `CREATE TABLE` and one added later, are the two kinds there are. One value is enough because
what is lost is a key, not which value it had.

Fairness: processes that are alive go on, and a user whose command failed because somebody else added the
column repeats it (`Retry`). The code does not retry by itself: `busy_timeout` covers locks, not a
column that has appeared in between.

### 9.3 Proofs

`HomeProofs` proves, for any processes, keys, values, passphrases and columns and all faults, `TypeCorrect`,
`OpenedDatabaseIsComplete` (`OpenedIsComplete`) and `SavesKeepTheRest` (`SaveKeepsTheRest`). The second
follows from `PassedColumns`: every column before the one a process has reached is there, because columns
are never dropped. The third follows from `CopiesAgree`: until it saves, the copy of a process agrees with the
file on every key that is neither its own nor stored by others since it read the file. `Busy` says which command
a process can be running where. `DatabaseOpens` is liveness and only model-checked.

## 10. Planning and routing

### 10.1 `Routing` and `Planning`

`Routing` is `routing.Select` as operators over a registry of adapters: who may run a job (`Eligible`), which
of their hardware fits (`IsEligibleHardware`), in which order the choices come (`HardwareKey`, `Before`) and the
first of them (`Select`). The order is a tuple compared from left to right, as `sort.SliceStable` with its
comparisons and the place in the list comes to.

`Planning` is what `plan`, `train` and `resume` do from a configuration to the attempts of a run
(`internal/cli/root.go`, `internal/config/config.go`): load, preflight, probe, stage, package, credentials,
the choice, the second validation by `runAttempt`, and failover. A behaviour plans a configuration and then
runs it, while the market may move.

| Model | Code |
|---|---|
| `config` | the resolved configuration with the flags |
| `market` | the shapes GCP and Lambda offer; `MarketMoves` changes them between any two steps |
| `Adapter(name)`, `Registry` | `buildProviderRegistryWithOptions`, and `Capabilities`, `Estimate`, `HardwareShapes` and `ValidateJob` of each adapter |
| `job` | inputs by scheme, whether a script and an image are there, as preparation changes them |
| `profile`, `hints` | what the sizing probe asked for, and the hints routing uses |
| `excluded`, `resumeFrom`, `choice`, `attempts` | locals of `runAttempts`, and what became of each attempt |
| `planned` | what `plan` reported |

What is abstracted: of a sizing profile only the memory it requires; of the five China clouds one, because they
differ in nothing that matters here; `Capabilities` and `Estimate` do not fail; run times are integers, prices cents; negative
numbers in a configuration are left out. Names are in the order of `Rank`.

### 10.2 Runs

| Run | Question | Instance |
|---|---|---|
| `planning` | does `train` do what `plan` said, does a provider that routing chose never refuse the job, does its hardware have the memory and keep to the budget, and does failover follow the objective? | some eight hundred configurations in three families, two markets, one change of the market, three attempts |

The families vary a base configuration in what one part of the code looks at: the named provider with its
inputs, staging and packaging; sections that are missing, incomplete or invalid; and the hardware
options of routing. They are not multiplied with one another, because each stage looks at one of them. Two
markets differ in price, quota and in whether Lambda lists anything. A budget of 60 cents lies between the costs of the
shapes, so it rules some of them out and, with the prices of the other market, others. There is no fairness: the questions are about safety.

### 10.3 Proofs

`PlanningProofs` proves, for any configurations, markets, profiles and numbers of attempts:

* `SelectDecides`: if there is anything to choose, `Select` gives one choice, every other comes after it, and its provider is
  registered, not excluded, takes the inputs, reads the checkpoint and validates the job. That there is a first choice
  rests on the order of keys: `LeastInPlace` finds the least number in one place of a set of keys, because the naturals
  are well founded, and `FirstKey` goes through the five places with it. That there is only one is
  `SelectionIsUnique` (below) and `BeforeIsAsymmetric`;
* `RoutingFits` (`RoutedJobFits`), from `ProbeDecides` (a profile sets the memory routing asks for), `BudgetStays` (no
  change of the market moves the budget, or the price a choice was made at) and `Fit` (a choice that waits to be prepared is one its provider accepts, whatever the market does: `ValidateJob` does not
  look at prices);
* `FailoverIsInOrder` (`FirstChoiceIsBest`), from `FirstStays` (the first attempt stays the best of all that were
  possible at first) and `InOrder`: each later choice is one of those as well, because a checkpoint and exclusions only take
  choices away. It needs that the order of keys is strict and total on different providers.

* `PlanIsKept` (`PlanForeseesTrain`). The property speaks of two commands that prepare the same configuration one after the other, so
  its invariant `PlanInv` describes both by what they come to. `Prepared` says which job each place of the preparation has
  (`StagedJob`, `PreparedJob`, which depend on the configuration alone) and which checks have been passed. `Choosable` is what may
  be chosen for the prepared job: it has one element at most (`SelectionIsUnique`: the key of a choice ends with provider
  and place in the list, and keys are totally ordered), and it is the same for both commands where the store does not matter
  (`ChoosableStays`). `PlanIsKnown` says that a plan is the element of `Choosable`, or nothing if there is none or the job
  cannot be prepared; `FirstAttempt` says the same of the first attempt of a run that gets past its checks.

All rest on `RankAssumption` and `PlanningAssumption` only.

## 11. Where documentation and code disagree

A property that meets one of these excuses what the code does and no more; the hazards in `PROJECT.json`
name the excuse under `note`.

* `cancel_overwritten`: a cancel can be overwritten by the final write of the `train` process
  (`docs/development.md:108`, `internal/cli/root_test.go:1895`).

Visible in the models, without a run of their own:

* a `cancel` that lands while `runAttempts` fails over leaves the attempt that starts next marked
  `running` in a canceled run (`root.go:530`, `922`; `docs/development.md:108`); `AttemptHasOwner` excuses it;
* when a terminate request fails, Lambda's `Submit` stores `failed` for a running instance; `resources list
  --active` and `cleanup` pass over it until a `refresh` (`lambda.go:526`; `docs/architecture.md:116`);
* the local `Submit` calls `cmd.Wait` before its readers have reached the end of the pipes, so the last
  lines of a job, and events in them, can be lost (`local.go:115`; `docs/architecture.md:260`, `local_test.go:71`);
* one status request that fails ends the polling of a GCP job and settles its attempt as failed while the
  job runs on (`gcp.go:265`; `docs/gcp-provider.md:5`). `cancel` then refuses, because the run is not
  running; `cleanup` passes over custom jobs; a `resume` starts a second job beside the first one, with
  the same output prefix. Only `resources refresh` still shows it;
* a GCP job that ends as `PARTIALLY_SUCCEEDED` is polled for ever, although `attemptState` counts it as a
  success (`gcp.go:1213`, `293`); `JobEndReturns` excuses it;
* what a remote job writes between the poll of its log and the poll of its exit marker is never copied
  (`lambda.go:376-382`), although adapters are to mirror logs and events (`docs/architecture.md:278`); the VM
  adapters besides cut a line where a poll ends and lose an event in it;
* `cancel` of a resumed run builds its adapter from the first row of the run instead of the row of the attempt
  (`root.go:1216`; `docs/architecture.md:45`, `docs/china-cloud-providers.md:253`);
* `plan` runs no probe and opens no stored credentials (`docs/architecture.md:264`), so it may choose other
  hardware, or no Lambda, than `train` does; `Undisturbed` excuses both;
* manual hardware selection looks neither at quota and availability nor at the budget
  (`docs/gcp-provider.md:123`): `ManualChoices`;
* a local mount outside `/workspace` is seen neither by `plan` nor by routing, only by `PrepareLocal`;
* a China section without a network is accepted by `auto` and by `ValidateJob`, and rejected only when the provider is
  named (`config.go:683`, `vm_runtime.go:193`);
* failover never crosses between providers that run scripts (local, mock) and those that run images, because
  `ValidateJob` of either rejects the jobs of the other;
* an invocation that returns an error exits with 1 (`ExitStatus` in `RunLifecycle`), whatever the
  category `docs/development.md:84-91` lists for it.

## 12. What is not modelled

* The components marked `not_modelled` in `PROJECT.json`: redaction, rendering and other parts without
  state or decisions of their own.
* Which objects a staging upload leaves behind when it fails half way (`Planning` has the failure, not the objects).
* A process id that is used again after a crash of `train` (`local.go:143`): the identity of processes is
  the operating system's.
* Signing, request formats and SKU matching of the vendors' APIs, the idempotency that client tokens buy,
  cloud-init and SSH texts.
* `routing_decisions`, which is written and read and decides nothing.

Only model-checked, not proved: the liveness properties (`RunSettles`, `SurvivorIsReclaimed`, `FollowerEnds`, `JobEndIsSeen`,
`SubmitReturns`, `JobEndReturns`, `RowsConverge`, `VMEndIsSeen`, `DatabaseOpens`), because the installed provers do not
reason about fairness and `ENABLED`. `CancelIsFinal` is false (section 11).
