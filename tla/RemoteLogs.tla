----------------------------- MODULE RemoteLogs -----------------------------
(***************************************************************************)
(* The log and the events of a job on a remote machine, on their way to    *)
(* the terminal of `logs --follow`: the job writes two files on the        *)
(* machine, monitorRemote of the adapter polls them over SSH and appends   *)
(* what is new to logs.txt and events.jsonl of the run, and a follower     *)
(* polls logs.txt and the row of the run.  A failed attempt may be         *)
(* followed by another one on a new machine, which appends to the same     *)
(* local files, and a `cancel` may end the run while an adapter still      *)
(* writes.                                                                 *)
(***************************************************************************)
EXTENDS Naturals, Sequences, FiniteSetsExt, Orders

CONSTANTS
  Events,       \* lines that parse as metric, checkpoint or status events
  Text,         \* any other line
  Partial,         \* the beginning of a line, without its newline
  Own,          \* a line the adapter writes into logs.txt itself
  MaxPieces,    \* bound: pieces one job writes
  MaxAttempts   \* routing.max_attempts

Files    == {"log", "events"}       \* remoteLogsPath, remoteEventsPath
Pieces   == Events \cup {Text, Partial}
Adapters == {"lambda", "vm"}        \* Lambda, the VM runtime of chinacloud

ASSUME LogsAssumption ==
  /\ Text # Partial /\ Events \cap {Text, Partial} = {}
  /\ Own \notin Pieces
  /\ MaxPieces \in Nat /\ MaxAttempts \in Nat \ {0}

VARIABLES
  file,         \* the two files on the machine, as sequences of pieces
  exit,         \* exit.json: absent, an exit code, or not JSON
  machine,      \* "up", or "gone": preempted, failed or terminated
  attempt,      \* number of the attempt
  adapter,      \* who runs it
  pc,           \* where its Submit is
  offset,       \* logOffset and eventOffset of monitorRemote, in pieces
  seen,         \* seenEvents
  outcome,      \* what monitorRemote returned
  localLog,     \* what this attempt has appended to logs.txt
  localEvents,  \* what it has appended to events.jsonl, and from where
  before,       \* length of logs.txt when the attempt began
  row,          \* state of the run in the database
  atEnd,        \* history: length of logs.txt when the run first ended
  canceler,     \* a `cancel` command: idle, machine terminated, row written
  follower,     \* where followLogs is
  shown         \* how much of logs.txt it has printed

jobVars      == <<file, exit, machine>>
monitorVars  == <<attempt, adapter, pc, offset, seen, outcome>>
localVars    == <<localLog, localEvents, before>>
runVars      == <<row, atEnd>>
followVars   == <<follower, shown>>
vars == <<jobVars, monitorVars, localVars, runVars, canceler, followVars>>

\* The length of logs.txt.
LogSize == before + Len(localLog)

Init ==
  /\ file = [f \in Files |-> <<>>]
  /\ exit = "none"
  /\ machine = "up"
  /\ attempt = 1
  /\ adapter \in Adapters
  /\ pc = "log"
  /\ offset = [f \in Files |-> 0]
  /\ seen = {}
  /\ outcome = "none"
  /\ localLog = <<>>
  /\ localEvents = <<>>
  /\ before = 0
  /\ row = "running"
  /\ atEnd = 0
  /\ canceler = "idle"
  /\ follower = "copy"
  /\ shown = 0

-----------------------------------------------------------------------------
(* The job and its machine, for as long as somebody looks at them *)

Polling == pc \in {"log", "events", "exit", "status"}

\* The job writes its lines to the log, and those it reports as events to the
\* events file or to both.
JobWrites(f, p) ==
  /\ f = "events" => p # Text
  /\ Polling /\ machine = "up" /\ exit = "none"
  /\ Len(file["log"]) + Len(file["events"]) < MaxPieces
  /\ file' = [file EXCEPT ![f] = Append(@, p)]
  /\ UNCHANGED <<exit, machine, monitorVars, localVars, runVars, canceler, followVars>>

\* The runner script writes the exit marker after the container has ended.
JobExits ==
  /\ Polling /\ machine = "up" /\ exit = "none"
  /\ exit' \in {"code", "garbled"}
  /\ UNCHANGED <<file, machine, monitorVars, localVars, runVars, canceler, followVars>>

MachineGoes ==
  /\ Polling /\ machine = "up"
  /\ machine' = "gone"
  /\ UNCHANGED <<file, exit, monitorVars, localVars, runVars, canceler, followVars>>

-----------------------------------------------------------------------------
(* monitorRemote *)

\* The offset to copy from; a file shorter than that is read from its start.
From(f) == IF offset[f] > Len(file[f]) THEN 0 ELSE offset[f]

\* Mutant: Lambda too copies an unfinished line.
Mut_CompleteContent(f) == Len(file[f])

\* completeContent: up to the last newline
CompleteContent(f) ==
  Max({From(f)} \cup {n \in (From(f) + 1)..Len(file[f]) : file[f][n] # Partial})

\* appendVMNewLogContent, appendVMNewEventContent: all there is
VMContent(f) == Len(file[f])

NextOffset(f) == IF adapter = "vm" THEN VMContent(f) ELSE CompleteContent(f)

\* What is read now.
NewPositions(f) == (From(f) + 1)..NextOffset(f)

\* Position n ends a line that parses as an event.  The line must start in
\* what is read now.
IsEvent(f, n) ==
  /\ file[f][n] \in Events
  /\ n = From(f) + 1 /\ n > 1 => file[f][n - 1] # Partial

\* Mutant: only events of earlier reads count as seen.
Mut_IsNewEvent(f, n) ==
  IsEvent(f, n) /\ (adapter = "lambda" /\ f = "log" => file[f][n] \notin seen)

\* Only Lambda's monitorRemote remembers the lines it has seen.
IsNewEvent(f, n) ==
  /\ IsEvent(f, n)
  /\ adapter = "lambda" =>
       /\ file[f][n] \notin seen
       /\ \A m \in (From(f) + 1)..(n - 1) : file[f][m] # file[f][n]

NewEvents(f) == {n \in NewPositions(f) : IsNewEvent(f, n)}

\* The events at these positions, as they are written.
Tagged(f, positions) ==
  [k \in DOMAIN positions |-> [event |-> file[f][positions[k]], file |-> f, at |-> positions[k]]]

NewLines(f) == SubSeq(file[f], From(f) + 1, NextOffset(f))

\* ReadFile and appendNewLogContent or appendNewEventContent.
CopyNew(f) ==
  /\ localLog' = IF f = "log" THEN localLog \o NewLines(f) ELSE localLog
  /\ \E positions \in Ascending(NewEvents(f)) :
       localEvents' = localEvents \o Tagged(f, positions)
  /\ seen' = seen \cup {file[f][n] : n \in {m \in NewPositions(f) : IsEvent(f, m)}}
  /\ offset' = [offset EXCEPT ![f] = NextOffset(f)]
  /\ UNCHANGED before

Goto(from, to) == pc = from /\ pc' = to

After(f) == IF f = "log" THEN "events" ELSE "exit"

ReadFile(f) ==
  /\ machine = "up"
  /\ Goto(f, After(f))
  /\ CopyNew(f)
  /\ UNCHANGED <<attempt, adapter, outcome, jobVars, runVars, canceler, followVars>>

\* SSH fails; this poll does without the file.
ReadFileFails(f) ==
  /\ Goto(f, After(f))
  /\ UNCHANGED <<attempt, adapter, offset, seen, outcome, jobVars, localVars,
                 runVars, canceler, followVars>>

Return(from, how) ==
  /\ Goto(from, "settle")
  /\ outcome' = how
  /\ UNCHANGED <<attempt, adapter, offset, seen, jobVars, localVars, runVars,
                 canceler, followVars>>

\* Mutant: a marker that cannot be parsed is read again.
Mut_ReadExit == machine = "up" /\ exit = "code" /\ Return("exit", "exited")

\* parseExit
ReadExit ==
  /\ machine = "up"
  /\ \/ exit = "code" /\ Return("exit", "exited")
     \/ exit = "garbled" /\ Return("exit", "failed")

Continue(from, to) ==
  /\ Goto(from, to)
  /\ UNCHANGED <<attempt, adapter, offset, seen, outcome, jobVars, localVars,
                 runVars, canceler, followVars>>

\* There is no marker yet, or SSH fails.
NoExit == Continue("exit", "status")

\* The machine runs: sleep, then poll again.
MachineIsUp == machine = "up" /\ Continue("status", "log")

\* It does not, or the request fails.
MachineFails == Return("status", "failed")

-----------------------------------------------------------------------------
(* The rest of Submit, and runAttempts *)

\* Submit ends.  If it terminated the machine after the job exited it says so
\* in the log.
SubmitReturns ==
  /\ Goto("settle", "check")
  /\ \/ UNCHANGED localLog
     \/ /\ outcome = "exited"
        /\ localLog' = Append(localLog, Own)
  /\ UNCHANGED <<attempt, adapter, offset, seen, outcome, jobVars, localEvents,
                 before, runVars, canceler, followVars>>

\* runAttempt reads the row: a canceled run stays as it is; a failure may be
\* worth another attempt.
CheckRun ==
  \/ row = "canceled" /\ Continue("check", "over")
  \/ row # "canceled" /\ Continue("check", "finish")
  \/ /\ row # "canceled" /\ outcome = "failed" /\ attempt < MaxAttempts
     /\ Continue("check", "retry")

EndRun(state) ==
  /\ row' = state
  /\ atEnd' = IF row = "running" THEN LogSize ELSE atEnd

FinishRun ==
  /\ Goto("finish", "over")
  /\ EndRun("finished")
  /\ UNCHANGED <<attempt, adapter, offset, seen, outcome, jobVars, localVars,
                 canceler, followVars>>

\* The next attempt launches a machine of its own.
NextAttempt ==
  /\ Goto("retry", "log")
  /\ attempt' = attempt + 1
  /\ adapter' \in Adapters
  /\ offset' = [f \in Files |-> 0]
  /\ seen' = {}
  /\ outcome' = "none"
  /\ file' = [f \in Files |-> <<>>]
  /\ exit' = "none"
  /\ machine' = "up"
  /\ before' = LogSize
  /\ localLog' = <<Own>>
  /\ localEvents' = <<>>
  /\ UNCHANGED <<runVars, canceler, followVars>>

-----------------------------------------------------------------------------
(* cancel, and logs --follow *)

CancelMachine ==
  /\ row = "running" /\ canceler = "idle"
  /\ canceler' = "terminated"
  /\ machine' = "gone"
  /\ UNCHANGED <<file, exit, monitorVars, localVars, runVars, followVars>>

CancelRun ==
  /\ canceler = "terminated"
  /\ canceler' = "done"
  /\ EndRun("canceled")
  /\ UNCHANGED <<jobVars, monitorVars, localVars, followVars>>

\* copyLogFromOffset
CopyLog ==
  /\ follower = "copy"
  /\ follower' = "look"
  /\ shown' = LogSize
  /\ UNCHANGED <<jobVars, monitorVars, localVars, runVars, canceler>>

\* Mutant: what was appended since the last copy is not drained.
Mut_LookAtRun ==
  /\ follower = "look"
  /\ follower' = IF row = "running" THEN "copy" ELSE "done"
  /\ UNCHANGED <<shown, jobVars, monitorVars, localVars, runVars, canceler>>

LookAtRun ==
  /\ follower = "look"
  /\ follower' = IF row = "running" THEN "copy" ELSE "drain"
  /\ UNCHANGED <<shown, jobVars, monitorVars, localVars, runVars, canceler>>

\* Mutant: the drain forgets how far it got.
Mut_Drain ==
  /\ follower = "drain"
  /\ follower' = IF LogSize = shown THEN "done" ELSE "drain"
  /\ UNCHANGED <<shown, jobVars, monitorVars, localVars, runVars, canceler>>

\* drainFinalLogAfterTerminal: until a poll finds nothing new
Drain ==
  /\ follower = "drain"
  /\ shown' = LogSize
  /\ follower' = IF shown' = shown THEN "done" ELSE "drain"
  /\ UNCHANGED <<jobVars, monitorVars, localVars, runVars, canceler>>

-----------------------------------------------------------------------------
(* Specification *)

JobStep == (\E f \in Files, p \in Pieces : JobWrites(f, p)) \/ JobExits \/ MachineGoes

MonitorStep ==
  \/ \E f \in Files : ReadFile(f) \/ ReadFileFails(f)
  \/ ReadExit \/ NoExit \/ MachineIsUp \/ MachineFails
  \/ SubmitReturns \/ CheckRun \/ FinishRun \/ NextAttempt

FollowStep == CopyLog \/ LookAtRun \/ Drain

Next == JobStep \/ MonitorStep \/ CancelMachine \/ CancelRun \/ FollowStep

Spec == Init /\ [][Next]_vars

\* Both processes keep running, and the exit marker can be read at some time
\* if it can be read again and again.
FairSpec == Spec /\ WF_vars(MonitorStep) /\ WF_vars(FollowStep) /\ SF_vars(ReadExit)

-----------------------------------------------------------------------------
(* Types *)

TypeOK ==
  /\ file \in [Files -> Seq(Pieces)]
  /\ exit \in {"none", "code", "garbled"}
  /\ machine \in {"up", "gone"}
  /\ attempt \in 1..MaxAttempts
  /\ adapter \in Adapters
  /\ pc \in {"log", "events", "exit", "status", "settle", "check", "finish",
             "retry", "over"}
  /\ \A f \in Files : offset[f] \in 0..Len(file[f])
  /\ seen \subseteq Events
  /\ outcome \in {"none", "exited", "failed"}
  /\ localLog \in Seq(Pieces \cup {Own})
  /\ localEvents \in Seq([event : Events, file : Files, at : Nat \ {0}])
  /\ before \in Nat
  /\ row \in {"running", "finished", "canceled"}
  /\ atEnd \in 0..LogSize
  /\ canceler \in {"idle", "terminated", "done"}
  /\ follower \in {"copy", "look", "drain", "done"}
  /\ shown \in 0..LogSize

-----------------------------------------------------------------------------
(* Properties *)

\* What logs.txt has of the log of this attempt's job: all but the line that
\* announces a later attempt and the one about the end of the machine.
Copied ==
  LET first == IF attempt = 1 THEN 1 ELSE 2
      last  == IF localLog # <<>> /\ localLog[Len(localLog)] = Own
               THEN Len(localLog) - 1 ELSE Len(localLog)
  IN  SubSeq(localLog, first, last)

Mirror == INSTANCE LineMirror
            WITH source <- file["log"], copy <- Copied, byLine <- adapter = "lambda"

\* logs.txt is a mirror of the remote log: what the job wrote arrives in order
\* and once, on Lambda by whole lines, however the polls fall between the
\* writes and whichever of them fail (appendNewLogContent, completeContent,
\* appendVMNewLogContent).
LogIsMirrored == Mirror!Spec

\* A poll of a VM may end inside line n.
MayBeCut(f, n) == adapter = "vm" /\ n > 1 /\ file[f][n - 1] = Partial

\* Every event in what has been read of either file is in events.jsonl, but
\* for the lines that a poll of a VM may cut in two.  Those of one file come
\* in its order and once; on Lambda, one that the job wrote to both files or
\* repeated arrives once in all (seenEvents).
EventsArriveOnce ==
  /\ \A f \in Files : \A n \in 1..offset[f] :
       file[f][n] \in Events /\ ~MayBeCut(f, n) =>
         \E k \in DOMAIN localEvents : localEvents[k].event = file[f][n]
  /\ \A j, k \in DOMAIN localEvents :
       LET a == localEvents[j]
           b == localEvents[k]
       IN  j < k =>
             /\ a.file = b.file => a.at < b.at
             /\ adapter = "lambda" => a.event # b.event

\* A follower that ends has printed everything that was in the log when the
\* run ended; if nobody canceled the run, it has printed the whole log.
FollowerPrintsAll ==
  follower = "done" =>
    /\ row # "running"
    /\ shown >= atEnd
    /\ canceler = "idle" => shown = LogSize

\* A follower ends after the run does, also while an adapter whose run was
\* canceled still writes.
FollowerEnds == row # "running" ~> follower = "done"

\* The end of a job or of its machine ends the polling.
JobEndIsSeen ==
  exit # "none" \/ machine = "gone" ~> ~Polling

=============================================================================
