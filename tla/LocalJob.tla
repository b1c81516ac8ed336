------------------------------ MODULE LocalJob ------------------------------
(***************************************************************************)
(* A job of the local provider: a child process that writes lines to its   *)
(* standard output and error, the two goroutines that read them from pipes *)
(* and write logs.txt and events.jsonl, the goroutine of Submit that waits *)
(* for the child and then for the readers, and a `cancel` that interrupts  *)
(* the child by its process id.                                            *)
(***************************************************************************)
EXTENDS Naturals, Sequences, Orders

CONSTANTS
  Kinds,     \* kinds of lines the job may write, see AllKinds
  MaxLines,  \* bound: lines the job writes
  Capacity   \* lines a pipe holds

Streams  == {"stdout", "stderr"}
AllKinds == {"text",   \* no event
             "event",  \* a metric, checkpoint or status event
             "long"}   \* a line beyond the 16 MB of the scanner's buffer

ASSUME LocalAssumption ==
  /\ Kinds \subseteq AllKinds
  /\ MaxLines \in Nat /\ Capacity \in Nat \ {0}

VARIABLES
  child,     \* the process: none, running, exited (a zombie), reaped
  signaled,  \* somebody has sent it an interrupt
  written,   \* lines it has written to each stream
  fetched,   \* how many of them the scanner has read from the pipe
  taken,     \* how many of these the reader has taken from the scanner
  pipes,     \* the reading ends of both pipes: open or closed
  reader,    \* where the goroutine of a stream is
  mutex,     \* writeMu: "free", or the stream whose reader holds it
  log,       \* logs.txt: lines by stream and number, or Own
  events,    \* events.jsonl, as lines of the job
  main       \* where Submit is

jobVars    == <<child, signaled, written>>
readVars   == <<fetched, taken, pipes, reader>>
outputVars == <<mutex, log, events>>
vars == <<jobVars, readVars, outputVars, main>>

Line(s, n) == [stream |-> s, line |-> n]
Own == Line("none", 0)   \* the scanner error the adapter logs itself

Init ==
  /\ child = "none"
  /\ signaled = FALSE
  /\ written = [s \in Streams |-> <<>>]
  /\ fetched = [s \in Streams |-> 0]
  /\ taken = [s \in Streams |-> 0]
  /\ pipes = "open"
  /\ reader = [s \in Streams |-> "none"]
  /\ mutex = "free"
  /\ log = <<>>
  /\ events = <<>>
  /\ main = "start"

-----------------------------------------------------------------------------
(* The child process *)

Written == Len(written["stdout"]) + Len(written["stderr"])

\* Lines of which the reader has not read all.
Unread(s) == fetched[s] + 1 .. Len(written[s])

\* The pipe takes no more; a long line fits no pipe.
Full(s) ==
  \/ Len(written[s]) - fetched[s] > Capacity
  \/ \E i \in Unread(s) : written[s][i] = "long"

\* It hangs in a write to a pipe that is full.
Blocked == \E s \in Streams : Full(s)

JobWrites(s, k) ==
  /\ child = "running" /\ ~Blocked
  /\ Written < MaxLines
  /\ written' = [written EXCEPT ![s] = Append(@, k)]
  /\ UNCHANGED <<child, signaled, readVars, outputVars, main>>

JobExits ==
  /\ child = "running" /\ ~Blocked
  /\ child' = "exited"
  /\ UNCHANGED <<signaled, written, readVars, outputVars, main>>

\* An interrupt ends the job; it may also handle the signal and go on.
JobDies ==
  /\ child = "running" /\ signaled
  /\ child' = "exited"
  /\ UNCHANGED <<signaled, written, readVars, outputVars, main>>

-----------------------------------------------------------------------------
(* Submit *)

Start ==
  /\ main = "start"
  /\ child' = "running"
  /\ main' = "notify"
  /\ UNCHANGED <<signaled, written, readVars, outputVars>>

\* The artifacts, the pipes or the process cannot be opened.
StartFails ==
  /\ main = "start"
  /\ main' = "returned"
  /\ UNCHANGED <<jobVars, readVars, outputVars>>

\* The process id is stored in the attempt, and the readers start.
OnStarted ==
  /\ main = "notify"
  /\ reader' = [s \in Streams |-> "scan"]
  /\ main' = "wait"
  /\ UNCHANGED <<jobVars, fetched, taken, pipes, outputVars>>

\* It cannot be stored: the child is killed, whatever it does.
StartNotRecorded ==
  /\ main = "notify"
  /\ child' = "exited"
  /\ main' = "abort"
  /\ UNCHANGED <<signaled, written, readVars, outputVars>>

\* cmd.Wait reaps the process and closes the reading ends of the pipes.
Reap ==
  /\ child = "exited"
  /\ child' = "reaped"
  /\ pipes' = "closed"
  /\ UNCHANGED <<signaled, written, fetched, taken, reader, outputVars>>

Abort == main = "abort" /\ Reap /\ main' = "returned"
Wait  == main = "wait" /\ Reap /\ main' = "join"

\* wg.Wait
Join ==
  /\ main = "join"
  /\ \A s \in Streams : reader[s] = "done"
  /\ main' = "returned"
  /\ UNCHANGED <<jobVars, readVars, outputVars>>

-----------------------------------------------------------------------------
(* The reader of a stream: consume *)

GoOn(s, where) == reader' = [reader EXCEPT ![s] = where]

\* The scanner has handed out all it has read.
Hungry(s) == reader[s] = "scan" /\ taken[s] = fetched[s]

\* Mutant: a read that fills the buffer overwrites what is left in it.
Mut_Fetch(s) ==
  /\ reader[s] = "scan" /\ pipes = "open"
  /\ \E n \in Unread(s) : fetched' = [fetched EXCEPT ![s] = n]
  /\ taken' = fetched
  /\ UNCHANGED <<jobVars, pipes, reader, outputVars, main>>

\* One read from the pipe, which may return several lines.
Fetch(s) ==
  /\ Hungry(s) /\ pipes = "open"
  /\ \E n \in Unread(s) :
       /\ \A i \in fetched[s] + 1 .. n : written[s][i] # "long"
       /\ fetched' = [fetched EXCEPT ![s] = n]
  /\ UNCHANGED <<jobVars, taken, pipes, reader, outputVars, main>>

\* A line that does not fit the buffer ends the scanner.  What is left of the
\* line fits the pipe or blocks the job.
TooLong(s) ==
  /\ Hungry(s) /\ pipes = "open"
  /\ fetched[s] < Len(written[s]) /\ written[s][fetched[s] + 1] = "long"
  /\ \/ fetched' = [fetched EXCEPT ![s] = @ + 1]
     \/ UNCHANGED fetched
  /\ GoOn(s, "error")
  /\ UNCHANGED <<jobVars, taken, pipes, outputVars, main>>

\* The pipe is empty and its writing end is closed.
EndOfFile(s) ==
  /\ Hungry(s) /\ pipes = "open"
  /\ fetched[s] = Len(written[s]) /\ child # "running"
  /\ GoOn(s, "done")
  /\ UNCHANGED <<jobVars, fetched, taken, pipes, outputVars, main>>

\* Mutant: a closed pipe ends a reader whatever its scanner holds.
Mut_ReadClosed(s) ==
  /\ reader[s] = "scan" /\ pipes = "closed"
  /\ GoOn(s, "error")
  /\ UNCHANGED <<jobVars, fetched, taken, pipes, outputVars, main>>

\* Reading from a pipe that Wait has closed is an error.
ReadClosed(s) ==
  /\ Hungry(s) /\ pipes = "closed"
  /\ GoOn(s, "error")
  /\ UNCHANGED <<jobVars, fetched, taken, pipes, outputVars, main>>

Scan(s) ==
  /\ reader[s] = "scan" /\ taken[s] < fetched[s]
  /\ taken' = [taken EXCEPT ![s] = @ + 1]
  /\ GoOn(s, "lock")
  /\ UNCHANGED <<jobVars, fetched, pipes, outputVars, main>>

\* The line its reader has taken last.
InHand(s) == Line(s, taken[s])

\* Mutant: the readers write without the mutex.
Mut_Lock(s) ==
  /\ reader[s] = "lock"
  /\ mutex' = s
  /\ GoOn(s, "log")
  /\ UNCHANGED <<jobVars, fetched, taken, pipes, log, events, main>>

Lock(s) ==
  /\ reader[s] = "lock" /\ mutex = "free"
  /\ mutex' = s
  /\ GoOn(s, "log")
  /\ UNCHANGED <<jobVars, fetched, taken, pipes, log, events, main>>

WriteLog(s) ==
  /\ reader[s] = "log"
  /\ log' = Append(log, InHand(s))
  /\ GoOn(s, "event")
  /\ UNCHANGED <<jobVars, fetched, taken, pipes, mutex, events, main>>

IsEvent(l) == l.stream \in Streams /\ written[l.stream][l.line] = "event"

\* Mutant: a line that is no event leaves the mutex locked.
Mut_WriteEvent(s) ==
  /\ reader[s] = "event"
  /\ IF IsEvent(InHand(s))
     THEN events' = Append(events, InHand(s)) /\ mutex' = "free"
     ELSE UNCHANGED <<events, mutex>>
  /\ GoOn(s, "scan")
  /\ UNCHANGED <<jobVars, fetched, taken, pipes, log, main>>

WriteEvent(s) ==
  /\ reader[s] = "event"
  /\ events' = IF IsEvent(InHand(s))
               THEN Append(events, InHand(s)) ELSE events
  /\ mutex' = "free"
  /\ GoOn(s, "scan")
  /\ UNCHANGED <<jobVars, fetched, taken, pipes, log, main>>

\* Writes the scanner's error into the log, under the mutex.
ReportError(s) ==
  /\ reader[s] = "error" /\ mutex = "free"
  /\ log' = Append(log, Own)
  /\ GoOn(s, "done")
  /\ UNCHANGED <<jobVars, fetched, taken, pipes, mutex, events, main>>

-----------------------------------------------------------------------------
(* `cancel`, in another process *)

\* It knows the process id once the attempt has it, and until the attempt is
\* over; signaling a process that has exited is no error.
Interrupt ==
  /\ main \in {"wait", "join"} /\ ~signaled
  /\ signaled' = TRUE
  /\ UNCHANGED <<child, written, readVars, outputVars, main>>

-----------------------------------------------------------------------------
(* Specification *)

JobStep == (\E s \in Streams, k \in Kinds : JobWrites(s, k)) \/ JobExits \/ JobDies

SubmitStep == Start \/ StartFails \/ OnStarted \/ StartNotRecorded \/ Abort \/ Wait \/ Join

ReaderStep(s) ==
  \/ Fetch(s) \/ TooLong(s) \/ EndOfFile(s) \/ ReadClosed(s)
  \/ Scan(s) \/ Lock(s) \/ WriteLog(s) \/ WriteEvent(s) \/ ReportError(s)

Next == JobStep \/ SubmitStep \/ (\E s \in Streams : ReaderStep(s)) \/ Interrupt

Spec == Init /\ [][Next]_vars

\* The goroutines keep running, and a job that is not blocked ends.
FairSpec ==
  /\ Spec
  /\ WF_vars(SubmitStep) /\ WF_vars(JobExits)
  /\ \A s \in Streams : WF_vars(ReaderStep(s))
-----------------------------------------------------------------------------
(* Types *)

TypeOK ==
  /\ child \in {"none", "running", "exited", "reaped"}
  /\ signaled \in BOOLEAN
  /\ written \in [Streams -> Seq(Kinds)]
  /\ fetched \in [Streams -> Nat] /\ taken \in [Streams -> Nat]
  /\ \A s \in Streams : fetched[s] \in 0..Len(written[s]) /\ taken[s] \in 0..fetched[s]
  /\ pipes \in {"open", "closed"}
  /\ reader \in [Streams -> {"none", "scan", "lock", "log", "event", "error", "done"}]
  /\ mutex \in Streams \cup {"free"}
  /\ log \in Seq([stream : Streams, line : Nat] \cup {Own})
  /\ events \in Seq([stream : Streams, line : Nat])
  /\ main \in {"start", "notify", "abort", "wait", "join", "returned"}

-----------------------------------------------------------------------------
(* Properties *)

Logged(l) == \E p \in DOMAIN log : log[p] = l

\* What logs.txt has of a stream.
Copied(s) ==
  LET found == CHOOSE positions \in Ascending({p \in DOMAIN log : log[p].stream = s}) : TRUE
  IN  [i \in DOMAIN found |-> written[s][log[found[i]].line]]

Out == INSTANCE LineMirror WITH Pieces <- Kinds, Partial <- "none", byLine <- TRUE,
         source <- written["stdout"], copy <- Copied("stdout")

Err == INSTANCE LineMirror WITH Pieces <- Kinds, Partial <- "none", byLine <- TRUE,
         source <- written["stderr"], copy <- Copied("stderr")

\* logs.txt mirrors either stream: in its order, without a gap or a
\* repetition, however the two readers take turns and whenever the pipes are
\* closed under them (consume).
StreamsAreMirrored == Out!Spec /\ Err!Spec

\* events.jsonl has the events of logs.txt in the order of logs.txt, so the
\* checkpoint a resume starts from is the one a reader of the log would
\* choose; only the reader that holds writeMu may owe one.
EventsFollowLog ==
  /\ \A k \in DOMAIN events : IsEvent(events[k]) /\ Logged(events[k])
  /\ \A p \in DOMAIN log : IsEvent(log[p]) =>
       \/ \E k \in DOMAIN events : events[k] = log[p]
       \/ \E s \in Streams : mutex = s /\ reader[s] = "event" /\ log[p] = InHand(s)
  /\ \A j, k \in DOMAIN events, p, q \in DOMAIN log :
       j < k /\ log[p] = events[j] /\ log[q] = events[k] => p < q

\* What a scanner has read from its pipe reaches the log before Submit
\* returns, also when Wait closes the pipe first.
FetchedIsLogged ==
  main = "returned" =>
    \A s \in Streams : \A n \in 1..fetched[s] :
      written[s][n] # "long" => Logged(Line(s, n))

\* Nothing is written once Submit has returned: it closes both files then,
\* and its caller goes on to read the events.
ReturnIsFinal == [][main = "returned" => UNCHANGED <<log, events>>]_vars

\* Submit returns: neither its readers nor their mutex hold up the job or each
\* other, whatever has been written and whichever error they report.  It hangs
\* in one case only, that the reader of a pipe has ended while the job runs (at
\* a line beyond the limit of the scanner) and the job fills this pipe.
SubmitReturns ==
  main # "start" ~>
    \/ main = "returned"
    \/ child = "running" /\ \E s \in Streams : reader[s] = "done" /\ Full(s)

=============================================================================
