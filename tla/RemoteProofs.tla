---------------------------- MODULE RemoteProofs ----------------------------
(***************************************************************************)
(* Proofs about RemoteLogs, for any events and any numbers of pieces and   *)
(* attempts: logs.txt mirrors the log of the job, its events arrive in     *)
(* events.jsonl once, and a follower prints all of logs.txt.               *)
(***************************************************************************)
EXTENDS RemoteLogs, FiniteSetTheorems, SequenceTheorems, WellFoundedInduction, TLAPS

-----------------------------------------------------------------------------
(* Maxima *)

\* A bounded set of numbers has a maximum: the distances from the bound have a
\* least one.
LEMMA MaxOfBounded ==
  ASSUME NEW m \in Nat, NEW S, S \subseteq 0..m, S # {}
  PROVE  Max(S) \in S /\ \A x \in S : x <= Max(S)
<1> DEFINE T == {m - x : x \in S}
<1>1. T \subseteq Nat /\ T # {}
  <2>1. \A x \in S : x \in Nat /\ x <= m
    OBVIOUS
  <2>2. \A x \in S : m - x \in Nat
    BY <2>1
  <2>3. PICK x \in S : TRUE
    OBVIOUS
  <2>4. m - x \in T
    BY <2>3
  <2> QED
    BY <2>2, <2>4
<1>2. PICK t \in T : \A y \in T : ~ (<<y, t>> \in OpToRel(<, Nat))
  BY <1>1, NatLessThanWellFounded, WFMin
<1>3. PICK x \in S : t = m - x
  BY <1>2
<1>4. ASSUME NEW y \in S PROVE y <= x
  <2>1. m - y \in T /\ m - y \in Nat /\ t \in Nat
    BY <1>1, <1>2, <1>4
  <2>2. ~ (m - y < t)
    BY <1>2, <2>1 DEF OpToRel
  <2>3. x \in 0..m /\ y \in 0..m
    BY <1>3, <1>4
  <2> QED
    BY <1>3, <2>2, <2>3
<1>5. \E z \in S : \A y \in S : z >= y
  <2>1. \A y \in S : x >= y
    BY <1>3, <1>4
  <2> QED
    BY <1>3, <2>1
<1>6. Max(S) \in S /\ \A y \in S : Max(S) >= y
  BY <1>5 DEF Max
<1> QED
  BY <1>6

-----------------------------------------------------------------------------
(* Sequences *)

\* A sequence longer is made of l and of m.
Joins(longer, l, m) ==
  /\ Len(longer) = Len(l) + Len(m)
  /\ \A i \in 1..Len(l) : longer[i] = l[i]
  /\ \A i \in 1..Len(m) : longer[Len(l) + i] = m[i]

LEMMA Joined ==
  ASSUME NEW E, NEW l, NEW m, l \in Seq(E), m \in Seq(E)
  PROVE  l \o m \in Seq(E) /\ Joins(l \o m, l, m)
<1>1. l \o m \in Seq(E)
  OBVIOUS
<1>2. Len(l \o m) = Len(l) + Len(m)
  OBVIOUS
<1>3. \A i \in 1..Len(l) : (l \o m)[i] = l[i]
  OBVIOUS
<1>4. \A i \in 1..Len(m) : (l \o m)[Len(l) + i] = m[i]
  OBVIOUS
<1> QED
  BY <1>1, <1>2, <1>3, <1>4 DEF Joins

\* A sequence l is made of any k elements and of the elements of s from
\* position o + 1 to n.
Has(l, k, s, o, n) ==
  /\ Len(l) = k + (n - o)
  /\ \A i \in 1..(n - o) : l[k + i] = s[o + i]

LEMMA Continued ==
  ASSUME NEW k \in Nat, NEW o \in Nat, NEW n \in Nat, o <= n,
         NEW s, NEW l, NEW m, NEW longer,
         Has(l, k, s, 0, o), Has(m, 0, s, o, n), Joins(longer, l, m)
  PROVE  Has(longer, k, s, 0, n)
<1>1. Len(l) = k + o /\ Len(m) = n - o /\ Len(longer) = Len(l) + Len(m)
  BY DEF Has, Joins
<1>2. \A i \in 1..o : l[k + i] = s[i]
  BY DEF Has
<1>3. \A i \in 1..(n - o) : m[i] = s[o + i]
  BY DEF Has
<1>4. \A i \in 1..Len(l) : longer[i] = l[i]
  BY DEF Joins
<1>5. \A i \in 1..Len(m) : longer[Len(l) + i] = m[i]
  BY DEF Joins
<1>6. ASSUME NEW i \in 1..n PROVE longer[k + i] = s[i]
  <2>1. CASE i <= o
    <3>1. k + i \in 1..Len(l) /\ i \in 1..o
      BY <1>1, <2>1
    <3> QED
      BY <1>2, <1>4, <3>1
  <2>2. CASE i > o
    <3>1. i - o \in 1..(n - o) /\ o + (i - o) = i /\ Len(l) + (i - o) = k + i
      BY <1>1, <2>2
    <3>2. longer[k + i] = m[i - o]
      BY <1>1, <1>5, <3>1
    <3>3. m[i - o] = s[i]
      BY <1>3, <3>1
    <3> QED
      BY <3>2, <3>3
  <2> QED
    BY <2>1, <2>2
<1>7. Len(longer) = k + n
  BY <1>1
<1> QED
  BY <1>6, <1>7 DEF Has

-----------------------------------------------------------------------------
(* Types of the log *)

LogTypes ==
  /\ file \in [Files -> Seq(Pieces)]
  /\ offset \in [Files -> Nat]
  /\ \A f \in Files : offset[f] <= Len(file[f])
  /\ attempt \in Nat \ {0}
  /\ adapter \in Adapters
  /\ localLog \in Seq(Pieces \cup {Own})
  /\ before \in Nat
  /\ atEnd \in 0..LogSize
  /\ shown \in 0..LogSize

\* Where a poll begins and where it ends (completeContent,
\* appendVMNewLogContent).
LEMMA OffsetFacts ==
  ASSUME LogTypes, NEW f \in Files
  PROVE  /\ From(f) = offset[f]
         /\ NextOffset(f) \in offset[f]..Len(file[f])
         /\ adapter = "lambda" /\ NextOffset(f) > offset[f] =>
              file[f][NextOffset(f)] # Partial
<1>1. From(f) = offset[f]
  BY DEF LogTypes, From
<1>2. offset[f] \in Nat /\ Len(file[f]) \in Nat /\ offset[f] <= Len(file[f])
  BY DEF LogTypes
<1> DEFINE Ends == {n \in (From(f) + 1)..Len(file[f]) : file[f][n] # Partial}
           S == {From(f)} \cup Ends
<1>3. S \subseteq 0..Len(file[f]) /\ S # {}
  BY <1>1, <1>2
<1>4. Max(S) \in S
  BY <1>2, <1>3, MaxOfBounded
<1>5. CompleteContent(f) \in S
  BY <1>4 DEF CompleteContent
<1>6. CASE adapter = "vm"
  BY <1>1, <1>2, <1>6 DEF NextOffset, VMContent
<1>7. CASE adapter # "vm"
  BY <1>1, <1>2, <1>5, <1>7 DEF NextOffset
<1> QED
  BY <1>1, <1>6, <1>7

\* What a poll appends.
LEMMA LinesFacts ==
  ASSUME LogTypes, NEW f \in Files
  PROVE  /\ NewLines(f) = SubSeq(file[f], offset[f] + 1, NextOffset(f))
         /\ NewLines(f) \in Seq(Pieces)
         /\ Len(NewLines(f)) = NextOffset(f) - offset[f]
<1>1. file[f] \in Seq(Pieces) /\ offset[f] \in Nat /\ Len(file[f]) \in Nat
  BY DEF LogTypes
<1>2. NewLines(f) = SubSeq(file[f], offset[f] + 1, NextOffset(f))
  BY OffsetFacts DEF NewLines
<1>3. NextOffset(f) \in Nat /\ offset[f] <= NextOffset(f) /\ NextOffset(f) <= Len(file[f])
  BY <1>1, OffsetFacts
<1> QED
  BY <1>1, <1>2, <1>3

\* Whoever writes what: a poll of the log, the end of Submit and the next
\* attempt write logs.txt, and nothing shortens it.
LEMMA LogTypesStep == LogTypes /\ [Next]_vars => LogTypes' /\ LogSize' >= LogSize
<1> SUFFICES ASSUME LogTypes, [Next]_vars PROVE LogTypes' /\ LogSize' >= LogSize
  OBVIOUS
<1> USE DEF jobVars, monitorVars, localVars, runVars, followVars, LogSize
<1> DEFINE OK == LogTypes' /\ LogSize' >= LogSize
<1>1. ASSUME NEW f \in Files, NEW p \in Pieces, JobWrites(f, p) PROVE OK
  <2>1. file' \in [Files -> Seq(Pieces)] /\ \A g \in Files : offset[g] <= Len(file'[g])
    BY <1>1 DEF JobWrites, LogTypes
  <2> QED
    BY <1>1, <2>1 DEF JobWrites, LogTypes
<1>2. ASSUME JobExits \/ MachineGoes \/ CancelMachine PROVE OK
  BY <1>2 DEF JobExits, MachineGoes, CancelMachine, LogTypes
<1>3. ASSUME NEW f \in Files, ReadFile(f) PROVE OK
  <2>1. offset' \in [Files -> Nat] /\ \A g \in Files : offset'[g] <= Len(file[g])
    BY <1>3, OffsetFacts DEF ReadFile, CopyNew, LogTypes
  <2>2. /\ localLog' \in Seq(Pieces \cup {Own})
        /\ Len(localLog') >= Len(localLog)
    <3>1. localLog' = localLog \/ localLog' = localLog \o NewLines(f)
      BY <1>3 DEF ReadFile, CopyNew
    <3>2. NewLines(f) \in Seq(Pieces \cup {Own}) /\ localLog \in Seq(Pieces \cup {Own})
      BY LinesFacts DEF LogTypes
    <3>3. /\ localLog \o NewLines(f) \in Seq(Pieces \cup {Own})
          /\ Len(localLog \o NewLines(f)) = Len(localLog) + Len(NewLines(f))
      BY <3>2, Joined DEF Joins
    <3>4. Len(localLog) \in Nat /\ Len(NewLines(f)) \in Nat
      BY <3>2
    <3>5. CASE localLog' = localLog
      BY <3>2, <3>4, <3>5
    <3>6. CASE localLog' = localLog \o NewLines(f)
      BY <3>3, <3>4, <3>6
    <3> QED
      BY <3>1, <3>5, <3>6
  <2> QED
    BY <1>3, <2>1, <2>2 DEF ReadFile, CopyNew, LogTypes
<1>4. ASSUME NEW f \in Files, ReadFileFails(f) PROVE OK
  BY <1>4 DEF ReadFileFails, LogTypes
<1>5. ASSUME ReadExit \/ NoExit \/ MachineIsUp \/ MachineFails PROVE OK
  BY <1>5 DEF ReadExit, NoExit, MachineIsUp, MachineFails, Return, Continue, LogTypes
<1>6. ASSUME SubmitReturns PROVE OK
  <2>1. localLog' = localLog \/ localLog' = Append(localLog, Own)
    BY <1>6 DEF SubmitReturns
  <2>2. /\ localLog' \in Seq(Pieces \cup {Own})
        /\ Len(localLog') >= Len(localLog)
    <3> DEFINE E == Pieces \cup {Own}
    <3>1. localLog \in Seq(E) /\ Own \in E
      BY DEF LogTypes
    <3> HIDE DEF E
    <3>2. Append(localLog, Own) \in Seq(E) /\ Len(Append(localLog, Own)) = Len(localLog) + 1
      BY <3>1
    <3>3. localLog' \in Seq(E) /\ Len(localLog') >= Len(localLog)
      BY <2>1, <3>1, <3>2
    <3> QED
      BY <3>3 DEF E
  <2>3. /\ LogSize' >= LogSize
        /\ atEnd' \in 0..LogSize' /\ shown' \in 0..LogSize'
    BY <1>6, <2>2 DEF SubmitReturns, LogTypes
  <2>4. UNCHANGED <<file, offset, attempt, adapter, before>>
    BY <1>6 DEF SubmitReturns
  <2> QED
    BY <2>2, <2>3, <2>4 DEF LogTypes
<1>7. ASSUME CheckRun \/ FinishRun PROVE OK
  BY <1>7 DEF CheckRun, Continue, FinishRun, EndRun, LogTypes
<1>8. ASSUME NextAttempt PROVE OK
  <2>1. localLog' = <<Own>> /\ before' = before + Len(localLog) /\ before' \in Nat
    BY <1>8 DEF NextAttempt, LogTypes
  <2>2. localLog' \in Seq(Pieces \cup {Own}) /\ Len(localLog') = 1
    BY <2>1
  <2>3. file' \in [Files -> Seq(Pieces)] /\ offset' \in [Files -> Nat]
        /\ \A g \in Files : offset'[g] <= Len(file'[g])
    BY <1>8 DEF NextAttempt
  <2> QED
    BY <1>8, <2>1, <2>2, <2>3 DEF NextAttempt, LogTypes
<1>9. ASSUME CancelRun PROVE OK
  BY <1>9 DEF CancelRun, EndRun, LogTypes
<1>10. ASSUME FollowStep PROVE OK
  BY <1>10 DEF FollowStep, CopyLog, LookAtRun, Drain, LogTypes
<1>11. CASE UNCHANGED vars
  BY <1>11 DEF vars, LogTypes
<1> QED
  BY <1>1, <1>2, <1>3, <1>4, <1>5, <1>6, <1>7, <1>8, <1>9, <1>10, <1>11
  DEF Next, JobStep, MonitorStep

-----------------------------------------------------------------------------
(* The follower *)

\* The follower drains after the run has ended; a run that nobody canceled
\* ends after everything is written.
Following ==
  /\ pc \in {"log", "events", "exit", "status", "settle", "check", "finish", "retry", "over"}
  /\ follower \in {"drain", "done"} => row # "running"
  /\ row # "running" /\ canceler = "idle" => pc = "over"
  /\ FollowerPrintsAll

LEMMA FollowingStep == LogTypes /\ Following /\ [Next]_vars => Following'
<1> SUFFICES ASSUME LogTypes, Following, [Next]_vars PROVE Following'
  OBVIOUS
<1> USE DEF jobVars, monitorVars, localVars, runVars, followVars, LogSize, Following,
            FollowerPrintsAll, Goto, Polling, EndRun
<1>1. ASSUME NEW f \in Files, NEW p \in Pieces, JobWrites(f, p) PROVE Following'
  BY <1>1 DEF JobWrites
<1>2. ASSUME JobExits \/ MachineGoes PROVE Following'
  BY <1>2 DEF JobExits, MachineGoes
<1>3. ASSUME NEW f \in Files, ReadFile(f) \/ ReadFileFails(f) PROVE Following'
  BY <1>3 DEF ReadFile, ReadFileFails, CopyNew, After, Files
<1>4. ASSUME ReadExit \/ NoExit \/ MachineIsUp \/ MachineFails \/ CheckRun PROVE Following'
  BY <1>4 DEF ReadExit, NoExit, MachineIsUp, MachineFails, CheckRun, Return, Continue
<1>5. ASSUME SubmitReturns \/ NextAttempt PROVE Following'
  BY <1>5 DEF SubmitReturns, NextAttempt
<1>6. ASSUME FinishRun PROVE Following'
  BY <1>6 DEF FinishRun
<1>7. ASSUME CancelMachine \/ CancelRun PROVE Following'
  BY <1>7 DEF CancelMachine, CancelRun
<1>8. ASSUME FollowStep PROVE Following'
  BY <1>8 DEF FollowStep, CopyLog, LookAtRun, Drain, LogTypes
<1>9. CASE UNCHANGED vars
  BY <1>9 DEF vars
<1> QED
  BY <1>1, <1>2, <1>3, <1>4, <1>5, <1>6, <1>7, <1>8, <1>9 DEF Next, JobStep, MonitorStep

LEMMA LogTypesInit == Init => LogTypes /\ Following
<1> SUFFICES ASSUME Init PROVE LogTypes /\ Following
  OBVIOUS
<1>1. LogTypes
  BY DEF Init, LogTypes, LogSize
<1>2. Following
  BY DEF Init, Following, FollowerPrintsAll
<1> QED
  BY <1>1, <1>2

\* A follower that ends has printed all there was when the run ended, and the
\* whole log unless somebody canceled the run (followLogs,
\* drainFinalLogAfterTerminal).
THEOREM FollowersPrintAll == Spec => []FollowerPrintsAll
<1>1. LogTypes /\ Following => FollowerPrintsAll
  BY DEF Following
<1> QED
  BY <1>1, LogTypesInit, LogTypesStep, FollowingStep, PTL DEF Spec

-----------------------------------------------------------------------------
(* logs.txt mirrors the log of the job *)

\* The lines of a later attempt come after the one that announces it.
Skip == IF attempt = 1 THEN 0 ELSE 1

\* A local log l that has the first n pieces of s after its first k lines, and
\* at most a line of the adapter's own after them.
Holds(l, k, s, n) ==
  /\ Len(l) \in {k + n, k + n + 1}
  /\ Len(l) = k + n + 1 => l[k + n + 1] = Own
  /\ \A i \in 1..n : l[k + i] = s[i]

\* Where a local log ends but for a line of the adapter's own.
End(l) == IF l # <<>> /\ l[Len(l)] = Own THEN Len(l) - 1 ELSE Len(l)

\* Every piece that has been read stands in logs.txt at its place, and the
\* line about the end of the machine is the last.
Written ==
  /\ Holds(localLog, Skip, file["log"], offset["log"])
  /\ Len(localLog) = Skip + offset["log"] + 1 =>
       pc \in {"check", "finish", "retry", "over"}

LEMMA WithoutOwn ==
  ASSUME NEW k \in {0, 1}, NEW s \in Seq(Pieces), NEW n \in 0..Len(s),
         NEW l \in Seq(Pieces \cup {Own}), Holds(l, k, s, n)
  PROVE  SubSeq(l, k + 1, End(l)) = SubSeq(s, 1, n)
<1> DEFINE last == End(l)
<1> USE DEF Holds, End
<1>1. Len(s) \in Nat /\ n \in Nat /\ Len(l) \in Nat
  OBVIOUS
<1>2. \A i \in 1..n : s[i] \in Pieces
  BY <1>1
<1>3. \A i \in 1..n : s[i] # Own
  BY <1>2, LogsAssumption
<1>4. CASE n = 0
  <2>1. last \in Nat /\ last <= k
    BY <1>1, <1>4
  <2>2. SubSeq(l, k + 1, last) = <<>> /\ SubSeq(s, 1, n) = <<>>
    BY <1>1, <1>4, <2>1
  <2> QED
    BY <2>2
<1>5. CASE n # 0
  <2>1. last = k + n
    <3>1. CASE Len(l) = k + n
      <4>1. l[k + n] = s[n] /\ n \in 1..n
        BY <1>1, <1>5
      <4>2. l[Len(l)] # Own
        BY <1>3, <3>1, <4>1
      <4> QED
        BY <3>1, <4>2
    <3>2. CASE Len(l) = k + n + 1
      <4>1. l # <<>>
        BY <1>1, <3>2
      <4> QED
        BY <1>1, <3>2, <4>1
    <3> QED
      BY <3>1, <3>2
  <2>2. k + 1 \in 1..(k + 1) /\ last <= Len(l)
    BY <1>1, <2>1
  <2> DEFINE a == SubSeq(l, k + 1, k + n)
             b == SubSeq(s, 1, n)
  <2>3. a \in Seq(Pieces \cup {Own}) /\ Len(a) = n /\ \A i \in 1..n : a[i] = l[k + i]
    BY <1>1, <2>1, <2>2
  <2>4. b \in Seq(Pieces) /\ Len(b) = n /\ \A i \in 1..n : b[i] = s[i]
    BY <1>1
  <2> HIDE DEF a, b
  <2>5. \A i \in 1..n : a[i] = b[i]
    BY <2>3, <2>4
  <2>6. a \in Seq(Pieces \cup {Own}) /\ b \in Seq(Pieces \cup {Own}) /\ Len(a) = Len(b)
    BY <2>3, <2>4
  <2>7. a = b
    BY <2>3, <2>5, <2>6, SeqEqual
  <2> QED
    BY <2>1, <2>7 DEF a, b
<1> QED
  BY <1>4, <1>5

\* What a poll has copied is the beginning of the log.
LEMMA CopiedFacts ==
  ASSUME LogTypes, Written
  PROVE  /\ Copied = SubSeq(file["log"], 1, offset["log"])
         /\ Len(Copied) = offset["log"]
<1>1. /\ file["log"] \in Seq(Pieces)
      /\ offset["log"] \in 0..Len(file["log"])
      /\ localLog \in Seq(Pieces \cup {Own})
  BY DEF LogTypes, Files
<1>2. Skip \in {0, 1} /\ Skip + 1 = IF attempt = 1 THEN 1 ELSE 2
  BY DEF Skip
<1>3. Copied = SubSeq(localLog, Skip + 1, End(localLog))
  BY <1>2 DEF Copied, End
<1>4. Holds(localLog, Skip, file["log"], offset["log"]) /\ Skip \in {0, 1}
  BY <1>2 DEF Written
<1>5. SubSeq(localLog, Skip + 1, End(localLog)) = SubSeq(file["log"], 1, offset["log"])
  BY <1>1, <1>4, WithoutOwn, Zenon
<1>6. Len(SubSeq(file["log"], 1, offset["log"])) = offset["log"]
  <2> DEFINE s == file["log"]
             n == offset["log"]
  <2>1. s \in Seq(Pieces) /\ n \in 0..Len(s) /\ Len(s) \in Nat
    BY <1>1
  <2> HIDE DEF s, n
  <2>2. Len(SubSeq(s, 1, n)) = n
    BY <2>1
  <2> QED
    BY <2>2 DEF s, n
<1> QED
  BY <1>3, <1>5, <1>6

\* A step of the system is one of the mirror: the job's writes grow the
\* source, a poll that finds a new piece catches up, and an attempt restarts.
LEMMA MirrorStep ==
  LogTypes /\ LogTypes' /\ Written /\ [Next]_vars =>
    Written' /\ [Mirror!Next]_<<file["log"], Copied, adapter = "lambda">>
<1> SUFFICES ASSUME LogTypes, LogTypes', Written, [Next]_vars
             PROVE  Written' /\ [Mirror!Next]_<<file["log"], Copied, adapter = "lambda">>
  OBVIOUS
<1> DEFINE Same == UNCHANGED <<file["log"], Copied, adapter = "lambda">>
           OK == Written' /\ (Mirror!Next \/ Same)
<1> USE DEF jobVars, monitorVars, localVars, runVars, followVars
<1>a. Copied' = SubSeq(file'["log"], 1, offset'["log"]) \/ ~Written'
  <2>1. (LogTypes /\ Written => Copied = SubSeq(file["log"], 1, offset["log"]))'
    BY CopiedFacts, PTL
  <2> QED
    BY <2>1
<1>b. Copied = SubSeq(file["log"], 1, offset["log"]) /\ Len(Copied) = offset["log"]
  BY CopiedFacts
\* The steps that neither write the log of the job nor logs.txt.
<1>s. ASSUME UNCHANGED <<file, offset, attempt, adapter, localLog>>,
             pc \in {"check", "finish", "retry", "over"} =>
               pc' \in {"check", "finish", "retry", "over"}
      PROVE  OK
  <2>1. Copied' = Copied
    BY <1>s DEF Copied
  <2>2. Written'
    BY <1>s DEF Written, Holds, Skip
  <2> QED
    BY <1>s, <2>1, <2>2
<1>1. ASSUME NEW f \in Files, NEW p \in Pieces, JobWrites(f, p) PROVE OK
  <2>1. UNCHANGED <<pc, offset, attempt, adapter, localLog>>
    BY <1>1 DEF JobWrites
  <2>2. Copied' = Copied
    BY <2>1 DEF Copied
  <2>3. /\ file["log"] \in Seq(Pieces) /\ offset["log"] \in Nat
        /\ offset["log"] <= Len(file["log"])
    BY DEF LogTypes, Files
  <2>4. CASE f = "log"
    <3>1. file'["log"] = Append(file["log"], p)
      BY <1>1, <2>4 DEF JobWrites, LogTypes
    <3>2. \A i \in 1..offset["log"] : file'["log"][i] = file["log"][i]
      BY <2>3, <3>1
    <3>3. Written'
      BY <2>1, <3>2 DEF Written, Holds, Skip
    <3>4. Mirror!Grow
      BY <2>1, <2>2, <3>1 DEF Mirror!Grow
    <3> QED
      BY <3>3, <3>4 DEF Mirror!Next
  <2>5. CASE f # "log"
    <3>1. file'["log"] = file["log"]
      BY <1>1, <2>5 DEF JobWrites, LogTypes, Files
    <3>2. Written'
      BY <2>1, <3>1 DEF Written, Holds, Skip
    <3> QED
      BY <2>1, <2>2, <3>1, <3>2
  <2> QED
    BY <2>4, <2>5
<1>2. ASSUME JobExits \/ MachineGoes \/ CancelMachine \/ CancelRun \/ FollowStep PROVE OK
  <2>1. UNCHANGED <<file, offset, attempt, adapter, localLog, pc>>
    BY <1>2 DEF JobExits, MachineGoes, CancelMachine, CancelRun,
                FollowStep, CopyLog, LookAtRun, Drain
  <2> QED
    BY <1>s, <2>1
<1>3. ASSUME NEW f \in Files, ReadFile(f) PROVE OK
  <2>1. /\ pc = f /\ pc' = After(f)
        /\ localLog' = IF f = "log" THEN localLog \o NewLines(f) ELSE localLog
        /\ offset' = [offset EXCEPT ![f] = NextOffset(f)]
        /\ UNCHANGED <<file, attempt, adapter>>
    BY <1>3 DEF ReadFile, CopyNew, Goto
  <2>2. CASE f # "log"
    <3>1. UNCHANGED <<attempt, localLog>> /\ offset'["log"] = offset["log"]
      BY <2>1, <2>2 DEF LogTypes, Files
    <3>2. Copied' = Copied
      BY <3>1 DEF Copied
    <3>3. Len(localLog) # Skip + offset["log"] + 1
      BY <2>1 DEF Written, Files
    <3>4. Written'
      BY <2>1, <3>1, <3>3 DEF Written, Holds, Skip
    <3> QED
      BY <2>1, <3>2, <3>4
  <2>3. CASE f = "log"
    <3> DEFINE n == NextOffset("log")
               o == offset["log"]
               s == file["log"]
    <3>1. /\ s \in Seq(Pieces) /\ Len(s) \in Nat /\ o \in Nat /\ o <= Len(s)
          /\ localLog \in Seq(Pieces \cup {Own}) /\ Skip \in Nat
      BY DEF LogTypes, Files, Skip
    <3>2. /\ n \in o..Len(s)
          /\ adapter = "lambda" /\ n > o => s[n] # Partial
      BY OffsetFacts DEF Files
    <3>3. /\ NewLines("log") = SubSeq(s, o + 1, n)
          /\ NewLines("log") \in Seq(Pieces)
          /\ Len(NewLines("log")) = n - o
      BY LinesFacts DEF Files
    <3>4. offset'["log"] = n /\ localLog' = localLog \o NewLines("log") /\ Skip' = Skip
      BY <2>1, <2>3 DEF LogTypes, Files, Skip
    <3>5. Holds(localLog, Skip, s, o) /\ Len(localLog) = Skip + o
      BY <2>1, <2>3 DEF Written, Holds
    <3> HIDE DEF n, o, s
    <3>6. Skip \in {0, 1}
      BY DEF Skip
    <3>7. Has(localLog', Skip, s, 0, n)
      <4> DEFINE new == NewLines("log")
                 E == Pieces \cup {Own}
      <4>1. o \in Nat /\ n \in Nat /\ Skip \in Nat /\ o <= n
        BY <3>1, <3>2
      <4>2. Has(localLog, Skip, s, 0, o)
        BY <3>5, <4>1 DEF Holds, Has
      <4>3. Has(new, 0, s, o, n)
        BY <3>1, <3>2, <3>3 DEF Has
      <4>4. localLog \in Seq(E) /\ new \in Seq(E) /\ localLog' = localLog \o new
        BY <3>1, <3>3, <3>4
      <4> HIDE DEF new, E
      <4>5. Joins(localLog', localLog, new)
        BY <4>4, Joined
      <4> QED
        BY <4>1, <4>2, <4>3, <4>5, Continued
    <3>8. Written'
      <4>1. n = offset'["log"] /\ s = file'["log"] /\ Skip' = Skip
        BY <2>1, <3>4 DEF s
      <4>2. Skip + n \in Nat
        BY <3>1, <3>2
      <4>3. Holds(localLog', Skip, s, n) /\ Len(localLog') # Skip + n + 1
        BY <3>1, <3>2, <3>7, <4>2 DEF Holds, Has
      <4> QED
        BY <4>1, <4>3 DEF Written
    <3>9. CASE n = o
      BY <1>a, <1>b, <2>1, <3>4, <3>8, <3>9 DEF n, o
    <3>10. CASE n > o
      <4>1. Copied' = SubSeq(file["log"], 1, n)
        BY <1>a, <2>1, <3>4, <3>8
      <4>2. Mirror!Catch(n)
        BY <1>b, <2>1, <3>2, <3>10, <4>1 DEF Mirror!Catch, n, o, s
      <4>3. n \in DOMAIN file["log"]
        BY <3>1, <3>2, <3>10 DEF s
      <4> QED
        BY <3>8, <4>2, <4>3 DEF Mirror!Next
    <3> QED
      BY <3>1, <3>2, <3>9, <3>10
  <2> QED
    BY <2>2, <2>3
<1>4. ASSUME NEW f \in Files, ReadFileFails(f) PROVE OK
  <2>1. UNCHANGED <<file, offset, attempt, adapter, localLog>> /\ pc \in Files
    BY <1>4 DEF ReadFileFails, Goto
  <2> QED
    BY <1>s, <2>1 DEF Files
<1>5. ASSUME ReadExit \/ NoExit \/ MachineIsUp \/ MachineFails \/ CheckRun \/ FinishRun PROVE OK
  <2>1. UNCHANGED <<file, offset, attempt, adapter, localLog>>
    BY <1>5 DEF ReadExit, NoExit, MachineIsUp, MachineFails, CheckRun, FinishRun,
                Return, Continue
  <2>2. pc \in {"exit", "status"} \/ pc' \in {"finish", "retry", "over"}
    BY <1>5 DEF ReadExit, NoExit, MachineIsUp, MachineFails, CheckRun, FinishRun,
                Return, Continue, Goto
  <2> QED
    BY <1>s, <2>1, <2>2
<1>6. ASSUME SubmitReturns PROVE OK
  <2>1. /\ pc = "settle" /\ pc' = "check"
        /\ UNCHANGED <<file, offset, attempt, adapter>>
        /\ localLog' = localLog \/ localLog' = Append(localLog, Own)
    BY <1>6 DEF SubmitReturns, Goto
  <2>2. /\ Len(localLog) = Skip + offset["log"]
        /\ \A i \in 1..offset["log"] : localLog[Skip + i] = file["log"][i]
    BY <2>1 DEF Written, Holds
  <2>3. localLog \in Seq(Pieces \cup {Own}) /\ Skip \in Nat /\ offset["log"] \in Nat
    BY DEF LogTypes, Files, Skip
  <2>4. Skip' = Skip
    BY <2>1 DEF Skip
  <2>5. /\ Len(localLog') \in {Len(localLog), Len(localLog) + 1}
        /\ Len(localLog') = Len(localLog) + 1 => localLog'[Len(localLog) + 1] = Own
        /\ \A i \in 1..Len(localLog) : localLog'[i] = localLog[i]
    BY <2>1, <2>3
  <2>6. \A i \in 1..offset["log"] : localLog'[Skip + i] = file["log"][i]
    <3> SUFFICES ASSUME NEW i \in 1..offset["log"]
                 PROVE  localLog'[Skip + i] = file["log"][i]
      OBVIOUS
    <3>1. Skip + i \in 1..Len(localLog)
      BY <2>2, <2>3
    <3> QED
      BY <2>2, <2>5, <3>1
  <2>7. Written'
    BY <2>1, <2>2, <2>3, <2>4, <2>5, <2>6 DEF Written, Holds
  <2>8. Copied' = Copied
    BY <1>a, <1>b, <2>1, <2>7
  <2> QED
    BY <2>1, <2>7, <2>8
<1>7. ASSUME NextAttempt PROVE OK
  <2>1. /\ file'["log"] = <<>> /\ offset'["log"] = 0
        /\ localLog' = <<Own>> /\ attempt' = attempt + 1
    BY <1>7 DEF NextAttempt, Files
  <2>2. Skip' = 1
    BY <2>1 DEF Skip, LogTypes
  <2>3. Written'
    BY <2>1, <2>2 DEF Written, Holds
  <2>4. Copied' = <<>>
    <3>1. Copied' = SubSeq(file'["log"], 1, 0)
      BY <1>a, <2>1, <2>3
    <3>2. SubSeq(file'["log"], 1, 0) = <<>>
      BY <2>1
    <3> QED
      BY <3>1, <3>2
  <2>5. Mirror!Restart
    BY <2>1, <2>4 DEF Mirror!Restart
  <2> QED
    BY <2>3, <2>5 DEF Mirror!Next
<1>8. CASE UNCHANGED vars
  BY <1>8, <1>s DEF vars
<1> QED
  BY <1>1, <1>2, <1>3, <1>4, <1>5, <1>6, <1>7, <1>8 DEF Next, JobStep, MonitorStep

LEMMA MirrorInit == Init => Written /\ Mirror!Init
<1> SUFFICES ASSUME Init PROVE Written /\ Mirror!Init
  OBVIOUS
<1>1. file["log"] = <<>> /\ offset["log"] = 0 /\ localLog = <<>> /\ attempt = 1
  BY DEF Init, Files
<1>2. Written
  BY <1>1 DEF Written, Holds, Skip
<1>3. Copied = <<>>
  BY <1>1 DEF Copied
<1> QED
  BY <1>1, <1>2, <1>3 DEF Mirror!Init

\* However the polls fall between the writes of the job and whichever of them
\* fail, logs.txt has the log of every attempt's job in order and once
\* (appendNewLogContent, completeContent, appendVMNewLogContent).
THEOREM LogsAreMirrored == Spec => LogIsMirrored
  BY LogTypesInit, LogTypesStep, MirrorInit, MirrorStep, PTL
  DEF Spec, LogIsMirrored, Mirror!Spec

-----------------------------------------------------------------------------
(* The events of the job *)

\* A set of numbers has a least element.
LEMMA LeastOf ==
  ASSUME NEW S, S \subseteq Nat, S # {}
  PROVE  \E x \in S : \A y \in S : x <= y
<1>1. PICK x \in S : \A y \in S : ~ (<<y, x>> \in OpToRel(<, Nat))
  BY NatLessThanWellFounded, WFMin
<1>2. ASSUME NEW y \in S PROVE x <= y
  <2>1. ~ (y < x)
    BY <1>1 DEF OpToRel
  <2> QED
    BY <2>1
<1> QED
  BY <1>2

\* The order of a loop over an interval.
LEMMA AscendingFacts ==
  ASSUME NEW a \in Nat, NEW b \in Nat, NEW S, S \subseteq a..b, NEW s \in Ascending(S)
  PROVE  /\ s \in Seq(S)
         /\ \A x \in S : \E k \in DOMAIN s : s[k] = x
         /\ \A j, k \in DOMAIN s : j < k => s[j] < s[k]
<1>1. IsFiniteSet(S)
  <2>1. a \in Int /\ b \in Int /\ S \in SUBSET (a..b)
    OBVIOUS
  <2>2. IsFiniteSet(a..b)
    BY <2>1, FS_Interval
  <2> QED
    BY <2>1, <2>2, FS_Subset
<1>2. Cardinality(S) \in Nat
  BY <1>1, FS_CardinalityType
<1>3. s \in [1..Cardinality(S) -> S] /\ {s[k] : k \in DOMAIN s} = S
  BY DEF Ascending
<1>4. \A j, k \in DOMAIN s : j < k => s[j] < s[k]
  BY DEF Ascending
<1>5. s \in Seq(S)
  BY <1>2, <1>3
<1>6. \A x \in S : \E k \in DOMAIN s : s[k] = x
  BY <1>3
<1> QED
  BY <1>4, <1>5, <1>6

\* What stands where in a joined sequence.
LEMMA JoinedAt ==
  ASSUME NEW E, NEW l \in Seq(E), NEW m \in Seq(E), NEW longer \in Seq(E),
         Joins(longer, l, m)
  PROVE  /\ \A k \in DOMAIN longer :
              \/ k \in DOMAIN l /\ longer[k] = l[k]
              \/ k - Len(l) \in DOMAIN m /\ longer[k] = m[k - Len(l)]
         /\ \A k \in DOMAIN l : k \in DOMAIN longer /\ longer[k] = l[k]
         /\ \A i \in DOMAIN m :
              Len(l) + i \in DOMAIN longer /\ longer[Len(l) + i] = m[i]
<1>1. /\ Len(l) \in Nat /\ Len(m) \in Nat /\ Len(longer) = Len(l) + Len(m)
      /\ DOMAIN l = 1..Len(l) /\ DOMAIN m = 1..Len(m) /\ DOMAIN longer = 1..Len(longer)
  BY DEF Joins
<1>2. \A i \in 1..Len(l) : longer[i] = l[i]
  BY DEF Joins
<1>3. \A i \in 1..Len(m) : longer[Len(l) + i] = m[i]
  BY DEF Joins
<1>4. ASSUME NEW k \in DOMAIN longer, k \notin DOMAIN l
      PROVE  k - Len(l) \in DOMAIN m /\ longer[k] = m[k - Len(l)]
  <2>1. k - Len(l) \in 1..Len(m) /\ Len(l) + (k - Len(l)) = k
    BY <1>1, <1>4
  <2> QED
    BY <1>1, <1>3, <2>1
<1>5. ASSUME NEW k \in DOMAIN l PROVE k \in DOMAIN longer /\ longer[k] = l[k]
  BY <1>1, <1>2
<1>6. ASSUME NEW i \in DOMAIN m
      PROVE  Len(l) + i \in DOMAIN longer /\ longer[Len(l) + i] = m[i]
  BY <1>1, <1>3
<1> QED
  BY <1>2, <1>1, <1>4, <1>5, <1>6

Arrived == [event : Events, file : Files, at : Nat \ {0}]

\* What was appended to events.jsonl comes from what has been read.  On Lambda
\* every poll ends where a line does, and the lines that have been seen are the
\* events that have been appended.
EventsInv ==
  /\ localEvents \in Seq(Arrived)
  /\ \A k \in DOMAIN localEvents : localEvents[k].at <= offset[localEvents[k].file]
  /\ adapter = "lambda" =>
       /\ \A e \in seen : \E k \in DOMAIN localEvents : localEvents[k].event = e
       /\ \A k \in DOMAIN localEvents : localEvents[k].event \in seen
       /\ \A f \in Files : offset[f] > 0 => file[f][offset[f]] # Partial
  /\ EventsArriveOnce

\* On Lambda, a line that a poll reads is read from its start.
LEMMA WholeLines ==
  ASSUME LogTypes, EventsInv, adapter = "lambda",
         NEW f \in Files, NEW n \in NewPositions(f), file[f][n] \in Events
  PROVE  IsEvent(f, n)
<1>1. From(f) = offset[f] /\ offset[f] \in Nat /\ NextOffset(f) \in Nat
  BY OffsetFacts DEF LogTypes
<1>2. ASSUME n = From(f) + 1, n > 1 PROVE file[f][n - 1] # Partial
  <2>1. n - 1 = offset[f] /\ offset[f] > 0
    BY <1>1, <1>2
  <2> QED
    BY <2>1 DEF EventsInv
<1> QED
  BY <1>2 DEF IsEvent

\* What a poll of a file appends to events.jsonl.
LEMMA PollFacts ==
  ASSUME LogTypes, EventsInv, NEW f \in Files, NEW s \in Ascending(NewEvents(f))
  PROVE  /\ Tagged(f, s) \in Seq(Arrived)
         /\ DOMAIN Tagged(f, s) = DOMAIN s
         /\ \A k \in DOMAIN s :
              /\ s[k] \in NewEvents(f) /\ s[k] \in (offset[f] + 1)..NextOffset(f)
              /\ Tagged(f, s)[k] = [event |-> file[f][s[k]], file |-> f, at |-> s[k]]
         /\ \A n \in NewEvents(f) : \E k \in DOMAIN s : s[k] = n
         /\ \A j, k \in DOMAIN s : j < k => s[j] < s[k]
<1>1. From(f) = offset[f] /\ offset[f] \in Nat /\ NextOffset(f) \in Nat
  BY OffsetFacts DEF LogTypes
<1>2. NewEvents(f) \subseteq (offset[f] + 1)..NextOffset(f)
  BY <1>1 DEF NewEvents, NewPositions
<1>3. /\ s \in Seq(NewEvents(f))
      /\ \A x \in NewEvents(f) : \E k \in DOMAIN s : s[k] = x
      /\ \A j, k \in DOMAIN s : j < k => s[j] < s[k]
  <2>1. offset[f] + 1 \in Nat
    BY <1>1
  <2> QED
    BY <1>1, <1>2, <2>1, AscendingFacts
<1>4. \A k \in DOMAIN s : s[k] \in NewEvents(f)
  BY <1>3
<1>5. \A n \in NewEvents(f) : file[f][n] \in Events
  BY DEF NewEvents, IsNewEvent, IsEvent
<1>6. DOMAIN Tagged(f, s) = DOMAIN s
  BY DEF Tagged
<1>7. \A k \in DOMAIN s :
        Tagged(f, s)[k] = [event |-> file[f][s[k]], file |-> f, at |-> s[k]]
  BY DEF Tagged
<1>8. \A k \in DOMAIN s : Tagged(f, s)[k] \in Arrived
  <2> SUFFICES ASSUME NEW k \in DOMAIN s PROVE Tagged(f, s)[k] \in Arrived
    OBVIOUS
  <2>1. s[k] \in Nat \ {0} /\ file[f][s[k]] \in Events
    BY <1>1, <1>2, <1>4, <1>5
  <2>2. [event |-> file[f][s[k]], file |-> f, at |-> s[k]] \in Arrived
    BY <2>1 DEF Arrived
  <2> QED
    BY <1>7, <2>2
<1>9. Tagged(f, s) \in Seq(Arrived)
  <2>1. DOMAIN s = 1..Len(s) /\ Len(s) \in Nat
    BY <1>3
  <2>2. \A k \in DOMAIN s : [event |-> file[f][s[k]], file |-> f, at |-> s[k]] \in Arrived
    BY <1>7, <1>8
  <2>3. Tagged(f, s) \in [DOMAIN s -> Arrived]
    BY <2>2 DEF Tagged
  <2> QED
    BY <2>1, <2>3
<1> QED
  BY <1>2, <1>3, <1>4, <1>6, <1>7, <1>9

\* A poll of a file keeps the events together: what it appends comes from what
\* it reads, and on Lambda is new and no line twice.
LEMMA EventsReadStep ==
  ASSUME LogTypes, EventsInv, NEW f \in Files, ReadFile(f)
  PROVE  EventsInv'
<1> DEFINE o == offset[f]
           n == NextOffset(f)
<1>1. PICK s \in Ascending(NewEvents(f)) : localEvents' = localEvents \o Tagged(f, s)
  BY DEF ReadFile, CopyNew
<1> DEFINE t == Tagged(f, s)
<1>2. /\ seen' = seen \cup {file[f][m] : m \in {i \in NewPositions(f) : IsEvent(f, i)}}
      /\ offset' = [offset EXCEPT ![f] = n]
      /\ UNCHANGED <<file, adapter>>
  BY DEF ReadFile, CopyNew, jobVars
<1>3. /\ o \in Nat /\ n \in Nat /\ o <= n
      /\ NewPositions(f) = (o + 1)..n /\ From(f) = o
      /\ adapter = "lambda" /\ n > o => file[f][n] # Partial
  BY OffsetFacts DEF LogTypes, NewPositions
<1>4. \A g \in Files : /\ offset[g] \in Nat
                       /\ offset'[g] = IF g = f THEN n ELSE offset[g]
  BY <1>2 DEF LogTypes
<1>5. /\ t \in Seq(Arrived) /\ DOMAIN t = DOMAIN s
      /\ \A k \in DOMAIN s :
           /\ s[k] \in NewEvents(f) /\ s[k] \in (o + 1)..n
           /\ t[k] = [event |-> file[f][s[k]], file |-> f, at |-> s[k]]
      /\ \A m \in NewEvents(f) : \E k \in DOMAIN s : s[k] = m
      /\ \A j, k \in DOMAIN s : j < k => s[j] < s[k]
  BY PollFacts
<1>6. localEvents \in Seq(Arrived)
  BY DEF EventsInv
<1>7. \A k \in DOMAIN localEvents :
        /\ localEvents[k].at \in Nat /\ localEvents[k].file \in Files
        /\ localEvents[k].at <= offset[localEvents[k].file]
  <2>1. \A k \in DOMAIN localEvents : localEvents[k] \in Arrived
    BY <1>6
  <2> QED
    BY <2>1 DEF EventsInv, Arrived
<1> HIDE DEF o, n, t
<1> DEFINE L == Len(localEvents)
<1>8. localEvents' \in Seq(Arrived) /\ Joins(localEvents', localEvents, t)
  BY <1>1, <1>5, <1>6, Joined DEF t
<1>9. /\ \A k \in DOMAIN localEvents' :
           \/ k \in DOMAIN localEvents /\ localEvents'[k] = localEvents[k]
           \/ k - L \in DOMAIN s /\ localEvents'[k] = t[k - L]
      /\ \A k \in DOMAIN localEvents :
           k \in DOMAIN localEvents' /\ localEvents'[k] = localEvents[k]
      /\ \A i \in DOMAIN s :
           L + i \in DOMAIN localEvents' /\ localEvents'[L + i] = t[i]
  BY <1>5, <1>6, <1>8, JoinedAt
<1>10. /\ L \in Nat /\ DOMAIN localEvents = 1..L
       /\ \A k \in DOMAIN s : k \in Nat /\ k > 0
       /\ \A k \in DOMAIN localEvents' : k \in Nat /\ k > 0
  <2>1. L \in Nat /\ DOMAIN localEvents = 1..L
    BY <1>6
  <2>2. DOMAIN t = 1..Len(t) /\ Len(t) \in Nat
    BY <1>5
  <2>3. DOMAIN localEvents' = 1..Len(localEvents')
    BY <1>8
  <2> QED
    BY <1>5, <2>1, <2>2, <2>3
<1> HIDE DEF L
\* An event of events.jsonl is an old one, or one of those that are new.
<1>old. ASSUME NEW k \in DOMAIN localEvents', k \in DOMAIN localEvents
        PROVE  localEvents'[k] = localEvents[k]
  BY <1>9, <1>old
<1>new. ASSUME NEW k \in DOMAIN localEvents', k \notin DOMAIN localEvents
        PROVE  /\ k - L \in DOMAIN s /\ k > L
               /\ s[k - L] \in NewEvents(f) /\ s[k - L] \in (o + 1)..n
               /\ localEvents'[k].event = file[f][s[k - L]]
               /\ localEvents'[k].file = f /\ localEvents'[k].at = s[k - L]
  <2>1. k - L \in DOMAIN s /\ localEvents'[k] = t[k - L]
    BY <1>9, <1>new
  <2>2. t[k - L] = [event |-> file[f][s[k - L]], file |-> f, at |-> s[k - L]]
    BY <1>5, <2>1
  <2>3. k > L
    BY <1>10, <2>1
  <2> QED
    BY <1>5, <2>1, <2>2, <2>3
<1>a. \A k \in DOMAIN localEvents' : localEvents'[k].at <= offset'[localEvents'[k].file]
  <2> SUFFICES ASSUME NEW k \in DOMAIN localEvents'
               PROVE  localEvents'[k].at <= offset'[localEvents'[k].file]
    OBVIOUS
  <2>1. CASE k \in DOMAIN localEvents
    <3> DEFINE g == localEvents[k].file
               at == localEvents[k].at
    <3>1. localEvents'[k].file = g /\ localEvents'[k].at = at
      BY <1>old, <2>1
    <3>2. at \in Nat /\ g \in Files /\ at <= offset[g]
      BY <1>7, <2>1
    <3> HIDE DEF g, at
    <3>3. offset[g] \in Nat /\ offset[g] <= offset'[g] /\ offset'[g] \in Nat
      BY <1>3, <1>4, <3>2 DEF o
    <3> QED
      BY <3>1, <3>2, <3>3
  <2>2. CASE k \notin DOMAIN localEvents
    BY <1>3, <1>4, <1>new, <2>2
  <2> QED
    BY <2>1, <2>2
<1>b. ASSUME adapter = "lambda", NEW k \in DOMAIN localEvents'
      PROVE  localEvents'[k].event \in seen'
  <2>1. CASE k \in DOMAIN localEvents
    BY <1>2, <1>b, <1>old, <2>1 DEF EventsInv
  <2>2. CASE k \notin DOMAIN localEvents
    <3>1. s[k - L] \in NewPositions(f) /\ IsEvent(f, s[k - L])
      BY <1>new, <2>2 DEF NewEvents, IsNewEvent
    <3> QED
      BY <1>2, <1>new, <2>2, <3>1
  <2> QED
    BY <2>1, <2>2
\* A line that has been seen has been appended, before or where it stands first.
<1>c. ASSUME adapter = "lambda", NEW e \in seen'
      PROVE  \E k \in DOMAIN localEvents' : localEvents'[k].event = e
  <2>1. CASE e \in seen
    BY <1>9, <1>c, <2>1 DEF EventsInv
  <2>2. CASE e \notin seen
    <3> DEFINE S == {m \in NewPositions(f) : file[f][m] = e}
    <3>1. PICK m \in NewPositions(f) : IsEvent(f, m) /\ file[f][m] = e
      BY <1>2, <2>2
    <3>2. e \in Events
      BY <3>1 DEF IsEvent
    <3>3. S \subseteq Nat /\ m \in S
      BY <1>3, <3>1
    <3>4. PICK x \in S : \A y \in S : x <= y
      BY <3>3, LeastOf
    <3>5. x \in NewPositions(f) /\ file[f][x] = e /\ x \in (o + 1)..n
      BY <1>3, <3>4
    <3>6. IsEvent(f, x)
      BY <1>c, <3>2, <3>5, WholeLines
    <3>7. \A y \in (From(f) + 1)..(x - 1) : file[f][y] # e
      <4> SUFFICES ASSUME NEW y \in (From(f) + 1)..(x - 1), file[f][y] = e PROVE FALSE
        OBVIOUS
      <4>1. y \in (o + 1)..n /\ y < x
        BY <1>3, <3>5
      <4>2. y \in S
        BY <1>3, <4>1
      <4> QED
        BY <3>3, <3>4, <4>1, <4>2
    <3>8. x \in NewEvents(f)
      BY <2>2, <3>5, <3>6, <3>7 DEF NewEvents, IsNewEvent
    <3>9. PICK k \in DOMAIN s : s[k] = x
      BY <1>5, <3>8
    <3>10. t[k].event = e
      BY <1>5, <3>5, <3>9
    <3> QED
      BY <1>9, <3>10
  <2> QED
    BY <2>1, <2>2
<1>d. ASSUME adapter = "lambda", NEW g \in Files, offset'[g] > 0
      PROVE  file[g][offset'[g]] # Partial
  <2>1. CASE g = f /\ n > o
    BY <1>3, <1>4, <1>d, <2>1
  <2>2. CASE ~(g = f /\ n > o)
    <3>1. offset'[g] = offset[g]
      BY <1>3, <1>4, <2>2 DEF o
    <3> QED
      BY <1>d, <3>1 DEF EventsInv
  <2> QED
    BY <2>1, <2>2
<1>e. ASSUME NEW g \in Files, NEW i \in 1..offset'[g],
             file[g][i] \in Events, ~MayBeCut(g, i)
      PROVE  \E k \in DOMAIN localEvents' : localEvents'[k].event = file[g][i]
  <2>1. CASE i <= offset[g]
    <3>1. i \in 1..offset[g]
      BY <1>4, <2>1
    <3>2. PICK k \in DOMAIN localEvents : localEvents[k].event = file[g][i]
      BY <1>e, <3>1 DEF EventsInv, EventsArriveOnce
    <3> QED
      BY <1>9, <3>2
  <2>2. CASE i > offset[g]
    <3>1. g = f /\ i \in NewPositions(f) /\ i \in Nat
      BY <1>3, <1>4, <2>2 DEF o
    <3>2. CASE adapter = "lambda"
      <4>1. IsEvent(f, i)
        BY <1>e, <3>1, <3>2, WholeLines
      <4>2. file[g][i] \in seen'
        BY <1>2, <3>1, <4>1
      <4> QED
        BY <1>c, <3>2, <4>2
    <3>3. CASE adapter = "vm"
      <4>1. i \in NewEvents(f)
        BY <1>e, <3>1, <3>3 DEF NewEvents, IsNewEvent, IsEvent, MayBeCut
      <4>2. PICK k \in DOMAIN s : s[k] = i
        BY <1>5, <4>1
      <4>3. t[k].event = file[g][i]
        BY <1>5, <3>1, <4>2
      <4> QED
        BY <1>9, <4>3
    <3> QED
      BY <3>2, <3>3 DEF LogTypes, Adapters
  <2> QED
    BY <1>4, <2>1, <2>2
<1>f. ASSUME NEW j \in DOMAIN localEvents', NEW k \in DOMAIN localEvents', j < k
      PROVE  /\ localEvents'[j].file = localEvents'[k].file =>
                  localEvents'[j].at < localEvents'[k].at
             /\ adapter = "lambda" => localEvents'[j].event # localEvents'[k].event
  <2>1. CASE k \in DOMAIN localEvents
    <3>1. j \in DOMAIN localEvents
      BY <1>10, <1>f, <2>1
    <3>2. localEvents'[j] = localEvents[j] /\ localEvents'[k] = localEvents[k]
      BY <1>old, <2>1, <3>1
    <3> QED
      BY <1>f, <2>1, <3>1, <3>2 DEF EventsInv, EventsArriveOnce
  <2>2. CASE j \in DOMAIN localEvents /\ k \notin DOMAIN localEvents
    <3>1. localEvents'[j] = localEvents[j]
      BY <1>old, <2>2
    <3>2. localEvents[j].file = f => localEvents[j].at < localEvents'[k].at
      BY <1>3, <1>7, <1>new, <2>2 DEF o
    <3>3. adapter = "lambda" => localEvents[j].event \in seen
      BY <2>2 DEF EventsInv
    <3>4. adapter = "lambda" => localEvents'[k].event \notin seen
      BY <1>new, <2>2 DEF NewEvents, IsNewEvent
    <3> QED
      BY <1>new, <2>2, <3>1, <3>2, <3>3, <3>4
  <2>3. CASE j \notin DOMAIN localEvents /\ k \notin DOMAIN localEvents
    <3>1. j - L \in DOMAIN s /\ k - L \in DOMAIN s /\ j - L < k - L
      BY <1>10, <1>f, <1>new, <2>3
    <3>2. s[j - L] < s[k - L]
      BY <1>5, <3>1
    <3>3. s[j - L] \in (From(f) + 1)..(s[k - L] - 1)
      BY <1>3, <1>5, <3>1, <3>2
    <3>4. IsNewEvent(f, s[k - L])
      BY <1>5, <3>1 DEF NewEvents
    <3>5. adapter = "lambda" => file[f][s[j - L]] # file[f][s[k - L]]
      BY <3>3, <3>4 DEF IsNewEvent
    <3> QED
      BY <1>new, <2>3, <3>2, <3>5
  <2> QED
    BY <2>1, <2>2, <2>3
<1> QED
  <2>1. EventsArriveOnce'
    BY <1>2, <1>e, <1>f DEF EventsArriveOnce, MayBeCut
  <2> QED
    BY <1>2, <1>8, <1>a, <1>b, <1>c, <1>d, <2>1 DEF EventsInv

LEMMA EventsStep == LogTypes /\ EventsInv /\ [Next]_vars => EventsInv'
<1> SUFFICES ASSUME LogTypes, EventsInv, [Next]_vars PROVE EventsInv'
  OBVIOUS
<1> USE DEF jobVars, monitorVars, localVars, runVars, followVars
<1>s. ASSUME UNCHANGED <<file, offset, seen, adapter, localEvents>> PROVE EventsInv'
  BY <1>s DEF EventsInv, EventsArriveOnce, MayBeCut
\* The job writes after what has been read.
<1>1. ASSUME NEW f \in Files, NEW p \in Pieces, JobWrites(f, p) PROVE EventsInv'
  <2>1. UNCHANGED <<offset, seen, adapter, localEvents>>
    BY <1>1 DEF JobWrites
  <2>2. \A g \in Files : \A i \in 1..offset[g] : file'[g][i] = file[g][i]
    <3> SUFFICES ASSUME NEW g \in Files, NEW i \in 1..offset[g]
                 PROVE  file'[g][i] = file[g][i]
      OBVIOUS
    <3>1. file[g] \in Seq(Pieces) /\ offset[g] \in Nat /\ offset[g] <= Len(file[g])
      BY DEF LogTypes
    <3>2. file'[g] = file[g] \/ file'[g] = Append(file[g], p)
      BY <1>1 DEF JobWrites, LogTypes
    <3> QED
      BY <3>1, <3>2
  <2>3. \A g \in Files : offset[g] \in Nat
    BY DEF LogTypes
  <2>4. \A g \in Files : offset[g] > 0 => file'[g][offset[g]] = file[g][offset[g]]
    BY <2>2, <2>3
  <2>5. \A g \in Files : \A i \in 1..offset[g] : MayBeCut(g, i)' <=> MayBeCut(g, i)
    <3> SUFFICES ASSUME NEW g \in Files, NEW i \in 1..offset[g]
                 PROVE  MayBeCut(g, i)' <=> MayBeCut(g, i)
      OBVIOUS
    <3>1. i > 1 => i - 1 \in 1..offset[g]
      BY <2>3
    <3> QED
      BY <2>1, <2>2, <3>1 DEF MayBeCut
  <2>6. EventsArriveOnce'
    BY <2>1, <2>2, <2>5 DEF EventsInv, EventsArriveOnce
  <2> QED
    BY <2>1, <2>4, <2>6 DEF EventsInv
<1>2. ASSUME JobExits \/ MachineGoes \/ CancelMachine \/ CancelRun \/ FollowStep PROVE EventsInv'
  BY <1>s, <1>2 DEF JobExits, MachineGoes, CancelMachine, CancelRun,
                    FollowStep, CopyLog, LookAtRun, Drain
<1>3. ASSUME NEW f \in Files, ReadFileFails(f) PROVE EventsInv'
  BY <1>s, <1>3 DEF ReadFileFails
<1>4. ASSUME ReadExit \/ NoExit \/ MachineIsUp \/ MachineFails \/ SubmitReturns \/
             CheckRun \/ FinishRun
      PROVE  EventsInv'
  BY <1>s, <1>4 DEF ReadExit, NoExit, MachineIsUp, MachineFails, SubmitReturns, CheckRun,
                    FinishRun, Return, Continue
<1>5. ASSUME NextAttempt PROVE EventsInv'
  <2>1. /\ localEvents' = <<>> /\ seen' = {}
        /\ \A f \in Files : offset'[f] = 0
    BY <1>5 DEF NextAttempt
  <2> QED
    BY <2>1 DEF EventsInv, EventsArriveOnce
<1>6. CASE UNCHANGED vars
  BY <1>s, <1>6 DEF vars
<1> QED
  BY <1>1, <1>2, <1>3, <1>4, <1>5, <1>6, EventsReadStep DEF Next, JobStep, MonitorStep

\* Of every attempt's job, each event that has been read is in events.jsonl,
\* in the order of its file and once; on Lambda, once whichever of the two files
\* it was read from (appendNewLogContent, appendNewEventContent, seenEvents).
THEOREM EventsArrive == Spec => []EventsArriveOnce
<1>1. Init => EventsInv
  <2> SUFFICES ASSUME Init PROVE EventsInv
    OBVIOUS
  <2>1. localEvents = <<>> /\ seen = {} /\ \A f \in Files : offset[f] = 0
    BY DEF Init
  <2> QED
    BY <2>1 DEF EventsInv, EventsArriveOnce
<1>2. EventsInv => EventsArriveOnce
  BY DEF EventsInv
<1> QED
  BY <1>1, <1>2, LogTypesInit, LogTypesStep, EventsStep, PTL DEF Spec

=============================================================================
