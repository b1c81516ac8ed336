---------------------------- MODULE LocalProofs -----------------------------
(***************************************************************************)
(* Proofs about LocalJob, for any kinds and numbers of lines and any       *)
(* capacity of the pipes: types, how a run ends, and that either stream is *)
(* mirrored in the local log.                                              *)
(***************************************************************************)
EXTENDS LocalJob, FiniteSetTheorems, FunctionTheorems, WellFoundedInduction, TLAPS

-----------------------------------------------------------------------------
(* Type correctness *)

\* What a sequence holds when an element is appended.
LEMMA Appended ==
  ASSUME NEW S, NEW q \in Seq(S), NEW e \in S
  PROVE  /\ Append(q, e) \in Seq(S)
         /\ Len(Append(q, e)) = Len(q) + 1
         /\ DOMAIN q = 1..Len(q)
         /\ DOMAIN Append(q, e) = 1..(Len(q) + 1)
         /\ \A p \in DOMAIN q : Append(q, e)[p] = q[p]
         /\ Append(q, e)[Len(q) + 1] = e
  OBVIOUS

\* Every action preserves the type invariant.
LEMMA TypeStep == TypeOK /\ [Next]_vars => TypeOK'
<1> SUFFICES ASSUME TypeOK PROVE [Next]_vars => TypeOK'
  OBVIOUS
<1> USE DEF jobVars, readVars, outputVars
<1>1. ASSUME NEW s \in Streams, NEW k \in Kinds, JobWrites(s, k)
      PROVE  TypeOK'
  BY <1>1
  DEF TypeOK, Streams, Line, Own, Unread, JobWrites
<1>2. ASSUME JobExits
      PROVE  TypeOK'
  BY <1>2
  DEF TypeOK, Streams, Line, Own, Unread, JobExits
<1>3. ASSUME JobDies
      PROVE  TypeOK'
  BY <1>3
  DEF TypeOK, Streams, Line, Own, Unread, JobDies
<1>4. ASSUME Start
      PROVE  TypeOK'
  BY <1>4
  DEF TypeOK, Streams, Line, Own, Unread, Start
<1>5. ASSUME StartFails
      PROVE  TypeOK'
  BY <1>5
  DEF TypeOK, Streams, Line, Own, Unread, StartFails
<1>6. ASSUME OnStarted
      PROVE  TypeOK'
  BY <1>6
  DEF TypeOK, Streams, Line, Own, Unread, OnStarted
<1>7. ASSUME StartNotRecorded
      PROVE  TypeOK'
  BY <1>7
  DEF TypeOK, Streams, Line, Own, Unread, StartNotRecorded
<1>8. ASSUME Abort
      PROVE  TypeOK'
  BY <1>8
  DEF TypeOK, Streams, Line, Own, Unread, Abort, Reap
<1>9. ASSUME Wait
      PROVE  TypeOK'
  BY <1>9
  DEF TypeOK, Streams, Line, Own, Unread, Wait, Reap
<1>10. ASSUME Join
      PROVE  TypeOK'
  BY <1>10
  DEF TypeOK, Streams, Line, Own, Unread, Join
<1>11. ASSUME NEW s \in Streams, Fetch(s)
      PROVE  TypeOK'
  BY <1>11
  DEF TypeOK, Streams, Line, Own, Unread, Fetch, Hungry
<1>12. ASSUME NEW s \in Streams, TooLong(s)
      PROVE  TypeOK'
  <2>1. fetched[s] \in Nat /\ taken[s] \in 0..fetched[s] /\ fetched[s] + 1 \in 0..Len(written[s])
    BY <1>12 DEF TypeOK, TooLong
  <2>2. ASSUME NEW t \in Streams
        PROVE  fetched'[t] \in 0..Len(written[t]) /\ taken[t] \in 0..fetched'[t]
    <3>1. fetched[t] \in 0..Len(written[t]) /\ taken[t] \in 0..fetched[t]
      BY DEF TypeOK
    <3>2. fetched'[t] = fetched[t] \/ (t = s /\ fetched'[t] = fetched[s] + 1)
      BY <1>12, <2>1 DEF TooLong, TypeOK
    <3> QED
      BY <2>1, <3>1, <3>2
  <2> QED
    BY <1>12, <2>2 DEF TypeOK, TooLong, GoOn, Streams
<1>13. ASSUME NEW s \in Streams, EndOfFile(s)
      PROVE  TypeOK'
  BY <1>13
  DEF TypeOK, Streams, Line, Own, Unread, EndOfFile, Hungry, GoOn
<1>14. ASSUME NEW s \in Streams, ReadClosed(s)
      PROVE  TypeOK'
  BY <1>14
  DEF TypeOK, Streams, Line, Own, Unread, ReadClosed, Hungry, GoOn
<1>15. ASSUME NEW s \in Streams, Scan(s)
      PROVE  TypeOK'
  BY <1>15
  DEF TypeOK, Streams, Line, Own, Unread, Scan, GoOn
<1>16. ASSUME NEW s \in Streams, Lock(s)
      PROVE  TypeOK'
  BY <1>16
  DEF TypeOK, Streams, Line, Own, Unread, Lock, GoOn
<1>17. ASSUME NEW s \in Streams, WriteLog(s)
      PROVE  TypeOK'
  <2>1. InHand(s) \in [stream : Streams, line : Nat] \cup {Own}
    BY <1>17 DEF TypeOK, InHand, Line
  <2>2. log' \in Seq([stream : Streams, line : Nat] \cup {Own})
    BY <1>17, <2>1, Appended DEF TypeOK, WriteLog
  <2> QED
    BY <1>17, <2>2 DEF TypeOK, WriteLog, GoOn, Streams
<1>18. ASSUME NEW s \in Streams, WriteEvent(s)
      PROVE  TypeOK'
  <2>1. InHand(s) \in [stream : Streams, line : Nat]
    BY <1>18 DEF TypeOK, InHand, Line
  <2>2. events' \in Seq([stream : Streams, line : Nat])
    BY <1>18, <2>1, Appended DEF TypeOK, WriteEvent
  <2> QED
    BY <1>18, <2>2 DEF TypeOK, WriteEvent, GoOn, Streams
<1>19. ASSUME NEW s \in Streams, ReportError(s)
      PROVE  TypeOK'
  BY <1>19
  DEF TypeOK, Streams, Line, Own, Unread, ReportError, GoOn
<1>20. ASSUME Interrupt
      PROVE  TypeOK'
  BY <1>20
  DEF TypeOK, Streams, Line, Own, Unread, Interrupt
<1>21. CASE UNCHANGED vars
  BY <1>21
  DEF TypeOK, Streams, Line, Own, Unread, vars
<1> QED
  BY <1>1, <1>2, <1>3, <1>4, <1>5, <1>6, <1>7, <1>8, <1>9, <1>10, <1>11,
     <1>12, <1>13, <1>14, <1>15, <1>16, <1>17, <1>18, <1>19, <1>20, <1>21
  DEF Next, JobStep, SubmitStep, ReaderStep

\* The variables of a local job keep their types.
THEOREM TypeCorrect == Spec => []TypeOK
<1>1. Init => TypeOK
  <2> SUFFICES ASSUME Init PROVE TypeOK
    OBVIOUS
  <2>1. /\ written \in [Streams -> Seq(Kinds)] /\ \A s \in Streams : Len(written[s]) = 0
        /\ fetched \in [Streams -> Nat] /\ \A s \in Streams : fetched[s] = 0
        /\ taken \in [Streams -> Nat] /\ \A s \in Streams : taken[s] = 0
    BY DEF Init
  <2>2. /\ log \in Seq([stream : Streams, line : Nat] \cup {Own})
        /\ events \in Seq([stream : Streams, line : Nat])
    BY DEF Init
  <2>3. \A s \in Streams : fetched[s] \in 0..Len(written[s]) /\ taken[s] \in 0..fetched[s]
    BY <2>1
  <2>4. reader \in [Streams -> {"none", "scan", "lock", "log", "event", "error", "done"}]
    BY DEF Init
  <2> QED
    BY <2>1, <2>2, <2>3, <2>4 DEF Init, TypeOK
<1> QED
  BY <1>1, TypeStep, PTL DEF Spec

-----------------------------------------------------------------------------
(* Where the readers are *)

\* The mutex belongs to the reader that writes; readers exist from OnStarted
\* on and have ended when Submit returns; a reader that has ended has taken
\* all its scanner read, but for a line that was too long.
ReaderInv ==
  /\ \A s \in Streams : reader[s] \in {"log", "event"} <=> mutex = s
  /\ main \in {"start", "notify", "abort"} => \A s \in Streams : reader[s] = "none"
  /\ main = "returned" =>
       \/ \A s \in Streams : reader[s] = "none"
       \/ \A s \in Streams : reader[s] = "done"
  /\ \A s \in Streams : reader[s] = "none" => fetched[s] = 0
  /\ \A s \in Streams : reader[s] \in {"error", "done"} =>
       \/ taken[s] = fetched[s]
       \/ taken[s] + 1 = fetched[s] /\ written[s][fetched[s]] = "long"

\* Every action preserves it.
LEMMA ReaderInvStep == TypeOK /\ ReaderInv /\ [Next]_vars => ReaderInv'
<1> SUFFICES ASSUME TypeOK /\ ReaderInv PROVE [Next]_vars => ReaderInv'
  OBVIOUS
<1> USE DEF jobVars, readVars, outputVars
<1>1. ASSUME NEW s \in Streams, NEW k \in Kinds, JobWrites(s, k)
      PROVE  ReaderInv'
  BY <1>1
  DEF TypeOK, ReaderInv, Streams, JobWrites
<1>2. ASSUME JobExits
      PROVE  ReaderInv'
  BY <1>2
  DEF TypeOK, ReaderInv, Streams, JobExits
<1>3. ASSUME JobDies
      PROVE  ReaderInv'
  BY <1>3
  DEF TypeOK, ReaderInv, Streams, JobDies
<1>4. ASSUME Start
      PROVE  ReaderInv'
  BY <1>4
  DEF TypeOK, ReaderInv, Streams, Start
<1>5. ASSUME StartFails
      PROVE  ReaderInv'
  BY <1>5
  DEF TypeOK, ReaderInv, Streams, StartFails
<1>6. ASSUME OnStarted
      PROVE  ReaderInv'
  BY <1>6
  DEF TypeOK, ReaderInv, Streams, OnStarted
<1>7. ASSUME StartNotRecorded
      PROVE  ReaderInv'
  BY <1>7
  DEF TypeOK, ReaderInv, Streams, StartNotRecorded
<1>8. ASSUME Abort
      PROVE  ReaderInv'
  BY <1>8
  DEF TypeOK, ReaderInv, Streams, Abort, Reap
<1>9. ASSUME Wait
      PROVE  ReaderInv'
  BY <1>9
  DEF TypeOK, ReaderInv, Streams, Wait, Reap
<1>10. ASSUME Join
      PROVE  ReaderInv'
  BY <1>10
  DEF TypeOK, ReaderInv, Streams, Join
<1>11. ASSUME NEW s \in Streams, Fetch(s)
      PROVE  ReaderInv'
  BY <1>11
  DEF TypeOK, ReaderInv, Streams, Fetch, Hungry, Unread
<1>12. ASSUME NEW s \in Streams, TooLong(s)
      PROVE  ReaderInv'
  <2>1. taken[s] = fetched[s] /\ reader[s] = "scan" /\ fetched[s] \in Nat
    BY <1>12 DEF TypeOK, TooLong, Hungry
  <2>2. \/ fetched'[s] = taken[s]
        \/ taken[s] + 1 = fetched'[s] /\ written[s][fetched'[s]] = "long"
    BY <1>12, <2>1 DEF TypeOK, TooLong
  <2>3. \A t \in Streams \ {s} : fetched'[t] = fetched[t] /\ reader'[t] = reader[t]
    BY <1>12 DEF TypeOK, TooLong, GoOn
  <2>4. reader'[s] = "error" /\ UNCHANGED <<main, mutex, taken, written>>
    BY <1>12 DEF TypeOK, TooLong, GoOn
  <2> QED
    BY <2>1, <2>2, <2>3, <2>4 DEF ReaderInv, TypeOK, Streams
<1>13. ASSUME NEW s \in Streams, EndOfFile(s)
      PROVE  ReaderInv'
  BY <1>13
  DEF TypeOK, ReaderInv, Streams, EndOfFile, Hungry, GoOn
<1>14. ASSUME NEW s \in Streams, ReadClosed(s)
      PROVE  ReaderInv'
  BY <1>14
  DEF TypeOK, ReaderInv, Streams, ReadClosed, Hungry, GoOn
<1>15. ASSUME NEW s \in Streams, Scan(s)
      PROVE  ReaderInv'
  BY <1>15
  DEF TypeOK, ReaderInv, Streams, Scan, GoOn
<1>16. ASSUME NEW s \in Streams, Lock(s)
      PROVE  ReaderInv'
  BY <1>16
  DEF TypeOK, ReaderInv, Streams, Lock, GoOn
<1>17. ASSUME NEW s \in Streams, WriteLog(s)
      PROVE  ReaderInv'
  BY <1>17
  DEF TypeOK, ReaderInv, Streams, WriteLog, GoOn, InHand
<1>18. ASSUME NEW s \in Streams, WriteEvent(s)
      PROVE  ReaderInv'
  BY <1>18
  DEF TypeOK, ReaderInv, Streams, WriteEvent, GoOn, InHand
<1>19. ASSUME NEW s \in Streams, ReportError(s)
      PROVE  ReaderInv'
  BY <1>19
  DEF TypeOK, ReaderInv, Streams, ReportError, GoOn
<1>20. ASSUME Interrupt
      PROVE  ReaderInv'
  BY <1>20
  DEF TypeOK, ReaderInv, Streams, Interrupt
<1>21. CASE UNCHANGED vars
  BY <1>21
  DEF TypeOK, ReaderInv, Streams, vars
<1> QED
  BY <1>1, <1>2, <1>3, <1>4, <1>5, <1>6, <1>7, <1>8, <1>9, <1>10, <1>11,
     <1>12, <1>13, <1>14, <1>15, <1>16, <1>17, <1>18, <1>19, <1>20, <1>21
  DEF Next, JobStep, SubmitStep, ReaderStep

\* The readers are where ReaderInv has them.
LEMMA ReaderCorrect == Spec => []ReaderInv
<1>1. Init => ReaderInv
  BY DEF Init, ReaderInv, Streams
<1> QED
  BY <1>1, ReaderInvStep, TypeCorrect, PTL DEF Spec

\* Nothing is written once Submit has returned: a reader that could still
\* write would have kept Join from returning.
THEOREM ReturnedIsFinal == Spec => ReturnIsFinal
<1>1. TypeOK /\ ReaderInv /\ [Next]_vars => (main = "returned" => UNCHANGED <<log, events>>)
  <2> SUFFICES ASSUME TypeOK, ReaderInv, [Next]_vars, main = "returned"
               PROVE  UNCHANGED <<log, events>>
    OBVIOUS
  <2>1. \A s \in Streams : reader[s] \notin {"event", "log", "error"}
    BY DEF ReaderInv
  <2>2. ASSUME NEW s \in Streams, WriteLog(s) \/ WriteEvent(s) \/ ReportError(s)
        PROVE  FALSE
    BY <2>1, <2>2 DEF WriteLog, WriteEvent, ReportError
  <2> QED
    BY <2>2
    DEF Next, JobStep, SubmitStep, ReaderStep, vars, jobVars, readVars,
        outputVars, JobWrites, JobExits, JobDies, Start, StartFails, OnStarted,
        StartNotRecorded, Abort, Wait, Reap, Join, Fetch, TooLong, EndOfFile,
        ReadClosed, Scan, Lock, Interrupt
<1> QED
  BY <1>1, TypeCorrect, ReaderCorrect, PTL DEF Spec, ReturnIsFinal

-----------------------------------------------------------------------------
(* What the log holds *)

\* A reader between its two writes has just logged its line.
LastLogged ==
  \A s \in Streams : reader[s] = "event" =>
    Len(log) > 0 /\ log[Len(log)] = InHand(s)

\* The log has no line before its reader has taken and logged it, ...
NotEarly ==
  \A s \in Streams : \A p \in DOMAIN log : log[p].stream = s =>
    /\ log[p].line \in 1..taken[s]
    /\ reader[s] \in {"lock", "log"} => log[p].line < taken[s]

\* ... no line twice, ...
NotTwice ==
  \A p, q \in DOMAIN log : log[p] = log[q] => p = q \/ log[p] = Own

\* ... and every line that was taken but the one in hand.
NotLost ==
  \A s \in Streams :
    /\ reader[s] \in {"lock", "log", "event"} => taken[s] > 0
    /\ \A n \in 1..taken[s] :
         Logged(Line(s, n)) \/ (n = taken[s] /\ reader[s] \in {"lock", "log"})

LogInv == LastLogged /\ NotEarly /\ NotTwice /\ NotLost

\* Every action preserves it.
LEMMA LogStep == TypeOK /\ ReaderInv /\ LogInv /\ [Next]_vars => LogInv'
<1> SUFFICES ASSUME TypeOK /\ ReaderInv /\ LogInv PROVE [Next]_vars => LogInv'
  OBVIOUS
<1> USE DEF jobVars, readVars, outputVars
<1>1. ASSUME NEW s \in Streams, NEW k \in Kinds, JobWrites(s, k)
      PROVE  LogInv'
  BY <1>1
  DEF TypeOK, ReaderInv, LogInv, Streams, Line, Own, InHand, Logged,
      LastLogged, NotEarly, NotTwice, NotLost, JobWrites
<1>2. ASSUME JobExits
      PROVE  LogInv'
  BY <1>2
  DEF TypeOK, ReaderInv, LogInv, Streams, Line, Own, InHand, Logged,
      LastLogged, NotEarly, NotTwice, NotLost, JobExits
<1>3. ASSUME JobDies
      PROVE  LogInv'
  BY <1>3
  DEF TypeOK, ReaderInv, LogInv, Streams, Line, Own, InHand, Logged,
      LastLogged, NotEarly, NotTwice, NotLost, JobDies
<1>4. ASSUME Start
      PROVE  LogInv'
  BY <1>4
  DEF TypeOK, ReaderInv, LogInv, Streams, Line, Own, InHand, Logged,
      LastLogged, NotEarly, NotTwice, NotLost, Start
<1>5. ASSUME StartFails
      PROVE  LogInv'
  BY <1>5
  DEF TypeOK, ReaderInv, LogInv, Streams, Line, Own, InHand, Logged,
      LastLogged, NotEarly, NotTwice, NotLost, StartFails
<1>6. ASSUME OnStarted
      PROVE  LogInv'
  BY <1>6
  DEF TypeOK, ReaderInv, LogInv, Streams, Line, Own, InHand, Logged,
      LastLogged, NotEarly, NotTwice, NotLost, OnStarted
<1>7. ASSUME StartNotRecorded
      PROVE  LogInv'
  BY <1>7
  DEF TypeOK, ReaderInv, LogInv, Streams, Line, Own, InHand, Logged,
      LastLogged, NotEarly, NotTwice, NotLost, StartNotRecorded
<1>8. ASSUME Abort
      PROVE  LogInv'
  BY <1>8
  DEF TypeOK, ReaderInv, LogInv, Streams, Line, Own, InHand, Logged,
      LastLogged, NotEarly, NotTwice, NotLost, Abort, Reap
<1>9. ASSUME Wait
      PROVE  LogInv'
  BY <1>9
  DEF TypeOK, ReaderInv, LogInv, Streams, Line, Own, InHand, Logged,
      LastLogged, NotEarly, NotTwice, NotLost, Wait, Reap
<1>10. ASSUME Join
      PROVE  LogInv'
  BY <1>10
  DEF TypeOK, ReaderInv, LogInv, Streams, Line, Own, InHand, Logged,
      LastLogged, NotEarly, NotTwice, NotLost, Join
<1>11. ASSUME NEW s \in Streams, Fetch(s)
      PROVE  LogInv'
  BY <1>11
  DEF TypeOK, ReaderInv, LogInv, Streams, Line, Own, InHand, Logged,
      LastLogged, NotEarly, NotTwice, NotLost, Fetch, Hungry, Unread
<1>12. ASSUME NEW s \in Streams, TooLong(s)
      PROVE  LogInv'
  BY <1>12
  DEF TypeOK, ReaderInv, LogInv, Streams, Line, Own, InHand, Logged,
      LastLogged, NotEarly, NotTwice, NotLost, TooLong, Hungry, GoOn
<1>13. ASSUME NEW s \in Streams, EndOfFile(s)
      PROVE  LogInv'
  BY <1>13
  DEF TypeOK, ReaderInv, LogInv, Streams, Line, Own, InHand, Logged,
      LastLogged, NotEarly, NotTwice, NotLost, EndOfFile, Hungry, GoOn
<1>14. ASSUME NEW s \in Streams, ReadClosed(s)
      PROVE  LogInv'
  BY <1>14
  DEF TypeOK, ReaderInv, LogInv, Streams, Line, Own, InHand, Logged,
      LastLogged, NotEarly, NotTwice, NotLost, ReadClosed, Hungry, GoOn
<1>15. ASSUME NEW s \in Streams, Scan(s)
      PROVE  LogInv'
  <2>1. LastLogged'
    BY <1>15
    DEF TypeOK, ReaderInv, LogInv, Streams, Line, Own, InHand, Logged,
        LastLogged, Scan, GoOn
  <2>2. NotEarly'
    <3> SUFFICES ASSUME NEW t \in Streams, NEW p \in DOMAIN log, log[p].stream = t
                 PROVE  /\ log[p].line \in 1..taken'[t]
                        /\ reader'[t] \in {"lock", "log"} => log[p].line < taken'[t]
      BY <1>15 DEF NotEarly, Scan
    <3>1. taken[t] \in Nat /\ log[p].line \in 1..taken[t]
      BY DEF TypeOK, LogInv, NotEarly
    <3>2. CASE t = s
      <4>1. taken'[t] = taken[t] + 1
        BY <1>15, <3>2 DEF Scan, TypeOK
      <4> QED
        BY <3>1, <4>1
    <3>3. CASE t # s
      BY <1>15, <3>1, <3>3 DEF Scan, GoOn, TypeOK, LogInv, NotEarly
    <3> QED
      BY <3>2, <3>3
  <2>3. NotTwice'
    BY <1>15
    DEF TypeOK, ReaderInv, LogInv, Streams, Line, Own, InHand, Logged,
        NotTwice, NotEarly, Scan, GoOn
  <2>4. NotLost'
    <3> SUFFICES ASSUME NEW t \in Streams
                 PROVE  /\ reader'[t] \in {"lock", "log", "event"} => taken'[t] > 0
                        /\ \A n \in 1..taken'[t] :
                             \/ Logged(Line(t, n))
                             \/ n = taken'[t] /\ reader'[t] \in {"lock", "log"}
      BY <1>15 DEF NotLost, Scan, Logged
    <3>1. taken[t] \in Nat
      BY DEF TypeOK
    <3>2. CASE t = s
      <4>1. /\ taken'[t] = taken[t] + 1 /\ reader[t] = "scan" /\ reader'[t] = "lock"
            /\ \A n \in 1..taken[t] : Logged(Line(t, n))
        BY <1>15, <3>2 DEF Scan, GoOn, TypeOK, LogInv, NotLost
      <4>2. ASSUME NEW n \in 1..taken'[t]
            PROVE  n \in 1..taken[t] \/ n = taken'[t]
        BY <3>1, <4>1
      <4> QED
        BY <3>1, <4>1, <4>2
    <3>3. CASE t # s
      BY <1>15, <3>1, <3>3 DEF Scan, GoOn, TypeOK, LogInv, NotLost
    <3> QED
      BY <3>2, <3>3
  <2> QED
    BY <2>1, <2>2, <2>3, <2>4
    DEF LogInv
<1>16. ASSUME NEW s \in Streams, Lock(s)
      PROVE  LogInv'
  BY <1>16
  DEF TypeOK, ReaderInv, LogInv, Streams, Line, Own, InHand, Logged,
      LastLogged, NotEarly, NotTwice, NotLost, Lock, GoOn
<1>17. ASSUME NEW s \in Streams, WriteLog(s)
      PROVE  LogInv'
  <2>1. LastLogged'
    <3>1. /\ log \in Seq([stream : Streams, line : Nat] \cup {Own})
          /\ InHand(s) \in [stream : Streams, line : Nat] \cup {Own}
          /\ log' = Append(log, InHand(s))
      BY <1>17 DEF TypeOK, WriteLog, InHand, Line
    <3>2. /\ DOMAIN log = 1..Len(log) /\ DOMAIN log' = 1..(Len(log) + 1)
          /\ \A p \in DOMAIN log : log'[p] = log[p]
          /\ log'[Len(log) + 1] = InHand(s)
      BY <3>1, Appended
    <3>3. Len(log) \in Nat /\ Len(log') = Len(log) + 1
      BY <3>1
    <3>4. mutex = s /\ UNCHANGED <<taken, mutex>>
      BY <1>17 DEF WriteLog, ReaderInv
    <3> SUFFICES ASSUME NEW t \in Streams, reader'[t] = "event"
                 PROVE  Len(log') > 0 /\ log'[Len(log')] = InHand(t)
      BY <3>4 DEF LastLogged, InHand
    <3>5. t = s
      BY <1>17, <3>4 DEF WriteLog, GoOn, TypeOK, ReaderInv
    <3> QED
      BY <3>2, <3>3, <3>5
  <2>2. NotEarly'
    <3>1. /\ log \in Seq([stream : Streams, line : Nat] \cup {Own})
          /\ InHand(s) \in [stream : Streams, line : Nat] \cup {Own}
          /\ log' = Append(log, InHand(s))
      BY <1>17 DEF TypeOK, WriteLog, InHand, Line
    <3>2. /\ DOMAIN log = 1..Len(log) /\ DOMAIN log' = 1..(Len(log) + 1)
          /\ \A p \in DOMAIN log : log'[p] = log[p]
          /\ log'[Len(log) + 1] = InHand(s)
      BY <3>1, Appended
    <3> SUFFICES ASSUME NEW t \in Streams, NEW p \in DOMAIN log', log'[p].stream = t
                 PROVE  /\ log'[p].line \in 1..taken[t]
                        /\ reader'[t] \in {"lock", "log"} => log'[p].line < taken[t]
      BY <1>17 DEF NotEarly, WriteLog
    <3>3. CASE p \in DOMAIN log
      BY <1>17, <3>2, <3>3 DEF WriteLog, GoOn, TypeOK, LogInv, NotEarly
    <3>4. CASE p = Len(log) + 1
      <4>1. t = s /\ log'[p].line = taken[s] /\ reader'[t] = "event"
        BY <1>17, <3>2, <3>4 DEF WriteLog, GoOn, TypeOK, InHand, Line
      <4>2. taken[s] \in Nat /\ taken[s] > 0
        BY <1>17 DEF WriteLog, TypeOK, LogInv, NotLost
      <4> QED
        BY <4>1, <4>2
    <3> QED
      BY <3>1, <3>2, <3>3, <3>4
  <2>3. NotTwice'
    <3>1. /\ log \in Seq([stream : Streams, line : Nat] \cup {Own})
          /\ InHand(s) \in [stream : Streams, line : Nat] \cup {Own}
          /\ log' = Append(log, InHand(s))
      BY <1>17 DEF TypeOK, WriteLog, InHand, Line
    <3>2. /\ DOMAIN log = 1..Len(log) /\ DOMAIN log' = 1..(Len(log) + 1)
          /\ \A p \in DOMAIN log : log'[p] = log[p]
          /\ log'[Len(log) + 1] = InHand(s)
      BY <3>1, Appended
    <3>3. \A p \in DOMAIN log : log[p] # InHand(s)
      <4> SUFFICES ASSUME NEW p \in DOMAIN log, log[p] = InHand(s) PROVE FALSE
        OBVIOUS
      <4>1. log[p].stream = s /\ log[p].line = taken[s]
        BY DEF InHand, Line
      <4> QED
        BY <1>17, <4>1 DEF WriteLog, LogInv, NotEarly, TypeOK
    <3> QED
      BY <3>2, <3>3 DEF LogInv, NotTwice
  <2>4. NotLost'
    <3>1. /\ log \in Seq([stream : Streams, line : Nat] \cup {Own})
          /\ InHand(s) \in [stream : Streams, line : Nat] \cup {Own}
          /\ log' = Append(log, InHand(s))
      BY <1>17 DEF TypeOK, WriteLog, InHand, Line
    <3>2. /\ DOMAIN log = 1..Len(log) /\ DOMAIN log' = 1..(Len(log) + 1)
          /\ \A p \in DOMAIN log : log'[p] = log[p]
          /\ log'[Len(log) + 1] = InHand(s)
      BY <3>1, Appended
    <3>3. Logged(InHand(s))' /\ \A l : Logged(l) => Logged(l)'
      <4>1. Len(log) \in Nat
        BY <3>1
      <4> QED
        BY <1>17, <3>2, <4>1 DEF Logged, InHand, WriteLog
    <3> SUFFICES ASSUME NEW t \in Streams
                 PROVE  /\ reader'[t] \in {"lock", "log", "event"} => taken[t] > 0
                        /\ \A n \in 1..taken[t] :
                             \/ Logged(Line(t, n))'
                             \/ n = taken[t] /\ reader'[t] \in {"lock", "log"}
      BY <1>17 DEF NotLost, WriteLog, Logged
    <3>4. CASE t = s
      BY <1>17, <3>3, <3>4 DEF WriteLog, GoOn, TypeOK, LogInv, NotLost, InHand, Line
    <3>5. CASE t # s
      BY <1>17, <3>3, <3>5 DEF WriteLog, GoOn, TypeOK, LogInv, NotLost, Line
    <3> QED
      BY <3>4, <3>5
  <2> QED
    BY <2>1, <2>2, <2>3, <2>4
    DEF LogInv
<1>18. ASSUME NEW s \in Streams, WriteEvent(s)
      PROVE  LogInv'
  BY <1>18
  DEF TypeOK, ReaderInv, LogInv, Streams, Line, Own, InHand, Logged,
      LastLogged, NotEarly, NotTwice, NotLost, WriteEvent, GoOn
<1>19. ASSUME NEW s \in Streams, ReportError(s)
      PROVE  LogInv'
  <2>1. LastLogged'
    BY <1>19
    DEF TypeOK, ReaderInv, LogInv, Streams, Line, Own, InHand, Logged,
        LastLogged, ReportError, GoOn
  <2>2. NotEarly'
    BY <1>19
    DEF TypeOK, ReaderInv, LogInv, Streams, Line, Own, InHand, Logged,
        NotEarly, ReportError, GoOn
  <2>3. NotTwice'
    BY <1>19
    DEF TypeOK, ReaderInv, LogInv, Streams, Line, Own, InHand, Logged,
        NotTwice, NotEarly, ReportError, GoOn
  <2>4. NotLost'
    <3>1. /\ log \in Seq([stream : Streams, line : Nat] \cup {Own})
          /\ Own \in [stream : Streams, line : Nat] \cup {Own}
          /\ log' = Append(log, Own)
      BY <1>19 DEF TypeOK, ReportError, InHand, Line
    <3>2. /\ DOMAIN log = 1..Len(log) /\ DOMAIN log' = 1..(Len(log) + 1)
          /\ \A p \in DOMAIN log : log'[p] = log[p]
          /\ log'[Len(log) + 1] = Own
      BY <3>1, Appended
    <3>3. \A l : Logged(l) => Logged(l)'
      BY <3>1, <3>2 DEF Logged
    <3> SUFFICES ASSUME NEW t \in Streams
                 PROVE  /\ reader'[t] \in {"lock", "log", "event"} => taken[t] > 0
                        /\ \A n \in 1..taken[t] :
                             \/ Logged(Line(t, n))'
                             \/ n = taken[t] /\ reader'[t] \in {"lock", "log"}
      BY <1>19 DEF NotLost, ReportError, Logged
    <3> QED
      BY <1>19, <3>3 DEF ReportError, GoOn, TypeOK, LogInv, NotLost, Line
  <2> QED
    BY <2>1, <2>2, <2>3, <2>4
    DEF LogInv
<1>20. ASSUME Interrupt
      PROVE  LogInv'
  BY <1>20
  DEF TypeOK, ReaderInv, LogInv, Streams, Line, Own, InHand, Logged,
      LastLogged, NotEarly, NotTwice, NotLost, Interrupt
<1>21. CASE UNCHANGED vars
  BY <1>21
  DEF TypeOK, ReaderInv, LogInv, Streams, Line, Own, InHand, Logged,
      LastLogged, NotEarly, NotTwice, NotLost, vars
<1> QED
  BY <1>1, <1>2, <1>3, <1>4, <1>5, <1>6, <1>7, <1>8, <1>9, <1>10, <1>11,
     <1>12, <1>13, <1>14, <1>15, <1>16, <1>17, <1>18, <1>19, <1>20, <1>21
  DEF Next, JobStep, SubmitStep, ReaderStep

\* The log holds what LogInv says.
LEMMA LogCorrect == Spec => []LogInv
<1>1. Init => LogInv
  BY DEF Init, LogInv, LastLogged, NotEarly, NotTwice, NotLost, Streams
<1> QED
  BY <1>1, LogStep, TypeCorrect, ReaderCorrect, PTL DEF Spec

\* What a scanner has read reaches the log before Submit returns.
THEOREM FetchedLinesAreLogged == Spec => []FetchedIsLogged
<1>1. TypeOK /\ ReaderInv /\ LogInv => FetchedIsLogged
  <2> SUFFICES ASSUME TypeOK, ReaderInv, LogInv, main = "returned",
                      NEW s \in Streams, NEW n \in 1..fetched[s], written[s][n] # "long"
               PROVE  Logged(Line(s, n))
    BY DEF FetchedIsLogged
  <2>1. fetched[s] \in Nat /\ taken[s] \in Nat /\ reader[s] = "done"
    BY DEF ReaderInv, TypeOK
  <2>2. n \in 1..taken[s]
    BY <2>1 DEF ReaderInv
  <2> QED
    BY <2>1, <2>2 DEF LogInv, NotLost
<1> QED
  BY <1>1, TypeCorrect, ReaderCorrect, LogCorrect, PTL

-----------------------------------------------------------------------------
(* Events and log *)

\* The line in hand is not in events.jsonl yet.
NotYetEvent ==
  \A s \in Streams : reader[s] \in {"lock", "log", "event"} =>
    \A k \in DOMAIN events : events[k] # InHand(s)

\* The three parts of EventsFollowLog.
Recorded ==
  \A k \in DOMAIN events : IsEvent(events[k]) /\ Logged(events[k])

Owed ==
  \A p \in DOMAIN log : IsEvent(log[p]) =>
    \/ \E k \in DOMAIN events : events[k] = log[p]
    \/ \E s \in Streams : mutex = s /\ reader[s] = "event" /\ log[p] = InHand(s)

Ordered ==
  \A j, k \in DOMAIN events, p, q \in DOMAIN log :
    j < k /\ log[p] = events[j] /\ log[q] = events[k] => p < q

EventsInv == NotYetEvent /\ Recorded /\ Owed /\ Ordered

\* What the job writes leaves the lines of the log as they are.
LEMMA KnownLineStays ==
  ASSUME TypeOK, LogInv, NEW s \in Streams, NEW k \in Kinds, JobWrites(s, k),
         NEW p \in DOMAIN log, log[p].stream \in Streams
  PROVE  written'[log[p].stream][log[p].line] = written[log[p].stream][log[p].line]
<1> DEFINE t == log[p].stream
<1>1. /\ taken[t] \in 0..fetched[t] /\ fetched[t] \in 0..Len(written[t])
      /\ written[t] \in Seq(Kinds)
  BY DEF TypeOK
<1>2. log[p].line \in 1..taken[t]
  BY DEF LogInv, NotEarly
<1>3. log[p].line \in DOMAIN written[t]
  BY <1>1, <1>2
<1>4. CASE t = s
  BY <1>1, <1>3, <1>4, Appended DEF JobWrites, TypeOK
<1>5. CASE t # s
  BY <1>5 DEF JobWrites, TypeOK
<1> QED
  BY <1>4, <1>5

\* Every action preserves it.
LEMMA EventsStep == TypeOK /\ ReaderInv /\ LogInv /\ EventsInv /\ [Next]_vars => EventsInv'
<1> SUFFICES ASSUME TypeOK /\ ReaderInv /\ LogInv /\ EventsInv PROVE [Next]_vars => EventsInv'
  OBVIOUS
<1> USE DEF jobVars, readVars, outputVars
<1>1. ASSUME NEW s \in Streams, NEW k \in Kinds, JobWrites(s, k)
      PROVE  EventsInv'
  <2>1. NotYetEvent'
    BY <1>1
    DEF TypeOK, ReaderInv, EventsInv, Streams, Line, Own, InHand, Logged,
        IsEvent, NotYetEvent, JobWrites
  <2>2. Recorded'
    <3> SUFFICES ASSUME NEW e \in DOMAIN events
                 PROVE  /\ events[e].stream \in Streams
                        /\ written'[events[e].stream][events[e].line] = "event"
                        /\ Logged(events[e])
      BY <1>1 DEF Recorded, IsEvent, Logged, JobWrites
    <3>1. /\ events[e].stream \in Streams
          /\ written[events[e].stream][events[e].line] = "event"
          /\ Logged(events[e])
      BY DEF EventsInv, Recorded, IsEvent
    <3>2. PICK p \in DOMAIN log : log[p] = events[e]
      BY <3>1 DEF Logged
    <3> QED
      BY <1>1, <3>1, <3>2, KnownLineStays
  <2>3. Owed'
    <3> SUFFICES ASSUME NEW p \in DOMAIN log, log[p].stream \in Streams,
                        written'[log[p].stream][log[p].line] = "event"
                 PROVE  \/ \E e \in DOMAIN events : events[e] = log[p]
                        \/ \E t \in Streams : mutex = t /\ reader[t] = "event" /\ log[p] = InHand(t)
      BY <1>1 DEF Owed, IsEvent, InHand, JobWrites
    <3>1. IsEvent(log[p])
      BY <1>1, KnownLineStays DEF IsEvent
    <3> QED
      BY <3>1 DEF EventsInv, Owed
  <2>4. Ordered'
    BY <1>1
    DEF TypeOK, ReaderInv, EventsInv, Streams, Line, Own, InHand, Logged,
        IsEvent, Ordered, JobWrites
  <2> QED
    BY <2>1, <2>2, <2>3, <2>4
    DEF EventsInv
<1>2. ASSUME JobExits
      PROVE  EventsInv'
  BY <1>2
  DEF TypeOK, ReaderInv, EventsInv, Streams, Line, Own, InHand, Logged,
      IsEvent, NotYetEvent, Recorded, Owed, Ordered, JobExits
<1>3. ASSUME JobDies
      PROVE  EventsInv'
  BY <1>3
  DEF TypeOK, ReaderInv, EventsInv, Streams, Line, Own, InHand, Logged,
      IsEvent, NotYetEvent, Recorded, Owed, Ordered, JobDies
<1>4. ASSUME Start
      PROVE  EventsInv'
  BY <1>4
  DEF TypeOK, ReaderInv, EventsInv, Streams, Line, Own, InHand, Logged,
      IsEvent, NotYetEvent, Recorded, Owed, Ordered, Start
<1>5. ASSUME StartFails
      PROVE  EventsInv'
  BY <1>5
  DEF TypeOK, ReaderInv, EventsInv, Streams, Line, Own, InHand, Logged,
      IsEvent, NotYetEvent, Recorded, Owed, Ordered, StartFails
<1>6. ASSUME OnStarted
      PROVE  EventsInv'
  BY <1>6
  DEF TypeOK, ReaderInv, EventsInv, Streams, Line, Own, InHand, Logged,
      IsEvent, NotYetEvent, Recorded, Owed, Ordered, OnStarted
<1>7. ASSUME StartNotRecorded
      PROVE  EventsInv'
  BY <1>7
  DEF TypeOK, ReaderInv, EventsInv, Streams, Line, Own, InHand, Logged,
      IsEvent, NotYetEvent, Recorded, Owed, Ordered, StartNotRecorded
<1>8. ASSUME Abort
      PROVE  EventsInv'
  BY <1>8
  DEF TypeOK, ReaderInv, EventsInv, Streams, Line, Own, InHand, Logged,
      IsEvent, NotYetEvent, Recorded, Owed, Ordered, Abort, Reap
<1>9. ASSUME Wait
      PROVE  EventsInv'
  BY <1>9
  DEF TypeOK, ReaderInv, EventsInv, Streams, Line, Own, InHand, Logged,
      IsEvent, NotYetEvent, Recorded, Owed, Ordered, Wait, Reap
<1>10. ASSUME Join
      PROVE  EventsInv'
  BY <1>10
  DEF TypeOK, ReaderInv, EventsInv, Streams, Line, Own, InHand, Logged,
      IsEvent, NotYetEvent, Recorded, Owed, Ordered, Join
<1>11. ASSUME NEW s \in Streams, Fetch(s)
      PROVE  EventsInv'
  BY <1>11
  DEF TypeOK, ReaderInv, EventsInv, Streams, Line, Own, InHand, Logged,
      IsEvent, NotYetEvent, Recorded, Owed, Ordered, Fetch, Hungry, Unread
<1>12. ASSUME NEW s \in Streams, TooLong(s)
      PROVE  EventsInv'
  BY <1>12
  DEF TypeOK, ReaderInv, EventsInv, Streams, Line, Own, InHand, Logged,
      IsEvent, NotYetEvent, Recorded, Owed, Ordered, TooLong, Hungry, GoOn
<1>13. ASSUME NEW s \in Streams, EndOfFile(s)
      PROVE  EventsInv'
  BY <1>13
  DEF TypeOK, ReaderInv, EventsInv, Streams, Line, Own, InHand, Logged,
      IsEvent, NotYetEvent, Recorded, Owed, Ordered, EndOfFile, Hungry, GoOn
<1>14. ASSUME NEW s \in Streams, ReadClosed(s)
      PROVE  EventsInv'
  BY <1>14
  DEF TypeOK, ReaderInv, EventsInv, Streams, Line, Own, InHand, Logged,
      IsEvent, NotYetEvent, Recorded, Owed, Ordered, ReadClosed, Hungry, GoOn
<1>15. ASSUME NEW s \in Streams, Scan(s)
      PROVE  EventsInv'
  <2>1. NotYetEvent'
    <3> SUFFICES ASSUME NEW t \in Streams, reader'[t] \in {"lock", "log", "event"},
                        NEW e \in DOMAIN events, events[e] = Line(t, taken'[t])
                 PROVE  FALSE
      BY <1>15 DEF NotYetEvent, Scan, InHand
    <3>1. CASE t = s
      <4>1. PICK p \in DOMAIN log : log[p] = events[e]
        BY DEF EventsInv, Recorded, Logged
      <4>2. log[p].stream = s /\ log[p].line = taken[s] + 1 /\ taken[s] \in Nat
        BY <1>15, <3>1, <4>1 DEF Line, Scan, TypeOK
      <4>3. log[p].line \in 1..taken[s]
        BY <4>2 DEF LogInv, NotEarly
      <4> QED
        BY <4>2, <4>3
    <3>2. CASE t # s
      BY <1>15, <3>2 DEF Scan, GoOn, TypeOK, EventsInv, NotYetEvent, InHand
    <3> QED
      BY <3>1, <3>2
  <2>2. Recorded'
    BY <1>15
    DEF TypeOK, ReaderInv, EventsInv, Streams, Line, Own, InHand, Logged,
        IsEvent, Recorded, Scan, GoOn
  <2>3. Owed'
    BY SMTT(30), <1>15
    DEF TypeOK, ReaderInv, EventsInv, Streams, Line, Own, InHand, Logged,
        IsEvent, Owed, Scan, GoOn
  <2>4. Ordered'
    BY <1>15
    DEF TypeOK, ReaderInv, EventsInv, Streams, Line, Own, InHand, Logged,
        IsEvent, Ordered, Scan, GoOn
  <2> QED
    BY <2>1, <2>2, <2>3, <2>4
    DEF EventsInv
<1>16. ASSUME NEW s \in Streams, Lock(s)
      PROVE  EventsInv'
  BY <1>16
  DEF TypeOK, ReaderInv, EventsInv, Streams, Line, Own, InHand, Logged,
      IsEvent, NotYetEvent, Recorded, Owed, Ordered, Lock, GoOn
<1>17. ASSUME NEW s \in Streams, WriteLog(s)
      PROVE  EventsInv'
  <2>1. NotYetEvent'
    BY <1>17
    DEF TypeOK, ReaderInv, EventsInv, Streams, Line, Own, InHand, Logged,
        IsEvent, NotYetEvent, WriteLog, GoOn
  <2>2. Recorded'
    <3>1. /\ log \in Seq([stream : Streams, line : Nat] \cup {Own})
          /\ InHand(s) \in [stream : Streams, line : Nat] \cup {Own}
          /\ log' = Append(log, InHand(s))
      BY <1>17 DEF TypeOK, WriteLog, InHand, Line
    <3>2. /\ DOMAIN log = 1..Len(log) /\ DOMAIN log' = 1..(Len(log) + 1)
          /\ \A p \in DOMAIN log : log'[p] = log[p]
          /\ log'[Len(log) + 1] = InHand(s)
      BY <3>1, Appended
    <3> QED
      BY <1>17, <3>1, <3>2 DEF EventsInv, Recorded, IsEvent, Logged, WriteLog
  <2>3. Owed'
    <3>1. /\ log \in Seq([stream : Streams, line : Nat] \cup {Own})
          /\ InHand(s) \in [stream : Streams, line : Nat] \cup {Own}
          /\ log' = Append(log, InHand(s))
      BY <1>17 DEF TypeOK, WriteLog, InHand, Line
    <3>2. /\ DOMAIN log = 1..Len(log) /\ DOMAIN log' = 1..(Len(log) + 1)
          /\ \A p \in DOMAIN log : log'[p] = log[p]
          /\ log'[Len(log) + 1] = InHand(s)
      BY <3>1, Appended
    <3>3. /\ mutex = s /\ reader[s] = "log" /\ mutex' = s /\ reader'[s] = "event"
          /\ UNCHANGED <<taken, written, events>>
      BY <1>17 DEF WriteLog, GoOn, TypeOK, ReaderInv
    <3> SUFFICES ASSUME NEW p \in DOMAIN log', log'[p].stream \in Streams,
                        written[log'[p].stream][log'[p].line] = "event"
                 PROVE  \/ \E e \in DOMAIN events : events[e] = log'[p]
                        \/ log'[p] = InHand(s)
      BY <3>3 DEF Owed, IsEvent, InHand
    <3>4. CASE p \in DOMAIN log
      <4>1. log'[p] = log[p] /\ IsEvent(log[p])
        BY <3>2, <3>4 DEF IsEvent
      <4> QED
        BY <3>3, <3>4, <4>1 DEF EventsInv, Owed
    <3>5. CASE p = Len(log) + 1
      BY <3>2, <3>5
    <3> QED
      BY <3>1, <3>2, <3>4, <3>5
  <2>4. Ordered'
    <3>1. /\ log \in Seq([stream : Streams, line : Nat] \cup {Own})
          /\ InHand(s) \in [stream : Streams, line : Nat] \cup {Own}
          /\ log' = Append(log, InHand(s))
      BY <1>17 DEF TypeOK, WriteLog, InHand, Line
    <3>2. /\ DOMAIN log = 1..Len(log) /\ DOMAIN log' = 1..(Len(log) + 1)
          /\ \A p \in DOMAIN log : log'[p] = log[p]
          /\ log'[Len(log) + 1] = InHand(s)
      BY <3>1, Appended
    <3>3. /\ UNCHANGED events
          /\ \A e \in DOMAIN events : events[e] # InHand(s)
      BY <1>17 DEF WriteLog, EventsInv, NotYetEvent
    <3> SUFFICES ASSUME NEW j \in DOMAIN events, NEW e \in DOMAIN events, j < e,
                        NEW p \in DOMAIN log', NEW q \in DOMAIN log',
                        log'[p] = events[j], log'[q] = events[e]
                 PROVE  p < q
      BY <3>3 DEF Ordered
    <3>4. p # Len(log) + 1 /\ q # Len(log) + 1
      BY <3>2, <3>3
    <3>5. p \in DOMAIN log /\ q \in DOMAIN log
      BY <3>1, <3>2, <3>4
    <3> QED
      BY <3>2, <3>5 DEF EventsInv, Ordered
  <2> QED
    BY <2>1, <2>2, <2>3, <2>4
    DEF EventsInv
<1>18. ASSUME NEW s \in Streams, WriteEvent(s)
      PROVE  EventsInv'
  <2>1. NotYetEvent'
    <3>1. /\ mutex = s /\ reader[s] = "event" /\ mutex' = "free"
          /\ UNCHANGED <<log, written, taken>>
          /\ Len(log) \in Nat /\ DOMAIN log = 1..Len(log)
          /\ Len(log) \in DOMAIN log /\ log[Len(log)] = InHand(s)
      BY <1>18 DEF WriteEvent, TypeOK, ReaderInv, LogInv, LastLogged
    <3>2. \/ events' = events /\ ~IsEvent(InHand(s))
          \/ IsEvent(InHand(s)) /\ events' = Append(events, InHand(s))
      BY <1>18 DEF WriteEvent
    <3> SUFFICES ASSUME NEW t \in Streams, reader'[t] \in {"lock", "log", "event"},
                        NEW e \in DOMAIN events', events'[e] = InHand(t)
                 PROVE  FALSE
      BY <3>1 DEF NotYetEvent, InHand
    <3>3. t # s /\ \A i \in DOMAIN events : events[i] # InHand(t)
      BY <1>18 DEF WriteEvent, GoOn, TypeOK, EventsInv, NotYetEvent
    <3>4. CASE IsEvent(InHand(s)) /\ events' = Append(events, InHand(s))
      <4>1. /\ DOMAIN events = 1..Len(events) /\ Len(events) \in Nat
            /\ DOMAIN events' = 1..(Len(events) + 1)
            /\ \A i \in DOMAIN events : events'[i] = events[i]
            /\ events'[Len(events) + 1] = InHand(s)
        <5>1. /\ events \in Seq([stream : Streams, line : Nat])
              /\ InHand(s) \in [stream : Streams, line : Nat]
          BY DEF TypeOK, InHand, Line
        <5> QED
          BY <3>4, <5>1, Appended
      <4> QED
        BY <3>3, <4>1 DEF InHand, Line
    <3> QED
      BY <3>2, <3>3, <3>4
  <2>2. Recorded'
    <3>1. /\ mutex = s /\ reader[s] = "event" /\ mutex' = "free"
          /\ UNCHANGED <<log, written, taken>>
          /\ Len(log) \in Nat /\ DOMAIN log = 1..Len(log)
          /\ Len(log) \in DOMAIN log /\ log[Len(log)] = InHand(s)
      BY <1>18 DEF WriteEvent, TypeOK, ReaderInv, LogInv, LastLogged
    <3>2. \/ events' = events /\ ~IsEvent(InHand(s))
          \/ IsEvent(InHand(s)) /\ events' = Append(events, InHand(s))
      BY <1>18 DEF WriteEvent
    <3>3. CASE events' = events
      BY <3>1, <3>3 DEF EventsInv, Recorded, IsEvent, Logged
    <3>4. CASE IsEvent(InHand(s)) /\ events' = Append(events, InHand(s))
      <4>1. /\ DOMAIN events = 1..Len(events) /\ Len(events) \in Nat
            /\ DOMAIN events' = 1..(Len(events) + 1)
            /\ \A i \in DOMAIN events : events'[i] = events[i]
            /\ events'[Len(events) + 1] = InHand(s)
        <5>1. /\ events \in Seq([stream : Streams, line : Nat])
              /\ InHand(s) \in [stream : Streams, line : Nat]
          BY DEF TypeOK, InHand, Line
        <5> QED
          BY <3>4, <5>1, Appended
      <4>2. Logged(InHand(s))
        BY <3>1 DEF Logged
      <4> QED
        BY <3>1, <3>4, <4>1, <4>2 DEF EventsInv, Recorded, IsEvent, Logged
    <3> QED
      BY <3>2, <3>3, <3>4
  <2>3. Owed'
    <3>1. /\ mutex = s /\ reader[s] = "event" /\ mutex' = "free"
          /\ UNCHANGED <<log, written, taken>>
          /\ Len(log) \in Nat /\ DOMAIN log = 1..Len(log)
          /\ Len(log) \in DOMAIN log /\ log[Len(log)] = InHand(s)
      BY <1>18 DEF WriteEvent, TypeOK, ReaderInv, LogInv, LastLogged
    <3>2. \/ events' = events /\ ~IsEvent(InHand(s))
          \/ IsEvent(InHand(s)) /\ events' = Append(events, InHand(s))
      BY <1>18 DEF WriteEvent
    <3> SUFFICES ASSUME NEW p \in DOMAIN log, IsEvent(log[p])
                 PROVE  \E e \in DOMAIN events' : events'[e] = log[p]
      BY <3>1 DEF Owed, IsEvent
    <3>3. (\E e \in DOMAIN events : events[e] = log[p]) \/ log[p] = InHand(s)
      BY <3>1 DEF EventsInv, Owed
    <3>4. CASE events' = events /\ ~IsEvent(InHand(s))
      BY <3>3, <3>4
    <3>5. CASE IsEvent(InHand(s)) /\ events' = Append(events, InHand(s))
      <4>1. /\ DOMAIN events = 1..Len(events) /\ Len(events) \in Nat
            /\ DOMAIN events' = 1..(Len(events) + 1)
            /\ \A i \in DOMAIN events : events'[i] = events[i]
            /\ events'[Len(events) + 1] = InHand(s)
        <5>1. /\ events \in Seq([stream : Streams, line : Nat])
              /\ InHand(s) \in [stream : Streams, line : Nat]
          BY DEF TypeOK, InHand, Line
        <5> QED
          BY <3>5, <5>1, Appended
      <4> QED
        BY <3>3, <4>1
    <3> QED
      BY <3>2, <3>4, <3>5
  <2>4. Ordered'
    <3>1. /\ mutex = s /\ reader[s] = "event" /\ mutex' = "free"
          /\ UNCHANGED <<log, written, taken>>
          /\ Len(log) \in Nat /\ DOMAIN log = 1..Len(log)
          /\ Len(log) \in DOMAIN log /\ log[Len(log)] = InHand(s)
      BY <1>18 DEF WriteEvent, TypeOK, ReaderInv, LogInv, LastLogged
    <3>2. \/ events' = events /\ ~IsEvent(InHand(s))
          \/ IsEvent(InHand(s)) /\ events' = Append(events, InHand(s))
      BY <1>18 DEF WriteEvent
    <3>3. CASE events' = events
      BY <3>1, <3>3 DEF EventsInv, Ordered
    <3>4. CASE IsEvent(InHand(s)) /\ events' = Append(events, InHand(s))
      <4>1. /\ DOMAIN events = 1..Len(events) /\ Len(events) \in Nat
            /\ DOMAIN events' = 1..(Len(events) + 1)
            /\ \A i \in DOMAIN events : events'[i] = events[i]
            /\ events'[Len(events) + 1] = InHand(s)
        <5>1. /\ events \in Seq([stream : Streams, line : Nat])
              /\ InHand(s) \in [stream : Streams, line : Nat]
          BY DEF TypeOK, InHand, Line
        <5> QED
          BY <3>4, <5>1, Appended
      <4> SUFFICES ASSUME NEW j \in DOMAIN events', NEW e \in DOMAIN events', j < e,
                          NEW p \in DOMAIN log, NEW q \in DOMAIN log,
                          log[p] = events'[j], log[q] = events'[e]
                   PROVE  p < q
        BY <3>1 DEF Ordered
      <4>2. j \in DOMAIN events
        BY <4>1
      <4>3. CASE e \in DOMAIN events
        BY <4>1, <4>2, <4>3 DEF EventsInv, Ordered
      <4>4. CASE e = Len(events) + 1
        <5>1. log[p] # InHand(s) /\ log[q] = InHand(s) /\ InHand(s) # Own
          BY <3>1, <4>1, <4>2, <4>4
          DEF EventsInv, NotYetEvent, InHand, Line, Own, Streams
        <5>2. q = Len(log)
          BY <3>1, <5>1 DEF LogInv, NotTwice
        <5> QED
          BY <3>1, <5>1, <5>2
      <4> QED
        BY <4>1, <4>3, <4>4
    <3> QED
      BY <3>2, <3>3, <3>4
  <2> QED
    BY <2>1, <2>2, <2>3, <2>4
    DEF EventsInv
<1>19. ASSUME NEW s \in Streams, ReportError(s)
      PROVE  EventsInv'
  <2>1. NotYetEvent'
    BY <1>19
    DEF TypeOK, ReaderInv, EventsInv, Streams, Line, Own, InHand, Logged,
        IsEvent, NotYetEvent, ReportError, GoOn
  <2>2. Recorded'
    <3>1. /\ log \in Seq([stream : Streams, line : Nat] \cup {Own})
          /\ Own \in [stream : Streams, line : Nat] \cup {Own}
          /\ log' = Append(log, Own)
      BY <1>19 DEF TypeOK, ReportError, InHand, Line
    <3>2. /\ DOMAIN log = 1..Len(log) /\ DOMAIN log' = 1..(Len(log) + 1)
          /\ \A p \in DOMAIN log : log'[p] = log[p]
          /\ log'[Len(log) + 1] = Own
      BY <3>1, Appended
    <3> QED
      BY <1>19, <3>1, <3>2 DEF EventsInv, Recorded, IsEvent, Logged, ReportError
  <2>3. Owed'
    <3>1. /\ log \in Seq([stream : Streams, line : Nat] \cup {Own})
          /\ Own \in [stream : Streams, line : Nat] \cup {Own}
          /\ log' = Append(log, Own)
      BY <1>19 DEF TypeOK, ReportError, InHand, Line
    <3>2. /\ DOMAIN log = 1..Len(log) /\ DOMAIN log' = 1..(Len(log) + 1)
          /\ \A p \in DOMAIN log : log'[p] = log[p]
          /\ log'[Len(log) + 1] = Own
      BY <3>1, Appended
    <3>3. mutex = "free" /\ UNCHANGED <<written, events>>
      BY <1>19 DEF ReportError
    <3> SUFFICES ASSUME NEW p \in DOMAIN log', log'[p].stream \in Streams,
                        written[log'[p].stream][log'[p].line] = "event"
                 PROVE  \E e \in DOMAIN events : events[e] = log'[p]
      BY <3>3 DEF Owed, IsEvent
    <3>4. p \in DOMAIN log /\ log'[p] = log[p]
      BY <3>1, <3>2 DEF Own, Line, Streams
    <3>5. IsEvent(log[p])
      BY <3>4 DEF IsEvent
    <3> QED
      BY <3>3, <3>4, <3>5 DEF EventsInv, Owed, Streams
  <2>4. Ordered'
    <3>1. /\ log \in Seq([stream : Streams, line : Nat] \cup {Own})
          /\ Own \in [stream : Streams, line : Nat] \cup {Own}
          /\ log' = Append(log, Own)
      BY <1>19 DEF TypeOK, ReportError, InHand, Line
    <3>2. /\ DOMAIN log = 1..Len(log) /\ DOMAIN log' = 1..(Len(log) + 1)
          /\ \A p \in DOMAIN log : log'[p] = log[p]
          /\ log'[Len(log) + 1] = Own
      BY <3>1, Appended
    <3>3. UNCHANGED events /\ \A e \in DOMAIN events : events[e] # Own
      BY <1>19 DEF ReportError, EventsInv, Recorded, IsEvent, Own, Line, Streams
    <3> SUFFICES ASSUME NEW j \in DOMAIN events, NEW e \in DOMAIN events, j < e,
                        NEW p \in DOMAIN log', NEW q \in DOMAIN log',
                        log'[p] = events[j], log'[q] = events[e]
                 PROVE  p < q
      BY <3>3 DEF Ordered
    <3>4. p \in DOMAIN log /\ q \in DOMAIN log
      BY <3>1, <3>2, <3>3
    <3> QED
      BY <3>2, <3>4 DEF EventsInv, Ordered
  <2> QED
    BY <2>1, <2>2, <2>3, <2>4
    DEF EventsInv
<1>20. ASSUME Interrupt
      PROVE  EventsInv'
  BY <1>20
  DEF TypeOK, ReaderInv, EventsInv, Streams, Line, Own, InHand, Logged,
      IsEvent, NotYetEvent, Recorded, Owed, Ordered, Interrupt
<1>21. CASE UNCHANGED vars
  BY <1>21
  DEF TypeOK, ReaderInv, EventsInv, Streams, Line, Own, InHand, Logged,
      IsEvent, NotYetEvent, Recorded, Owed, Ordered, vars
<1> QED
  BY <1>1, <1>2, <1>3, <1>4, <1>5, <1>6, <1>7, <1>8, <1>9, <1>10, <1>11,
     <1>12, <1>13, <1>14, <1>15, <1>16, <1>17, <1>18, <1>19, <1>20, <1>21
  DEF Next, JobStep, SubmitStep, ReaderStep

\* events.jsonl has the events of logs.txt, in its order.
THEOREM EventsAreInLogOrder == Spec => []EventsFollowLog
<1>1. Init => EventsInv
  BY DEF Init, EventsInv, Recorded, Owed, Ordered, NotYetEvent, Streams
<1>2. EventsInv => EventsFollowLog
  BY DEF EventsInv, Recorded, Owed, Ordered, EventsFollowLog
<1> QED
  BY <1>1, <1>2, EventsStep, TypeCorrect, ReaderCorrect, LogCorrect, PTL DEF Spec

-----------------------------------------------------------------------------
(* Either stream is mirrored *)

\* h gives the elements of S the numbers 1 to n, in their order.
Numbers(h, S, n) ==
  /\ h \in [S -> 1..n]
  /\ \A p, q \in S : p < q => h[p] < h[q]
  /\ \A m \in 1..n : \E p \in S : h[p] = m

\* The only numbering of an interval is the identity: at the least position
\* where another one differed it would have to repeat a number.
LEMMA NumbersOfInterval ==
  ASSUME NEW c \in Nat, NEW n \in Nat, NEW h, Numbers(h, 1..c, n)
  PROVE  c = n /\ \A k \in 1..c : h[k] = k
<1>1. /\ h \in [1..c -> 1..n]
      /\ \A p, q \in 1..c : p < q => h[p] < h[q]
      /\ \A m \in 1..n : \E p \in 1..c : h[p] = m
  BY DEF Numbers
<1>2. \A k \in 1..c : h[k] = k
  <2> SUFFICES ASSUME \E k \in 1..c : h[k] # k PROVE FALSE
    OBVIOUS
  <2> DEFINE T == {k \in 1..c : h[k] # k}
  <2>1. T \subseteq Nat /\ T # {}
    OBVIOUS
  <2>2. PICK k \in T : \A j \in T : ~ (<<j, k>> \in OpToRel(<, Nat))
    BY <2>1, NatLessThanWellFounded, WFMin
  <2>3. \A j \in T : ~ (j < k)
    BY <2>1, <2>2 DEF OpToRel
  <2>4. k \in 1..c /\ h[k] # k /\ h[k] \in 1..n /\ k \in Nat /\ h[k] \in Nat
    BY <1>1
  <2>5. \A j \in 1..c : j < k => h[j] = j
    BY <2>3
  <2>6. ASSUME h[k] < k PROVE FALSE
    <3>1. h[k] \in 1..c
      BY <2>4, <2>6
    <3>2. h[h[k]] = h[k]
      BY <2>5, <2>6, <3>1
    <3>3. h[h[k]] < h[k]
      BY <1>1, <2>4, <2>6, <3>1
    <3> QED
      BY <2>4, <3>2, <3>3
  <2>7. ASSUME h[k] > k PROVE FALSE
    <3>1. k \in 1..n
      BY <2>4, <2>7
    <3>2. PICK j \in 1..c : h[j] = k
      BY <1>1, <3>1
    <3>3. CASE j < k
      BY <2>5, <3>2, <3>3
    <3>4. CASE j = k
      BY <2>4, <3>2, <3>4
    <3>5. CASE j > k
      <4>1. h[k] < h[j]
        BY <1>1, <2>4, <3>5
      <4> QED
        BY <2>4, <2>7, <3>2, <4>1
    <3> QED
      BY <2>4, <3>3, <3>4, <3>5
  <2> QED
    BY <2>4, <2>6, <2>7
<1>3. c <= n
  <2>1. CASE c > 0
    <3>1. c \in 1..c /\ h[c] = c /\ h[c] \in 1..n
      BY <1>1, <1>2, <2>1
    <3> QED
      BY <3>1
  <2> QED
    BY <2>1
<1>4. n <= c
  <2>1. CASE n > 0
    <3>1. n \in 1..n
      BY <2>1
    <3>2. PICK j \in 1..c : h[j] = n
      BY <1>1, <3>1
    <3> QED
      BY <1>2, <3>2
  <2> QED
    BY <2>1
<1> QED
  BY <1>2, <1>3, <1>4

\* A set that is numbered has an ascending sequence, and element k of any has
\* the number k.
LEMMA NumberedAscends ==
  ASSUME NEW n \in Nat, NEW S, S \subseteq Nat, NEW h, Numbers(h, S, n)
  PROVE  LET s == CHOOSE positions \in Ascending(S) : TRUE
         IN  DOMAIN s = 1..n /\ \A k \in 1..n : s[k] \in S /\ h[s[k]] = k
<1> DEFINE s == CHOOSE positions \in Ascending(S) : TRUE
           g == [k \in 1..n |-> CHOOSE p \in S : h[p] = k]
<1>1. /\ h \in [S -> 1..n]
      /\ \A p, q \in S : p < q => h[p] < h[q]
      /\ \A m \in 1..n : \E p \in S : h[p] = m
  BY DEF Numbers
<1>2. \A k \in 1..n : g[k] \in S /\ h[g[k]] = k
  BY <1>1
<1>3. g \in [1..n -> S]
  BY <1>2
<1> HIDE DEF g
<1>4. ASSUME NEW p \in S, NEW q \in S, h[p] = h[q] PROVE p = q
  <2>1. p \in Nat /\ q \in Nat /\ h[p] \in Nat /\ h[q] \in Nat
    BY <1>1
  <2> QED
    BY <1>1, <1>4, <2>1
<1>5. ASSUME NEW p \in S PROVE h[p] \in 1..n /\ g[h[p]] = p
  <2>1. h[p] \in 1..n
    BY <1>1
  <2>2. g[h[p]] \in S /\ h[g[h[p]]] = h[p]
    BY <1>2, <2>1
  <2> QED
    BY <1>4, <2>1, <2>2
<1>6. Cardinality(S) = n /\ IsFiniteSet(S)
  <2>1. IsFiniteSet(1..n) /\ Cardinality(1..n) = n
    BY FS_Interval
  <2>2. \A j, k \in 1..n : g[j] = g[k] => j = k
    BY <1>2
  <2>3. \A p \in S : \E k \in 1..n : g[k] = p
    BY <1>5
  <2>4. g \in Bijection(1..n, S)
    BY <1>3, <2>2, <2>3 DEF Bijection, Injection, Surjection, IsInjective
  <2>5. ExistsBijection(1..n, S)
    BY <2>4 DEF ExistsBijection
  <2> QED
    BY <2>1, <2>5, FS_Bijection
<1>7. g \in Ascending(S)
  <2>1. {g[k] : k \in DOMAIN g} = S
    BY <1>3, <1>5
  <2>2. ASSUME NEW j \in 1..n, NEW k \in 1..n, j < k PROVE g[j] < g[k]
    <3>1. /\ g[j] \in S /\ g[k] \in S /\ h[g[j]] = j /\ h[g[k]] = k
          /\ g[j] \in Nat /\ g[k] \in Nat
      BY <1>2
    <3>2. ~ (g[k] < g[j])
      BY <1>1, <2>2, <3>1
    <3>3. g[j] # g[k]
      BY <2>2, <3>1
    <3> QED
      BY <3>1, <3>2, <3>3
  <2> QED
    BY <1>3, <1>6, <2>1, <2>2 DEF Ascending
<1>8. s \in Ascending(S)
  BY <1>7
<1> HIDE DEF s
<1>9. /\ s \in [1..n -> S] /\ {s[k] : k \in DOMAIN s} = S
      /\ \A j, k \in DOMAIN s : j < k => s[j] < s[k]
  BY <1>6, <1>8 DEF Ascending
<1> DEFINE f == [k \in 1..n |-> h[s[k]]]
<1>10. Numbers(f, 1..n, n)
  <2>1. f \in [1..n -> 1..n]
    BY <1>1, <1>9
  <2>2. \A j, k \in 1..n : j < k => f[j] < f[k]
    BY <1>1, <1>9
  <2>3. ASSUME NEW m \in 1..n PROVE \E k \in 1..n : f[k] = m
    <3>1. PICK p \in S : h[p] = m
      BY <1>1
    <3>2. PICK k \in 1..n : s[k] = p
      BY <1>9
    <3> QED
      BY <3>1, <3>2
  <2> QED
    BY <2>1, <2>2, <2>3 DEF Numbers
<1>11. \A k \in 1..n : f[k] = k
  BY <1>10, NumbersOfInterval
<1>12. DOMAIN s = 1..n /\ \A k \in 1..n : s[k] \in S /\ h[s[k]] = k
  BY <1>9, <1>11
<1> QED
  BY <1>12 DEF s

\* The lines of a stream stand in the log in their order.
InOrder ==
  \A s \in Streams : \A p, q \in DOMAIN log :
    log[p].stream = s /\ log[q].stream = s /\ p < q => log[p].line < log[q].line

\* How many lines of a stream are in the log.
Logs(s) == IF reader[s] \in {"lock", "log"} THEN taken[s] - 1 ELSE taken[s]

\* The log has the first lines of a stream.
LEMMA CopiedFacts ==
  ASSUME TypeOK, LogInv, InOrder, NEW s \in Streams
  PROVE  /\ Logs(s) \in 0..Len(written[s])
         /\ Copied(s) = SubSeq(written[s], 1, Logs(s))
         /\ Len(Copied(s)) = Logs(s)
<1> DEFINE n == Logs(s)
           S == {p \in DOMAIN log : log[p].stream = s}
           h == [p \in S |-> log[p].line]
           w == written[s]
           found == CHOOSE positions \in Ascending(S) : TRUE
<1>1. /\ taken[s] \in Nat /\ fetched[s] \in Nat /\ taken[s] <= fetched[s]
      /\ w \in Seq(Kinds) /\ Len(w) \in Nat /\ fetched[s] <= Len(w)
      /\ DOMAIN log = 1..Len(log) /\ Len(log) \in Nat
  BY DEF TypeOK
<1>2. n \in 0..Len(w)
  BY <1>1 DEF LogInv, NotLost, Logs
<1>3. \A p \in S : h[p] \in 1..n
  BY <1>1 DEF LogInv, NotEarly, Logs
<1>4. \A p, q \in S : p < q => h[p] < h[q]
  BY DEF InOrder
<1>5. ASSUME NEW m \in 1..n PROVE \E p \in S : h[p] = m
  <2>1. m \in 1..taken[s] /\ ~(m = taken[s] /\ reader[s] \in {"lock", "log"})
    BY <1>1 DEF Logs
  <2>2. PICK p \in DOMAIN log : log[p] = Line(s, m)
    BY <2>1 DEF LogInv, NotLost, Logged
  <2> QED
    BY <2>2 DEF Line
<1>6. Numbers(h, S, n)
  BY <1>3, <1>4, <1>5 DEF Numbers
<1>7. S \subseteq Nat /\ n \in Nat
  BY <1>1, <1>2
<1>8. DOMAIN found = 1..n /\ \A k \in 1..n : found[k] \in S /\ h[found[k]] = k
  BY <1>6, <1>7, NumberedAscends
<1>9. Copied(s) = [k \in DOMAIN found |-> w[log[found[k]].line]]
  BY DEF Copied
<1> HIDE DEF n, w, found
<1>10. Copied(s) = [k \in 1..n |-> w[k]]
  BY <1>8, <1>9
<1>11. SubSeq(w, 1, n) = [k \in 1..n |-> w[k]]
  BY <1>1, <1>2, <1>7
<1>12. Len(SubSeq(w, 1, n)) = n
  BY <1>1, <1>2, <1>7
<1> QED
  BY <1>2, <1>10, <1>11, <1>12 DEF n, w

\* Only the reader of a stream writes one of its lines, the line it has taken
\* last.
LEMMA InOrderStep == TypeOK /\ LogInv /\ InOrder /\ [Next]_vars => InOrder'
<1> SUFFICES ASSUME TypeOK, LogInv, InOrder, [Next]_vars PROVE InOrder'
  OBVIOUS
<1> USE DEF jobVars, readVars, outputVars
<1> DEFINE OldLine == [stream : Streams, line : Nat] \cup {Own}
<1>1. log \in Seq(OldLine) /\ taken \in [Streams -> Nat]
  BY DEF TypeOK
<1>2. ASSUME NEW s \in Streams, WriteLog(s) PROVE InOrder'
  <2>1. log' = Append(log, InHand(s)) /\ reader[s] = "log"
    BY <1>2 DEF WriteLog
  <2>2. InHand(s) \in OldLine
    BY <1>1 DEF InHand, Line
  <2> HIDE DEF OldLine
  <2>3. /\ DOMAIN log = 1..Len(log) /\ Len(log) \in Nat
        /\ DOMAIN log' = 1..(Len(log) + 1)
        /\ \A p \in DOMAIN log : log'[p] = log[p]
        /\ log'[Len(log) + 1] = InHand(s)
    BY <1>1, <2>1, <2>2, Appended
  <2>4. InHand(s).stream = s /\ InHand(s).line = taken[s]
    BY DEF InHand, Line
  <2>5. \A p \in DOMAIN log : log[p].stream = s => log[p].line < taken[s]
    BY <2>1 DEF LogInv, NotEarly
  <2>6. ASSUME NEW t \in Streams, NEW p \in DOMAIN log', NEW q \in DOMAIN log',
               log'[p].stream = t, log'[q].stream = t, p < q
        PROVE  log'[p].line < log'[q].line
    <3>1. p \in DOMAIN log
      BY <2>3, <2>6
    <3>2. CASE q \in DOMAIN log
      BY <2>3, <2>6, <3>1, <3>2 DEF InOrder
    <3>3. CASE q \notin DOMAIN log
      <4>1. q = Len(log) + 1
        BY <2>3, <3>3
      <4>2. log'[q] = InHand(s) /\ log'[p] = log[p]
        BY <2>3, <3>1, <4>1
      <4> QED
        BY <2>4, <2>5, <2>6, <3>1, <4>2
    <3> QED
      BY <3>2, <3>3
  <2> QED
    BY <2>6 DEF InOrder
<1>3. ASSUME NEW s \in Streams, ReportError(s) PROVE InOrder'
  <2>1. log' = Append(log, Own) /\ Own \in OldLine
    BY <1>3 DEF ReportError
  <2> HIDE DEF OldLine
  <2>2. /\ DOMAIN log = 1..Len(log) /\ Len(log) \in Nat
        /\ DOMAIN log' = 1..(Len(log) + 1)
        /\ \A p \in DOMAIN log : log'[p] = log[p]
        /\ log'[Len(log) + 1] = Own
    BY <1>1, <2>1, Appended
  <2>3. Own.stream \notin Streams
    BY DEF Own, Line, Streams
  <2>4. \A t \in Streams : \A p \in DOMAIN log' : log'[p].stream = t =>
          p \in DOMAIN log /\ log'[p] = log[p]
    BY <2>2, <2>3
  <2> QED
    BY <2>4 DEF InOrder
<1>4. ASSUME UNCHANGED log PROVE InOrder'
  BY <1>4 DEF InOrder
<1> QED
  BY <1>2, <1>3, <1>4
  DEF Next, JobStep, SubmitStep, ReaderStep, vars, JobWrites, JobExits, JobDies, Start,
      StartFails, OnStarted, StartNotRecorded, Abort, Wait, Reap, Join, Fetch, TooLong,
      EndOfFile, ReadClosed, Scan, Lock, WriteEvent, Interrupt

\* What a step does to a stream: the job writes a line, the reader logs the
\* one it has in hand, or neither.
LEMMA StreamStep ==
  ASSUME TypeOK, ReaderInv, [Next]_vars, NEW s \in Streams
  PROVE  \/ (\E k \in Kinds : written'[s] = Append(written[s], k)) /\ Logs(s)' = Logs(s)
         \/ written'[s] = written[s] /\ Logs(s)' = Logs(s)
         \/ written'[s] = written[s] /\ Logs(s)' = Logs(s) + 1
<1> USE DEF jobVars, readVars, outputVars
<1> DEFINE Same == written'[s] = written[s] /\ Logs(s)' = Logs(s)
<1>1. /\ written \in [Streams -> Seq(Kinds)]
      /\ taken \in [Streams -> Nat]
      /\ reader \in [Streams -> {"none", "scan", "lock", "log", "event", "error", "done"}]
  BY DEF TypeOK
<1>2. ASSUME NEW t \in Streams, NEW k \in Kinds, JobWrites(t, k)
      PROVE  \/ written'[s] = Append(written[s], k) /\ Logs(s)' = Logs(s)
             \/ Same
  BY <1>1, <1>2 DEF JobWrites, Logs
<1>3. ASSUME JobExits \/ JobDies \/ Start \/ StartFails \/ StartNotRecorded \/ Abort \/ Wait
             \/ Join \/ Interrupt
      PROVE  Same
  BY <1>3 DEF JobExits, JobDies, Start, StartFails, StartNotRecorded, Abort, Wait, Reap, Join,
              Interrupt, Logs
<1>4. ASSUME OnStarted PROVE Same
  <2>1. reader[s] = "none" /\ reader'[s] = "scan" /\ UNCHANGED <<written, taken>>
    BY <1>4 DEF OnStarted, ReaderInv
  <2> QED
    BY <2>1 DEF Logs
<1>5. ASSUME NEW t \in Streams,
             Fetch(t) \/ TooLong(t) \/ EndOfFile(t) \/ ReadClosed(t) \/ Lock(t)
             \/ WriteEvent(t) \/ ReportError(t)
      PROVE  Same
  BY <1>1, <1>5 DEF Fetch, TooLong, EndOfFile, ReadClosed, Lock, WriteEvent, ReportError, GoOn,
                    Hungry, Logs
<1>6. ASSUME NEW t \in Streams, Scan(t) PROVE Same
  <2>1. CASE t = s
    <3>1. /\ reader[s] = "scan" /\ reader'[s] = "lock"
          /\ taken'[s] = taken[s] + 1 /\ written' = written
      BY <1>1, <1>6, <2>1 DEF Scan, GoOn
    <3> QED
      BY <1>1, <3>1 DEF Logs
  <2>2. CASE t # s
    BY <1>1, <1>6, <2>2 DEF Scan, GoOn, Logs
  <2> QED
    BY <2>1, <2>2
<1>7. ASSUME NEW t \in Streams, WriteLog(t)
      PROVE  Same \/ (written'[s] = written[s] /\ Logs(s)' = Logs(s) + 1)
  <2>1. CASE t = s
    <3>1. reader[s] = "log" /\ reader'[s] = "event" /\ UNCHANGED <<written, taken>>
      BY <1>1, <1>7, <2>1 DEF WriteLog, GoOn
    <3> QED
      BY <1>1, <3>1 DEF Logs
  <2>2. CASE t # s
    BY <1>1, <1>7, <2>2 DEF WriteLog, GoOn, Logs
  <2> QED
    BY <2>1, <2>2
<1>8. CASE UNCHANGED vars
  BY <1>8 DEF vars, Logs
<1> QED
  BY <1>2, <1>3, <1>4, <1>5, <1>6, <1>7, <1>8
  DEF Next, JobStep, SubmitStep, ReaderStep

\* A stream and its copy take a step of the mirror.
LEMMA MirrorStep ==
  ASSUME TypeOK, TypeOK', ReaderInv, LogInv, LogInv', InOrder, InOrder', [Next]_vars,
         NEW s \in Streams
  PROVE  \/ /\ \E k \in Kinds : written'[s] = Append(written[s], k)
            /\ Copied(s)' = Copied(s)
         \/ /\ written'[s] = written[s]
            /\ \E n \in DOMAIN written[s] :
                 /\ n > Len(Copied(s)) /\ written[s][n] # "none"
                 /\ Copied(s)' = SubSeq(written[s], 1, n)
         \/ written'[s] = written[s] /\ Copied(s)' = Copied(s)
<1> DEFINE w == written[s]
           n == Logs(s)
<1>1. n \in 0..Len(w) /\ Copied(s) = SubSeq(w, 1, n) /\ Len(Copied(s)) = n
  BY CopiedFacts
<1>2. /\ Logs(s)' \in 0..Len(written'[s])
      /\ Copied(s)' = SubSeq(written'[s], 1, Logs(s)')
  <2>1. (TypeOK /\ LogInv /\ InOrder =>
           /\ Logs(s) \in 0..Len(written[s])
           /\ Copied(s) = SubSeq(written[s], 1, Logs(s)))'
    BY CopiedFacts, PTL
  <2> QED
    BY <2>1
<1>3. w \in Seq(Kinds) /\ Len(w) \in Nat
  BY DEF TypeOK
<1>4. CASE (\E k \in Kinds : written'[s] = Append(w, k)) /\ Logs(s)' = n
  <2>1. PICK k \in Kinds : written'[s] = Append(w, k)
    BY <1>4
  <2> HIDE DEF w, n
  <2>2. SubSeq(Append(w, k), 1, n) = SubSeq(w, 1, n)
    BY <1>1, <1>3
  <2> QED
    BY <1>1, <1>2, <1>4, <2>1, <2>2 DEF w, n
<1>5. CASE written'[s] = w /\ Logs(s)' = n
  BY <1>1, <1>2, <1>5
<1>6. CASE written'[s] = w /\ Logs(s)' = n + 1
  <2>1. n + 1 \in 1..Len(w) /\ n + 1 > Len(Copied(s))
    BY <1>1, <1>2, <1>3, <1>6
  <2>2. n + 1 \in DOMAIN w /\ w[n + 1] \in Kinds
    BY <1>3, <2>1
  <2>3. w[n + 1] # "none"
    BY <2>2, LocalAssumption DEF AllKinds
  <2>4. Copied(s)' = SubSeq(w, 1, n + 1)
    BY <1>2, <1>6
  <2> QED
    BY <1>6, <2>1, <2>2, <2>3, <2>4
<1> QED
  BY <1>4, <1>5, <1>6, StreamStep

\* However the readers take turns and whenever the pipes are closed under
\* them, logs.txt has each stream in its order, without a gap or a repetition
\* (consume).
THEOREM StreamsMirrored == Spec => StreamsAreMirrored
<1>1. Init => InOrder
  BY DEF Init, InOrder
<1>i. Init /\ TypeOK /\ LogInv => Out!Init /\ Err!Init
  <2> SUFFICES ASSUME Init, TypeOK, LogInv PROVE Out!Init /\ Err!Init
    OBVIOUS
  <2>1. "stdout" \in Streams /\ "stderr" \in Streams
    BY DEF Streams
  <2>2. ASSUME NEW s \in Streams PROVE written[s] = <<>> /\ Copied(s) = <<>>
    <3>1. written[s] = <<>> /\ Logs(s) = 0
      BY DEF Init, Logs
    <3>2. Copied(s) = SubSeq(written[s], 1, 0)
      BY <1>1, <3>1, CopiedFacts
    <3>3. SubSeq(written[s], 1, 0) = <<>>
      BY <3>1
    <3> QED
      BY <3>1, <3>2, <3>3
  <2> QED
    BY <2>1, <2>2 DEF Out!Init, Err!Init
<1>2. TypeOK /\ TypeOK' /\ ReaderInv /\ LogInv /\ LogInv' /\ InOrder /\ InOrder' /\ [Next]_vars =>
        /\ [Out!Next]_<<written["stdout"], Copied("stdout"), TRUE>>
        /\ [Err!Next]_<<written["stderr"], Copied("stderr"), TRUE>>
  <2> SUFFICES ASSUME TypeOK, TypeOK', ReaderInv, LogInv, LogInv', InOrder, InOrder', [Next]_vars
               PROVE  /\ [Out!Next]_<<written["stdout"], Copied("stdout"), TRUE>>
                      /\ [Err!Next]_<<written["stderr"], Copied("stderr"), TRUE>>
    OBVIOUS
  <2>1. "stdout" \in Streams /\ "stderr" \in Streams
    BY DEF Streams
  <2>2. [Out!Next]_<<written["stdout"], Copied("stdout"), TRUE>>
    BY <2>1, MirrorStep DEF Out!Next, Out!Grow, Out!Catch
  <2>3. [Err!Next]_<<written["stderr"], Copied("stderr"), TRUE>>
    BY <2>1, MirrorStep DEF Err!Next, Err!Grow, Err!Catch
  <2> QED
    BY <2>2, <2>3
<1> QED
  BY <1>1, <1>i, <1>2, InOrderStep, TypeCorrect, ReaderCorrect, LogCorrect, PTL
  DEF Spec, StreamsAreMirrored, Out!Spec, Err!Spec

=============================================================================
