------------------------------ MODULE Polls_proofs ------------------------------
(***************************************************************************)
(* The safety properties of the two polling loops for any timeouts, any     *)
(* batch size, any number of lines and of watched tasks.                    *)
(***************************************************************************)
EXTENDS Polls, TLAPS

pollsVars == <<vars, watchVars>>

-----------------------------------------------------------------------------
(***************************************************************************)
(* Waiting for a task of the run's own.                                    *)
(***************************************************************************)
\* What was handed on is the head of the log.  An outcome once read is final, and so is the log
\* then: when the drain that follows comes back empty, nothing is left to come.
DrainInv ==
  /\ seen <= lines
  /\ handed = [i \in 1 .. seen |-> i]
  /\ answer # "running" => task = answer
  /\ pc = "test" /\ answer # "running" => seen = lines
  /\ result \in {"ok", "bad"} => task = result /\ seen = lines

\* The window opened by a failed request is no longer than the time without a full answer, and
\* the time to the deadline no shorter than what the newest line handed on leaves of it.
ClockInv ==
  /\ lostFor <= sinceAnswer
  /\ age[seen] >= Timeout - left
  /\ result = "lost" => sinceAnswer >= Grace
  /\ result = "timeout" => age[seen] >= Timeout

OverInv == result # "none" => pc = "done"

PollInv == TypeOK /\ DrainInv /\ ClockInv /\ OverInv

LEMMA NumbersInOrder ==
  ASSUME NEW n \in 0 .. MaxLines
  PROVE  /\ [i \in 1 .. n |-> i] \in Seq(0 .. MaxLines)
         /\ Len([i \in 1 .. n |-> i]) = n
BY PollAssumption

\* What a log request returns continues the head of the log.
LEMMA LogContinues ==
  ASSUME TypeOK, seen <= lines, handed = [i \in 1 .. seen |-> i]
  PROVE  /\ seen + Len(Log(seen)) \in seen .. lines
         /\ handed \o Log(seen) = [i \in 1 .. seen + Len(Log(seen)) |-> i]
         /\ Log(seen) = <<>> => seen = lines
<1> DEFINE k == AtMost(lines - seen, Batch)
<1>1. seen \in Nat /\ k \in Nat /\ seen + k \in seen .. lines /\ (k = 0 => seen = lines)
  BY PollAssumption DEF TypeOK, AtMost
<1>2. Log(seen) = [i \in 1 .. k |-> seen + i]
  BY DEF Log
<1> HIDE DEF k
<1>3. Log(seen) \in Seq(Int) /\ Len(Log(seen)) = k
  BY <1>1, <1>2
<1>4. handed \in Seq(Int) /\ Len(handed) = seen
  BY <1>1
<1>5. handed \o Log(seen) = [i \in 1 .. seen + k |-> i]
  <2>1. handed \o Log(seen) \in Seq(Int) /\ Len(handed \o Log(seen)) = seen + k
    BY <1>1, <1>3, <1>4
  <2>2. \A i \in 1 .. seen + k : (handed \o Log(seen))[i] = i
    BY <1>1, <1>2, <1>3, <1>4
  <2> QED BY <1>1, <2>1, <2>2
<1>6. Log(seen) = <<>> => k = 0
  BY <1>3
<1> QED BY <1>1, <1>3, <1>5, <1>6

\* Time that passes keeps what the clocks say of one another.
LEMMA TimePasses ==
  ASSUME TypeOK, seen <= lines, ClockInv, NEW d \in Nat, Pass(d)
  PROVE  /\ age' \in [0 .. MaxLines -> 0 .. Timeout] /\ sinceAnswer' \in 0 .. Grace
         /\ LeftAfter(d) \in 0 .. Timeout /\ LostAfter(d) \in 0 .. Grace
         /\ age'[seen] >= Timeout - LeftAfter(d)
         /\ LostAfter(d) <= sinceAnswer'
         /\ \A n \in 0 .. lines : age'[n] >= age[n]
<1>1. age' \in [0 .. MaxLines -> 0 .. Timeout]
  BY PollAssumption DEF TypeOK, Pass, AtMost
<1>2. LeftAfter(d) \in 0 .. Timeout /\ LostAfter(d) \in 0 .. Grace /\ sinceAnswer' \in 0 .. Grace
  BY PollAssumption DEF TypeOK, Pass, AtMost, LeftAfter, LostAfter
<1>3. \A n \in 0 .. lines : age[n] \in 0 .. Timeout /\ age'[n] = AtMost(age[n] + d, Timeout)
  <2>1. TAKE n \in 0 .. lines
  <2>2. n \in 0 .. MaxLines /\ n <= lines
    BY PollAssumption DEF TypeOK
  <2> QED BY <2>2 DEF TypeOK, Pass
<1>4. seen \in 0 .. lines /\ left \in 0 .. Timeout
  BY DEF TypeOK
<1>5. age'[seen] >= Timeout - LeftAfter(d)
  BY <1>3, <1>4, PollAssumption DEF ClockInv, AtMost, LeftAfter
<1>6. LostAfter(d) <= sinceAnswer'
  <2>1. /\ lostFor \in Nat /\ sinceAnswer \in Nat /\ Grace \in Nat /\ lostFor <= sinceAnswer
        /\ sinceAnswer' = AtMost(sinceAnswer + d, Grace)
    BY PollAssumption DEF TypeOK, ClockInv, Pass
  <2>2. AtMost(lostFor + d, Grace) <= sinceAnswer' /\ 0 <= sinceAnswer'
    BY <2>1 DEF AtMost
  <2> QED BY <2>2 DEF LostAfter
<1>7. \A n \in 0 .. lines : age'[n] >= age[n]
  BY <1>3, PollAssumption DEF AtMost
<1> QED BY <1>1, <1>2, <1>5, <1>6, <1>7

LEMMA FailedKeeps ==
  ASSUME PollInv, NEW d \in 0 .. MaxCall, Failed(d), UNCHANGED <<serverVars, cancelled>>,
         pc \in {"status", "drain"}
  PROVE  PollInv'
<1> USE DEF PollInv
<1>0. d \in Nat /\ Pass(d)
  BY PollAssumption DEF Failed
<1>1. /\ age' \in [0 .. MaxLines -> 0 .. Timeout] /\ sinceAnswer' \in 0 .. Grace
      /\ left' \in 0 .. Timeout /\ lostFor' \in 0 .. Grace
      /\ age'[seen] >= Timeout - left' /\ lostFor' <= sinceAnswer'
  BY <1>0, TimePasses DEF Failed, DrainInv
<1>2. UNCHANGED <<task, lines, cancelled, handed, seen, answer>> /\ lost' = TRUE
  BY DEF Failed, serverVars
<1>3. result = "none"
  BY DEF OverInv
<1>4. \/ pc' = "done" /\ result' = "lost" /\ sinceAnswer' >= Grace
      \/ pc' = "sleep" /\ result' = "none"
  <2>1. CASE GivesUp(d)
    <3>1. pc' = "done" /\ result' = "lost"
      BY <2>1 DEF Failed
    <3>2. lostFor' >= Grace
      BY <2>1 DEF Failed, GivesUp
    <3> QED BY <1>1, <3>1, <3>2, PollAssumption
  <2>2. CASE ~GivesUp(d)
    BY <1>3, <2>2 DEF Failed
  <2> QED BY <2>1, <2>2
<1>5. lost' \in BOOLEAN
  BY <1>2
<1>6. TypeOK'
  BY <1>1, <1>2, <1>4, <1>5 DEF TypeOK, PollPlaces, Result
<1>7. DrainInv'
  BY <1>2, <1>4 DEF DrainInv
<1>8. ClockInv'
  BY <1>1, <1>2, <1>4 DEF ClockInv
<1> QED BY <1>4, <1>6, <1>7, <1>8 DEF OverInv

\* The thread of the run.
LEMMA PollSteps ==
  ASSUME PollInv, PollStep
  PROVE  PollInv'
<1> USE DEF PollInv
<1>1. CASE Check
  BY <1>1 DEF Check, serverVars, waitVars, histVars, TypeOK, DrainInv, ClockInv, OverInv,
              PollPlaces
<1>2. CASE Status
  <2>1. PICK d \in 0 .. MaxCall :
          \/ /\ Pass(d) /\ left' = LeftAfter(d) /\ lostFor' = LostAfter(d) /\ answer' = task
             /\ pc' = "drain" /\ UNCHANGED <<handed, seen, lost, result>>
          \/ Failed(d)
    BY <1>2 DEF Status
  <2>2. pc = "status" /\ UNCHANGED <<serverVars, cancelled>>
    BY <1>2 DEF Status
  <2>3. CASE Failed(d)
    BY <2>2, <2>3, FailedKeeps
  <2>4. CASE ~Failed(d)
    <3>1. /\ Pass(d) /\ left' = LeftAfter(d) /\ lostFor' = LostAfter(d) /\ answer' = task
          /\ pc' = "drain"
          /\ UNCHANGED <<handed, seen, lost, result, task, lines, cancelled>>
      BY <2>1, <2>2, <2>4 DEF serverVars
    <3>2. /\ age' \in [0 .. MaxLines -> 0 .. Timeout] /\ sinceAnswer' \in 0 .. Grace
          /\ left' \in 0 .. Timeout /\ lostFor' \in 0 .. Grace
          /\ age'[seen] >= Timeout - left' /\ lostFor' <= sinceAnswer'
      <4>1. d \in Nat
        BY PollAssumption
      <4> QED BY <3>1, <4>1, TimePasses DEF DrainInv
    <3>3. result = "none"
      BY <2>2 DEF OverInv
    <3>4. TypeOK'
      BY <3>1, <3>2 DEF TypeOK, PollPlaces
    <3>5. DrainInv' /\ ClockInv' /\ OverInv'
      BY <3>1, <3>2, <3>3 DEF DrainInv, ClockInv, OverInv
    <3> QED BY <3>4, <3>5
  <2> QED BY <2>3, <2>4
<1>3. CASE Fetch
  <2>1. PICK d \in 0 .. MaxCall :
          \/ /\ Log(seen) # <<>> /\ handed' = handed \o Log(seen)
             /\ seen' = seen + Len(Log(seen)) /\ Pass(d) /\ left' = Restarted(d)
             /\ lostFor' = LostAfter(d) /\ UNCHANGED <<pc, answer, lost, result>>
          \/ /\ Log(seen) = <<>> /\ Pass(d) /\ left' = LeftAfter(d) /\ lostFor' = LostAfter(d)
             /\ pc' = IF pc = "drain" THEN "test" ELSE "stop"
             /\ UNCHANGED <<handed, seen, answer, lost, result>>
          \/ pc = "drain" /\ Failed(d)
          \/ /\ pc = "last_drain" /\ Pass(d) /\ left' = LeftAfter(d) /\ lostFor' = LostAfter(d)
             /\ pc' = "stop"
             /\ UNCHANGED <<handed, seen, answer, lost, result>>
    BY <1>3 DEF Fetch
  <2>2. /\ pc \in {"drain", "last_drain"} /\ UNCHANGED <<serverVars, cancelled>>
        /\ UNCHANGED <<task, lines, cancelled>>
    BY <1>3 DEF Fetch, serverVars
  <2>3. result = "none" /\ d \in Nat
    BY <2>2, PollAssumption DEF OverInv
  <2>4. ASSUME Pass(d)
        PROVE  /\ age' \in [0 .. MaxLines -> 0 .. Timeout] /\ sinceAnswer' \in 0 .. Grace
               /\ LeftAfter(d) \in 0 .. Timeout /\ LostAfter(d) \in 0 .. Grace
               /\ age'[seen] >= Timeout - LeftAfter(d)
               /\ LostAfter(d) <= sinceAnswer'
    BY <2>3, <2>4, TimePasses DEF DrainInv
  <2>5. CASE pc = "drain" /\ Failed(d)
    BY <2>2, <2>5, FailedKeeps
  <2>6. CASE /\ Log(seen) # <<>> /\ handed' = handed \o Log(seen)
             /\ seen' = seen + Len(Log(seen)) /\ Pass(d) /\ left' = Restarted(d)
             /\ lostFor' = LostAfter(d) /\ UNCHANGED <<pc, answer, lost, result>>
    <3>1. seen' \in 0 .. lines /\ seen' \in 0 .. MaxLines
      BY <2>6, LogContinues, PollAssumption DEF DrainInv, TypeOK
    <3>2. handed' = [i \in 1 .. seen' |-> i]
      BY <2>6, LogContinues DEF DrainInv
    <3>3. left' = Timeout /\ age'[seen'] \in 0 .. Timeout
      BY <2>4, <2>6, <3>1 DEF Restarted
    <3>4. handed' \in Seq(0 .. MaxLines)
      BY <3>1, <3>2, NumbersInOrder
    <3>5. /\ UNCHANGED <<pc, answer, lost, result>> /\ left' \in 0 .. Timeout
          /\ age' \in [0 .. MaxLines -> 0 .. Timeout] /\ sinceAnswer' \in 0 .. Grace
          /\ lostFor' \in 0 .. Grace /\ lostFor' <= sinceAnswer'
      BY <2>4, <2>6, <3>3, PollAssumption
    <3>6. TypeOK'
      BY <2>2, <3>1, <3>4, <3>5 DEF TypeOK
    <3>7. DrainInv'
      <4>1. seen' <= lines'
        BY <2>2, <3>1
      <4> QED BY <2>2, <2>3, <3>2, <3>5, <4>1 DEF DrainInv
    <3>8. ClockInv'
      BY <2>3, <3>3, <3>5, PollAssumption DEF ClockInv
    <3> QED BY <2>3, <3>5, <3>6, <3>7, <3>8 DEF OverInv
  <2>7. CASE /\ Pass(d) /\ left' = LeftAfter(d) /\ lostFor' = LostAfter(d)
             /\ \/ pc' = "test" /\ Log(seen) = <<>>
                \/ pc' = "stop"
             /\ UNCHANGED <<handed, seen, answer, lost, result>>
    <3>1. TypeOK'
      BY <2>2, <2>4, <2>7 DEF TypeOK, PollPlaces
    <3>2. pc' = "test" => seen = lines
      BY <2>7, LogContinues DEF DrainInv
    <3>3. DrainInv'
      BY <2>2, <2>3, <2>7, <3>2 DEF DrainInv
    <3>4. ClockInv'
      BY <2>3, <2>4, <2>7 DEF ClockInv
    <3> QED BY <2>3, <2>7, <3>1, <3>3, <3>4 DEF OverInv
  <2> QED BY <2>1, <2>5, <2>6, <2>7
<1>4. CASE Test
  <2>1. /\ pc = "test" /\ lost' = FALSE /\ lostFor' = 0 /\ sinceAnswer' = 0
        /\ UNCHANGED <<task, lines, cancelled, answer, seen, left, handed, age>>
    BY <1>4 DEF Test, CloseWindow, serverVars
  <2>2. \/ answer # "running" /\ pc' = "done" /\ result' = answer
        \/ answer = "running" /\ left = 0 /\ pc' = "done" /\ result' = "timeout"
        \/ pc' = "sleep" /\ result' = "none"
    BY <1>4 DEF Test, Outcome, OverInv
  <2>3. lost' \in BOOLEAN
    BY <2>1
  <2>4. answer \in TaskState /\ age[seen] \in 0 .. Timeout /\ left \in 0 .. Timeout
    BY DEF TypeOK
  <2>5. TypeOK'
    BY <2>1, <2>2, <2>3, <2>4, PollAssumption DEF TypeOK, PollPlaces, Result, TaskState
  <2>6. DrainInv'
    BY <2>1, <2>2 DEF DrainInv
  <2>7. ClockInv'
    BY <2>1, <2>2, <2>4, PollAssumption DEF ClockInv, TaskState
  <2> QED BY <2>2, <2>5, <2>6, <2>7 DEF OverInv
<1>5. CASE Sleep
  <2>1. /\ pc = "sleep" /\ Pass(1) /\ left' = LeftAfter(1) /\ lostFor' = LostAfter(1)
        /\ pc' = "check"
        /\ UNCHANGED <<task, lines, cancelled, answer, seen, lost, result, handed>>
    BY <1>5 DEF Sleep, serverVars
  <2>2. /\ age' \in [0 .. MaxLines -> 0 .. Timeout] /\ sinceAnswer' \in 0 .. Grace
        /\ left' \in 0 .. Timeout /\ lostFor' \in 0 .. Grace
        /\ age'[seen] >= Timeout - left' /\ lostFor' <= sinceAnswer'
    BY <2>1, TimePasses DEF DrainInv
  <2>3. result = "none"
    BY <2>1 DEF OverInv
  <2>4. TypeOK'
    BY <2>1, <2>2 DEF TypeOK, PollPlaces
  <2> QED BY <2>1, <2>2, <2>3, <2>4 DEF DrainInv, ClockInv, OverInv
<1>6. CASE StopTask
  <2>1. /\ pc = "stop" /\ pc' = "done" /\ result' = "cancelled"
        /\ task' \in {task, IF task = "running" THEN "bad" ELSE task}
        /\ UNCHANGED <<lines, cancelled, answer, seen, left, lost, lostFor, handed, age,
                       sinceAnswer>>
    BY <1>6 DEF StopTask, histVars
  <2>2. TypeOK'
    BY <2>1 DEF TypeOK, TaskState, PollPlaces, Result
  <2>3. DrainInv'
    BY <2>1 DEF DrainInv
  <2> QED BY <2>1, <2>2, <2>3 DEF ClockInv, OverInv
<1> QED BY <1>1, <1>2, <1>3, <1>4, <1>5, <1>6 DEF PollStep

\* The task and the user.  Nothing is written once the task has ended.
LEMMA TaskSteps ==
  ASSUME PollInv, WriteLine \/ EndTask \/ Cancel \/ UNCHANGED vars
  PROVE  PollInv'
<1> USE DEF PollInv
<1>1. CASE WriteLine
  <2>1. /\ task = "running" /\ lines' = lines + 1 /\ lines < MaxLines /\ pc # "done"
        /\ UNCHANGED <<task, cancelled, pc, answer, seen, left, lost, lostFor, result, handed,
                       age, sinceAnswer>>
    BY <1>1 DEF WriteLine, waitVars, histVars
  <2>2. TypeOK'
    BY <2>1, PollAssumption DEF TypeOK
  <2>3. DrainInv'
    BY <2>1 DEF DrainInv, OverInv, TypeOK
  <2> QED BY <2>1, <2>2, <2>3 DEF ClockInv, OverInv
<1>2. CASE EndTask
  BY <1>2 DEF EndTask, waitVars, histVars, TypeOK, TaskState, DrainInv, ClockInv, OverInv
<1>3. CASE Cancel
  <2>1. cancelled' \in BOOLEAN
    BY <1>3 DEF Cancel
  <2> QED BY <1>3, <2>1 DEF Cancel, serverVars, waitVars, histVars, TypeOK, DrainInv, ClockInv,
             OverInv
<1>4. CASE UNCHANGED vars
  BY <1>4 DEF vars, TypeOK, DrainInv, ClockInv, OverInv
<1> QED BY <1>1, <1>2, <1>3, <1>4

-----------------------------------------------------------------------------
(***************************************************************************)
(* Watching the tasks of others.                                           *)
(***************************************************************************)
\* How long ago the watch looked at the server last, at most.
SinceLook ==
  CASE wpc \in {"first_answer", "answer"} -> 0
    [] wpc = "sleep" -> WatchCall
    [] wpc \in {"first_ask", "ask"} -> WatchCall + 1
    [] OTHER -> Gap

\* A task no look has seen was not there at the last one.
UnseenInv ==
  \A t \in WatchedTask \ wseen :
    /\ ran[t] <= Gap
    /\ ext[t] = "running" => ran[t] <= SinceLook
    /\ ext[t] = "to_come" => ran[t] = 0

\* The first phase goes on until a task is seen, and the countdown belongs to the second.
PhaseInv ==
  /\ wpc = "first_ask" => wseen = {}
  /\ wpc = "first_answer" => (busy <=> wseen # {})
  /\ wpc \in {"ask", "answer"} => wseen # {}
  /\ wpc \in {"first_ask", "first_answer"} => quiet = NotQuiet
  /\ wpc = "sleep" /\ wseen = {} => quiet = NotQuiet

\* The countdown runs only while every task seen is over, for at least as long.
QuietInv ==
  /\ \A t \in wseen : ext[t] # "to_come"
  /\ wpc = "answer" /\ ~busy => \A t \in wseen : ext[t] = "over"
  /\ quiet # NotQuiet /\ ~(wpc = "answer" /\ busy) =>
       \A t \in wseen : ext[t] = "over" /\ gone[t] >= quiet

WatchInv ==
  /\ WatchTypeOK /\ UnseenInv /\ PhaseInv /\ QuietInv /\ WatchIsTrue
  /\ wresult # "no" => wpc = "done"

LEMMA WatchTime ==
  ASSUME WatchTypeOK, NEW d \in Nat, WatchPass(d)
  PROVE  /\ ran' \in [WatchedTask -> 0 .. Gap + 1] /\ gone' \in [WatchedTask -> 0 .. IdleWait]
         /\ wleft' \in 0 .. FirstTaskWait /\ QuietAfter(d) \in NotQuiet .. IdleWait
         /\ QuietAfter(d) = NotQuiet <=> quiet = NotQuiet
         /\ \A t \in WatchedTask :
              /\ ext[t] # "running" => ran'[t] = ran[t]
              /\ ran'[t] <= ran[t] + d
              /\ ext[t] = "over" /\ gone[t] >= quiet => gone'[t] >= QuietAfter(d)
<1>0. Gap \in Nat /\ IdleWait \in Nat \ {0} /\ FirstTaskWait \in Nat /\ NotQuiet = -1
  BY WatchAssumption DEF Gap, NotQuiet
<1>1. ran' \in [WatchedTask -> 0 .. Gap + 1]
  BY <1>0 DEF WatchTypeOK, WatchPass, Capped
<1>2. gone' \in [WatchedTask -> 0 .. IdleWait]
  BY <1>0 DEF WatchTypeOK, WatchPass, Capped
<1>3. wleft' \in 0 .. FirstTaskWait
  BY <1>0 DEF WatchTypeOK, WatchPass
<1>4. quiet \in -1 .. IdleWait
  BY <1>0 DEF WatchTypeOK
<1>5. QuietAfter(d) \in NotQuiet .. IdleWait /\ (QuietAfter(d) = NotQuiet <=> quiet = NotQuiet)
  BY <1>0, <1>4 DEF QuietAfter, Capped
<1>6. ASSUME NEW t \in WatchedTask
      PROVE  /\ ext[t] # "running" => ran'[t] = ran[t]
             /\ ran'[t] <= ran[t] + d
             /\ ext[t] = "over" /\ gone[t] >= quiet => gone'[t] >= QuietAfter(d)
  <2>1. ran[t] \in 0 .. Gap + 1 /\ gone[t] \in 0 .. IdleWait
    BY DEF WatchTypeOK
  <2>2. ran'[t] = IF ext[t] = "running" THEN Capped(ran[t] + d, Gap + 1) ELSE ran[t]
    BY DEF WatchPass
  <2>3. gone'[t] = IF ext[t] = "over" THEN Capped(gone[t] + d, IdleWait) ELSE 0
    BY DEF WatchPass
  <2>4. ext[t] = "over" /\ gone[t] >= quiet => gone'[t] >= QuietAfter(d)
    BY <1>0, <1>4, <2>1, <2>3 DEF QuietAfter, Capped
  <2> QED BY <1>0, <2>1, <2>2, <2>4 DEF Capped
<1> QED BY <1>1, <1>2, <1>3, <1>5, <1>6

\* What a step of the watch does to time, and what it leaves of the invariant.
LEMMA UnseenKept ==
  ASSUME WatchTypeOK, UnseenInv, NEW d \in 0 .. WatchCall, WatchPass(d), UNCHANGED ext,
         \/ wpc \in {"first_ask", "ask"}
            /\ wseen' = wseen \union RunningTasks /\ wpc' \in {"first_answer", "answer"}
         \/ wpc \in {"first_ask", "ask"} /\ wseen' = wseen /\ wpc' = "done"
         \/ wpc \in {"first_answer", "answer"}
            /\ wseen' = wseen /\ wpc' \in {"ask", "sleep", "done"}
  PROVE  UnseenInv'
<1>0. WatchCall \in Nat /\ Gap = 1 + 2 * WatchCall /\ d \in Nat
  BY WatchAssumption DEF Gap
<1> SUFFICES ASSUME NEW t \in WatchedTask, t \notin wseen'
             PROVE  /\ ran'[t] <= Gap
                    /\ ext[t] = "running" => ran'[t] <= SinceLook'
                    /\ ext[t] = "to_come" => ran'[t] = 0
  BY DEF UnseenInv
<1>1. /\ ran[t] \in Nat /\ ran'[t] \in Nat /\ ran'[t] <= ran[t] + d
      /\ ext[t] # "running" => ran'[t] = ran[t]
  <2>1. ran' \in [WatchedTask -> 0 .. Gap + 1] /\ ran \in [WatchedTask -> 0 .. Gap + 1]
    BY <1>0, WatchTime DEF WatchTypeOK
  <2> QED BY <1>0, <2>1, WatchTime
<1>2. /\ t \notin wseen /\ ran[t] <= Gap /\ (ext[t] = "running" => ran[t] <= SinceLook)
      /\ ext[t] = "to_come" => ran[t] = 0
  BY DEF UnseenInv
<1>3. CASE ext[t] # "running"
  BY <1>1, <1>2, <1>3
<1>4. CASE ext[t] = "running" /\ wpc \in {"first_ask", "ask"}
  <2>1. ran[t] <= WatchCall + 1 /\ wpc' = "done"
    BY <1>2, <1>4 DEF SinceLook, RunningTasks
  <2>2. SinceLook' = Gap
    BY <2>1 DEF SinceLook
  <2> QED BY <1>0, <1>1, <1>4, <2>1, <2>2
<1>5. CASE ext[t] = "running" /\ wpc \in {"first_answer", "answer"}
  <2>1. ran[t] <= 0 /\ wpc' \in {"ask", "sleep", "done"}
    BY <1>2, <1>5 DEF SinceLook
  <2>2. SinceLook' \in {WatchCall, WatchCall + 1, Gap}
    BY <2>1 DEF SinceLook
  <2> QED BY <1>0, <1>1, <2>1, <2>2
<1> QED BY <1>3, <1>4, <1>5

LEMMA WatchSteps ==
  ASSUME WatchInv, WatchStep
  PROVE  WatchInv'
<1> USE DEF WatchInv
<1>0. /\ WatchCall \in Nat /\ Gap \in Nat /\ Gap = 1 + 2 * WatchCall /\ NotQuiet = -1
      /\ IdleWait \in Nat \ {0}
  BY WatchAssumption DEF Gap, NotQuiet
<1>1. CASE Ask
  <2>1. PICK d \in 0 .. WatchCall :
          /\ WatchPass(d) /\ quiet' = QuietAfter(d)
          /\ \/ /\ busy' = (RunningTasks # {}) /\ wseen' = wseen \union RunningTasks
                /\ wpc' = IF wpc = "ask" THEN "answer" ELSE "first_answer"
                /\ UNCHANGED wresult
             \/ Raise /\ UNCHANGED <<busy, wseen>>
    BY <1>1 DEF Ask
  <2>2. wpc \in {"first_ask", "ask"} /\ UNCHANGED ext /\ wresult = "no" /\ d \in Nat
    BY <1>0, <1>1 DEF Ask, WatchTypeOK
  <2>3. /\ ran' \in [WatchedTask -> 0 .. Gap + 1] /\ gone' \in [WatchedTask -> 0 .. IdleWait]
        /\ wleft' \in 0 .. FirstTaskWait /\ quiet' \in NotQuiet .. IdleWait
        /\ quiet' = NotQuiet <=> quiet = NotQuiet
        /\ \A t \in WatchedTask : ext[t] = "over" /\ gone[t] >= quiet => gone'[t] >= quiet'
    BY <2>1, <2>2, WatchTime
  <2>4. CASE Raise /\ UNCHANGED <<busy, wseen>>
    <3>1. wpc' = "done" /\ wresult' = "raised"
      BY <2>4 DEF Raise
    <3>2. WatchTypeOK'
      BY <2>2, <2>3, <2>4, <3>1 DEF WatchTypeOK, WatchPlaces
    <3>3. UnseenInv'
      BY <2>1, <2>2, <2>4, <3>1, UnseenKept
    <3>4. PhaseInv'
      BY <3>1 DEF PhaseInv
    <3>5. QuietInv'
      BY <2>2, <2>3, <2>4, <3>1 DEF QuietInv, WatchTypeOK
    <3> QED BY <3>1, <3>2, <3>3, <3>4, <3>5 DEF WatchIsTrue
  <2>5. CASE /\ busy' = (RunningTasks # {}) /\ wseen' = wseen \union RunningTasks
             /\ wpc' = IF wpc = "ask" THEN "answer" ELSE "first_answer"
             /\ UNCHANGED wresult
    <3>1. wseen' \subseteq WatchedTask /\ busy' \in BOOLEAN
      BY <2>5 DEF WatchTypeOK, RunningTasks
    <3>2. WatchTypeOK'
      BY <2>2, <2>3, <2>5, <3>1 DEF WatchTypeOK, WatchPlaces
    <3>3. UnseenInv'
      BY <2>1, <2>2, <2>5, UnseenKept
    <3>4. PhaseInv'
      BY <2>2, <2>3, <2>5 DEF PhaseInv
    <3>5. \A t \in wseen' : ext[t] # "to_come"
      BY <2>5 DEF QuietInv, RunningTasks
    <3>6. ~busy' => wseen' = wseen /\ \A t \in wseen' : ext[t] = "over"
      <4>1. ASSUME ~busy', NEW t \in wseen'
            PROVE  ext[t] = "over"
        BY <2>5, <3>1, <3>5, <4>1 DEF WatchTypeOK, RunningTasks
      <4>2. ~busy' => wseen' = wseen
        BY <2>5
      <4> QED BY <4>1, <4>2
    <3>7. quiet' # NotQuiet /\ ~(wpc' = "answer" /\ busy') =>
            \A t \in wseen' : ext[t] = "over" /\ gone'[t] >= quiet'
      <4>1. SUFFICES ASSUME quiet' # NotQuiet, ~(wpc' = "answer" /\ busy')
                     PROVE  \A t \in wseen' : ext[t] = "over" /\ gone'[t] >= quiet'
        OBVIOUS
      <4>2. wpc = "ask" /\ wpc' = "answer" /\ ~busy'
        BY <2>2, <2>3, <2>5, <4>1 DEF PhaseInv
      <4>3. \A t \in wseen : ext[t] = "over" /\ gone[t] >= quiet
        BY <2>3, <4>1, <4>2 DEF QuietInv
      <4> QED BY <2>3, <3>6, <4>2, <4>3 DEF WatchTypeOK
    <3>8. QuietInv'
      BY <2>2, <3>5, <3>6, <3>7 DEF QuietInv
    <3> QED BY <2>2, <2>5, <3>2, <3>3, <3>4, <3>8 DEF WatchIsTrue
  <2> QED BY <2>1, <2>4, <2>5
<1>2. CASE FirstAnswer
  <2>1. PICK d \in 0 .. WatchCall :
          /\ WatchPass(d)
          /\ \/ GivesUpWaiting(wleft') /\ wpc' = "done" /\ wresult' = "none"
             \/ ~GivesUpWaiting(wleft') /\ busy /\ wpc' = "ask" /\ UNCHANGED wresult
             \/ ~GivesUpWaiting(wleft') /\ ~busy /\ wpc' = "sleep" /\ UNCHANGED wresult
    BY <1>2 DEF FirstAnswer
  <2>2. /\ wpc = "first_answer" /\ UNCHANGED <<ext, busy, wseen, quiet>> /\ wresult = "no"
        /\ d \in Nat /\ quiet = NotQuiet /\ (busy <=> wseen # {})
    BY <1>0, <1>2 DEF FirstAnswer, WatchTypeOK, PhaseInv
  <2>3. /\ ran' \in [WatchedTask -> 0 .. Gap + 1] /\ gone' \in [WatchedTask -> 0 .. IdleWait]
        /\ wleft' \in 0 .. FirstTaskWait
    BY <2>1, <2>2, WatchTime
  <2>4. WatchTypeOK'
    BY <2>1, <2>2, <2>3 DEF WatchTypeOK, WatchPlaces
  <2>5. UnseenInv'
    BY <2>1, <2>2, UnseenKept
  <2>6. PhaseInv'
    BY <2>1, <2>2 DEF PhaseInv
  <2>7. QuietInv'
    BY <2>1, <2>2 DEF QuietInv
  <2>8. WatchIsTrue'
    <3>1. CASE wpc' = "done"
      <4>1. wresult' = "none" /\ wleft' = 0 /\ wseen' = {}
        BY <2>1, <2>2, <3>1 DEF GivesUpWaiting
      <4>2. \A t \in WatchedTask : ~(ran'[t] > Gap)
        BY <1>0, <2>3, <2>5, <4>1 DEF UnseenInv
      <4> QED BY <4>1, <4>2 DEF WatchIsTrue
    <3>2. CASE wpc' # "done"
      BY <2>1, <2>2, <3>2 DEF WatchIsTrue
    <3> QED BY <3>1, <3>2
  <2> QED BY <2>1, <2>2, <2>4, <2>5, <2>6, <2>7, <2>8
<1>3. CASE Answer
  <2>1. PICK d \in 0 .. WatchCall :
          /\ WatchPass(d) /\ quiet' = Countdown(d)
          /\ \/ quiet' >= IdleWait /\ wpc' = "done" /\ wresult' = "count"
             \/ quiet' < IdleWait /\ wpc' = "sleep" /\ UNCHANGED wresult
    BY <1>3 DEF Answer
  <2>2. /\ wpc = "answer" /\ UNCHANGED <<ext, busy, wseen>> /\ wresult = "no" /\ d \in Nat
        /\ wseen # {}
    BY <1>0, <1>3 DEF Answer, WatchTypeOK, PhaseInv
  <2>3. /\ ran' \in [WatchedTask -> 0 .. Gap + 1] /\ gone' \in [WatchedTask -> 0 .. IdleWait]
        /\ wleft' \in 0 .. FirstTaskWait /\ QuietAfter(d) \in NotQuiet .. IdleWait
        /\ QuietAfter(d) = NotQuiet <=> quiet = NotQuiet
        /\ \A t \in WatchedTask :
             ext[t] = "over" /\ gone[t] >= quiet => gone'[t] >= QuietAfter(d)
    BY <2>1, <2>2, WatchTime
  <2>4. WatchTypeOK'
    <3>1. quiet' \in NotQuiet .. IdleWait
      BY <1>0, <2>1, <2>3 DEF Countdown
    <3> QED BY <2>1, <2>2, <2>3, <3>1 DEF WatchTypeOK, WatchPlaces
  <2>5. UnseenInv'
    BY <2>1, <2>2, UnseenKept
  <2>6. PhaseInv'
    BY <2>1, <2>2 DEF PhaseInv
  <2>7. quiet' # NotQuiet => \A t \in wseen : ext[t] = "over" /\ gone'[t] >= quiet'
    <3>1. SUFFICES ASSUME quiet' # NotQuiet
                   PROVE  \A t \in wseen : ext[t] = "over" /\ gone'[t] >= quiet'
      OBVIOUS
    <3>2. ~busy /\ \A t \in wseen : ext[t] = "over" /\ t \in WatchedTask
      BY <2>1, <2>2, <3>1 DEF Countdown, QuietInv, WatchTypeOK
    <3>3. CASE quiet = NotQuiet
      <4>1. quiet' = 0 /\ \A t \in wseen : gone'[t] \in 0 .. IdleWait
        BY <2>1, <2>3, <3>2, <3>3 DEF Countdown
      <4> QED BY <3>2, <4>1, <1>0
    <3>4. CASE quiet # NotQuiet
      <4>1. quiet' = QuietAfter(d)
        BY <2>1, <3>2, <3>4 DEF Countdown
      <4>2. \A t \in wseen : gone[t] >= quiet
        BY <2>2, <3>2, <3>4 DEF QuietInv
      <4> QED BY <2>3, <3>2, <4>1, <4>2
    <3> QED BY <3>3, <3>4
  <2>8. QuietInv'
    BY <2>1, <2>2, <2>7 DEF QuietInv
  <2>9. WatchIsTrue'
    <3>1. CASE wpc' = "done"
      <4>1. wresult' = "count" /\ quiet' >= IdleWait /\ quiet' # NotQuiet
        BY <1>0, <2>1, <3>1
      <4>2. \A t \in wseen : ext[t] = "over" /\ gone'[t] >= IdleWait
        <5>1. TAKE t \in wseen
        <5>2. gone'[t] \in 0 .. IdleWait /\ quiet' \in NotQuiet .. IdleWait
          BY <2>3, <2>4 DEF WatchTypeOK
        <5> QED BY <1>0, <2>7, <4>1, <5>2
      <4>3. \A t \in WatchedTask : ran'[t] > Gap => t \in wseen
        BY <1>0, <2>2, <2>3, <2>5 DEF UnseenInv
      <4> QED BY <2>2, <4>1, <4>2, <4>3 DEF WatchIsTrue
    <3>2. CASE wpc' # "done"
      BY <2>1, <2>2, <3>2 DEF WatchIsTrue
    <3> QED BY <3>1, <3>2
  <2> QED BY <2>1, <2>2, <2>4, <2>5, <2>6, <2>8, <2>9
<1>4. CASE WatchSleep
  <2>1. /\ wpc = "sleep" /\ WatchPass(1) /\ quiet' = QuietAfter(1) /\ wresult = "no"
        /\ wpc' = (IF wseen = {} THEN "first_ask" ELSE "ask")
        /\ UNCHANGED <<ext, busy, wseen, wresult>>
    BY <1>4 DEF WatchSleep, WatchTypeOK
  <2>2. /\ ran' \in [WatchedTask -> 0 .. Gap + 1] /\ gone' \in [WatchedTask -> 0 .. IdleWait]
        /\ wleft' \in 0 .. FirstTaskWait /\ quiet' \in NotQuiet .. IdleWait
        /\ quiet' = NotQuiet <=> quiet = NotQuiet
        /\ \A t \in WatchedTask : /\ ext[t] = "over" /\ gone[t] >= quiet => gone'[t] >= quiet'
                                  /\ ext[t] # "running" => ran'[t] = ran[t]
                                  /\ ran'[t] <= ran[t] + 1
    BY <2>1, WatchTime
  <2>3. WatchTypeOK'
    BY <2>1, <2>2 DEF WatchTypeOK, WatchPlaces
  <2>4. UnseenInv'
    <3>1. SinceLook = WatchCall /\ SinceLook' = WatchCall + 1
      BY <2>1 DEF SinceLook
    <3>2. \A t \in WatchedTask : ran[t] \in Nat /\ ran'[t] \in Nat
      BY <1>0, <2>2 DEF WatchTypeOK
    <3> QED BY <1>0, <2>1, <2>2, <3>1, <3>2 DEF UnseenInv
  <2>5. PhaseInv'
    BY <2>1, <2>2 DEF PhaseInv
  <2>6. QuietInv'
    BY <2>1, <2>2 DEF QuietInv, WatchTypeOK
  <2> QED BY <2>1, <2>3, <2>4, <2>5, <2>6 DEF WatchIsTrue
<1> QED BY <1>1, <1>2, <1>3, <1>4 DEF WatchStep

\* The schedules: a task starts once, and what is over stays over.
LEMMA ScheduleSteps ==
  ASSUME WatchInv, NEW t \in WatchedTask, TaskStarts(t) \/ TaskEnds(t)
  PROVE  WatchInv'
<1> USE DEF WatchInv
<1>1. /\ wpc # "done" /\ wresult = "no"
      /\ \/ ext[t] = "to_come" /\ ext' = [ext EXCEPT ![t] = "running"]
         \/ ext[t] = "running" /\ ext' = [ext EXCEPT ![t] = "over"]
      /\ UNCHANGED <<wpc, busy, wseen, wleft, quiet, wresult, ran, gone>>
  BY DEF TaskStarts, TaskEnds, WatchTypeOK
<1>2. WatchTypeOK'
  BY <1>1 DEF WatchTypeOK
<1>3. UnseenInv'
  <2>1. SinceLook \in Nat /\ UNCHANGED SinceLook
    BY <1>1, WatchAssumption DEF SinceLook, Gap
  <2>2. \A u \in WatchedTask : \/ ext'[u] = ext[u]
                               \/ ext[u] = "to_come" /\ ext'[u] = "running"
                               \/ ext'[u] = "over"
    <3>1. SUFFICES ASSUME NEW u \in WatchedTask
                   PROVE  \/ ext'[u] = ext[u]
                          \/ ext[u] = "to_come" /\ ext'[u] = "running"
                          \/ ext'[u] = "over"
      OBVIOUS
    <3>2. CASE u = t
      BY <1>1, <3>2 DEF WatchTypeOK
    <3>3. CASE u # t
      BY <1>1, <3>3 DEF WatchTypeOK
    <3> QED BY <3>2, <3>3
  <2> QED BY <1>1, <2>1, <2>2 DEF UnseenInv
<1>4. PhaseInv' /\ WatchIsTrue'
  BY <1>1 DEF PhaseInv, WatchIsTrue
<1>5. QuietInv'
  <2>1. t \in wseen => ext[t] = "running" /\ ext'[t] = "over"
    BY <1>1 DEF QuietInv, WatchTypeOK
  <2>2. \A u \in wseen : u # t => ext'[u] = ext[u]
    BY <1>1 DEF WatchTypeOK
  <2> QED BY <1>1, <2>1, <2>2 DEF QuietInv
<1> QED BY <1>1, <1>2, <1>3, <1>4, <1>5

LEMMA WatchRests == ASSUME WatchInv, UNCHANGED watchVars PROVE WatchInv'
BY DEF watchVars, WatchInv, WatchTypeOK, UnseenInv, SinceLook, PhaseInv, QuietInv, WatchIsTrue

-----------------------------------------------------------------------------
LEMMA PollsInvInit == WaitInit \/ WatchOnlyInit => PollInv /\ WatchInv
<1> USE PollAssumption, WatchAssumption
<1>1. Gap \in Nat /\ SinceLook \in Nat /\ NotQuiet = -1
  BY DEF Gap, SinceLook, NotQuiet
<1>2. ASSUME WaitInit \/ WatchOnlyInit
      PROVE  PollInv
  <2>1. /\ task \in {"running", "ok"} /\ lines = 0 /\ cancelled = FALSE
        /\ pc \in {"check", "done"} /\ answer = "running" /\ result = "none"
        /\ seen = 0 /\ left = Timeout /\ lost = FALSE /\ lostFor = 0
        /\ handed = <<>> /\ age = [n \in 0 .. MaxLines |-> 0] /\ sinceAnswer = 0
    BY <1>2 DEF WaitInit, WatchOnlyInit, Init
  <2>2. cancelled \in BOOLEAN /\ lost \in BOOLEAN
    BY <2>1, Zenon
  <2>3. handed \in Seq(0 .. MaxLines) /\ handed = [i \in 1 .. seen |-> i]
    BY <2>1
  <2>4. TypeOK
    BY <2>1, <2>2, <2>3 DEF TypeOK, TaskState, PollPlaces, Result
  <2>5. DrainInv
    BY <2>1, <2>3 DEF DrainInv
  <2>6. ClockInv
    BY <2>1 DEF ClockInv
  <2> QED BY <2>1, <2>4, <2>5, <2>6 DEF PollInv, OverInv
<1>3. ASSUME WaitInit \/ WatchOnlyInit
      PROVE  WatchInv
  <2>1. /\ ext \in [WatchedTask -> {"to_come", "running"}] /\ wpc \in {"first_ask", "done"}
        /\ busy = FALSE /\ wseen = {} /\ wleft = FirstTaskWait /\ quiet = NotQuiet
        /\ wresult = "no" /\ ran = [t \in WatchedTask |-> 0]
        /\ gone = [t \in WatchedTask |-> 0]
    BY <1>3 DEF WaitInit, WatchOnlyInit, WatchInit
  <2>2. busy \in BOOLEAN
    BY <2>1
  <2>3. WatchTypeOK
    BY <1>1, <2>1, <2>2 DEF WatchTypeOK, WatchPlaces
  <2>4. UnseenInv
    BY <1>1, <2>1 DEF UnseenInv
  <2> QED BY <2>1, <2>3, <2>4 DEF WatchInv, PhaseInv, QuietInv, WatchIsTrue
<1> QED BY <1>2, <1>3

LEMMA PollsInvNext == PollInv /\ WatchInv /\ [PollsNext]_pollsVars => PollInv' /\ WatchInv'
<1> SUFFICES ASSUME PollInv, WatchInv, [PollsNext]_pollsVars
             PROVE  PollInv' /\ WatchInv'
  OBVIOUS
<1>1. PollInv'
  BY PollSteps, TaskSteps DEF PollsNext, pollsVars, Next
<1>2. WatchInv'
  BY WatchSteps, ScheduleSteps, WatchRests DEF PollsNext, pollsVars, WatchNext
<1> QED BY <1>1, <1>2

LEMMA PollsInvariant == PollsSpec => [](PollInv /\ WatchInv)
<1>1. PollsSpec => (WaitInit \/ WatchOnlyInit) /\ [][PollsNext]_pollsVars
  BY PTL DEF PollsSpec, pollsVars
<1> QED BY <1>1, PollsInvInit, PollsInvNext, PTL

-----------------------------------------------------------------------------
\* The lines of a task's log are handed on in order, each once, and with an outcome all of
\* them (poll_task and the log tailers of the two clients).
THEOREM LinesAreInOrder == PollsSpec => []LinesInOrder
<1>1. PollInv => LinesInOrder
  BY DEF PollInv, DrainInv, LinesInOrder
<1> QED BY <1>1, PollsInvariant, PTL

\* What a wait ends with is true of the task: its own end, silence on the wire for the whole
\* grace window, or silence of the task for the whole timeout (poll_task).
THEOREM OutcomeIsTheTasks == PollsSpec => []OutcomeIsTrue
<1>1. PollInv => OutcomeIsTrue
  BY DEF PollInv, DrainInv, ClockInv, OutcomeIsTrue
<1> QED BY <1>1, PollsInvariant, PTL

\* What a watch ends with is true of the box: no task came, or all that came are long over
\* (watch_external_tasks).
THEOREM WatchReportsTruth == PollsSpec => []WatchIsTrue
<1>1. WatchInv => WatchIsTrue
  BY DEF WatchInv
<1> QED BY <1>1, PollsInvariant, PTL

\* Every variable of the two loops keeps its type.
THEOREM PollsTypeCorrect == PollsSpec => [](TypeOK /\ WatchTypeOK)
<1>1. PollInv /\ WatchInv => TypeOK /\ WatchTypeOK
  BY DEF PollInv, WatchInv
<1> QED BY <1>1, PollsInvariant, PTL
=============================================================================
