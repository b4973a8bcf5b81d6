------------------------------ MODULE Scheduler ------------------------------
(***************************************************************************)
(* Scheduler, MilliTimer and Sleepy of the Ports library (Portsx.cpp): a   *)
(* table of task timers in tenths of a second, all relative to one         *)
(* countdown, which runs on a 16-bit millisecond timer while the sketch    *)
(* polls, or on the watchdog while it sleeps in pollWaiting().  Words wrap *)
(* at WORD; the properties compare them with time that does not wrap.      *)
(***************************************************************************)
EXTENDS Integers, FiniteSetsExt

CONSTANTS
    maxTasks,       \* tasks are numbered from 0
    WORD,           \* values of a word
    BYTE,           \* values of a byte
    LATEST,         \* the largest "remain" taken for a timer still running
    TENTH,          \* milliseconds in a tenth of a second
    GRAIN,          \* milliseconds of the watchdog's shortest period
    Halves,         \* half of each of its periods: 8 << wdp
    STEP_MAX,       \* tenths that pollWaiting() sleeps at most in one go
    Tenths,         \* times that the sketch sets
    MaxGap          \* the sketch calls poll() within this many milliseconds

IDLE == WORD - 1    \* ~0

ASSUME SchedulerAssumption ==
    /\ maxTasks \in Nat \ {0} /\ TENTH \in Nat \ {0}
    /\ WORD \in Nat /\ BYTE \in Nat \ {0} /\ LATEST \in TENTH .. WORD - 2
    /\ Halves \subseteq Nat \ {0} /\ \E h \in Halves : GRAIN = 2 * h
    /\ STEP_MAX \in Nat \ {0} /\ STEP_MAX * TENTH < WORD
    /\ Tenths \subseteq 1 .. IDLE - 1 /\ MaxGap \in Nat \ {0}

Task == 0 .. maxTasks - 1

VARIABLES
    tasks,          \* each task's tenths behind "remaining", or IDLE
    remaining,      \* tenths until the next task is due, or IDLE
    ms100,          \* the MilliTimer: armed, next
    millis,         \* the clock, as a word
    pc,             \* "sketch", "wait" or "poll" in pollWaiting(), or "sleep"
    nap,            \* loseSomeTime(): msecs, msleft, the step it is for (0: ms100)
    ok,             \* what loseSomeTime() last returned
    mode,           \* the function this sketch calls: "poll" or "pollWaiting"
    wanted,         \* history: the tasks that were set and not yet returned
    span,           \* history: the tenths that each of them was set to
    left,           \* history: milliseconds until each of them is due
    age,            \* history: milliseconds of millis() since ms100 was set, if it is
    gap             \* history: milliseconds since the last poll()

timers == <<tasks, remaining, ms100>>
vars == <<timers, millis, pc, nap, ok, mode, wanted, span, left, age, gap>>

Least(S) == IF S = {} THEN IDLE ELSE Min(S)
Waiting == {i \in Task : tasks[i] # IDLE}

-----------------------------------------------------------------------------
(* MilliTimer.                                                             *)

Armed == [armed |-> TRUE, next |-> (millis + TENTH - 1) % WORD]
Remain == (ms100.next - millis) % WORD

\* ms100.poll(100) finds the timer expired, as far as a word can tell.
Expired == ms100.armed /\ Remain > LATEST

\* Does it return non-zero?  "byte ready = -remain" is zero when the timer
\* expired a multiple of BYTE milliseconds ago (less the one that it counts).
Fires == Expired /\ (WORD - Remain) % BYTE # 0

\* The timer is set again unless it is still running, whatever poll() returns.
PollTimer ==
    IF ms100.armed /\ ~Expired THEN UNCHANGED <<ms100, age>>
    ELSE ms100' = Armed /\ age' = 0

\* ms100.remaining()
TimerRemaining == IF ms100.armed /\ Remain <= LATEST THEN Remain ELSE 0

-----------------------------------------------------------------------------
(* Scheduler.                                                              *)

Ready == {i \in Task : tasks[i] = 0}

\* A task is due and is returned: the first one in the table.
Dispatch ==
    LET i == Min(Ready)
    IN /\ tasks' = [tasks EXCEPT ![i] = IDLE]
       /\ wanted' = wanted \ {i}
       /\ span' = [span EXCEPT ![i] = 0] /\ left' = [left EXCEPT ![i] = 0]
       /\ UNCHANGED <<remaining, ms100, age>>

\* Mutant: idle entries are counted down with the others.
RebasedAll == [i \in Task |-> tasks[i] - Least({tasks[j] : j \in Task})]

Rebased ==
    [i \in Task |-> IF i \in Waiting THEN tasks[i] - Least({tasks[j] : j \in Task})
                    ELSE IDLE]

\* Mutant: the timer is left running when no task is.
TimerKept == ms100

\* "must turn off timer or it might overflow"
TimerOff == [ms100 EXCEPT !.armed = FALSE]

\* No task is due: the countdown starts for the next one, or stops.
Rebase ==
    /\ remaining' = Least({tasks[i] : i \in Task})
    /\ tasks' = Rebased
    /\ ms100' = IF Waiting = {} THEN TimerOff ELSE ms100
    /\ UNCHANGED <<wanted, span, left, age>>

\* Scheduler::poll() at the end of the countdown
pollDue == remaining = 0 /\ IF Ready # {} THEN Dispatch ELSE Rebase

\* Scheduler::poll()
poll ==
    \/ pollDue
    \/ remaining = IDLE /\ UNCHANGED <<timers, wanted, span, left, age>>
    \/ /\ remaining \notin {0, IDLE}
       /\ PollTimer
       /\ remaining' = remaining - IF Fires THEN 1 ELSE 0
       /\ UNCHANGED <<tasks, wanted, span, left>>

CallPoll ==
    /\ pc = "sketch" /\ mode = "poll"
    /\ poll /\ gap' = 0
    /\ UNCHANGED <<millis, pc, nap, ok, mode>>

\* Mutant: the other tasks are not moved back.
TimerAlone(task, tenths) ==
    LET now == IF tenths < remaining THEN tenths ELSE remaining
    IN remaining' = now /\ tasks' = [tasks EXCEPT ![task] = tenths - now]

\* Scheduler::timer(): the countdown is shortened if this task is the next
timer(task, tenths) ==
    LET now == IF tenths < remaining THEN tenths ELSE remaining
    IN /\ remaining' = now
       /\ tasks' = [i \in Task |->
                      IF i = task THEN tenths - now
                      ELSE IF i \in Waiting THEN (tasks[i] + (remaining - now)) % WORD
                      ELSE IDLE]

CallTimer ==
    /\ pc = "sketch"
    /\ \E task \in Task, tenths \in Tenths :
         /\ timer(task, tenths)
         /\ wanted' = wanted \cup {task} /\ span' = [span EXCEPT ![task] = tenths]
         /\ left' = [left EXCEPT ![task] = tenths * TENTH]
    /\ UNCHANGED <<ms100, millis, pc, nap, ok, mode, age, gap>>

cancel ==
    /\ pc = "sketch"
    /\ \E task \in Task : /\ tasks' = [tasks EXCEPT ![task] = IDLE]
                          /\ wanted' = wanted \ {task}
                          /\ span' = [span EXCEPT ![task] = 0]
                          /\ left' = [left EXCEPT ![task] = 0]
    /\ UNCHANGED <<remaining, ms100, millis, pc, nap, ok, mode, age, gap>>

-----------------------------------------------------------------------------
(* pollWaiting() and loseSomeTime().                                       *)

Passed(ms) == [i \in Task |-> Max({left[i] - ms, 0})]
Aged(ms) == IF ms100.armed THEN Min({age + ms, WORD}) ELSE 0

NoNap == [msecs |-> 0, msleft |-> 0, step |-> 0]

CallPollWaiting ==
    /\ pc = "sketch" /\ mode = "pollWaiting" /\ remaining # IDLE
    /\ pc' = "wait"
    /\ UNCHANGED <<timers, millis, nap, ok, mode, wanted, span, left, age, gap>>

\* The head of the loop: sleep for the rest of the countdown or a part of it,
\* then for what is left of ms100.
Doze ==
    /\ pc = "wait" /\ pc' = "sleep"
    /\ LET step == IF remaining > STEP_MAX THEN STEP_MAX ELSE remaining
           ms == IF remaining > 0 THEN TENTH * step ELSE TimerRemaining
       IN nap' = [msecs |-> ms, msleft |-> ms, step |-> step]
    /\ UNCHANGED <<timers, millis, ok, mode, wanted, span, left, age, gap>>

\* Half of the longest watchdog period that fits into msleft.
Half == Max({h \in Halves : 2 * h <= nap.msleft})

\* A watchdog period has passed.
WatchdogEvent ==
    /\ pc = "sleep" /\ nap.msleft >= GRAIN
    /\ nap' = [nap EXCEPT !.msleft = @ - 2 * Half]
    /\ UNCHANGED <<timers, millis, pc, ok, mode, wanted, span, left, age, gap>>

\* timer0_millis += msecs - msleft
Adjust(msleft) ==
    LET ms == nap.msecs - msleft
    IN /\ millis' = (millis + ms) % WORD
       /\ age' = Aged(ms)

\* Another interrupt: half of the period is taken to have passed, when any part
\* of it may have.
Interrupted ==
    /\ pc = "sleep" /\ nap.msleft >= GRAIN
    /\ ok' = 0 /\ pc' = "sketch" /\ nap' = NoNap
    /\ Adjust(nap.msleft - Half)
    /\ \E part \in 0 .. 2 * Half : left' = Passed(nap.msecs - nap.msleft + part)
    /\ UNCHANGED <<timers, mode, wanted, span, gap>>

\* Mutant: the time slept is not taken off.
NotTaken == remaining

\* Mutant: the longest step is taken off, however long the sleep was.
TakenWhole == remaining - STEP_MAX

Taken == remaining - nap.step

\* loseSomeTime() returns 1 when less than a period is left, which it does not
\* sleep for; its step is 0 when the countdown is at zero.
Awake ==
    /\ pc = "sleep" /\ nap.msleft < GRAIN
    /\ ok' = 1 /\ pc' = (IF nap.step > 0 THEN "wait" ELSE "poll") /\ nap' = NoNap
    /\ Adjust(nap.msleft) /\ left' = Passed(nap.msecs - nap.msleft)
    /\ remaining' = IF nap.step > 0 THEN Taken ELSE remaining
    /\ UNCHANGED <<tasks, ms100, mode, wanted, span, gap>>

\* return poll()
WaitingPoll ==
    /\ pc = "poll" /\ pc' = "sketch"
    /\ pollDue /\ gap' = 0
    /\ UNCHANGED <<millis, nap, ok, mode>>

-----------------------------------------------------------------------------
\* A millisecond in the sketch, which polls within MaxGap while tasks wait.
Tick ==
    /\ pc = "sketch" /\ (gap < MaxGap \/ remaining = IDLE)
    /\ millis' = (millis + 1) % WORD
    /\ left' = Passed(1)
    /\ age' = Aged(1) /\ gap' = Min({gap + 1, MaxGap})
    /\ UNCHANGED <<timers, pc, nap, ok, mode, wanted, span>>

Init ==
    /\ tasks = [i \in Task |-> IDLE] /\ remaining = IDLE
    /\ ms100 = [armed |-> FALSE, next |-> 0] /\ millis = 0
    /\ pc = "sketch" /\ nap = NoNap /\ ok = 1
    /\ mode \in {"poll", "pollWaiting"}
    /\ wanted = {} /\ span = [i \in Task |-> 0] /\ left = [i \in Task |-> 0]
    /\ age = 0 /\ gap = 0

Library == CallPollWaiting \/ Doze \/ WatchdogEvent \/ Awake \/ WaitingPoll

Next == CallPoll \/ CallTimer \/ cancel \/ Library \/ Interrupted \/ Tick

Spec == Init /\ [][Next]_vars

\* The sketch goes on calling, sleeps end and the clock runs.
FairSpec == Spec /\ WF_vars(CallPoll) /\ WF_vars(Library) /\ WF_vars(Tick)

-----------------------------------------------------------------------------
(* Properties.                                                             *)

\* The values each variable can hold.
TypeOK ==
    /\ tasks \in [Task -> 0 .. IDLE] /\ remaining \in 0 .. IDLE
    /\ ms100 \in [armed : BOOLEAN, next : 0 .. WORD - 1] /\ millis \in 0 .. WORD - 1
    /\ pc \in {"sketch", "wait", "sleep", "poll"} /\ ok \in 0 .. 1
    /\ mode \in {"poll", "pollWaiting"} /\ gap \in 0 .. MaxGap /\ age \in 0 .. WORD
    /\ nap \in [msecs : 0 .. WORD - 1, msleft : 0 .. WORD - 1, step : 0 .. STEP_MAX]

\* timer() and poll() shift all entries of the table against the countdown:
\* no task is lost or comes to life by it, and poll() says "all idle" (-2)
\* only if no task waits.
NoTaskLost ==
    /\ \A i \in Task : i \in wanted <=> tasks[i] # IDLE
    /\ remaining = IDLE => Waiting = {}

\* How early a task may be returned, in milliseconds, that was set to "span"
\* tenths and has "due" of them to go: with poll() the period of ms100 that was
\* running when it was set; with pollWaiting() up to GRAIN - 1 for each tenth
\* slept.  The comment "just ignore the 0..15 ms still left to go" speaks of the
\* last sleep, but every sleep ends early by that and the countdown loses its
\* whole step, so the errors add up over the sleeps that other tasks end.
Slack(i, due) == IF mode = "poll" THEN TENTH ELSE (GRAIN - 1) * (span[i] - due)

\* No task is returned earlier than that, whatever timers are set, cancelled,
\* returned and slept for in between: each tenth of the countdown is a period of
\* ms100 that no other tenth counted, or is part of a sleep.
NotEarly ==
    remaining # IDLE =>
      \A i \in Waiting : LET due == tasks[i] + remaining
                         IN left[i] <= TENTH * due + Slack(i, due)

\* "this test works as long as poll() is called no later than 5535 millisecs
\* after the timer has expired": a sketch that polls often enough never lets
\* ms100 expire for so long that it seems to be running again.
NeverStale == ms100.armed => age < TENTH + WORD - LATEST - 1

\* Each task that waits is returned by poll() or pollWaiting() or cancelled,
\* whatever the other tasks do, once the sketch no longer sets it anew and sleeps
\* are no longer interrupted, if the sketch polls at least every BYTE - 1
\* milliseconds.  ms100.poll() is "only reliable if poll() is called no later
\* than 255 millisecs after the timer has expired": a timer found 256 late is set
\* again and no tenth is counted.  The calls that return the tasks due at one
\* time can take that long together; only the tenth that they end may be lost.
TaskRuns ==
    MaxGap < BYTE =>
      \A i \in Task :
        <>[](ok = 1) /\ <>[][left'[i] <= left[i]]_vars => (i \in wanted ~> i \notin wanted)

=============================================================================
