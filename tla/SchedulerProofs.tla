--------------------------- MODULE SchedulerProofs ---------------------------
(***************************************************************************)
(* The scheduler of the Ports library for every number of tasks, word      *)
(* width and timer: no task is lost, none is returned earlier than the     *)
(* timer and the sleeps explain, and the 16-bit timer of a sketch that     *)
(* polls often enough is never mistaken for one that is still running.     *)
(***************************************************************************)
EXTENDS Scheduler, IntegerLemmas, FiniteSetTheorems

-----------------------------------------------------------------------------
(* The inductive invariants.                                               *)

\* A task that waits is due at a time that a word holds, counted from now, and
\* that is not longer than it was set to.
Table ==
    /\ left \in [Task -> Nat] /\ span \in [Task -> Nat] /\ wanted \subseteq Task
    /\ \A i \in Task : tasks[i] # IDLE => /\ remaining # IDLE /\ tasks[i] + remaining < IDLE
                                          /\ tasks[i] + remaining <= span[i]

\* pollWaiting() sleeps for a part of the countdown, or for nothing at its end,
\* and never uses ms100, which poll() alone starts.
Sleeping ==
    /\ mode = "pollWaiting" => ~ms100.armed
    /\ mode = "poll" => pc = "sketch"
    /\ pc # "sketch" => remaining # IDLE
    /\ pc = "poll" => remaining = 0
    /\ pc = "sleep" =>
         /\ nap.msleft <= nap.msecs /\ nap.step <= remaining
         /\ remaining > 0 => nap.step > 0 /\ nap.msecs = TENTH * nap.step

\* A running ms100 expires a tenth of a second after it was set, as far as a
\* word can tell.
TimerAge ==
    ms100.armed /\ age < WORD =>
      ms100.next - (millis + TENTH - 1 - age) \in {-WORD, 0, WORD}

\* What the sleeps since a task was set may have left out.
Unslept(i) == IF mode = "poll" THEN 0 ELSE (GRAIN - 1) * (span[i] - (tasks[i] + remaining))

\* A task is due when the countdown says so, or later by what the sleeps left out
\* or by what has passed of the current period of ms100.
Countdown ==
    \A i \in Task : tasks[i] # IDLE =>
      \/ left[i] <= TENTH * (tasks[i] + remaining) + Unslept(i)
      \/ ms100.armed /\ left[i] + age <= TENTH * (tasks[i] + remaining) + TENTH

\* How long ms100 can be left alone: for a call of poll() per task that is due
\* when the countdown ends, for one more that starts the next, and a gap.
Attended ==
    ms100.armed =>
      /\ remaining # IDLE
      /\ remaining = 0 => age <= MaxGap * (maxTasks - Cardinality(Ready)) + gap
      /\ remaining # 0 => \/ age <= TENTH - 1 + gap
                          \/ age <= MaxGap * (maxTasks + 1) + gap

\* The sketch calls poll() often enough for ms100 and for its number of tasks.
PollsOften ==
    /\ TENTH - 1 + MaxGap < TENTH + WORD - LATEST - 1
    /\ MaxGap * (maxTasks + 2) < TENTH + WORD - LATEST - 1

-----------------------------------------------------------------------------
(* Lemmas about the constants and the operators.                           *)

\* What the code's constants satisfy: ~0 is the last word, and it is no time.
LEMMA Words ==
    /\ WORD \in Nat \ {0} /\ IDLE \in Nat /\ IDLE = WORD - 1 /\ TENTH \in Nat \ {0}
    /\ LATEST \in Nat /\ TENTH <= LATEST /\ LATEST < IDLE
    /\ STEP_MAX \in Nat \ {0} /\ MaxGap \in Nat \ {0} /\ maxTasks \in Nat \ {0}
    /\ \A t \in Tenths : t \in Nat /\ t > 0 /\ t < IDLE
    /\ GRAIN \in Nat \ {0} /\ GRAIN - 1 \in Nat
<1>1. PICK h \in Nat \ {0} : GRAIN = 2 * h
  BY SchedulerAssumption
<1>2. GRAIN \in Nat \ {0} /\ GRAIN - 1 \in Nat
  BY <1>1
<1>3. QED
  BY <1>2, SchedulerAssumption DEF IDLE

\* Sleeps make a task early, never late.
LEMMA UnsleptNat ==
  ASSUME TypeOK, Table, NEW i \in Task, tasks[i] # IDLE
  PROVE  Unslept(i) \in Nat /\ tasks[i] + remaining \in Nat /\ span[i] \in Nat
<1>1. tasks[i] + remaining \in Nat /\ span[i] \in Nat /\ tasks[i] + remaining <= span[i]
  BY Words DEF TypeOK, Table
<1>2. PICK d \in Nat : d = span[i] - (tasks[i] + remaining)
  BY <1>1
<1>3. (GRAIN - 1) * d \in Nat
  <2>1. PICK g \in Nat : g = GRAIN - 1
    BY Words
  <2>2. g * d \in Nat
    OBVIOUS
  <2>3. QED
    BY <2>1, <2>2
<1>4. QED
  BY <1>1, <1>2, <1>3 DEF Unslept

\* The shortest time in the table is a task's, and no task's is shorter.
LEMMA LeastTask ==
  ASSUME TypeOK
  PROVE  LET least == Least({tasks[i] : i \in Task})
         IN /\ least \in 0 .. IDLE
            /\ \E i \in Task : least = tasks[i]
            /\ \A i \in Task : least <= tasks[i]
<1> DEFINE S == {tasks[i] : i \in Task}
<1>1. 0 \in Task
  BY Words DEF Task
<1>2. S # {} /\ tasks[0] \in S
  BY <1>1
<1>3. \A i \in Task : tasks[i] \in 0 .. IDLE
  BY DEF TypeOK
<1>4. S \subseteq Nat
  BY <1>3
<1>5. Least(S) = Min(S)
  BY <1>2 DEF Least
<1>6. Min(S) \in S /\ \A y \in S : Min(S) <= y
  BY <1>2, <1>4, MinNat
<1>7. QED
  BY <1>3, <1>5, <1>6

\* The first task that is due is one of the table.
LEMMA FirstReady ==
  ASSUME Ready # {}
  PROVE  Min(Ready) \in Task /\ tasks[Min(Ready)] = 0 /\ Min(Ready) \in Ready
<1>1. Ready \subseteq Nat
  BY Words DEF Ready, Task
<1>2. Min(Ready) \in Ready
  BY <1>1, MinNat
<1>3. QED
  BY <1>2 DEF Ready

\* The watchdog period that loseSomeTime() chooses fits into what is left.
LEMMA HalfFits ==
  ASSUME TypeOK, nap.msleft >= GRAIN
  PROVE  Half \in Nat /\ 2 * Half <= nap.msleft
<1> DEFINE S == {h \in Halves : 2 * h <= nap.msleft}
<1>1. nap.msleft \in Nat
  BY Words DEF TypeOK
<1>2. S \subseteq 0 .. nap.msleft
  <2>1. ASSUME NEW h \in S PROVE h \in 0 .. nap.msleft
    <3>1. h \in Nat /\ 2 * h <= nap.msleft
      BY SchedulerAssumption
    <3>2. QED
      BY <1>1, <3>1
  <2>2. QED
    BY <2>1
<1>3. S # {}
  BY SchedulerAssumption
<1>4. Max(S) \in S
  BY <1>1, <1>2, <1>3, MaxNat
<1>5. QED
  BY <1>1, <1>2, <1>4 DEF Half

\* Time that passes brings every task nearer, down to zero.
LEMMA PassedTimes ==
  ASSUME left \in [Task -> Nat], NEW ms \in Nat
  PROVE  /\ Passed(ms) \in [Task -> Nat]
         /\ \A i \in Task : /\ Passed(ms)[i] <= left[i]
                            /\ Passed(ms)[i] = 0 \/ Passed(ms)[i] = left[i] - ms
<1>1. ASSUME NEW i \in Task
      PROVE  /\ Passed(ms)[i] \in Nat /\ Passed(ms)[i] <= left[i]
             /\ Passed(ms)[i] = 0 \/ Passed(ms)[i] = left[i] - ms
  <2>1. left[i] \in Nat /\ left[i] - ms \in Int
    OBVIOUS
  <2>2. \A a, b \in Int : Max({a, b}) = IF a >= b THEN a ELSE b
    BY MinMaxPair, Zenon
  <2>3. Passed(ms)[i] = Max({left[i] - ms, 0})
    BY Zenon DEF Passed
  <2>4. Passed(ms)[i] = IF left[i] - ms >= 0 THEN left[i] - ms ELSE 0
    <3>1. 0 \in Int
      OBVIOUS
    <3>2. QED
      BY <2>1, <2>2, <2>3, <3>1, Zenon
  <2>5. QED
    BY <2>1, <2>4
<1>2. Passed(ms) \in [Task -> Nat]
  BY <1>1 DEF Passed
<1>3. QED
  BY <1>1, <1>2

\* The clock after a sleep stays a word, and the tasks that wait come nearer by
\* the time that was really slept.
LEMMA AdjustTimes ==
  ASSUME TypeOK, Table, NEW m \in 0 .. nap.msecs, Adjust(m), NEW slept \in Nat,
         left' = Passed(slept)
  PROVE  /\ millis' \in 0 .. WORD - 1 /\ age' \in 0 .. WORD /\ left' \in [Task -> Nat]
         /\ \A i \in Task : /\ left'[i] <= left[i]
                            /\ left'[i] = 0 \/ left'[i] = left[i] - slept
<1> DEFINE ms == nap.msecs - m
<1>1. nap.msecs \in Nat /\ m \in Nat /\ ms \in Nat
  BY Words DEF TypeOK
<1>2. millis \in Int /\ millis + ms \in Int /\ age \in Nat /\ age + ms \in Int
  BY <1>1, Words DEF TypeOK
<1>3. millis' \in 0 .. WORD - 1
  BY <1>2, Words, ModWrap DEF Adjust
<1>4. age' = IF ms100.armed THEN (IF age + ms <= WORD THEN age + ms ELSE WORD) ELSE 0
  BY <1>2, Words, MinMaxPair DEF Adjust, Aged
<1>5. QED
  BY <1>1, <1>2, <1>3, <1>4, Words, PassedTimes DEF Table

-----------------------------------------------------------------------------
(* The table of tasks.                                                     *)

\* A task that is returned or cancelled leaves the table; the others stay.
LEMMA TaskRemoved ==
  ASSUME TypeOK, Table, NoTaskLost, Countdown, NEW k \in Task,
         tasks' = [tasks EXCEPT ![k] = IDLE], wanted' = wanted \ {k},
         span' = [span EXCEPT ![k] = 0], left' = [left EXCEPT ![k] = 0],
         UNCHANGED <<remaining, ms100, age, mode>>
  PROVE  tasks' \in [Task -> 0 .. IDLE] /\ Table' /\ NoTaskLost' /\ Countdown'
<1>1. tasks \in [Task -> 0 .. IDLE] /\ left \in [Task -> Nat] /\ span \in [Task -> Nat]
  BY DEF TypeOK, Table
<1>2. /\ tasks'[k] = IDLE
      /\ \A i \in Task : i # k => /\ tasks'[i] = tasks[i] /\ left'[i] = left[i]
                                  /\ span'[i] = span[i]
  BY <1>1
<1>3. tasks' \in [Task -> 0 .. IDLE] /\ left' \in [Task -> Nat] /\ span' \in [Task -> Nat]
  BY <1>1, Words
<1>4. Table'
  BY <1>2, <1>3 DEF Table
<1>5. NoTaskLost'
  BY <1>2 DEF NoTaskLost, Waiting
<1>6. Countdown'
  BY <1>2 DEF Countdown, Unslept
<1>7. QED
  BY <1>3, <1>4, <1>5, <1>6

\* When the countdown starts anew, every task that waits keeps its time: what
\* is taken off its entry is the new countdown.
LEMMA RebaseTable ==
  ASSUME TypeOK, Table, NoTaskLost, Countdown, remaining = 0, Ready = {}, Rebase, mode' = mode
  PROVE  /\ tasks' \in [Task -> 0 .. IDLE] /\ remaining' \in 0 .. IDLE /\ remaining' # 0
         /\ Table' /\ NoTaskLost' /\ Countdown'
         /\ UNCHANGED age /\ (ms100' = ms100 \/ ms100' = TimerOff)
         /\ remaining' = IDLE => ms100' = TimerOff
<1> DEFINE least == Least({tasks[i] : i \in Task})
<1>1. /\ least \in 0 .. IDLE /\ remaining' = least
      /\ \E i \in Task : least = tasks[i]
      /\ \A i \in Task : least <= tasks[i]
  BY LeastTask DEF Rebase
<1> HIDE DEF least
<1>2. least # 0
  BY <1>1 DEF Ready
<1>3. \A i \in Task : tasks[i] \in 0 .. IDLE /\ left[i] \in Nat
  BY DEF TypeOK, Table
<1>4. \A i \in Task : tasks'[i] = IF tasks[i] # IDLE THEN tasks[i] - least ELSE IDLE
  BY DEF Rebase, Rebased, Waiting, least
<1>5. tasks' \in [Task -> 0 .. IDLE]
  <2>1. \A i \in Task : tasks'[i] \in 0 .. IDLE
    BY <1>1, <1>3, <1>4, Words
  <2>2. tasks' = [i \in Task |-> tasks'[i]]
    BY DEF Rebase, Rebased
  <2>3. QED
    BY <2>1, <2>2
<1>6. ASSUME NEW i \in Task
      PROVE  /\ tasks'[i] # IDLE <=> tasks[i] # IDLE
             /\ tasks[i] # IDLE => tasks'[i] + remaining' = tasks[i] + remaining
             /\ tasks[i] # IDLE => remaining' # IDLE
  BY <1>1, <1>2, <1>3, <1>4, Words
<1>7. least = IDLE <=> Waiting = {}
  BY <1>1, <1>3, Words DEF Waiting
<1>8. UNCHANGED <<wanted, span, left, age>> /\ ms100' = IF Waiting = {} THEN TimerOff ELSE ms100
  BY DEF Rebase
<1>9. Table'
  BY <1>6, <1>8 DEF Table
<1>10. NoTaskLost'
  BY <1>1, <1>6, <1>7, <1>8 DEF NoTaskLost, Waiting
<1>11. Countdown'
  <2>1. ASSUME NEW i \in Task, tasks'[i] # IDLE
        PROVE  ms100' = ms100 /\ tasks[i] # IDLE
    BY <1>6, <1>8, <2>1 DEF Waiting
  <2>2. QED
    BY <1>6, <1>8, <2>1 DEF Countdown, Unslept
<1>12. QED
  BY <1>1, <1>2, <1>5, <1>7, <1>8, <1>9, <1>10, <1>11

\* A task that is set is due after its time, and those set before it keep
\* theirs: what the countdown is shortened by is added to their entries, and
\* no entry overflows.
LEMMA TimerTable ==
  ASSUME TypeOK, Table, NoTaskLost, Countdown, NEW k \in Task, NEW t \in Tenths,
         timer(k, t), wanted' = wanted \cup {k}, span' = [span EXCEPT ![k] = t],
         left' = [left EXCEPT ![k] = t * TENTH], UNCHANGED <<ms100, age, mode>>
  PROVE  /\ tasks' \in [Task -> 0 .. IDLE] /\ remaining' \in 0 .. IDLE /\ remaining' # IDLE
         /\ Table' /\ NoTaskLost' /\ Countdown'
         /\ remaining' = 0 <=> remaining = 0
         /\ Ready' \subseteq Ready \cup {i \in Task : remaining # 0}
<1> DEFINE now == IF t < remaining THEN t ELSE remaining
<1>1. /\ remaining \in 0 .. IDLE /\ t \in Nat /\ t > 0 /\ t < IDLE
      /\ \A i \in Task : tasks[i] \in 0 .. IDLE /\ left[i] \in Nat
  BY Words DEF TypeOK, Table
<1>2. /\ now \in 0 .. IDLE /\ now <= t /\ now <= remaining /\ now # IDLE
      /\ now = 0 <=> remaining = 0
  BY <1>1, Words
<1>3. /\ remaining' = now
      /\ \A i \in Task : tasks'[i] = IF i = k THEN t - now
                                     ELSE IF tasks[i] # IDLE
                                       THEN (tasks[i] + (remaining - now)) % WORD ELSE IDLE
  BY DEF timer, Waiting
<1> HIDE DEF now
<1>4. ASSUME NEW i \in Task, i # k, tasks[i] # IDLE
      PROVE  /\ tasks'[i] = tasks[i] + (remaining - now) /\ tasks'[i] # IDLE
             /\ tasks'[i] + now = tasks[i] + remaining
  <2>1. tasks[i] + remaining < IDLE
    BY <1>4 DEF Table
  <2>2. /\ tasks[i] + (remaining - now) \in Int /\ 0 <= tasks[i] + (remaining - now)
        /\ tasks[i] + (remaining - now) < WORD
    BY <1>1, <1>2, <2>1, Words
  <2>3. (tasks[i] + (remaining - now)) % WORD = tasks[i] + (remaining - now)
    BY <2>2, Words, ModWrap
  <2>4. QED
    BY <1>1, <1>2, <1>3, <1>4, <2>1, <2>3, Words
<1>5. tasks'[k] = t - now /\ tasks'[k] \in 0 .. IDLE /\ tasks'[k] # IDLE
  BY <1>1, <1>2, <1>3, Words
<1>6. \A i \in Task : i # k /\ tasks[i] = IDLE => tasks'[i] = IDLE
  BY <1>3
<1>7. tasks' \in [Task -> 0 .. IDLE]
  <2>1. \A i \in Task : tasks'[i] \in 0 .. IDLE
    BY <1>1, <1>2, <1>4, <1>5, <1>6, Words DEF Table
  <2>2. tasks' = [i \in Task |-> tasks'[i]]
    BY DEF timer
  <2>3. QED
    BY <2>1, <2>2
<1>8. t * TENTH \in Nat /\ t * TENTH = TENTH * t
  BY <1>1, Words
<1>9. /\ left' \in [Task -> Nat] /\ left'[k] = TENTH * t
      /\ span' \in [Task -> Nat] /\ span'[k] = t
      /\ \A i \in Task : i # k => left'[i] = left[i] /\ span'[i] = span[i]
  BY <1>1, <1>8 DEF Table
<1>10. Table'
  BY <1>1, <1>2, <1>3, <1>4, <1>5, <1>6, <1>9 DEF Table
<1>11. NoTaskLost'
  BY <1>2, <1>3, <1>4, <1>5, <1>6 DEF NoTaskLost, Waiting
<1>12. Countdown'
  <2>1. tasks'[k] + remaining' = t
    BY <1>1, <1>2, <1>3, <1>5
  <2>2. left'[k] <= TENTH * (tasks'[k] + remaining') + Unslept(k)'
    <3>1. Unslept(k)' = 0
      <4>1. span'[k] - (tasks'[k] + remaining') = 0
        BY <1>1, <1>9, <2>1
      <4>2. QED
        BY <4>1, Words DEF Unslept
    <3>2. QED
      BY <1>1, <1>9, <2>1, <3>1, Words
  <2>3. ASSUME NEW i \in Task, i # k, tasks'[i] # IDLE
        PROVE  \/ left'[i] <= TENTH * (tasks'[i] + remaining') + Unslept(i)'
               \/ ms100'.armed /\ left'[i] + age' <= TENTH * (tasks'[i] + remaining') + TENTH
    <3>1. /\ tasks[i] # IDLE /\ tasks'[i] + remaining' = tasks[i] + remaining
          /\ left'[i] = left[i] /\ span'[i] = span[i]
      BY <1>3, <1>4, <1>6, <1>9, <2>3
    <3>2. Unslept(i)' = Unslept(i)
      BY <3>1 DEF Unslept
    <3>3. QED
      BY <3>1, <3>2 DEF Countdown
  <2>4. QED
    BY <2>2, <2>3 DEF Countdown
<1>13. Ready' \subseteq Ready \cup {i \in Task : remaining # 0}
  <2>1. ASSUME NEW i \in Task, tasks'[i] = 0, remaining = 0 PROVE tasks[i] = 0
    BY <1>1, <1>2, <1>4, <1>5, <1>6, <2>1, Words
  <2>2. QED
    BY <2>1 DEF Ready
<1>14. QED
  BY <1>2, <1>3, <1>7, <1>10, <1>11, <1>12, <1>13

-----------------------------------------------------------------------------
(* The millisecond timer.                                                  *)

\* What remains of a running ms100, as the code computes it in a word.
LEMMA RemainValue ==
  ASSUME TypeOK, TimerAge, ms100.armed, age < WORD
  PROVE  /\ Remain \in Nat
         /\ age < TENTH => Remain = TENTH - 1 - age
         /\ age >= TENTH => Remain = WORD + TENTH - 1 - age
<1>1. /\ ms100.next \in 0 .. WORD - 1 /\ millis \in 0 .. WORD - 1 /\ age \in Nat
      /\ ms100.next - millis \in Int
  BY DEF TypeOK
<1>2. ms100.next - (millis + TENTH - 1 - age) \in {-WORD, 0, WORD}
  BY DEF TimerAge
<1>3. /\ Remain \in 0 .. WORD - 1
      /\ 0 <= ms100.next - millis => Remain = ms100.next - millis
      /\ ms100.next - millis < 0 => Remain = ms100.next - millis + WORD
  <2>1. /\ WORD \in Nat \ {0} /\ ms100.next - millis \in Int
        /\ ms100.next - millis < WORD /\ -WORD <= ms100.next - millis
    BY <1>1, Words
  <2>2. QED
    BY <2>1, ModWrap DEF Remain
<1>4. QED
  BY <1>1, <1>2, <1>3, Words

\* ms100 does not expire before its time.
LEMMA ExpiresLate ==
  ASSUME TypeOK, TimerAge, Expired
  PROVE  age >= TENTH
<1>1. CASE age < WORD
  BY <1>1, RemainValue, Words DEF Expired, TypeOK
<1>2. CASE ~(age < WORD)
  BY <1>2, Words DEF TypeOK
<1>3. QED
  BY <1>1, <1>2

\* ms100 is seen to have expired when it is polled within the window that a word leaves.
LEMMA ExpiresInTime ==
  ASSUME TypeOK, TimerAge, ms100.armed, age >= TENTH, age < TENTH + WORD - LATEST - 1
  PROVE  Expired
<1>1. age < WORD /\ age \in Nat
  BY Words DEF TypeOK
<1>2. QED
  BY <1>1, RemainValue, Words DEF Expired

\* Each tenth that poll() takes off the countdown is a period of ms100; one that
\* it does not see (Expired, but not Fires) makes the tasks late.
LEMMA TenthTable ==
  ASSUME TypeOK, Table, NoTaskLost, Countdown, TimerAge, remaining \notin {0, IDLE},
         PollTimer, remaining' = remaining - IF Fires THEN 1 ELSE 0,
         UNCHANGED <<tasks, wanted, span, left, millis, mode>>, mode = "poll"
  PROVE  /\ remaining' \in 0 .. IDLE /\ remaining' # IDLE
         /\ ms100' \in [armed : BOOLEAN, next : 0 .. WORD - 1] /\ age' \in 0 .. WORD
         /\ Table' /\ NoTaskLost' /\ Countdown' /\ TimerAge'
<1>1. /\ remaining \in 0 .. IDLE /\ remaining # 0 /\ remaining # IDLE
      /\ \A i \in Task : tasks[i] \in 0 .. IDLE /\ left[i] \in Nat
      /\ millis \in 0 .. WORD - 1 /\ age \in 0 .. WORD
  BY DEF TypeOK, Table
<1>2. CASE ms100.armed /\ ~Expired
  <2>1. UNCHANGED <<ms100, age, remaining>>
    BY <1>1, <1>2, Words DEF PollTimer, Fires
  <2>2. NoTaskLost'
    BY <2>1 DEF NoTaskLost, Waiting
  <2>3. QED
    BY <1>1, <2>1, <2>2 DEF Table, Countdown, Unslept, TimerAge, TypeOK
<1>3. CASE ~(ms100.armed /\ ~Expired)
  <2>1. ms100' = Armed /\ age' = 0
    BY <1>3 DEF PollTimer
  <2>2. /\ Armed.armed /\ Armed.next = (millis + TENTH - 1) % WORD
        /\ Armed = [armed |-> Armed.armed, next |-> Armed.next]
    BY DEF Armed
  <2>3. millis + TENTH - 1 \in Int /\ 0 <= millis + TENTH - 1 /\ millis + TENTH - 1 < 2 * WORD
    BY <1>1, Words
  <2>4. /\ Armed.next \in 0 .. WORD - 1
        /\ Armed.next = millis + TENTH - 1 \/ Armed.next = millis + TENTH - 1 - WORD
    <3>0. PICK x \in Int : x = millis + TENTH - 1
      BY <2>3
    <3>1. WORD \in Nat \ {0} /\ x \in Int /\ 0 <= x /\ x < 2 * WORD
      BY <2>3, <3>0, Words
    <3>2. x % WORD \in 0 .. WORD - 1 /\ (x % WORD = x \/ x % WORD = x - WORD)
      <4>1. CASE x < WORD
        BY <3>1, <4>1, ModWrap
      <4>2. CASE x >= WORD
        BY <3>1, <4>2, ModWrap
      <4>3. QED
        BY <3>1, <4>1, <4>2
    <3>3. Armed.next = x % WORD
      BY <2>2, <3>0
    <3>4. QED
      BY <3>0, <3>1, <3>2, <3>3, <1>1, Words
  <2>5. ms100' \in [armed : BOOLEAN, next : 0 .. WORD - 1]
    BY <2>1, <2>2, <2>4
  <2>6. TimerAge'
    BY <1>1, <2>1, <2>4, Words DEF TimerAge
  <2>7. remaining' \in 0 .. IDLE /\ remaining' <= remaining /\ remaining' # IDLE
    BY <1>1, Words
  <2>8. Table'
    BY <1>1, <2>7, Words DEF Table
  <2>9. NoTaskLost'
    BY <2>7 DEF NoTaskLost, Waiting
  <2>10. Countdown'
    <3>1. SUFFICES ASSUME NEW i \in Task, tasks[i] # IDLE
                   PROVE  left[i] <= TENTH * (tasks[i] + remaining') + TENTH
      BY <2>1, <2>2, <1>1, Words DEF Countdown
    <3>2. left[i] <= TENTH * (tasks[i] + remaining)
      <4>1. ~ms100.armed \/ age >= TENTH
        BY <1>3, ExpiresLate
      <4>2. TENTH * (tasks[i] + remaining) \in Int
        BY <1>1, Words
      <4>3. QED
        BY <1>1, <3>1, <4>1, <4>2, Words DEF Countdown, Unslept
    <3>3. remaining' >= remaining - 1
      BY <1>1
    <3>4. TENTH * (tasks[i] + (remaining - 1)) <= TENTH * (tasks[i] + remaining')
      BY <1>1, <2>7, <3>3, Words, TimesMonotone
    <3>5. TENTH * (tasks[i] + (remaining - 1)) = TENTH * (tasks[i] + remaining) - TENTH
      BY <1>1, Words, TimesDistributes
    <3>6. TENTH * (tasks[i] + remaining') \in Int /\ TENTH * (tasks[i] + remaining) \in Int
      BY <1>1, <2>7, Words
    <3>7. QED
      BY <1>1, <3>2, <3>4, <3>5, <3>6, Words
  <2>11. QED
    BY <1>1, <2>1, <2>5, <2>6, <2>7, <2>8, <2>9, <2>10, Words
<1>4. QED
  BY <1>2, <1>3

\* A millisecond of the sketch brings the tasks nearer and ages ms100.
LEMMA TickTimes ==
  ASSUME TypeOK, Table, NoTaskLost, Countdown, TimerAge, Tick
  PROVE  /\ TypeOK' /\ Table' /\ NoTaskLost' /\ Countdown' /\ TimerAge'
         /\ age' <= age + 1 /\ gap' = IF gap < MaxGap THEN gap + 1 ELSE gap
         /\ gap < MaxGap \/ remaining = IDLE
<1>1. /\ \A i \in Task : tasks[i] \in 0 .. IDLE /\ left[i] \in Nat
      /\ ms100.next \in 0 .. WORD - 1
      /\ remaining \in 0 .. IDLE
      /\ millis \in 0 .. WORD - 1 /\ age \in 0 .. WORD /\ gap \in 0 .. MaxGap
  BY DEF TypeOK, Table
<1>2. age' = IF ms100.armed THEN (IF age + 1 <= WORD THEN age + 1 ELSE WORD) ELSE 0
  BY <1>1, Words, MinMaxPair DEF Tick, Aged
<1>3. gap' = IF gap < MaxGap THEN gap + 1 ELSE gap
  <2>1. gap' = IF gap + 1 <= MaxGap THEN gap + 1 ELSE MaxGap
    BY <1>1, Words, MinMaxPair DEF Tick
  <2>2. QED
    BY <1>1, <2>1, Words
<1>4. millis' = IF millis + 1 < WORD THEN millis + 1 ELSE 0
  <2>1. /\ WORD \in Nat \ {0} /\ millis + 1 \in Int /\ millis' = (millis + 1) % WORD
        /\ 0 <= millis + 1 /\ millis + 1 <= WORD
    BY <1>1, Words DEF Tick
  <2>2. CASE millis + 1 < WORD
    BY <2>1, <2>2, ModWrap
  <2>3. CASE millis + 1 = WORD
    <3>1. WORD % WORD = 0
      BY Words
    <3>2. QED
      BY <2>1, <2>3, <3>1
  <2>4. QED
    BY <2>1, <2>2, <2>3
<1>5. /\ left' \in [Task -> Nat]
      /\ \A i \in Task : /\ left'[i] <= left[i]
                         /\ left'[i] = 0 \/ left'[i] = left[i] - 1
  BY PassedTimes DEF Tick, Table
<1>6. UNCHANGED <<tasks, remaining, ms100, pc, nap, ok, mode, wanted, span>>
  BY DEF Tick, timers
<1>7. TypeOK'
  BY <1>1, <1>2, <1>3, <1>4, <1>6, Words DEF TypeOK
<1>8. Table' /\ NoTaskLost'
  BY <1>5, <1>6 DEF Table, NoTaskLost, Waiting
<1>9. TimerAge'
  BY <1>1, <1>2, <1>4, <1>6, Words DEF TimerAge
<1>10. Countdown'
  <2>1. SUFFICES ASSUME NEW i \in Task, tasks[i] # IDLE
                 PROVE  \/ left'[i] <= TENTH * (tasks[i] + remaining) + Unslept(i)
                        \/ ms100.armed /\ left'[i] + age' <= TENTH * (tasks[i] + remaining) + TENTH
    BY <1>6 DEF Countdown, Unslept
  <2>2. TENTH * (tasks[i] + remaining) \in Nat /\ Unslept(i) \in Nat
    BY <1>1, <2>1, UnsleptNat, Words
  <2>3. \/ left[i] <= TENTH * (tasks[i] + remaining) + Unslept(i)
        \/ ms100.armed /\ left[i] + age <= TENTH * (tasks[i] + remaining) + TENTH
    BY <2>1 DEF Countdown
  <2>4. QED
    BY <1>1, <1>2, <1>5, <2>2, <2>3, Words
<1>11. QED
  BY <1>1, <1>2, <1>3, <1>7, <1>8, <1>9, <1>10, Words DEF Tick

-----------------------------------------------------------------------------
(* The invariant of the table, the countdown and the sleep.                *)

SchedInv == TypeOK /\ Table /\ NoTaskLost /\ Countdown /\ TimerAge /\ Sleeping

\* poll() when the countdown has ended, from poll() or from pollWaiting().
LEMMA DueStep ==
  ASSUME SchedInv, pollDue, UNCHANGED <<millis, nap, ok, mode>>, gap' = 0, pc' = "sketch"
  PROVE  SchedInv' /\ remaining = 0 /\ UNCHANGED age
<1> USE DEF SchedInv
<1>1. CASE Ready # {}
  <2>1. Dispatch /\ remaining = 0 /\ Min(Ready) \in Task
    BY <1>1, FirstReady DEF pollDue
  <2>2. /\ tasks' \in [Task -> 0 .. IDLE] /\ Table' /\ NoTaskLost' /\ Countdown'
        /\ UNCHANGED <<remaining, ms100, age>>
    BY <2>1, TaskRemoved DEF Dispatch
  <2>3. TypeOK'
    BY <2>2, Words DEF TypeOK
  <2>4. TimerAge' /\ Sleeping'
    BY <2>2 DEF TimerAge, Sleeping
  <2>5. QED
    BY <2>1, <2>2, <2>3, <2>4
<1>2. CASE Ready = {}
  <2>1. Rebase /\ remaining = 0
    BY <1>2 DEF pollDue
  <2>2. /\ tasks' \in [Task -> 0 .. IDLE] /\ remaining' \in 0 .. IDLE
        /\ Table' /\ NoTaskLost' /\ Countdown'
        /\ UNCHANGED age /\ (ms100' = ms100 \/ ms100' = TimerOff)
    BY <1>2, <2>1, RebaseTable
  <2>3. /\ ms100' \in [armed : BOOLEAN, next : 0 .. WORD - 1]
        /\ ms100'.armed => ms100' = ms100
    BY <2>2 DEF TimerOff, TypeOK
  <2>4. TypeOK'
    BY <2>2, <2>3, Words DEF TypeOK
  <2>5. TimerAge' /\ Sleeping'
    BY <2>2, <2>3 DEF TimerAge, Sleeping
  <2>6. QED
    BY <2>1, <2>2, <2>4, <2>5
<1>3. QED
  BY <1>1, <1>2

\* A call of poll().
LEMMA CallPollStep ==
  ASSUME SchedInv, CallPoll
  PROVE  SchedInv'
<1> USE DEF SchedInv
<1>1. /\ pc = "sketch" /\ mode = "poll" /\ poll /\ gap' = 0
      /\ UNCHANGED <<millis, pc, nap, ok, mode>>
  BY DEF CallPoll
<1>2. CASE pollDue
  BY <1>1, <1>2, DueStep
<1>3. CASE remaining = IDLE /\ UNCHANGED <<timers, wanted, span, left, age>>
  <2>1. TypeOK'
    BY <1>1, <1>3, Words DEF TypeOK, timers
  <2>2. QED
    BY <1>1, <1>3, <2>1
       DEF timers, Table, NoTaskLost, Waiting, Countdown, Unslept, TimerAge, Sleeping
<1>4. CASE /\ remaining \notin {0, IDLE} /\ PollTimer
           /\ remaining' = remaining - IF Fires THEN 1 ELSE 0
           /\ UNCHANGED <<tasks, wanted, span, left>>
  <2>1. /\ remaining' \in 0 .. IDLE /\ remaining' # IDLE
        /\ ms100' \in [armed : BOOLEAN, next : 0 .. WORD - 1] /\ age' \in 0 .. WORD
        /\ Table' /\ NoTaskLost' /\ Countdown' /\ TimerAge'
    BY <1>1, <1>4, TenthTable
  <2>2. TypeOK'
    BY <1>1, <1>4, <2>1, Words DEF TypeOK
  <2>3. Sleeping'
    BY <1>1, <2>1 DEF Sleeping
  <2>4. QED
    BY <2>1, <2>2, <2>3
<1>5. QED
  BY <1>1, <1>2, <1>3, <1>4 DEF poll

\* Setting and cancelling a task.
LEMMA SketchStep ==
  ASSUME SchedInv, CallTimer \/ cancel
  PROVE  SchedInv'
<1> USE DEF SchedInv
<1>1. CASE CallTimer
  <2>1. PICK k \in Task, t \in Tenths :
          /\ timer(k, t) /\ wanted' = wanted \cup {k}
          /\ span' = [span EXCEPT ![k] = t] /\ left' = [left EXCEPT ![k] = t * TENTH]
    BY <1>1 DEF CallTimer
  <2>2. pc = "sketch" /\ UNCHANGED <<ms100, millis, pc, nap, ok, mode, age, gap>>
    BY <1>1 DEF CallTimer
  <2>3. /\ tasks' \in [Task -> 0 .. IDLE] /\ remaining' \in 0 .. IDLE /\ remaining' # IDLE
        /\ Table' /\ NoTaskLost' /\ Countdown'
    BY <2>1, <2>2, TimerTable
  <2>4. QED
    BY <2>2, <2>3 DEF TypeOK, TimerAge, Sleeping
<1>2. CASE cancel
  <2>1. PICK k \in Task : /\ tasks' = [tasks EXCEPT ![k] = IDLE] /\ wanted' = wanted \ {k}
                          /\ span' = [span EXCEPT ![k] = 0]
                          /\ left' = [left EXCEPT ![k] = 0]
    BY <1>2 DEF cancel
  <2>2. pc = "sketch" /\ UNCHANGED <<remaining, ms100, millis, pc, nap, ok, mode, age, gap>>
    BY <1>2 DEF cancel
  <2>3. tasks' \in [Task -> 0 .. IDLE] /\ Table' /\ NoTaskLost' /\ Countdown'
    BY <2>1, <2>2, TaskRemoved
  <2>4. QED
    BY <2>2, <2>3 DEF TypeOK, TimerAge, Sleeping
<1>3. QED
  BY <1>1, <1>2

\* What pollWaiting() asks loseSomeTime() for.
LEMMA DozeNap ==
  ASSUME SchedInv, Doze
  PROVE  /\ nap' \in [msecs : 0 .. WORD - 1, msleft : 0 .. WORD - 1, step : 0 .. STEP_MAX]
         /\ nap'.msleft = nap'.msecs /\ nap'.step <= remaining
         /\ remaining > 0 => nap'.step > 0 /\ nap'.msecs = TENTH * nap'.step
<1> DEFINE step == IF remaining > STEP_MAX THEN STEP_MAX ELSE remaining
           ms == IF remaining > 0 THEN TENTH * step ELSE TimerRemaining
<1>1. nap' = [msecs |-> ms, msleft |-> ms, step |-> step]
  BY DEF Doze
<1>2. remaining \in Nat /\ millis \in Int /\ ms100.next \in Int
  BY Words DEF SchedInv, TypeOK
<1>3. /\ step \in 0 .. STEP_MAX /\ step <= remaining
      /\ remaining > 0 => step > 0
  BY <1>2, Words
<1>4. ms \in 0 .. WORD - 1
  <2>1. CASE remaining > 0
    <3>1. TENTH * step <= TENTH * STEP_MAX /\ TENTH * step \in Nat
      BY <1>3, Words, TimesMonotone
    <3>2. TENTH * STEP_MAX < WORD
      BY SchedulerAssumption
    <3>3. QED
      BY <2>1, <3>1, <3>2, Words
  <2>2. CASE ~(remaining > 0)
    <3>1. WORD \in Nat \ {0} /\ ms100.next - millis \in Int
      BY <1>2, Words
    <3>2. Remain \in 0 .. WORD - 1
      BY <3>1, ModWrap DEF Remain
    <3>3. QED
      BY <2>2, <3>2, Words DEF TimerRemaining
  <2>3. QED
    BY <2>1, <2>2
<1> HIDE DEF step, ms
<1>5. QED
  <2>1. remaining > 0 => ms = TENTH * step
    BY DEF ms
  <2>2. QED
    BY <1>1, <1>2, <1>3, <1>4, <2>1

\* The sleep of pollWaiting().
LEMMA SleepStep ==
  ASSUME SchedInv, CallPollWaiting \/ Doze \/ WatchdogEvent
  PROVE  SchedInv'
<1> USE DEF SchedInv
<1>1. CASE CallPollWaiting
  BY <1>1 DEF CallPollWaiting, timers, TypeOK, Table, NoTaskLost, Waiting, Countdown, Unslept,
              TimerAge, Sleeping
<1>2. CASE Doze
  <2>1. /\ pc = "wait" /\ pc' = "sleep"
        /\ UNCHANGED <<timers, millis, ok, mode, wanted, span, left, age, gap>>
    BY <1>2 DEF Doze
  <2>2. TypeOK'
    BY <1>2, <2>1, DozeNap DEF TypeOK, timers
  <2>3. Sleeping'
    BY <1>2, <2>1, DozeNap, Words DEF Sleeping, timers, TypeOK
  <2>4. QED
    BY <2>1, <2>2, <2>3 DEF timers, Table, NoTaskLost, Waiting, Countdown, Unslept, TimerAge
<1>3. CASE WatchdogEvent
  <2>1. /\ pc = "sleep" /\ nap.msleft >= GRAIN /\ nap' = [nap EXCEPT !.msleft = @ - 2 * Half]
        /\ UNCHANGED <<timers, millis, pc, ok, mode, wanted, span, left, age, gap>>
    BY <1>3 DEF WatchdogEvent
  <2>2. nap \in [msecs : 0 .. WORD - 1, msleft : 0 .. WORD - 1, step : 0 .. STEP_MAX]
    BY DEF TypeOK
  <2>3. nap.msleft - 2 * Half \in 0 .. nap.msleft
    BY <2>1, <2>2, HalfFits, Words
  <2>4. /\ nap' \in [msecs : 0 .. WORD - 1, msleft : 0 .. WORD - 1, step : 0 .. STEP_MAX]
        /\ nap'.msecs = nap.msecs /\ nap'.step = nap.step /\ nap'.msleft <= nap.msleft
    BY <2>1, <2>2, <2>3, Words
  <2>5. TypeOK'
    BY <2>1, <2>4 DEF TypeOK, timers
  <2>6. Sleeping'
    BY <2>1, <2>2, <2>4, Words DEF Sleeping, timers
  <2>7. QED
    BY <2>1, <2>5, <2>6 DEF timers, Table, NoTaskLost, Waiting, Countdown, Unslept, TimerAge
<1>4. QED
  BY <1>1, <1>2, <1>3

\* The end of a sleep: the countdown loses the tenths that were slept.
LEMMA WakeStep ==
  ASSUME SchedInv, Awake \/ Interrupted
  PROVE  SchedInv'
<1> USE DEF SchedInv
<1>1. pc = "sleep" /\ nap' = NoNap /\ UNCHANGED <<tasks, ms100, mode, wanted, span, gap>>
  BY DEF Awake, Interrupted, timers
<1>2. /\ nap.msecs \in Nat /\ nap.msleft \in Nat /\ nap.step \in Nat
      /\ nap.msleft <= nap.msecs /\ nap.step <= remaining
      /\ remaining > 0 => nap.step > 0 /\ nap.msecs = TENTH * nap.step
      /\ remaining \in 0 .. IDLE /\ remaining # IDLE
  BY <1>1, Words DEF TypeOK, Sleeping
<1>3. ~ms100.armed /\ mode = "pollWaiting"
  BY <1>1 DEF Sleeping, TypeOK
<1>4. \A i \in Task : tasks[i] \in 0 .. IDLE /\ left[i] \in Nat
  BY DEF TypeOK, Table
<1>5. CASE Awake
  <2>1. /\ ok' = 1 /\ pc' = IF nap.step > 0 THEN "wait" ELSE "poll"
        /\ nap.msleft < GRAIN /\ Adjust(nap.msleft) /\ left' = Passed(nap.msecs - nap.msleft)
        /\ remaining' = IF nap.step > 0 THEN remaining - nap.step ELSE remaining
    BY <1>5 DEF Awake, Taken
  <2>2. /\ millis' \in 0 .. WORD - 1 /\ age' \in 0 .. WORD /\ left' \in [Task -> Nat]
        /\ \A i \in Task : /\ left'[i] <= left[i]
                           /\ left'[i] = 0 \/ left'[i] = left[i] - (nap.msecs - nap.msleft)
    <3>1. nap.msleft \in 0 .. nap.msecs /\ nap.msecs - nap.msleft \in Nat
      BY <1>2
    <3>2. QED
      BY <2>1, <3>1, AdjustTimes
  <2>3. remaining' \in 0 .. IDLE /\ remaining' <= remaining /\ remaining' # IDLE
    <3>1. remaining' = IF nap.step > 0 THEN remaining - nap.step ELSE remaining
      BY <2>1
    <3>2. QED
      BY <1>2, <3>1, Words
  <2>4. TypeOK'
    BY <1>1, <2>1, <2>2, <2>3, Words DEF TypeOK, NoNap
  <2>5. Table'
    BY <1>1, <1>2, <1>4, <2>2, <2>3, Words DEF Table
  <2>6. NoTaskLost'
    BY <1>1, <2>3 DEF NoTaskLost, Waiting
  <2>7. Sleeping' /\ TimerAge'
    BY <1>1, <1>2, <1>3, <2>1, <2>3 DEF Sleeping, TimerAge
  <2>8. Countdown'
    <3>1. SUFFICES ASSUME NEW i \in Task, tasks[i] # IDLE
                   PROVE  left'[i] <= TENTH * (tasks[i] + remaining')
                                        + (GRAIN - 1) * (span[i] - (tasks[i] + remaining'))
      BY <1>1, <1>3 DEF Countdown, Unslept
    <3> DEFINE due == tasks[i] + remaining
    <3>2. due \in Nat /\ span[i] \in Nat /\ Unslept(i) = (GRAIN - 1) * (span[i] - due)
      BY <1>3, <3>1, UnsleptNat DEF Unslept
    <3>3. left[i] <= TENTH * due + (GRAIN - 1) * (span[i] - due)
      BY <1>3, <3>1, <3>2 DEF Countdown
    <3>4. CASE nap.step > 0
      <4>1. nap.msecs = TENTH * nap.step /\ remaining' = remaining - nap.step
        BY <1>2, <2>1, <3>4
      <4>2. tasks[i] + remaining' = due - nap.step /\ span[i] - due \in Int
        <5>1. tasks[i] \in Int /\ remaining \in Int /\ nap.step \in Int
          BY <1>2, <1>4, <3>1, Words
        <5>2. tasks[i] + remaining' = due - nap.step
          BY <4>1, <5>1
        <5>3. QED
          BY <3>2, <5>2
      <4>3. TENTH * (tasks[i] + remaining') = TENTH * due - nap.msecs /\ TENTH * due \in Int
        <5>1. TENTH \in Int /\ due \in Int /\ nap.step \in Int
          BY <1>2, <3>2, Words
        <5>2. TENTH * (due - nap.step) = TENTH * due - TENTH * nap.step /\ TENTH * due \in Int
          BY <5>1, TimesDistributes
        <5>3. QED
          BY <4>1, <4>2, <5>2
      <4>4. /\ (GRAIN - 1) * (span[i] - (tasks[i] + remaining'))
                 = (GRAIN - 1) * (span[i] - due) + (GRAIN - 1) * nap.step
            /\ (GRAIN - 1) * (span[i] - due) \in Int /\ (GRAIN - 1) * nap.step \in Int
        <5>1. span[i] - (tasks[i] + remaining') = (span[i] - due) + nap.step
          BY <1>2, <3>2, <4>2
        <5>2. GRAIN - 1 \in Int /\ nap.step \in Int
          BY <1>2, Words
        <5>3. QED
          BY <4>2, <5>1, <5>2, TimesDistributes
      <4>5. GRAIN - 1 <= (GRAIN - 1) * nap.step
        <5>1. PICK g \in Nat : g = GRAIN - 1
          BY Words
        <5>2. g * 1 <= g * nap.step
          BY <1>2, <3>4, TimesMonotone
        <5>3. QED
          BY <5>1, <5>2
      <4>6. nap.msleft <= GRAIN - 1
        BY <1>2, <2>1, Words
      <4>7. left[i] \in Nat /\ 0 <= TENTH * (tasks[i] + remaining')
        BY <1>2, <1>4, <2>3, <3>1, Words
      <4>8. 0 <= (GRAIN - 1) * (span[i] - due)
        BY <1>3, <3>1, <3>2, UnsleptNat
      <4>9. left'[i] \in Nat /\ (left'[i] = 0 \/ left'[i] = left[i] - (nap.msecs - nap.msleft))
        BY <2>2, <3>1
      <4> DEFINE x == TENTH * due
                 y == (GRAIN - 1) * (span[i] - due)
                 z == (GRAIN - 1) * nap.step
      <4>10. /\ x \in Int /\ y \in Int /\ z \in Int
             /\ left[i] <= x + y /\ 0 <= x - nap.msecs /\ 0 <= y /\ nap.msleft <= z
        <5>1. x \in Int /\ y \in Int /\ z \in Int
          BY <4>3, <4>4
        <5>2. left[i] <= x + y /\ 0 <= x - nap.msecs /\ 0 <= y
          BY <3>3, <4>3, <4>7, <4>8
        <5>3. GRAIN - 1 <= z /\ GRAIN - 1 \in Int
          BY <4>5, Words
        <5> HIDE DEF z
        <5>4. nap.msleft <= z
          BY <1>2, <4>6, <5>1, <5>3
        <5>5. QED
          BY <5>1, <5>2, <5>4
      <4>11. /\ TENTH * (tasks[i] + remaining') = x - nap.msecs
             /\ (GRAIN - 1) * (span[i] - (tasks[i] + remaining')) = y + z
        BY <4>3, <4>4
      <4> HIDE DEF x, y, z
      <4>12. left'[i] <= (x - nap.msecs) + (y + z)
        BY <1>2, <4>7, <4>9, <4>10
      <4>13. QED
        BY <4>11, <4>12
    <3>5. CASE ~(nap.step > 0)
      <4>1. remaining' = remaining
        BY <1>2, <2>1, <3>5
      <4>2. left'[i] <= left[i] /\ left'[i] \in Nat /\ left[i] \in Nat
        BY <1>4, <2>2, <3>1
      <4>3. TENTH * due \in Int /\ (GRAIN - 1) * (span[i] - due) \in Int
        BY <3>2, Words
      <4>4. QED
        BY <3>3, <4>1, <4>2, <4>3
    <3>6. QED
      BY <3>4, <3>5
  <2>9. QED
    BY <2>4, <2>5, <2>6, <2>7, <2>8
<1>6. CASE Interrupted
  <2>1. /\ ok' = 0 /\ pc' = "sketch" /\ remaining' = remaining
        /\ nap.msleft >= GRAIN /\ Adjust(nap.msleft - Half)
        /\ \E part \in 0 .. 2 * Half : left' = Passed(nap.msecs - nap.msleft + part)
    BY <1>6 DEF Interrupted, timers
  <2>2. /\ millis' \in 0 .. WORD - 1 /\ age' \in 0 .. WORD /\ left' \in [Task -> Nat]
        /\ \A i \in Task : left'[i] <= left[i]
    <3>1. Half \in Nat /\ 2 * Half <= nap.msleft
      BY <2>1, HalfFits
    <3>2. nap.msleft - Half \in 0 .. nap.msecs
      BY <1>2, <3>1
    <3>3. PICK part \in 0 .. 2 * Half : left' = Passed(nap.msecs - nap.msleft + part)
      BY <2>1
    <3>4. nap.msecs - nap.msleft + part \in Nat
      BY <1>2, <3>1
    <3>5. QED
      BY <2>1, <3>2, <3>3, <3>4, AdjustTimes
  <2>3. TypeOK'
    BY <1>1, <2>1, <2>2, Words DEF TypeOK, NoNap
  <2>4. Table' /\ NoTaskLost'
    BY <1>1, <2>1, <2>2 DEF Table, NoTaskLost, Waiting
  <2>5. Sleeping' /\ TimerAge'
    BY <1>1, <1>3, <2>1 DEF Sleeping, TimerAge
  <2>6. Countdown'
    <3>1. SUFFICES ASSUME NEW i \in Task, tasks[i] # IDLE
                   PROVE  left'[i] <= TENTH * (tasks[i] + remaining) + Unslept(i)
      BY <1>1, <2>1 DEF Countdown, Unslept
    <3>2. left[i] <= TENTH * (tasks[i] + remaining) + Unslept(i)
      BY <1>3, <3>1 DEF Countdown
    <3>3. TENTH * (tasks[i] + remaining) \in Nat /\ Unslept(i) \in Nat
      BY <1>2, <1>4, <3>1, UnsleptNat, Words
    <3>4. QED
      BY <1>4, <2>2, <3>2, <3>3
  <2>7. QED
    BY <2>3, <2>4, <2>5, <2>6
<1>7. QED
  BY <1>5, <1>6

\* Every step keeps the invariant.
LEMMA SchedStep ==
  ASSUME SchedInv, [Next]_vars
  PROVE  SchedInv'
<1>1. CASE CallPoll
  BY <1>1, CallPollStep
<1>2. CASE CallTimer \/ cancel
  BY <1>2, SketchStep
<1>3. CASE CallPollWaiting \/ Doze \/ WatchdogEvent
  BY <1>3, SleepStep
<1>4. CASE Awake \/ Interrupted
  BY <1>4, WakeStep
<1>5. CASE WaitingPoll
  BY <1>5, DueStep DEF WaitingPoll
<1>6. CASE Tick
  <2>1. TypeOK' /\ Table' /\ NoTaskLost' /\ Countdown' /\ TimerAge'
    BY <1>6, TickTimes DEF SchedInv
  <2>2. Sleeping'
    BY <1>6 DEF Tick, SchedInv, Sleeping, timers
  <2>3. QED
    BY <2>1, <2>2 DEF SchedInv
<1>7. CASE UNCHANGED vars
  BY <1>7 DEF vars, timers, SchedInv, TypeOK, Table, NoTaskLost, Waiting, Countdown, Unslept,
              TimerAge, Sleeping
<1>8. QED
  BY <1>1, <1>2, <1>3, <1>4, <1>5, <1>6, <1>7 DEF Next, Library

\* The table is empty and the countdown stopped at the start.
LEMMA SchedInit == Init => SchedInv
<1> SUFFICES ASSUME Init PROVE SchedInv
  OBVIOUS
<1>1. \A i \in Task : tasks[i] = IDLE /\ left[i] = 0 /\ span[i] = 0
  BY DEF Init
<1>2. TypeOK
  BY Words DEF Init, TypeOK, NoNap
<1>3. Table
  BY <1>1 DEF Init, Table
<1>4. NoTaskLost
  BY <1>1 DEF Init, NoTaskLost, Waiting
<1>5. Countdown /\ TimerAge /\ Sleeping
  BY <1>1 DEF Init, Countdown, TimerAge, Sleeping
<1>6. QED
  BY <1>2, <1>3, <1>4, <1>5 DEF SchedInv

\* The invariant holds in every reachable state.
LEMMA SchedHolds == Spec => []SchedInv
  BY SchedInit, SchedStep, PTL DEF Spec

\* Scheduler.TypeOK: entries, countdown and timer stay words, and what
\* pollWaiting() takes off the countdown never makes it negative.
THEOREM TypeCorrect == Spec => []TypeOK
  BY SchedHolds, PTL DEF SchedInv

\* Scheduler.NoTaskLost: however timer(), cancel() and poll() shift the table
\* against the countdown, the tasks in it are those that were set and not yet
\* returned, and poll() says "all idle" only when there is none.
THEOREM NoTaskLostTheorem == Spec => []NoTaskLost
  BY SchedHolds, PTL DEF SchedInv

\* Scheduler.NotEarly: poll() returns no task more than a tenth of a second
\* early, and pollWaiting() none by more than GRAIN - 1 milliseconds for each
\* tenth that it was set to, for every word width, sleep and interrupt, however
\* many other tasks are returned in between.
THEOREM NotEarlyTheorem == Spec => []NotEarly
<1>1. SchedInv => NotEarly
  <2>1. SUFFICES ASSUME SchedInv, remaining # IDLE, NEW i \in Waiting
                 PROVE  LET due == tasks[i] + remaining
                        IN left[i] <= TENTH * due + Slack(i, due)
    BY DEF NotEarly
  <2>2. /\ i \in Task /\ tasks[i] # IDLE /\ tasks[i] \in Nat /\ left[i] \in Nat
        /\ remaining \in Nat /\ age \in Nat
    BY <2>1, Words DEF Waiting, SchedInv, TypeOK, Table
  <2>3. TENTH * (tasks[i] + remaining) \in Nat
    BY <2>2, Words
  <2>4. \/ left[i] <= TENTH * (tasks[i] + remaining) + Unslept(i)
        \/ ms100.armed /\ left[i] + age <= TENTH * (tasks[i] + remaining) + TENTH
    BY <2>1, <2>2 DEF SchedInv, Countdown
  <2>5. ms100.armed => mode = "poll"
    BY <2>1 DEF SchedInv, Sleeping, TypeOK
  <2>6. Slack(i, tasks[i] + remaining) = IF mode = "poll" THEN TENTH ELSE Unslept(i)
    BY DEF Slack, Unslept
  <2>7. mode = "poll" => Unslept(i) = 0
    BY DEF Unslept
  <2>8. QED
    BY <2>2, <2>3, <2>4, <2>5, <2>6, <2>7, Words
<1>2. QED
  BY <1>1, SchedHolds, PTL

-----------------------------------------------------------------------------
(* The window in which ms100 must be polled.                               *)

\* The tasks that are due, before and after a step, are some of the table's.
LEMMA ReadyCount ==
  /\ IsFiniteSet(Ready) /\ Cardinality(Ready) \in 0 .. maxTasks
  /\ IsFiniteSet(Ready') /\ Cardinality(Ready') \in 0 .. maxTasks
<1>1. IsFiniteSet(Task) /\ Cardinality(Task) = maxTasks
  BY Words, FS_Interval DEF Task
<1>2. ASSUME NEW S \in SUBSET Task
      PROVE  IsFiniteSet(S) /\ Cardinality(S) \in 0 .. maxTasks
  <2>1. IsFiniteSet(S) /\ Cardinality(S) <= maxTasks
    BY <1>1, FS_Subset
  <2>2. Cardinality(S) \in Nat
    BY <2>1, FS_CardinalityType
  <2>3. QED
    BY <2>1, <2>2, Words
<1>3. Ready \in SUBSET Task /\ Ready' \in SUBSET Task
  BY DEF Ready
<1>4. QED
  BY <1>2, <1>3

\* The fewer tasks are left to return, the longer ms100 may have been waiting.
LEMMA FewerReady ==
  ASSUME Ready' \subseteq Ready
  PROVE  MaxGap * (maxTasks - Cardinality(Ready)) <= MaxGap * (maxTasks - Cardinality(Ready'))
<1>1. IsFiniteSet(Ready) /\ Cardinality(Ready) \in Nat
  BY ReadyCount
<1>2. IsFiniteSet(Ready') /\ Cardinality(Ready') <= Cardinality(Ready)
  BY <1>1, FS_Subset
<1>3. Cardinality(Ready') \in Nat
  BY <1>2, FS_CardinalityType
<1>4. maxTasks - Cardinality(Ready) <= maxTasks - Cardinality(Ready')
  BY <1>1, <1>2, <1>3, Words
<1>5. QED
  BY <1>1, <1>3, <1>4, Words, TimesMonotone

\* A timer that is attended is not mistaken for one that is still running.
LEMMA AttendedInWindow ==
  ASSUME PollsOften, SchedInv, Attended
  PROVE  NeverStale
<1>1. age \in Nat /\ gap \in 0 .. MaxGap /\ MaxGap \in Nat
  BY Words DEF SchedInv, TypeOK
<1>2. /\ MaxGap * (maxTasks + 2) = MaxGap * maxTasks + 2 * MaxGap
      /\ MaxGap * (maxTasks + 1) = MaxGap * maxTasks + MaxGap
      /\ MaxGap * maxTasks \in Nat
  BY Words
<1>3. MaxGap * (maxTasks - Cardinality(Ready)) <= MaxGap * maxTasks
  BY ReadyCount, Words, TimesMonotone
<1>4. MaxGap * (maxTasks - Cardinality(Ready)) \in Int
  BY ReadyCount, Words
<1>5. SUFFICES ASSUME ms100.armed PROVE age < TENTH + WORD - LATEST - 1
  BY DEF NeverStale
<1>6. CASE remaining = 0
  BY <1>1, <1>2, <1>3, <1>4, <1>5, <1>6, Words DEF Attended, PollsOften
<1>7. CASE remaining # 0
  BY <1>1, <1>2, <1>5, <1>7, Words DEF Attended, PollsOften
<1>8. QED
  BY <1>6, <1>7

\* A call of poll() at the end of the countdown leaves ms100 attended.
LEMMA AttendedDue ==
  ASSUME SchedInv, Attended, pollDue, gap' = 0, mode' = mode
  PROVE  Attended'
<1> USE DEF SchedInv
<1>1. remaining = 0 /\ age \in Nat /\ gap \in 0 .. MaxGap /\ Cardinality(Ready) \in 0 .. maxTasks
  BY ReadyCount, Words DEF pollDue, TypeOK
<1>2. CASE Ready # {}
  <2>1. UNCHANGED <<remaining, ms100, age>> /\ tasks' = [tasks EXCEPT ![Min(Ready)] = IDLE]
    BY <1>2 DEF pollDue, Dispatch
  <2>2. Ready' = Ready \ {Min(Ready)}
    BY <1>2, <2>1, FirstReady, Words DEF Ready, TypeOK
  <2>3. Cardinality(Ready') = Cardinality(Ready) - 1
    BY <1>2, <2>2, ReadyCount, FirstReady, FS_RemoveElement
  <2>4. MaxGap * (maxTasks - Cardinality(Ready'))
          = MaxGap * (maxTasks - Cardinality(Ready)) + MaxGap
    BY <1>1, <2>3, Words
  <2>5. MaxGap * (maxTasks - Cardinality(Ready)) \in Int
    BY <1>1, Words
  <2>6. ms100.armed => age <= MaxGap * (maxTasks - Cardinality(Ready')) + 0
    BY <1>1, <2>4, <2>5, Words DEF Attended
  <2>7. QED
    BY <1>1, <2>1, <2>6, Words DEF Attended
<1>3. CASE Ready = {}
  <2>1. Rebase
    BY <1>3 DEF pollDue
  <2>2. /\ remaining' # 0 /\ UNCHANGED age /\ (ms100' = ms100 \/ ms100' = TimerOff)
        /\ remaining' = IDLE => ms100' = TimerOff
    BY <1>1, <1>3, <2>1, RebaseTable
  <2>3. ~TimerOff.armed
    BY DEF TimerOff, TypeOK
  <2>4. ms100.armed => age <= MaxGap * (maxTasks + 1) + 0
    <3>1. Cardinality(Ready) = 0
      BY <1>3, FS_EmptySet
    <3>2. MaxGap * (maxTasks + 1) = MaxGap * (maxTasks - 0) + MaxGap /\ MaxGap * (maxTasks - 0) \in Int
      BY Words
    <3>3. QED
      BY <1>1, <3>1, <3>2, Words DEF Attended
  <2>5. QED
    BY <2>2, <2>3, <2>4 DEF Attended
<1>4. QED
  BY <1>2, <1>3

\* Every step leaves ms100 attended, if the sketch polls often enough.
LEMMA AttendedStep ==
  ASSUME PollsOften, SchedInv, Attended, [Next]_vars
  PROVE  Attended'
<1> USE DEF SchedInv
<1>1. SchedInv' /\ NeverStale
  BY SchedStep, AttendedInWindow
<1>2. age \in Nat /\ gap \in 0 .. MaxGap /\ TENTH \in Nat \ {0} /\ remaining \in 0 .. IDLE
  BY Words DEF TypeOK
<1>3. CASE CallPoll
  <2>1. gap' = 0 /\ mode' = mode
    BY <1>3 DEF CallPoll
  <2>2. CASE pollDue
    BY <2>1, <2>2, AttendedDue
  <2>3. CASE remaining = IDLE /\ UNCHANGED <<timers, wanted, span, left, age>>
    BY <2>3 DEF timers, Attended
  <2>4. CASE /\ remaining \notin {0, IDLE} /\ PollTimer
             /\ remaining' = remaining - IF Fires THEN 1 ELSE 0
    <3>1. remaining' # IDLE
      BY <1>2, <2>4, Words
    <3>2. CASE ms100.armed /\ ~Expired
      <4>1. UNCHANGED <<ms100, age, remaining>>
        BY <1>2, <2>4, <3>2 DEF PollTimer, Fires
      <4>2. age <= TENTH - 1
        BY <1>1, <1>2, <3>2, ExpiresInTime, Words DEF NeverStale
      <4>3. QED
        BY <1>2, <2>1, <2>4, <4>1, <4>2 DEF Attended
    <3>3. CASE ~(ms100.armed /\ ~Expired)
      <4>1. age' = 0
        BY <2>4, <3>3 DEF PollTimer
      <4>2. IsFiniteSet(Ready') /\ Cardinality(Ready') \in 0 .. maxTasks
        BY ReadyCount
      <4>3. MaxGap * (maxTasks - Cardinality(Ready')) \in Nat
        BY <4>2, Words
      <4>4. QED
        BY <1>2, <2>1, <3>1, <4>1, <4>3 DEF Attended
    <3>4. QED
      BY <3>2, <3>3
  <2>5. QED
    BY <1>3, <2>2, <2>3, <2>4 DEF CallPoll, poll
<1>4. CASE CallTimer
  <2>1. PICK k \in Task, t \in Tenths :
          /\ timer(k, t) /\ wanted' = wanted \cup {k}
          /\ span' = [span EXCEPT ![k] = t] /\ left' = [left EXCEPT ![k] = t * TENTH]
    BY <1>4 DEF CallTimer
  <2>2. UNCHANGED <<ms100, age, gap, mode>>
    BY <1>4 DEF CallTimer
  <2>3. /\ remaining' # IDLE /\ (remaining' = 0 <=> remaining = 0)
        /\ Ready' \subseteq Ready \cup {i \in Task : remaining # 0}
    BY <2>1, <2>2, TimerTable
  <2>4. CASE remaining = 0
    <3>1. Ready' \subseteq Ready
      BY <2>3, <2>4
    <3>2. MaxGap * (maxTasks - Cardinality(Ready)) <= MaxGap * (maxTasks - Cardinality(Ready'))
      BY <3>1, FewerReady
    <3>3. /\ MaxGap * (maxTasks - Cardinality(Ready)) \in Int
          /\ MaxGap * (maxTasks - Cardinality(Ready')) \in Int
      <4>1. Cardinality(Ready) \in 0 .. maxTasks /\ Cardinality(Ready') \in 0 .. maxTasks
        BY ReadyCount
      <4>2. QED
        BY <4>1, Words
    <3>4. QED
      BY <1>2, <2>2, <2>3, <2>4, <3>2, <3>3 DEF Attended
  <2>5. CASE remaining # 0
    BY <2>2, <2>3, <2>5 DEF Attended
  <2>6. QED
    BY <2>4, <2>5
<1>5. CASE cancel
  <2>1. PICK k \in Task : tasks' = [tasks EXCEPT ![k] = IDLE]
    BY <1>5 DEF cancel
  <2>2. UNCHANGED <<remaining, ms100, age, gap>>
    BY <1>5 DEF cancel
  <2>3. Ready' \subseteq Ready
    BY <2>1, Words DEF Ready, TypeOK
  <2>4. MaxGap * (maxTasks - Cardinality(Ready)) <= MaxGap * (maxTasks - Cardinality(Ready'))
    BY <2>3, FewerReady
  <2>5. /\ MaxGap * (maxTasks - Cardinality(Ready)) \in Int
        /\ MaxGap * (maxTasks - Cardinality(Ready')) \in Int
    <3>1. Cardinality(Ready) \in 0 .. maxTasks /\ Cardinality(Ready') \in 0 .. maxTasks
      BY ReadyCount
    <3>2. QED
      BY <3>1, Words
  <2>6. QED
    BY <1>2, <2>2, <2>4, <2>5 DEF Attended
<1>6. CASE Tick
  <2>1. /\ age' <= age + 1 /\ gap' = (IF gap < MaxGap THEN gap + 1 ELSE gap)
        /\ gap < MaxGap \/ remaining = IDLE
    BY <1>6, TickTimes
  <2>2. UNCHANGED <<ms100, remaining, tasks>> /\ Ready' = Ready
    BY <1>6 DEF Tick, timers, Ready
  <2>3. age' \in Nat
    BY <1>1, Words DEF TypeOK
  <2>4. CASE ms100.armed
    <3>1. remaining # IDLE /\ gap' = gap + 1
      BY <2>1, <2>4 DEF Attended
    <3>2. MaxGap * (maxTasks - Cardinality(Ready)) \in Int /\ MaxGap * (maxTasks + 1) \in Int
      BY ReadyCount, Words
    <3>3. QED
      BY <1>2, <2>1, <2>2, <2>3, <2>4, <3>1, <3>2, Words DEF Attended
  <2>5. CASE ~ms100.armed
    BY <2>2, <2>5 DEF Attended
  <2>6. QED
    BY <2>4, <2>5
<1>7. CASE Library \/ Interrupted
  <2>1. mode = "pollWaiting" /\ mode' = mode
    BY <1>7 DEF Library, CallPollWaiting, Doze, WatchdogEvent, Awake, WaitingPoll,
                Interrupted, Sleeping, TypeOK
  <2>2. ~ms100'.armed
    BY <1>1, <2>1 DEF Sleeping
  <2>3. QED
    BY <2>2 DEF Attended
<1>8. CASE UNCHANGED vars
  BY <1>8 DEF vars, timers, Attended, Ready
<1>9. QED
  BY <1>3, <1>4, <1>5, <1>6, <1>7, <1>8 DEF Next

\* Scheduler.NeverStale: a sketch that calls poll() at least every MaxGap
\* milliseconds, with PollsOften relating that to the width of a word and to
\* its number of tasks, never lets ms100 expire for so long that the 16-bit
\* comparison takes it for running, not even when every task is due at once.
THEOREM NeverStaleTheorem == PollsOften /\ Spec => []NeverStale
<1> SUFFICES ASSUME PollsOften PROVE Spec => []NeverStale
  OBVIOUS
<1>1. Init => Attended
  BY DEF Init, Attended
<1>2. SchedInv /\ Attended /\ [Next]_vars => Attended'
  BY AttendedStep
<1>3. SchedInv /\ Attended => NeverStale
  BY AttendedInWindow
<1>4. QED
  BY <1>1, <1>2, <1>3, SchedHolds, PTL DEF Spec

=============================================================================
