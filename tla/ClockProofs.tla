---------------------------- MODULE ClockProofs ----------------------------
(***************************************************************************)
(* Clock for every rate of the timer, every interval between two readings  *)
(* of the RTC, every width of uptime and every calendar: the clock is never*)
(* more than a second off the time as the code converts it, and goes back  *)
(* only where that conversion does, as long as the RTC's update, the early *)
(* ticks of the PIT and the set-up are short against a second.             *)
(***************************************************************************)
EXTENDS Clock, TLAPS

\* A tick the PIC holds, as a number.
Held == IF irr THEN 1 ELSE 0

\* The clock, and what the main line last saw of it, without the leap day that
\* the conversion of the reading may have added.
Sys   == sys_timestamp - LeapDay(read)
Shown == shown - LeapDay(read)

\* How far the clock of uptime and sys_timestamp, with the tick that is held, is
\* ahead of the true time and of the early ticks.  No tick is lost outside of the
\* wait for the RTC, so this changes only when a reading of the RTC is stored.
Offset == (Sys * Hz + (uptime % Hz) + Held) - (now + early)

\* The ticks of the RTC's update that have passed while the set-up waited for it.
Waited == IF Updating THEN (now % Hz) - (Hz - UpdateTicks)
          ELSE IF now % Hz = 0 THEN UpdateTicks ELSE 0

\* The set-up has read the RTC: the second it read is not over, and every tick
\* is from before, from the update it waited out, or counted in age.
Fresh ==
  /\ t = RtcSeconds
  /\ now % Hz <= (Hz - 1 - UpdateTicks) + age
  /\ uptime + Held <= early + UpdateTicks + age
  /\ uptime + Held - (now % Hz) <= early + UpdateTicks

\* Before the clock is set, ticks come only while the set-up waits out an update
\* and between its reading and its store.
Boot == boot # "done" =>
  /\ isr = "idle"
  /\ boot = "read" => /\ uptime + Held <= early + Waited
                      /\ ~Updating /\ now % Hz # 0 => uptime = 0 /\ ~irr /\ early = 0
                      /\ age = 0
  /\ boot = "set" => Fresh

\* A clock that is set, and that the handler has left.  Right after the set-up
\* it may be ahead by the ticks the set-up waited, from the first reading in the
\* handler on only by the one tick that was held.
Running == boot = "done" /\ isr = "idle" =>
  /\ Sys \in Nat /\ shown = sys_timestamp
  /\ Offset \in -(Hz - 1) .. UpdateTicks + FastTicks
  /\ uptime >= ResyncTicks => Offset <= 1

\* The handler waits for the RTC: what it will read is not behind what was
\* last shown.
Reading == isr = "wait" =>
  /\ boot = "done"
  /\ uptime % Hz = 0
  /\ Shown \in Nat /\ Shown * Hz <= now + UpdateTicks
  /\ irr => UpdateTicks > 0 /\ (Updating \/ now % Hz = 0)

\* The inductive invariant.
CInv == TypeOK /\ Boot /\ Running /\ Reading

\* What is not ahead of a moment is not ahead of a later one.
LEMMA NotAhead ==
  ASSUME NEW x \in Nat, NEW n \in Nat, NEW m \in Nat, NEW k \in Nat,
         x <= n + k, n <= m
  PROVE  x <= m + k
  OBVIOUS

USE ClockAssumption, TimingAssumption

-----------------------------------------------------------------------------
(* Ticks and seconds *)

\* A number of ticks is its seconds and the ticks into the next.
LEMMA Seconds ==
  ASSUME NEW x \in Nat
  PROVE  /\ x \div Hz \in Nat /\ x % Hz \in 0 .. Hz - 1
         /\ x = (x \div Hz) * Hz + (x % Hz)
  OBVIOUS

\* n seconds are over when n * Hz ticks are.
LEMMA SecondsOver ==
  ASSUME NEW x \in Nat, NEW n \in Nat
  PROVE  /\ n * Hz <= x => n <= x \div Hz
         /\ x < n * Hz => x \div Hz < n
<1> DEFINE k == x \div Hz
<1>1. k \in Nat /\ k * Hz <= x /\ x < k * Hz + Hz
  BY Seconds
<1> HIDE DEF k
<1>2. ASSUME NEW a \in Nat, NEW b \in Nat, a < b PROVE a * Hz + Hz <= b * Hz
  <2>1. PICK d \in Nat : b = a + 1 + d
    <3>1. (b - a) - 1 \in Nat /\ b = a + 1 + ((b - a) - 1)
      BY <1>2
    <3>2. QED
      BY <3>1
  <2>2. b * Hz = a * Hz + Hz + d * Hz /\ d * Hz \in Nat /\ a * Hz \in Nat
    BY <2>1
  <2>3. QED
    BY <2>2
<1>3. k * Hz \in Nat /\ n * Hz \in Nat
  BY <1>1
<1>4. n * Hz <= x => n <= k
  <2> SUFFICES ASSUME n * Hz <= x, k < n PROVE FALSE
    BY <1>1
  <2>1. k * Hz + Hz <= n * Hz
    BY <1>1, <1>2
  <2>2. QED
    BY <1>1, <1>3, <2>1
<1>5. x < n * Hz => k < n
  <2> SUFFICES ASSUME x < n * Hz, n <= k PROVE FALSE
    BY <1>1
  <2>1. n * Hz <= k * Hz
    <3>1. n < k => n * Hz + Hz <= k * Hz
      BY <1>1, <1>2
    <3>2. n = k => n * Hz = k * Hz
      OBVIOUS
    <3>3. QED
      BY <1>1, <1>3, <3>1, <3>2
  <2>2. QED
    BY <1>1, <1>3, <2>1
<1>6. QED
  BY <1>4, <1>5 DEF k

\* A number of seconds and fewer than Hz ticks have that number of seconds.
LEMMA SecondsAre ==
  ASSUME NEW n \in Nat, NEW p \in 0 .. Hz - 1
  PROVE  (n * Hz + p) \div Hz = n /\ (n * Hz + p) % Hz = p
<1> DEFINE x == n * Hz + p
<1>1. n * Hz \in Nat /\ x \in Nat /\ n * Hz <= x
  OBVIOUS
<1>2. (n + 1) * Hz = n * Hz + Hz
  OBVIOUS
<1>3. x < (n + 1) * Hz
  BY <1>1, <1>2
<1> HIDE DEF x
<1>4. n <= x \div Hz /\ x \div Hz < n + 1
  BY <1>1, <1>3, SecondsOver
<1>5. x \div Hz = n
  BY <1>1, <1>4, Seconds
<1>6. x = n * Hz + (x % Hz) /\ x % Hz \in Nat
  <2>1. x = (x \div Hz) * Hz + (x % Hz) /\ x % Hz \in 0 .. Hz - 1
    BY <1>1, Seconds
  <2>2. QED
    BY <1>5, <2>1
<1>7. x = n * Hz + p /\ n * Hz \in Nat
  BY <1>1 DEF x
<1>8. x % Hz = p
  BY <1>6, <1>7
<1>9. QED
  BY <1>5, <1>8 DEF x

\* One tick more.
LEMMA NextTick ==
  ASSUME NEW x \in Nat
  PROVE  (x + 1) % Hz = IF x % Hz = Hz - 1 THEN 0 ELSE (x % Hz) + 1
<1> DEFINE k == x \div Hz
           p == x % Hz
<1>1. k \in Nat /\ p \in 0 .. Hz - 1 /\ x = k * Hz + p
  BY Seconds
<1> HIDE DEF k, p
<1>2. CASE p = Hz - 1
  <2>1. (k + 1) * Hz = k * Hz + Hz /\ k * Hz \in Nat
    BY <1>1
  <2>2. x + 1 = (k + 1) * Hz + 0
    BY <1>1, <1>2, <2>1
  <2>3. 0 \in 0 .. Hz - 1 /\ k + 1 \in Nat
    BY <1>1
  <2>4. (x + 1) % Hz = 0
    BY <2>2, <2>3, SecondsAre
  <2>5. QED
    BY <1>2, <2>4 DEF p
<1>3. CASE p # Hz - 1
  <2>1. p + 1 \in 0 .. Hz - 1
    BY <1>1, <1>3
  <2>2. x + 1 = k * Hz + (p + 1)
    BY <1>1
  <2>3. (x + 1) % Hz = p + 1
    BY <1>1, <2>1, <2>2, SecondsAre
  <2>4. QED
    BY <1>3, <2>3 DEF p
<1>4. QED
  BY <1>2, <1>3

\* A tick that is not the last of a second leaves it.
LEMMA SameSecond ==
  ASSUME NEW x \in Nat, x % Hz # Hz - 1
  PROVE  (x + 1) % Hz = (x % Hz) + 1 /\ (x + 1) \div Hz = x \div Hz
<1> DEFINE k == x \div Hz
           p == x % Hz
<1>1. k \in Nat /\ p \in 0 .. Hz - 1 /\ x = k * Hz + p /\ p # Hz - 1
  BY Seconds
<1> HIDE DEF k, p
<1>2. p + 1 \in 0 .. Hz - 1 /\ x + 1 = k * Hz + (p + 1)
  BY <1>1
<1>3. (x + 1) \div Hz = k /\ (x + 1) % Hz = p + 1
  BY <1>1, <1>2, SecondsAre
<1>4. QED
  BY <1>3 DEF k, p

\* The RTC is read at whole seconds of uptime.
LEMMA ResyncSecond ==
  ASSUME NEW x \in Nat, x % ResyncTicks = 0
  PROVE  x % Hz = 0
<1> DEFINE k == x \div ResyncTicks
           m == ResyncTicks \div Hz
<1>1. k \in Nat /\ x = k * ResyncTicks
  OBVIOUS
<1>2. m \in Nat /\ ResyncTicks = m * Hz
  BY Seconds
<1> HIDE DEF k, m
<1>3. k * m \in Nat /\ x = (k * m) * Hz + 0
  BY <1>1, <1>2
<1>4. QED
  BY <1>3, SecondsAre

-----------------------------------------------------------------------------
(* The steps *)

LEMMA InitCInv == Init => CInv
<1> SUFFICES ASSUME Init PROVE CInv
  OBVIOUS
<1>1. /\ now \in 0 .. Hz - 1 /\ early = 0 /\ ~irr /\ irr = FALSE /\ isr = "idle" /\ boot = "read"
      /\ t = 0 /\ read = 0 /\ age = 0 /\ uptime = 0 /\ sys_timestamp = 0 /\ shown = 0
  BY DEF Init
<1>2. TypeOK
  <2>1. /\ now \in 0 .. MaxTicks /\ 0 \in 0 .. FastTicks /\ 0 \in 0 .. UptimeMod - 1
        /\ FALSE \in BOOLEAN /\ 0 \in Nat /\ 0 \in 0 .. SetupTicks
    BY <1>1
  <2>2. QED
    BY <1>1, <2>1 DEF TypeOK
<1>3. now % Hz \in 0 .. Hz - 1
  BY <1>1, Seconds
<1>4. Boot
  BY <1>1, <1>3 DEF Boot, Held, Waited, Updating
<1>5. QED
  BY <1>1, <1>2, <1>4 DEF CInv, Running, Reading

\* A tick takes the RTC out of its update, or not yet.
LEMMA TickUpdating ==
  ASSUME now \in Nat, now' = now + 1
  PROVE  /\ now' % Hz \in 0 .. Hz - 1 /\ now % Hz \in 0 .. Hz - 1
         /\ Updating => (Updating' \/ now' % Hz = 0) /\ Waited' = Waited + 1
<1>1. now % Hz \in 0 .. Hz - 1
  BY Seconds
<1>2. now' % Hz = IF now % Hz = Hz - 1 THEN 0 ELSE (now % Hz) + 1
  BY NextTick
<1> DEFINE p == now % Hz
           q == now' % Hz
<1>3. p \in 0 .. Hz - 1 /\ q = IF p = Hz - 1 THEN 0 ELSE p + 1
  BY <1>1, <1>2
<1>4. /\ Updating = (p >= Hz - UpdateTicks) /\ Updating' = (q >= Hz - UpdateTicks)
      /\ Waited = (IF p >= Hz - UpdateTicks THEN p - (Hz - UpdateTicks)
                   ELSE IF p = 0 THEN UpdateTicks ELSE 0)
      /\ Waited' = (IF q >= Hz - UpdateTicks THEN q - (Hz - UpdateTicks)
                    ELSE IF q = 0 THEN UpdateTicks ELSE 0)
  BY DEF Updating, Waited
<1> HIDE DEF p, q
<1>5. q \in 0 .. Hz - 1
  BY <1>3
<1>6. Updating => (Updating' \/ q = 0) /\ Waited' = Waited + 1
  <2> SUFFICES ASSUME Updating PROVE (Updating' \/ q = 0) /\ Waited' = Waited + 1
    OBVIOUS
  <2>1. p >= Hz - UpdateTicks
    BY <1>4
  <2>2. CASE p = Hz - 1
    BY <1>3, <1>4, <2>1, <2>2
  <2>3. CASE p # Hz - 1
    BY <1>3, <1>4, <2>1, <2>3
  <2>4. QED
    BY <2>2, <2>3
<1>7. QED
  BY <1>3, <1>5, <1>6 DEF p, q

\* A tick moves the true time or makes the PIT early, and the PIC holds it.
LEMMA TickStep ==
  ASSUME CInv, Tick
  PROVE  CInv'
<1>1. /\ Waiting
      /\ \/ now' = now + 1 /\ early' = early
         \/ early < FastTicks /\ early' = early + 1 /\ now' = now
      /\ irr' = TRUE /\ Held' = 1
      /\ age' = (IF boot = "set" THEN age + 1 ELSE age)
      /\ UNCHANGED <<isr, boot, t, uptime, sys_timestamp, shown, read>>
  BY DEF Tick, Held
<1>2. /\ now \in Nat /\ early \in Nat /\ now' \in Nat /\ early' \in Nat
      /\ uptime \in Nat /\ age \in Nat
  BY <1>1 DEF Tick, CInv, TypeOK
<1>3. isr = "idle" => irr = FALSE /\ Held = 0
  BY <1>1 DEF Waiting, Held, CInv, TypeOK
<1>4. Boot'
  <2>1. ASSUME boot = "read" PROVE Boot'
    <3>1. isr = "idle" /\ uptime + Held <= early + Waited /\ age = 0
      BY <2>1 DEF CInv, Boot
    <3>2. Updating
      BY <1>1, <2>1, <3>1 DEF Waiting
    <3>3. Waited \in Int
      BY <1>2, Seconds DEF Waited
    <3>4. (Updating' \/ now' % Hz = 0) /\ uptime' + Held' <= early' + Waited'
      <4>1. CASE now' = now + 1 /\ early' = early
        <5>1. (Updating' \/ now' % Hz = 0) /\ Waited' = Waited + 1
          BY <1>2, <3>2, <4>1, TickUpdating
        <5>2. QED
          BY <1>1, <1>2, <1>3, <3>1, <3>3, <4>1, <5>1
      <4>2. CASE early' = early + 1 /\ now' = now
        <5>1. Updating' /\ Waited' = Waited
          BY <3>2, <4>2 DEF Updating, Waited
        <5>2. QED
          BY <1>1, <1>2, <1>3, <3>1, <3>3, <4>2, <5>1
      <4>3. QED
        BY <1>1, <4>1, <4>2
    <3>5. QED
      BY <1>1, <2>1, <3>1, <3>4 DEF Boot
  <2>2. ASSUME boot = "set" PROVE Boot'
    <3>1. isr = "idle" /\ Fresh
      BY <2>2 DEF CInv, Boot
    <3>2. age < SetupTicks /\ Held = 0 /\ Held' = 1 /\ age' = age + 1 /\ uptime' = uptime
      BY <1>1, <1>3, <2>2, <3>1 DEF Waiting
    <3> DEFINE p == now % Hz
    <3>3. p \in 0 .. Hz - 1 /\ p <= (Hz - 1 - UpdateTicks) + age /\ p # Hz - 1
      <4>1. p \in 0 .. Hz - 1 /\ p <= (Hz - 1 - UpdateTicks) + age
        BY <1>2, <3>1, Seconds DEF Fresh
      <4> HIDE DEF p
      <4>2. QED
        BY <1>2, <3>2, <4>1
    <3>4. Fresh'
      <4>1. CASE now' = now + 1 /\ early' = early
        <5>1. now' % Hz = p + 1 /\ now' \div Hz = now \div Hz
          BY <1>2, <3>3, <4>1, SameSecond
        <5> HIDE DEF p
        <5>2. /\ p + 1 <= (Hz - 1 - UpdateTicks) + (age + 1)
              /\ uptime + 1 <= early + UpdateTicks + (age + 1)
              /\ uptime + 1 - (p + 1) <= early + UpdateTicks
          BY <1>2, <3>1, <3>2, <3>3 DEF Fresh, p
        <5>3. t' = RtcSeconds'
          BY <1>1, <3>1, <5>1 DEF Fresh, RtcSeconds
        <5>4. QED
          BY <3>2, <4>1, <5>1, <5>2, <5>3 DEF Fresh
      <4>2. CASE early' = early + 1 /\ now' = now
        <5>1. now' % Hz = p /\ RtcSeconds' = RtcSeconds
          BY <4>2 DEF RtcSeconds
        <5> HIDE DEF p
        <5>2. /\ p <= (Hz - 1 - UpdateTicks) + (age + 1)
              /\ uptime + 1 <= (early + 1) + UpdateTicks + (age + 1)
              /\ uptime + 1 - p <= (early + 1) + UpdateTicks
          BY <1>2, <3>1, <3>2, <3>3 DEF Fresh, p
        <5>3. QED
          BY <1>1, <3>1, <3>2, <4>2, <5>1, <5>2 DEF Fresh
      <4>3. QED
        BY <1>1, <4>1, <4>2
    <3>5. QED
      BY <1>1, <2>2, <3>1, <3>4 DEF Boot
  <2>3. QED
    BY <1>1, <2>1, <2>2 DEF Boot, CInv, TypeOK
<1>5. Running'
  <2> SUFFICES ASSUME boot = "done", isr = "idle" PROVE Running'
    BY <1>1 DEF Running
  <2>1. Sys' = Sys /\ Sys \in Nat /\ uptime % Hz \in Nat
    BY <1>1, <1>2, Seconds DEF CInv, Running, Sys, LeapDay
  <2>2. Sys * Hz \in Nat
    BY <2>1
  <2>3. Offset' = Offset
    BY <1>1, <1>2, <1>3, <2>1, <2>2 DEF Offset
  <2>4. QED
    BY <1>1, <2>1, <2>3 DEF CInv, Running
<1>6. Reading'
  <2> SUFFICES ASSUME isr = "wait" PROVE Reading'
    BY <1>1 DEF Reading
  <2>1. Updating /\ UpdateTicks > 0
    BY <1>1, <1>2, Seconds DEF Waiting, Updating
  <2>2. Shown' = Shown /\ Shown \in Nat /\ Shown * Hz \in Nat /\ boot = "done"
    <3>1. Shown' = Shown
      BY <1>1 DEF Shown, LeapDay
    <3>2. Shown \in Nat /\ boot = "done"
      BY DEF CInv, Reading
    <3>3. Shown * Hz \in Nat
      BY <3>2
    <3>4. QED
      BY <3>1, <3>2, <3>3
  <2>3. Shown' * Hz <= now' + UpdateTicks /\ uptime' % Hz = 0
    <3> DEFINE x == Shown * Hz
    <3>1. x <= now + UpdateTicks
      BY DEF CInv, Reading
    <3>2. x \in Nat /\ now' >= now /\ UpdateTicks \in Nat
      BY <1>1, <1>2, <2>2
    <3> HIDE DEF x
    <3>3. x <= now' + UpdateTicks
      BY <1>2, <3>1, <3>2, NotAhead
    <3>4. uptime' % Hz = 0
      BY <1>1 DEF CInv, Reading
    <3>5. QED
      BY <2>2, <3>3, <3>4 DEF x
  <2>4. Updating' \/ now' % Hz = 0
    BY <1>1, <1>2, <2>1, TickUpdating DEF Updating
  <2>5. QED
    BY <1>1, <2>1, <2>2, <2>3, <2>4 DEF Reading
<1>7. TypeOK'
  <2>1. age' \in 0 .. SetupTicks
    <3>1. CASE boot = "set"
      <4>1. isr = "idle" /\ age < SetupTicks
        BY <1>1, <3>1 DEF Waiting, CInv, Boot
      <4>2. QED
        BY <1>1, <1>2, <3>1, <4>1
    <3>2. CASE boot # "set"
      BY <1>1, <3>2 DEF CInv, TypeOK
    <3>3. QED
      BY <3>1, <3>2
  <2>2. QED
    BY <1>1, <2>1 DEF Tick, CInv, TypeOK
<1>8. QED
  BY <1>4, <1>5, <1>6, <1>7 DEF CInv

\* What a reading of the RTC finds: a second within which it does not update.
LEMMA RtcRead ==
  ASSUME now \in Nat, ~Updating
  PROVE  /\ RtcSeconds \in Nat
         /\ now % Hz \in 0 .. (Hz - 1) - UpdateTicks
         /\ now = RtcSeconds * Hz + (now % Hz)
         /\ RtcSeconds * Hz \in Nat
<1>1. now % Hz \in 0 .. Hz - 1 /\ now \div Hz \in Nat
      /\ now = (now \div Hz) * Hz + (now % Hz)
  BY Seconds
<1>2. now % Hz < Hz - UpdateTicks
  BY <1>1 DEF Updating
<1>3. QED
  BY <1>1, <1>2 DEF RtcSeconds

LEMMA LeapDayType ==
  ASSUME NEW x \in Nat
  PROVE  LeapDay(x) \in Nat
  BY DEF LeapDay

\* The conversion adds the leap day of its own reading.
LEMMA Converted ==
  ASSUME NEW x \in Nat
  PROVE  time_t_to_timestamp(x) \in Nat /\ time_t_to_timestamp(x) - LeapDay(x) = x
<1>1. LeapDay(x) \in Nat
  BY LeapDayType
<1>2. QED
  BY <1>1 DEF time_t_to_timestamp

\* The reading of the RTC, stored, puts the clock right up to the tick that is
\* held and the ticks into the second.
LEMMA ResyncStep ==
  ASSUME CInv, Resync
  PROVE  CInv'
<1> DEFINE p == now % Hz
<1>1. /\ isr = "wait" /\ ~Updating /\ isr' = "idle"
      /\ sys_timestamp' = time_t_to_timestamp(RtcSeconds) /\ read' = RtcSeconds
      /\ shown' = sys_timestamp' /\ early' = 0
      /\ UNCHANGED <<now, irr, boot, t, uptime, age>>
  BY DEF Resync
<1>2. /\ now \in Nat /\ uptime \in Nat /\ irr \in BOOLEAN
      /\ RtcSeconds \in Nat /\ p \in 0 .. (Hz - 1) - UpdateTicks
      /\ now = RtcSeconds * Hz + p /\ RtcSeconds * Hz \in Nat
  BY <1>1, RtcRead DEF CInv, TypeOK
<1>3. sys_timestamp' \in Nat /\ Sys' = RtcSeconds
  BY <1>1, <1>2, Converted DEF Sys
<1>4. TypeOK'
  BY <1>1, <1>2, <1>3 DEF CInv, TypeOK
<1>5. boot = "done" /\ uptime % Hz = 0 /\ (irr => UpdateTicks > 0 /\ p = 0)
  BY <1>1 DEF CInv, Reading
<1>6. Offset' = Held - p
  <2>1. Offset' = (RtcSeconds * Hz + 0 + Held) - (now + 0)
    BY <1>1, <1>3, <1>5 DEF Offset, Held
  <2>2. Held \in {0, 1}
    BY DEF Held
  <2> HIDE DEF p
  <2>3. QED
    BY <1>2, <2>1, <2>2
<1> HIDE DEF p
<1>7. Offset' \in -(Hz - 1) .. UpdateTicks + FastTicks /\ Offset' <= 1
  <2>1. CASE irr
    BY <1>2, <1>5, <1>6, <2>1 DEF Held
  <2>2. CASE ~irr
    BY <1>2, <1>6, <2>2 DEF Held
  <2>3. QED
    BY <2>1, <2>2
<1>8. QED
  BY <1>1, <1>2, <1>3, <1>4, <1>5, <1>7 DEF CInv, Boot, Running, Reading

\* The set-up reads the RTC, which is not in its update.
LEMMA ReadRtcStep ==
  ASSUME CInv, ReadRtc
  PROVE  CInv'
<1> DEFINE p == now % Hz
<1>1. /\ boot = "read" /\ isr = "idle" /\ irr = FALSE /\ ~Updating
      /\ t' = RtcSeconds /\ age' = 0 /\ boot' = "set"
      /\ UNCHANGED <<now, early, irr, isr, uptime, sys_timestamp, shown, read>>
  BY DEF ReadRtc, hardware, CInv, TypeOK
<1>2. /\ now \in Nat /\ early \in Nat /\ uptime \in Nat
      /\ RtcSeconds \in Nat /\ p \in 0 .. (Hz - 1) - UpdateTicks
  BY <1>1, RtcRead DEF CInv, TypeOK
<1>3. TypeOK'
  BY <1>1, <1>2 DEF CInv, TypeOK
<1>4. /\ Held = 0 /\ uptime + Held <= early + Waited
      /\ p # 0 => uptime = 0 /\ early = 0
  BY <1>1 DEF CInv, Boot, Held
<1>5. Waited = IF p = 0 THEN UpdateTicks ELSE 0
  BY <1>1 DEF Waited
<1>6. Fresh'
  <2>1. t' = RtcSeconds' /\ now' % Hz = p /\ Held' = Held
    BY <1>1 DEF RtcSeconds, Held
  <2> HIDE DEF p
  <2>2. /\ p <= (Hz - 1 - UpdateTicks) + 0
        /\ uptime + 0 <= early + UpdateTicks + 0
        /\ uptime + 0 - p <= early + UpdateTicks
    BY <1>2, <1>4, <1>5
  <2>3. QED
    BY <1>1, <1>4, <2>1, <2>2 DEF Fresh
<1>7. QED
  BY <1>1, <1>3, <1>6 DEF CInv, Boot, Running, Reading

\* The set-up stores its reading.
LEMMA SetTimeStep ==
  ASSUME CInv, SetTime
  PROVE  CInv'
<1> DEFINE p == now % Hz
           u == uptime % Hz
<1>1. /\ boot = "set" /\ isr = "idle" /\ irr = FALSE
      /\ sys_timestamp' = time_t_to_timestamp(t) /\ read' = t
      /\ shown' = sys_timestamp' /\ early' = 0 /\ boot' = "done"
      /\ UNCHANGED <<now, irr, isr, t, uptime, age>>
  BY DEF SetTime, CInv, TypeOK
<1>2. Fresh /\ Held = 0 /\ Held' = 0
  BY <1>1 DEF CInv, Boot, Held
<1>3. /\ now \in Nat /\ uptime \in Nat /\ early \in 0 .. FastTicks /\ t \in Nat
      /\ age \in 0 .. SetupTicks
  BY DEF CInv, TypeOK
<1>4. sys_timestamp' \in Nat /\ Sys' = t
  BY <1>1, <1>3, Converted DEF Sys
<1>5. TypeOK'
  BY <1>1, <1>4 DEF CInv, TypeOK
<1>6. /\ p \in 0 .. Hz - 1 /\ now = t * Hz + p /\ t * Hz \in Nat
      /\ u \in 0 .. Hz - 1 /\ u <= uptime
  <2>1. now = (now \div Hz) * Hz + (now % Hz) /\ t = now \div Hz
    BY <1>2, <1>3, Seconds DEF Fresh, RtcSeconds
  <2>2. uptime = (uptime \div Hz) * Hz + u /\ (uptime \div Hz) * Hz \in Nat /\ u \in 0 .. Hz - 1
    BY <1>3, Seconds
  <2>3. u <= uptime
    <3> DEFINE k == (uptime \div Hz) * Hz
    <3> HIDE DEF k, u
    <3>1. QED
      BY <2>2 DEF k
  <2>4. QED
    BY <1>3, <2>1, <2>2, <2>3, Seconds
<1>7. uptime <= UpdateTicks + FastTicks + SetupTicks /\ uptime - p <= UpdateTicks + FastTicks
  <2>1. uptime <= early + UpdateTicks + age /\ uptime - p <= early + UpdateTicks
    BY <1>2, <1>3, <1>6 DEF Fresh
  <2> HIDE DEF p, u
  <2>2. QED
    BY <1>3, <1>6, <2>1
<1>8. Offset' = u - p
  <2>1. Offset' = (t * Hz + u + 0) - (now + 0)
    BY <1>1, <1>2, <1>4 DEF Offset
  <2> HIDE DEF p, u
  <2>2. QED
    BY <1>6, <2>1
<1> HIDE DEF p, u
<1>9. Offset' \in -(Hz - 1) .. UpdateTicks + FastTicks /\ uptime < ResyncTicks
  BY <1>3, <1>6, <1>7, <1>8
<1>10. QED
  BY <1>1, <1>3, <1>4, <1>5, <1>9 DEF CInv, Boot, Running, Reading

\* A tick taken by the handler counts in uptime, and in sys_timestamp when a
\* second is over; once it has counted every tick, the RTC is read.
LEMMA TimerStep ==
  ASSUME CInv, TimerHandler
  PROVE  CInv'
<1> DEFINE u == uptime % Hz
<1>1. /\ isr = "idle" /\ irr = TRUE /\ irr' = FALSE
      /\ uptime' = (uptime + 1) % UptimeMod
      /\ sys_timestamp' = (IF uptime' % Hz = 0 THEN sys_timestamp + 1 ELSE sys_timestamp)
      /\ IF uptime' % ResyncTicks = 0
         THEN isr' = "wait" /\ shown' = shown
         ELSE shown' = sys_timestamp' /\ isr' = "idle"
      /\ UNCHANGED <<now, early, boot, t, read, age>>
  BY DEF TimerHandler, CInv, TypeOK
<1>2. /\ uptime \in 0 .. UptimeMod - 1 /\ now \in Nat /\ early \in 0 .. FastTicks
      /\ sys_timestamp \in Nat /\ shown \in Nat
  BY DEF CInv, TypeOK
<1>3. /\ uptime + 1 < UptimeMod => uptime' = uptime + 1
      /\ uptime + 1 >= UptimeMod => uptime = UptimeMod - 1 /\ uptime' = 0
  <2>1. UptimeMod \in Nat /\ UptimeMod > 0
    OBVIOUS
  <2>2. \A x \in Nat : x < UptimeMod => x % UptimeMod = x
    BY <2>1
  <2>3. UptimeMod % UptimeMod = 0
    BY <2>1
  <2>4. uptime \in Nat /\ uptime + 1 \in Nat /\ uptime + 1 <= UptimeMod
    BY <1>2, <2>1
  <2>5. CASE uptime + 1 < UptimeMod
    BY <1>1, <2>1, <2>2, <2>4, <2>5
  <2>6. CASE uptime + 1 = UptimeMod
    <3>1. uptime' = 0
      BY <1>1, <2>3, <2>6
    <3>2. QED
      BY <2>1, <2>4, <2>6, <3>1
  <2>7. QED
    BY <2>1, <2>4, <2>5, <2>6
<1>4. uptime' \in 0 .. UptimeMod - 1 /\ uptime' \in Nat /\ sys_timestamp' \in Nat
  BY <1>1, <1>2, <1>3
<1>5. TypeOK'
  <2>1. shown' \in Nat /\ isr' \in {"idle", "wait"} /\ irr' \in BOOLEAN
    BY <1>1, <1>2, <1>4
  <2>2. QED
    BY <1>1, <1>4, <2>1 DEF CInv, TypeOK
<1>6. u \in 0 .. Hz - 1 /\ Held = 1 /\ Held' = 0
  BY <1>1, <1>2, Seconds DEF Held
<1>7. uptime + 1 < UptimeMod => uptime' % Hz = IF u = Hz - 1 THEN 0 ELSE u + 1
  <2>1. uptime \in Nat
    BY <1>2
  <2>2. (uptime + 1) % Hz = IF uptime % Hz = Hz - 1 THEN 0 ELSE (uptime % Hz) + 1
    BY <2>1, NextTick
  <2>3. QED
    BY <1>3, <2>2, Zenon
<1>8. ASSUME boot # "done" PROVE isr' = "idle" /\ Boot'
  <2>1. /\ Updating' = Updating /\ Waited' = Waited /\ RtcSeconds' = RtcSeconds
        /\ now' % Hz = now % Hz
    BY <1>1 DEF Updating, Waited, RtcSeconds
  <2>2. Waited \in Int /\ Waited <= UpdateTicks /\ now % Hz \in Nat /\ age \in 0 .. SetupTicks
    BY <1>2, Seconds DEF Waited, CInv, TypeOK
  <2>3. /\ boot = "read" => uptime + 1 <= early + Waited
        /\ boot = "set" => uptime + 1 <= early + UpdateTicks + age
    BY <1>6, <1>8 DEF CInv, Boot, Fresh
  <2>4. boot = "read" \/ boot = "set"
    BY <1>8 DEF CInv, TypeOK
  <2>5. uptime + 1 < ResyncTicks /\ uptime + 1 < UptimeMod
    BY <1>2, <2>2, <2>3, <2>4
  <2>6. uptime' = uptime + 1 /\ uptime' % ResyncTicks # 0 /\ isr' = "idle"
    BY <1>1, <1>2, <1>3, <2>5
  <2>7. ASSUME boot = "read" PROVE Boot'
    <3>1. Updating \/ now % Hz = 0
      BY <1>1, <2>7 DEF CInv, Boot
    <3>2. uptime' + Held' <= early' + Waited' /\ age' = 0
      BY <1>1, <1>2, <1>6, <2>1, <2>2, <2>3, <2>6, <2>7 DEF CInv, Boot
    <3>3. QED
      BY <1>1, <2>1, <2>6, <2>7, <3>1, <3>2 DEF Boot
  <2>8. ASSUME boot = "set" PROVE Boot'
    <3>1. Fresh'
      BY <1>1, <1>2, <1>6, <2>1, <2>2, <2>6, <2>8 DEF CInv, Boot, Fresh
    <3>2. QED
      BY <1>1, <2>6, <2>8, <3>1 DEF Boot
  <2>9. QED
    BY <2>4, <2>6, <2>7, <2>8
<1>9. ASSUME boot = "done", uptime' % ResyncTicks # 0 PROVE Running'
  <2>1. uptime + 1 < UptimeMod /\ uptime' = uptime + 1
    <3>1. 0 % ResyncTicks = 0
      OBVIOUS
    <3>2. QED
      BY <1>2, <1>3, <1>9, <3>1
  <2>2. /\ Sys \in Nat /\ Offset \in -(Hz - 1) .. UpdateTicks + FastTicks
        /\ uptime >= ResyncTicks => Offset <= 1
    BY <1>1, <1>9 DEF CInv, Running
  <2>3. Sys' * Hz + (uptime' % Hz) = Sys * Hz + u + 1 /\ Sys' \in Nat
    <3>1. CASE u = Hz - 1
      <4>1. sys_timestamp' = sys_timestamp + 1 /\ uptime' % Hz = 0
        BY <1>1, <1>7, <2>1, <3>1
      <4>2. Sys' = Sys + 1
        <5>1. /\ Sys' = (sys_timestamp + 1) - LeapDay(read)
              /\ Sys = sys_timestamp - LeapDay(read)
          BY <1>1, <4>1 DEF Sys
        <5>2. LeapDay(read) \in Nat
          BY LeapDayType DEF CInv, TypeOK
        <5>3. QED
          BY <1>2, <5>1, <5>2
      <4>3. (Sys + 1) * Hz = Sys * Hz + Hz /\ Sys * Hz \in Nat
        BY <2>2
      <4> HIDE DEF u
      <4>4. QED
        BY <2>2, <3>1, <4>1, <4>2, <4>3
    <3>2. CASE u # Hz - 1
      <4>1. uptime' % Hz = u + 1 /\ u + 1 # 0
        BY <1>6, <1>7, <2>1, <3>2
      <4>2. Sys' = Sys
        BY <1>1, <4>1 DEF Sys
      <4>3. Sys * Hz \in Nat
        BY <2>2
      <4> HIDE DEF u
      <4>4. QED
        BY <1>6, <2>2, <4>1, <4>2, <4>3
    <3>3. QED
      BY <3>1, <3>2
  <2>4. Offset' = Offset
    <3>1. Offset' = (Sys' * Hz + (uptime' % Hz) + 0) - (now + early)
      BY <1>1, <1>6 DEF Offset
    <3>2. Offset = (Sys * Hz + u + 1) - (now + early)
      BY <1>6 DEF Offset
    <3>3. Sys * Hz \in Nat
      BY <2>2
    <3> HIDE DEF u
    <3>4. QED
      BY <1>2, <1>6, <2>3, <3>1, <3>2, <3>3
  <2>5. uptime' >= ResyncTicks => uptime >= ResyncTicks
    <3>1. ResyncTicks % ResyncTicks = 0
      OBVIOUS
    <3>2. uptime' # ResyncTicks
      BY <1>9, <3>1
    <3>3. QED
      BY <1>2, <2>1, <3>2
  <2>6. shown' = sys_timestamp'
    BY <1>1, <1>9
  <2>7. QED
    BY <2>2, <2>3, <2>4, <2>5, <2>6 DEF Running
<1>10. ASSUME boot = "done", uptime' % ResyncTicks = 0
       PROVE  uptime' % Hz = 0 /\ Shown \in Nat /\ Shown * Hz <= now + UpdateTicks
  <2> DEFINE x == Shown * Hz
  <2>1. uptime' % Hz = 0
    BY <1>4, <1>10, ResyncSecond
  <2>2. x \in Nat /\ Shown \in Nat /\ Shown = Sys
    BY <1>1, <1>10 DEF CInv, Running, Sys, Shown
  <2>3. /\ Offset = (x + u + 1) - (now + early)
        /\ Offset <= UpdateTicks + FastTicks
        /\ uptime >= ResyncTicks => Offset <= 1
    BY <1>1, <1>6, <1>10, <2>2 DEF CInv, Running, Offset
  <2>4. CASE uptime + 1 < UptimeMod
    <3>1. u = Hz - 1
      BY <1>6, <1>7, <2>1, <2>4
    <3> HIDE DEF u, x
    <3>2. x <= now
      BY <1>2, <1>6, <2>2, <2>3, <3>1
    <3>3. QED
      BY <1>2, <2>1, <2>2, <3>2 DEF x
  <2>5. CASE uptime + 1 >= UptimeMod
    <3>1. uptime = UptimeMod - 1 /\ uptime >= ResyncTicks
      BY <1>2, <1>3, <2>5
    <3>2. UptimeMod % Hz = IF u = Hz - 1 THEN 0 ELSE u + 1
      <4>1. uptime + 1 = UptimeMod /\ uptime \in Nat
        BY <1>2, <3>1
      <4>2. (uptime + 1) % Hz = IF uptime % Hz = Hz - 1 THEN 0 ELSE (uptime % Hz) + 1
        BY <4>1, NextTick
      <4>3. QED
        BY <4>1, <4>2, Zenon
    <3> HIDE DEF u, x
    <3>3. u + UpdateTicks >= FastTicks
      BY <1>6, <3>2
    <3>4. x <= now + UpdateTicks
      BY <1>2, <1>6, <2>2, <2>3, <3>1, <3>3
    <3>5. QED
      BY <2>1, <2>2, <3>4 DEF x
  <2>6. QED
    BY <1>2, <2>4, <2>5
<1>11. CASE boot # "done"
  BY <1>1, <1>5, <1>8, <1>11 DEF CInv, Running, Reading
<1>12. CASE boot = "done" /\ uptime' % ResyncTicks # 0
  BY <1>1, <1>5, <1>9, <1>12 DEF CInv, Boot, Reading
<1>13. CASE boot = "done" /\ uptime' % ResyncTicks = 0
  <2>1. shown' = shown /\ isr' = "wait" /\ boot' = "done" /\ irr' = FALSE /\ now' = now
        /\ Shown' = Shown
    BY <1>1, <1>13 DEF Shown
  <2>2. Boot' /\ Running'
    BY <2>1 DEF Boot, Running
  <2>3. Reading'
    BY <1>10, <1>13, <2>1 DEF Reading
  <2>4. QED
    BY <1>5, <2>2, <2>3 DEF CInv
<1>14. QED
  BY <1>11, <1>12, <1>13

LEMMA NextCInv == CInv /\ [Next]_vars => CInv'
<1> SUFFICES ASSUME CInv, [Next]_vars PROVE CInv'
  OBVIOUS
<1>1. CASE UNCHANGED vars
  BY <1>1 DEF vars, hardware, CInv, TypeOK, Boot, Running, Reading, Offset, Held, Waited,
              Updating, RtcSeconds, Sys, Shown, LeapDay, Fresh
<1>2. CASE Next
  BY <1>2, TickStep, TimerStep, ResyncStep, ReadRtcStep, SetTimeStep DEF Next, Code
<1>3. QED
  BY <1>1, <1>2

-----------------------------------------------------------------------------
\* In every state the clock is tied to the true time.
THEOREM ClockInvariance == Spec => []CInv
  BY InitCInv, NextCInv, PTL DEF Spec

\* The variables of the clock keep their types.
THEOREM ClockTypeCorrect == Spec => []TypeOK
<1>1. CInv => TypeOK
  BY DEF CInv
<1>2. QED
  BY <1>1, ClockInvariance, PTL

\* Once set up, the clock the main line reads is at most a second off the RTC, or
\* off a day later when it was last set in February of a leap year, for any rate,
\* any interval between the readings, and through the wrap of uptime.
THEOREM OffByASecond == Spec => []WithinASecond
<1>1. CInv => WithinASecond
  <2> SUFFICES ASSUME CInv, boot = "done", isr = "idle"
               PROVE  shown - (RtcSeconds + LeapDay(read)) \in -1 .. 1
    BY DEF WithinASecond
  <2> DEFINE x == Sys * Hz
             u == uptime % Hz
  <2>1. /\ shown \in Nat /\ now \in Nat /\ early \in 0 .. FastTicks /\ uptime \in Nat
        /\ read \in Nat
    BY DEF CInv, TypeOK
  <2>2. /\ Sys \in Nat /\ shown = sys_timestamp
        /\ Offset \in -(Hz - 1) .. UpdateTicks + FastTicks
    BY DEF CInv, Running
  <2>3. /\ x \in Nat /\ u \in 0 .. Hz - 1 /\ Held \in {0, 1}
        /\ Offset = (x + u + Held) - (now + early)
    BY <2>1, <2>2, Seconds DEF Held, Offset
  <2>4. (Sys + 1) * Hz = x + Hz /\ (Sys + 2) * Hz = x + Hz + Hz
    BY <2>2
  <2>5. Sys >= 1 => (Sys - 1) * Hz = x - Hz
    BY <2>2
  <2> HIDE DEF x, u
  <2>6. x - Hz <= now /\ now < x + Hz + Hz
    BY <2>1, <2>2, <2>3
  <2>7. RtcSeconds \in Nat /\ RtcSeconds < Sys + 2
    <3>1. now < (Sys + 2) * Hz /\ Sys + 2 \in Nat
      BY <2>2, <2>4, <2>6
    <3>2. QED
      BY <2>1, <3>1, Seconds, SecondsOver DEF RtcSeconds
  <2>8. Sys >= 1 => Sys - 1 <= RtcSeconds
    <3> SUFFICES ASSUME Sys >= 1 PROVE Sys - 1 <= RtcSeconds
      OBVIOUS
    <3>1. (Sys - 1) * Hz <= now /\ Sys - 1 \in Nat
      BY <2>2, <2>5, <2>6
    <3>2. QED
      BY <2>1, <3>1, SecondsOver DEF RtcSeconds
  <2>9. Sys - RtcSeconds \in -1 .. 1
    BY <2>2, <2>7, <2>8
  <2>10. LeapDay(read) \in Nat /\ Sys = shown - LeapDay(read)
    BY <2>1, <2>2, LeapDayType DEF Sys
  <2>11. QED
    BY <2>1, <2>7, <2>9, <2>10
<1>2. QED
  BY <1>1, ClockInvariance, PTL

\* The RTC is read into the clock: without the leap days, that does not set it
\* back.
LEMMA ResyncForwards ==
  ASSUME CInv, Resync
  PROVE  Shown \in Nat /\ RtcSeconds \in Nat /\ Shown <= RtcSeconds
<1>1. isr = "wait" /\ ~Updating
  BY DEF Resync
<1>2. Shown \in Nat /\ Shown * Hz <= now + UpdateTicks
  BY <1>1 DEF CInv, Reading
<1> DEFINE p == now % Hz
           x == RtcSeconds * Hz
<1>3. /\ RtcSeconds \in Nat /\ p \in 0 .. (Hz - 1) - UpdateTicks
      /\ now = x + p /\ x \in Nat /\ now \in Nat
  BY <1>1, RtcRead DEF CInv, TypeOK
<1>4. (RtcSeconds + 1) * Hz = x + Hz
  BY <1>3
<1>5. now + UpdateTicks < (RtcSeconds + 1) * Hz /\ now + UpdateTicks \in Nat
  <2> HIDE DEF p, x
  <2>1. QED
    BY <1>3, <1>4
<1>6. /\ Shown <= (now + UpdateTicks) \div Hz
      /\ (now + UpdateTicks) \div Hz < RtcSeconds + 1
  BY <1>2, <1>3, <1>5, SecondsOver
<1>7. QED
  BY <1>2, <1>3, <1>5, <1>6, Seconds

\* Once set up, the clock does not run backwards: not when the RTC is read into it
\* while the PIT is ahead, and not when uptime wraps in the middle of a second.
\* Only the first reading after February of a leap year sets it back, by the day
\* that the conversion had put it ahead.
THEOREM ClockForwards == Spec => NeverBackwards
<1> DEFINE Back == /\ read \in LeapFebruary /\ read' \notin LeapFebruary
                   /\ shown' >= shown - Day
<1>1. ASSUME CInv, Next, boot = "done" PROVE shown' >= shown \/ Back
  <2>1. shown \in Nat /\ sys_timestamp \in Nat /\ read \in Nat
    BY <1>1 DEF CInv, TypeOK
  <2>2. CASE Tick
    BY <2>1, <2>2 DEF Tick
  <2>3. CASE TimerHandler
    <3>1. isr = "idle" /\ shown' \in {shown, sys_timestamp, sys_timestamp + 1}
      BY <2>3 DEF TimerHandler
    <3>2. shown = sys_timestamp
      BY <1>1, <3>1 DEF CInv, Running
    <3>3. QED
      BY <2>1, <3>1, <3>2
  <2>4. CASE Resync
    <3>1. Shown \in Nat /\ RtcSeconds \in Nat /\ Shown <= RtcSeconds
      BY <1>1, <2>4, ResyncForwards
    <3>2. /\ shown' = RtcSeconds + LeapDay(RtcSeconds) /\ read' = RtcSeconds
          /\ Shown = shown - LeapDay(read)
      BY <2>4 DEF Resync, time_t_to_timestamp, Shown
    <3>3. CASE read \notin LeapFebruary
      BY <2>1, <3>1, <3>2, <3>3 DEF LeapDay
    <3>4. CASE read \in LeapFebruary /\ RtcSeconds \in LeapFebruary
      BY <2>1, <3>1, <3>2, <3>4 DEF LeapDay
    <3>5. CASE read \in LeapFebruary /\ RtcSeconds \notin LeapFebruary
      BY <2>1, <3>1, <3>2, <3>5 DEF LeapDay
    <3>6. QED
      BY <3>3, <3>4, <3>5
  <2>5. QED
    BY <1>1, <2>2, <2>3, <2>4 DEF Next, Code, ReadRtc, SetTime
<1>2. CInv /\ [Next]_vars => [boot = "done" => shown' >= shown \/ Back]_vars
  BY <1>1
<1>3. QED
  BY <1>2, ClockInvariance, PTL DEF Spec, NeverBackwards
=============================================================================
