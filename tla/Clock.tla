------------------------------- MODULE Clock -------------------------------
(***************************************************************************)
(* The system clock: timer_handler (kernel.c 275-290) on every tick of the *)
(* PIT, the resynchronisation with the RTC it makes once in ResyncTicks    *)
(* ticks, and the clock set-up of kernel_main (156-162), which interrupts  *)
(* already reach.                                                          *)
(*                                                                         *)
(* Time is counted in PIT ticks.  Reading the RTC waits out the update the *)
(* RTC makes at the end of each second; when the wait is in the handler,   *)
(* interrupts are off and the PIC remembers one tick of those that come,   *)
(* so the others are lost.  Code takes no time beside a tick: a tick comes *)
(* only when no handler can run.  The set-up, which makes a timestamp of   *)
(* its reading before it stores it, may be interrupted in between, by      *)
(* SetupTicks ticks at the most.                                           *)
(*                                                                         *)
(* A reading of the RTC is a date and a time; here it is their true count  *)
(* of seconds.  The clock gets what time_t_to_timestamp makes of it, which *)
(* is a day more through all February of a leap year (time.c 50; Calendar  *)
(* has the conversion in full).                                            *)
(***************************************************************************)
EXTENDS Integers

CONSTANTS
  Hz,           \* ticks a second, 1000 in the code
  ResyncTicks,  \* ticks between two readings of the RTC, 60000 in the code
  UptimeMod,    \* uptime wraps here, 2^32 in the code
  UpdateTicks,  \* ticks the RTC's update takes at the end of a second
  FastTicks,    \* ticks the PIT may be early between two readings
  SetupTicks,   \* ticks that may come between the reading of the set-up and its store
  LeapFebruary, \* the seconds that are in February of a leap year
  Day,          \* seconds in a day, 86400 in the code
  MaxTicks      \* bound on the time modelled, for model checking

ASSUME ClockAssumption ==
  /\ Hz \in Nat \ {0}
  /\ ResyncTicks \in Nat \ {0} /\ ResyncTicks % Hz = 0
  /\ UptimeMod \in Nat /\ UptimeMod > ResyncTicks
  /\ UpdateTicks \in Nat /\ UpdateTicks < Hz
  /\ FastTicks \in Nat /\ SetupTicks \in Nat
  /\ LeapFebruary \subseteq Nat /\ Day \in Nat
  /\ MaxTicks \in Nat /\ MaxTicks >= Hz

\* The update of the RTC and the early ticks of the PIT are short against a
\* second; and where uptime wraps within a second, the RTC is there already or
\* in its update, for all that the PIT is early.  In the code, uptime wraps 296
\* ticks into a second, the update takes 2 ticks, and the PIT, whose divisor is
\* 1193, is 10 ticks early in a minute at the most.  The set-up stores its
\* reading before the RTC, which was not in its update, goes on to the next
\* second, and is over before the handler reads the RTC for the first time: the
\* conversion is a loop of microseconds, a tick is a millisecond.
ASSUME TimingAssumption ==
  /\ UpdateTicks + 2 * FastTicks <= Hz
  /\ SetupTicks <= UpdateTicks
  /\ UpdateTicks + FastTicks + SetupTicks < ResyncTicks
  /\ UptimeMod % Hz = 0 \/ FastTicks < UpdateTicks + (UptimeMod % Hz)

VARIABLES
  now,            \* true time, in ticks
  early,          \* early ticks since the last reading of the RTC
  irr,            \* the PIC holds a tick not yet delivered
  isr,            \* where timer_handler is
  boot,           \* where the set-up of the clock is
  t,              \* kernel_main: the reading, not yet stored
  uptime,
  sys_timestamp,
  shown,          \* history: sys_timestamp as the main line last could see it
  read,           \* history: the reading that the clock was last set by
  age             \* history: ticks since the reading of the set-up

hardware == <<now, early, irr>>
vars     == <<hardware, isr, boot, t, uptime, sys_timestamp, shown, read, age>>

\* Fault: another register than 0x0A is polled, and its top bit is set.
Updating_WrongRegister == TRUE

\* The RTC: its seconds, and its update-in-progress flag.
RtcSeconds == now \div Hz
Updating   == now % Hz >= Hz - UpdateTicks

\* What the leap day adds to the seconds of a reading, and their sum.
LeapDay(seconds) == IF seconds \in LeapFebruary THEN Day ELSE 0
time_t_to_timestamp(seconds) == seconds + LeapDay(seconds)

-----------------------------------------------------------------------------
\* A tick falls where neither the handler nor the main line has work it could
\* do at once.
Waiting == /\ isr = "wait" => Updating
           /\ isr = "idle" => ~irr
           /\ isr = "idle" /\ boot = "read" => Updating
           /\ isr = "idle" /\ boot = "set" => age < SetupTicks

\* The PIT's divisor is rounded down, so that now and then a tick is early.
Tick == /\ Waiting
        /\ now < MaxTicks
        /\ \/ now' = now + 1 /\ UNCHANGED early
           \/ early < FastTicks /\ early' = early + 1 /\ UNCHANGED now
        /\ irr' = TRUE
        /\ age' = IF boot = "set" THEN age + 1 ELSE age
        /\ UNCHANGED <<isr, boot, t, uptime, sys_timestamp, shown, read>>

\* Fault: uptime is wider than the arithmetic on it.
TimerHandler_Wide ==
  /\ isr = "idle"
  /\ irr
  /\ irr' = FALSE
  /\ uptime' = uptime + 1
  /\ sys_timestamp' = IF uptime' % Hz = 0 THEN sys_timestamp + 1 ELSE sys_timestamp
  /\ IF uptime' % ResyncTicks = 0
     THEN isr' = "wait" /\ UNCHANGED shown
     ELSE shown' = sys_timestamp' /\ UNCHANGED isr
  /\ UNCHANGED <<now, early, boot, t, read, age>>

\* timer_handler, up to the reading of the RTC.
TimerHandler ==
  /\ isr = "idle"
  /\ irr
  /\ irr' = FALSE
  /\ uptime' = (uptime + 1) % UptimeMod
  /\ sys_timestamp' = IF uptime' % Hz = 0 THEN sys_timestamp + 1 ELSE sys_timestamp
  /\ IF uptime' % ResyncTicks = 0
     THEN isr' = "wait" /\ UNCHANGED shown
     ELSE shown' = sys_timestamp' /\ UNCHANGED isr
  /\ UNCHANGED <<now, early, boot, t, read, age>>

\* Fault: the reading is not stored.
Resync_NotStored == /\ isr = "wait"
                    /\ ~Updating
                    /\ isr' = "idle"
                    /\ shown' = sys_timestamp
                    /\ early' = 0
                    /\ UNCHANGED <<now, irr, boot, t, uptime, sys_timestamp, read, age>>

\* Fault: the reading made at boot is stored again.
Resync_Stale == /\ isr = "wait"
                /\ ~Updating
                /\ isr' = "idle"
                /\ sys_timestamp' = time_t_to_timestamp(t)
                /\ shown' = sys_timestamp'
                /\ read' = t
                /\ early' = 0
                /\ UNCHANGED <<now, irr, boot, t, uptime, age>>

Resync == /\ isr = "wait"
          /\ ~Updating
          /\ isr' = "idle"
          /\ sys_timestamp' = time_t_to_timestamp(RtcSeconds)
          /\ shown' = sys_timestamp'
          /\ read' = RtcSeconds
          /\ early' = 0
          /\ UNCHANGED <<now, irr, boot, t, uptime, age>>

\* The set-up: read the RTC, then convert and store.
ReadRtc == /\ boot = "read"
           /\ isr = "idle" /\ ~irr
           /\ ~Updating
           /\ t' = RtcSeconds
           /\ age' = 0
           /\ boot' = "set"
           /\ UNCHANGED <<hardware, isr, uptime, sys_timestamp, shown, read>>

SetTime == /\ boot = "set"
           /\ isr = "idle" /\ ~irr
           /\ sys_timestamp' = time_t_to_timestamp(t)
           /\ shown' = sys_timestamp'
           /\ read' = t
           /\ early' = 0
           /\ boot' = "done"
           /\ UNCHANGED <<now, irr, isr, t, uptime, age>>

Code == TimerHandler \/ Resync \/ ReadRtc \/ SetTime

-----------------------------------------------------------------------------
Init == /\ now \in 0 .. Hz - 1
        /\ early = 0
        /\ irr = FALSE
        /\ isr = "idle"
        /\ boot = "read"
        /\ t = 0 /\ read = 0 /\ age = 0
        /\ uptime = 0
        /\ sys_timestamp = 0
        /\ shown = 0

Next == Tick \/ Code

\* Time passes, and the processor executes what it can.
Fairness == WF_vars(Tick) /\ WF_vars(Code)

Spec == Init /\ [][Next]_vars /\ Fairness

-----------------------------------------------------------------------------
(* Properties *)

TypeOK ==
  /\ now \in 0 .. MaxTicks
  /\ early \in 0 .. FastTicks
  /\ irr \in BOOLEAN
  /\ isr \in {"idle", "wait"}
  /\ boot \in {"read", "set", "done"}
  /\ t \in Nat /\ read \in Nat /\ age \in 0 .. SetupTicks
  /\ uptime \in 0 .. UptimeMod - 1
  /\ sys_timestamp \in Nat /\ shown \in Nat

\* Once set up, the clock the main line reads is never more than a second off
\* the RTC, or off a day later if it was last set in February of a leap year:
\* not because of ticks lost while a reading of the RTC waits, nor because the
\* set-up stores a reading that is no longer fresh and overwrites a second the
\* handler counted meanwhile, nor because uptime wraps.
WithinASecond ==
  boot = "done" /\ isr = "idle" => shown - (RtcSeconds + LeapDay(read)) \in -1 .. 1

\* Once set up, the clock goes back in one place only: with the first reading of
\* the RTC after February of a leap year, by the day it was ahead.
NeverBackwards ==
  [][boot = "done" => \/ shown' >= shown
                      \/ /\ read \in LeapFebruary /\ read' \notin LeapFebruary
                         /\ shown' >= shown - Day]_vars

\* The handler leaves its wait for the RTC: interrupts are not off for good.
HandlerReturns == isr = "wait" ~> isr = "idle"
=============================================================================
