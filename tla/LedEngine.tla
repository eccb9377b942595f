------------------------------ MODULE LedEngine ------------------------------
(***************************************************************************)
(* One ROM's LED engine: the status LED and the RGB LED, their modes and   *)
(* holds, the frame interrupt that both cores may take, and the GPIO that  *)
(* some boards wire to both LEDs.                                          *)
(*                                                                         *)
(* pio_led_set, in thread context on either core, and pio_led_frame, in    *)
(* TIMER0 alarm 1's interrupt, change the engine's state under SPINLOCK_LED *)
(* with interrupts masked, so what each does under the lock is one step.   *)
(* Both read the millisecond before they take the lock.                    *)
(*                                                                         *)
(* Time is the microsecond counter, in ticks.  It wraps, as the code's two *)
(* 32-bit readings of it do, and all deadlines are compared as the code    *)
(* compares them, by the sign of a difference.                             *)
(***************************************************************************)
EXTENDS Integers, Sequences, FiniteSets

CONSTANTS
  Shared,          \* the board wires both LEDs to one GPIO
  Cores,           \* each has a plugin that sets LEDs and may take the interrupt
  Requests,        \* what callers ask for
  MsTicks,         \* ticks in a millisecond
  MsWrap,          \* milliseconds after which the counter wraps
  ResetDelay,      \* LED_RESET_DELAY_US in ticks
  ParkDelay,       \* LED_PARK_DELAY_US in ticks
  WireTime,        \* ticks a pixel takes on the wire
  MinFrame,        \* LED_MIN_FRAME_MS
  Steps,           \* LED_*_STEPS, for each mode
  DefaultPeriod,   \* LED_*_DEFAULT_PERIOD_MS, for each mode
  BeaconHold,      \* LED_BEACON_DEFAULT_DURATION_MS
  Flame,           \* led_flame_table: sequence of <<on, ms>>
  Late,            \* ticks by which an interrupt may be taken late
  MaxCalls         \* bound on the number of calls

Leds == {"status", "rgb"}
Repeating == {"beacon", "flame", "cycle", "breathe", "blink"}
NeedsColour == {"cycle", "breathe"}
Modes == {"off", "on"} \cup Repeating

Wrap == MsTicks * MsWrap
Clocks == 0 .. Wrap - 1
Ms == 0 .. MsWrap - 1

None == -1
NoCall == [at |-> None]

ASSUME TimeAssumption ==
    /\ MsTicks \in Nat \ {0} /\ MsWrap \in Nat /\ MsWrap > 1
    /\ ResetDelay \in Nat /\ ParkDelay \in Nat /\ WireTime \in Nat /\ Late \in Nat
    /\ BeaconHold \in Nat \ {0}

\* The engine's own delays are told apart from the past by their sign.
ASSUME DelayAssumption == 2 * (ResetDelay + ParkDelay) <= Wrap

\* So is what may be late.
ASSUME LateAssumption == 2 * (MsTicks + 3 * Late + 1) < Wrap

ASSUME TableAssumption ==
    /\ Steps \in [Modes -> Nat \ {0}] /\ MinFrame \in Nat
    /\ DefaultPeriod \in [Modes -> Nat] /\ DefaultPeriod["flame"] # 0
    /\ Flame \in Seq(BOOLEAN \X Nat) /\ Flame # <<>>

ASSUME RequestsAssumption ==
    Requests \subseteq [led : Leds, mode : Modes, colour : STRING, period : Nat, hold : Nat]

VARIABLES
  clock,   \* the microsecond counter
  led,     \* the engine, the pin, the timer, and what the properties recall
  call,    \* call[c]: core c's thread in pio_led_set: the request, and when it came
  frame,   \* frame[c]: when core c's interrupt entered pio_led_frame
  calls    \* calls so far

vars == <<clock, led, call, frame, calls>>

---------------------------------------------------------------------------
(* Time.                                                                   *)

MsAt(t) == t \div MsTicks

\* (int32_t)(a - b), of a counter that wraps at w.
Diff(a, b, w) ==
    LET d == (a - b) % w IN IF 2 * d >= w THEN d - w ELSE d

Due(t) == Diff(clock, t, Wrap) >= 0
Later(ticks) == (clock + ticks) % Wrap
MsLater(ms, wait) == (ms + wait) % MsWrap

\* Mutant: the sum as it comes.
Expiry_AsItComes(ms, hold) == MsLater(ms, hold)

\* Zero says that no hold is running, so a hold ending then ends a
\* millisecond later.
Expiry(ms, hold) ==
    LET end == MsLater(ms, hold) IN IF end = 0 THEN 1 ELSE end

---------------------------------------------------------------------------
(* The pin.  Without a shared one the state machine keeps the RGB LED's    *)
(* GPIO from the claim on; with one it has it from a borrow to the park.   *)

WithPio(e) == e.claimed /\ (Shared => "pio" \in e.flags)

\* The status LED is active low and lit on a low line.
LineIsLow(e) == IF WithPio(e) THEN e.wire = 0 ELSE Shared /\ e.enabled

Pixel(colour, level) == IF level = 0 THEN <<"dark", 0>> ELSE <<colour, level>>
Dark == Pixel("dark", 0)

\* A word in the FIFO goes out on the state machine's pin, if it has it.
Send(e, pixel) ==
    IF WithPio(e)
      THEN [e EXCEPT !.sent = pixel,
                     !.wire = @ + WireTime,
                     !.early = IF e.low < ResetDelay THEN @ \cup {e.highBy} ELSE @,
                     !.low = 0,
                     !.highBy = "pixel"]
      ELSE [e EXCEPT !.sent = pixel]

\* Mutant: the claim owes no reset.
ClaimedFlags_None == {}

ClaimedFlags == {"reset"}
Claim(e) ==
    IF e.claimed THEN e
    ELSE [e EXCEPT !.claimed = TRUE,
                   !.flags = @ \cup ClaimedFlags]

Borrow(e) ==
    IF Shared THEN [e EXCEPT !.flags = @ \cup {"pio", "park"},
                             !.parkDue = Later(ParkDelay)]
              ELSE e

MustWait(e) == "reset" \in e.flags \/ (Shared /\ "high" \in e.flags)
\* Mutant: a waiting pixel is not looked for.
Waiting_Never(e) == FALSE

Waiting(e) == "write" \in e.flags
\* Mutant: the handover stays due from the borrow.
ParkAfterWrite_FromBorrow(e) == e.parkDue

ParkAfterWrite(e) == (e.writeDue + ParkDelay) % Wrap
\* led_rgb_write: now, or behind the reset that is owed, or in place of a
\* pixel that waits out one already.
RgbWrite(e, pixel) ==
    LET b == [Borrow(Claim(e)) EXCEPT !.asked = pixel,
                                      !.hurried = @ \/ "write" \in e.flags \/ e.wire > 0]
        Held == [b EXCEPT !.pending = pixel,
                          !.writeDue = Later(ResetDelay),
                          !.flags = (@ \cup {"write"}) \ {"reset"}]
    IN  IF MustWait(b) THEN [Held EXCEPT !.parkDue = ParkAfterWrite(Held)]
        ELSE IF Waiting(b) THEN [b EXCEPT !.pending = pixel]
        ELSE Send(b, pixel)

StatusShow(e, lit) ==
    [e EXCEPT !.enabled = lit,
              !.highBy = IF Shared /\ ~WithPio(e) /\ ~lit THEN "status" ELSE @,
              !.low = IF Shared /\ ~WithPio(e) /\ ~lit THEN 0 ELSE @]

\* led_park, and whether it took the pin from a pixel that was not through.
Park(e) ==
    [e EXCEPT !.flags = IF e.enabled THEN @ \ {"park", "pio", "high"}
                                     ELSE (@ \ {"park", "pio"}) \cup {"high"},
              !.cut = @ \/ e.wire > 0 \/ "write" \in e.flags,
              !.wire = 0,
              !.low = IF e.enabled THEN @ ELSE 0,
              !.highBy = IF e.enabled THEN @ ELSE "park"]

---------------------------------------------------------------------------
(* The channels.                                                           *)

Show(e, l, lit) ==
    LET shown == [e EXCEPT !.ch[l].lit = lit]
    IN  IF l = "rgb" THEN RgbWrite(shown, Pixel(e.ch[l].is.colour, IF lit THEN Steps["on"] ELSE 0))
                     ELSE StatusShow(shown, lit)

AtRest == [mode |-> "off", colour |-> "none", period |-> 0]

Restore(e, l) ==
    LET ch == e.ch[l]
        back == [e EXCEPT !.ch[l].is = ch.saved, !.ch[l].step = 0, !.ch[l].hold = 0,
                          !.ch[l].next = IF ch.saved.mode \in Repeating THEN MsAt(clock) ELSE @,
                          !.bounded[l] = FALSE, !.first[l] = AtRest]
    IN  Show(back, l, ch.saved.mode # "off")

FrameInterval(is) ==
    LET interval == is.period \div Steps[is.mode]
    IN  IF interval < MinFrame THEN MinFrame ELSE interval

FlameInterval(is, step) ==
    LET ms == (Flame[step + 1][2] * is.period) \div DefaultPeriod["flame"]
    IN  IF ms < 1 THEN 1 ELSE ms

BreatheLevel(step) == IF 2 * step < Steps["breathe"] THEN step ELSE Steps["breathe"] - step

\* led_advance, of a channel whose frame is due.
Advance(e, l, ms) ==
    LET ch == e.ch[l]
        mode == ch.is.mode
        step == (ch.step + 1) % (IF mode = "flame" THEN Len(Flame) ELSE Steps[mode])
        wait == IF mode = "flame" THEN FlameInterval(ch.is, step) ELSE FrameInterval(ch.is)
        moved == [e EXCEPT !.ch[l].step = step, !.ch[l].next = MsLater(ms, wait)]
        Lit(level, colour) ==
            RgbWrite([moved EXCEPT !.ch[l].lit = (level # 0)], Pixel(colour, level))
    IN  CASE mode = "beacon"  -> Show(moved, l, ~ch.lit)
          [] mode = "flame"   -> Show(moved, l, Flame[step + 1][1])
          [] mode = "blink"   -> Show(moved, l, step = 0)
          [] mode = "cycle"   -> Lit(step + 1, "hue")
          [] mode = "breathe" -> Lit(BreatheLevel(step), ch.is.colour)

Expired(ch, ms) == ch.hold # 0 /\ Diff(ms, ch.hold, MsWrap) >= 0
FrameDue(ch, ms) == ch.is.mode \in Repeating /\ Diff(ms, ch.next, MsWrap) >= 0

RunChannel(e, l, ms) ==
    IF Expired(e.ch[l], ms) THEN Restore(e, l)
    ELSE IF FrameDue(e.ch[l], ms) THEN Advance(e, l, ms)
    ELSE e

---------------------------------------------------------------------------
(* The frame timer.                                                        *)

NextFrame(ch) == IF ch.is.mode \in Repeating THEN ch.next ELSE None
HoldEnd(ch) == IF ch.hold # 0 THEN ch.hold ELSE None

\* The sooner of what was found and one more deadline.
Sooner(a, b) == IF a = None \/ (b # None /\ Diff(b, a, MsWrap) < 0) THEN b ELSE a
SoonerOf(a, ch) == Sooner(Sooner(a, NextFrame(ch)), HoldEnd(ch))
Earliest(e) == SoonerOf(SoonerOf(None, e.ch["status"]), e.ch["rgb"])

\* Mutant: a pixel or a handover that is owed waits for the next frame.
PinOwed_Never(e) == FALSE

PinOwed(e) == e.flags \cap {"park", "write"} # {}
PinDue(e) == IF "write" \in e.flags THEN e.writeDue ELSE e.parkDue
NotNegative(n) == IF n > 0 THEN n ELSE 0

\* How long until the engine wants attention.
Wait(e, ms) ==
    LET frames == IF Earliest(e) = None THEN {}
                  ELSE {NotNegative(Diff(Earliest(e), ms, MsWrap)) * MsTicks}
        pin == IF PinOwed(e) THEN {NotNegative(Diff(PinDue(e), clock, Wrap))} ELSE {}
    IN  frames \cup pin

\* When an interrupt became one that a core may take, where one is.
Since(before, e, t) ==
    IF e.pend \cap e.nvic = {} THEN 0
    ELSE IF before.pend \cap before.nvic = {} THEN t ELSE before.fired

\* The alarm fires: on both cores, where both have had it enabled.
Fire(e) == [e EXCEPT !.alarm = None, !.pend = @ \cup e.nvic]

\* led_rearm on core c.  A wait of zero fires at once.
Rearm(e, c, ms) ==
    LET waits == Wait(e, ms)
        wait == CHOOSE w \in waits : \A x \in waits : w <= x
        armed == [e EXCEPT !.alarm = Later(wait), !.nvic = @ \cup {c},
                           !.flags = @ \cup {"timer"}]
        new == IF waits # {} THEN IF wait = 0 THEN Fire(armed) ELSE armed
               ELSE IF "timer" \in e.flags
                 THEN [e EXCEPT !.alarm = None, !.nvic = @ \ {c}, !.flags = @ \ {"timer"}]
               ELSE e
    IN  [new EXCEPT !.fired = Since(e, new, clock)]

---------------------------------------------------------------------------
(* The calls.                                                              *)

Accepts(req) ==
    /\ req.mode \in NeedsColour => req.led = "rgb"
    /\ req.hold < MsWrap \div 2

HoldOf(req) == IF req.mode = "beacon" /\ req.hold = 0 THEN BeaconHold ELSE req.hold

\* Mutant: only a beacon is known to be bounded.
AlreadyBounded_BeaconOnly(ch) == ch.is.mode = "beacon"

AlreadyBounded(ch) == ch.hold # 0 \/ ch.is.mode = "beacon"
StateAsked(req) ==
    [mode   |-> req.mode,
     colour |-> IF req.led = "status" THEN "none" ELSE req.colour,
     period |-> IF req.period # 0 THEN req.period ELSE DefaultPeriod[req.mode]]

\* pio_led_set under the lock.
Set(e, req, ms) ==
    LET l == req.led
        ch == e.ch[l]
        bounded == HoldOf(req) # 0
        is == StateAsked(req)
        taken ==
          [e EXCEPT !.ch[l].saved = IF bounded /\ ~AlreadyBounded(ch) THEN ch.is ELSE @,
                    !.ch[l].is = is,
                    !.ch[l].step = 0,
                    !.ch[l].hold = IF bounded THEN Expiry(ms, HoldOf(req)) ELSE @,
                    !.ch[l].next = IF req.mode \in Repeating
                                     THEN MsLater(ms, FrameInterval(is)) ELSE @,
                    !.first[l] = IF bounded /\ ch.hold = 0 THEN ch.is ELSE @,
                    !.bounded[l] = bounded]
    IN  Show(taken, l, req.mode # "off")

\* A thread enters pio_led_set: an accepted request reads the time.
Call(c) ==
    /\ call[c].at = None
    /\ calls < MaxCalls
    /\ \E req \in Requests :
          /\ Accepts(req)
          /\ call' = [call EXCEPT ![c] = [req |-> req, at |-> clock]]
    /\ calls' = calls + 1
    /\ UNCHANGED <<clock, led, frame>>

LockedSet(c) ==
    /\ call[c].at # None
    /\ frame[c] = None
    /\ LET ms == MsAt(call[c].at) IN led' = Rearm(Set(led, call[c].req, ms), c, ms)
    /\ call' = [call EXCEPT ![c] = NoCall]
    /\ UNCHANGED <<clock, frame, calls>>

\* The alarm's interrupt, which preempts a thread that has not masked it yet.
TakeInterrupt(c) ==
    /\ c \in led.pend \cap led.nvic
    /\ frame[c] = None
    /\ LET new == [led EXCEPT !.pend = @ \ {c}]
       IN  led' = [new EXCEPT !.fired = Since(led, new, clock)]
    /\ frame' = [frame EXCEPT ![c] = clock]
    /\ UNCHANGED <<clock, call, calls>>

\* What is owed in microseconds goes first, the pixel before the handover.
PinWork(e) ==
    LET written == IF "write" \in e.flags /\ Due(e.writeDue)
                     THEN Send([e EXCEPT !.flags = @ \ {"write"}], e.pending) ELSE e
    IN  IF "park" \in written.flags /\ Due(written.parkDue) THEN Park(written) ELSE written

LockedFrame(c) ==
    /\ frame[c] # None
    /\ LET ms == MsAt(frame[c])
           status == RunChannel(PinWork(led), "status", ms)
       IN  led' = Rearm(RunChannel(status, "rgb", ms), c, ms)
    /\ frame' = [frame EXCEPT ![c] = None]
    /\ UNCHANGED <<clock, call, calls>>

\* Time waits for an interrupt that is Late already, and for a lock or a
\* preempted thread.
Prompt(t) == Diff(clock, t, Wrap) < Late

Tick ==
    /\ led.pend \cap led.nvic # {} => Prompt(led.fired)
    /\ \A c \in Cores : /\ call[c].at # None => Prompt(call[c].at)
                        /\ frame[c] # None => Prompt(frame[c])
    /\ clock' = Later(1)
    /\ LET next == [led EXCEPT !.wire = NotNegative(@ - 1),
                               !.low = IF ~LineIsLow(led) THEN 0
                                       ELSE IF @ < ResetDelay THEN @ + 1 ELSE @]
           new == IF led.alarm = clock' THEN Fire(next) ELSE next
       IN  led' = [new EXCEPT !.fired = Since(led, new, clock')]
    /\ UNCHANGED <<call, frame, calls>>

---------------------------------------------------------------------------
Idle(is) == [is |-> is, saved |-> AtRest, step |-> 0, lit |-> is.mode # "off",
             next |-> 0, hold |-> 0]

\* After boot: the status LED is on or off as configured, through the engine,
\* and a board with separate pins has left the RGB LED's high.
Init ==
    /\ clock = 0
    /\ \E on \in BOOLEAN :
          led = [ch       |-> [l \in Leds |->
                                 Idle([AtRest EXCEPT !.mode = IF on /\ l = "status"
                                                                THEN "on" ELSE "off"])],
                 flags    |-> {},
                 claimed  |-> FALSE,
                 parkDue  |-> 0,
                 writeDue |-> 0,
                 pending  |-> Dark,
                 enabled  |-> on,
                 alarm    |-> None,     \* TIMER0_ALARM1 while its interrupt is enabled
                 nvic     |-> {},       \* the cores that have the interrupt enabled
                 pend     |-> {},       \* the cores that have it pending
                 fired    |-> 0,        \* when the interrupt came that is pending
                 sent     |-> Dark,     \* the last word given to the state machine
                 wire     |-> 0,        \* ticks until it is out
                 low      |-> 0,        \* ticks the RGB LED's line has been low
                 \* what the properties recall
                 asked    |-> Dark,     \* the last pixel asked for
                 highBy   |-> "boot",   \* what last had the line high
                 early    |-> {},       \* what had it high before a pixel without a reset
                 hurried  |-> FALSE,    \* a pixel was asked for before the last was out
                 cut      |-> FALSE,    \* a park has cut off a pixel
                 first    |-> [l \in Leds |-> AtRest],   \* what the first hold replaced
                 bounded  |-> [l \in Leds |-> FALSE]]    \* the last request in force ends
    /\ call = [c \in Cores |-> NoCall]
    /\ frame = [c \in Cores |-> None]
    /\ calls = 0

Next ==
    \/ Tick
    \/ \E c \in Cores : Call(c) \/ LockedSet(c) \/ TakeInterrupt(c) \/ LockedFrame(c)

Spec == Init /\ [][Next]_vars

---------------------------------------------------------------------------
(* Properties.                                                             *)

\* However holds nest and from whichever core they come, one that runs out
\* gives the LED back to what it was doing when the first of them arrived.
ExpiryReturns ==
    [][\A l \in Leds : led.ch[l].hold # 0 /\ led'.ch[l].hold = 0 =>
          led'.ch[l].is = led.first[l]]_vars

\* What is set that many milliseconds ahead is told apart from the past.
Near(n) == n \in Nat /\ 2 * (n * MsTicks + MsTicks + 3 * Late) < Wrap

\* A mode that repeats does so at such intervals.
Paced(is) ==
    is.mode \in Repeating =>
      /\ Near(FrameInterval(is))
      /\ is.mode = "flame" => \A k \in 0 .. Len(Flame) - 1 : Near(FlameInterval(is, k))

\* What callers ask for ends, and repeats, within half the counter's range, as
\* the code that takes the request does not make sure.
Roomy == \A req \in Requests :
            Accepts(req) => Near(HoldOf(req) + 1) /\ Paced(StateAsked(req))

\* A held mode, a beacon's among them, is given its end and ends on time, and
\* a repeating one gets each frame on time, whichever core armed the alarm last
\* and whatever else was asked for since: no later than the millisecond a
\* deadline is counted in, the age of the reading the alarm was set from, and
\* the time an interrupt and the lock may take.
OnTime(ms) == Diff(clock, ms * MsTicks, Wrap) <= MsTicks + 3 * Late
FramesOnTime ==
    \A l \in Leds :
      /\ led.bounded[l] => led.ch[l].hold # 0
      /\ led.ch[l].hold # 0 => OnTime(led.ch[l].hold)
      /\ led.ch[l].is.mode \in Repeating => OnTime(led.ch[l].next)

\* A waiting pixel goes, and a pin borrowed from the status LED comes back, as
\* soon as they are due but for an interrupt and the lock.
PinOnTime ==
    led.flags \cap {"park", "write"} # {} => Diff(clock, PinDue(led), Wrap) <= 2 * Late

\* The colour asked for last is the one that waits for its reset or else the
\* one sent last: no frame and no call, in any order, puts an older colour on
\* the wire after it.
Newest ==
    led.claimed => led.asked = (IF "write" \in led.flags THEN led.pending ELSE led.sent)

\* The first pixel after the claim, and one after a handover that left the
\* line high, go out on a line that has been low for its reset. A line the
\* status LED left high ("status") is not included: no flag records it.
WaitsOutReset == led.early \cap {"boot", "park"} = {}

\* A pixel is out before the handover after it can be due back.
Timely == WireTime + 2 * Late <= ParkDelay

\* The pin is taken from a pixel that waits or is on the wire only where
\* another pixel was asked for before the last one was out.
CutOnlyIfHurried == led.cut => led.hurried

\* What the API says of a request without a hold (ora/api.h 2929): it holds
\* until something changes it, which a frame is not.
PlainStays ==
    [][call' = call => \A l \in Leds : ~led.bounded[l] =>
          led'.ch[l].is = led.ch[l].is]_vars

=============================================================================
