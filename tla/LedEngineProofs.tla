-------------------------- MODULE LedEngineProofs --------------------------
(***************************************************************************)
(* The LED engine for every board, request set, flame table and length of  *)
(* time.  A hold that ends gives the LED back as it was before the first of *)
(* the holds, and no older colour follows a newer one.  A pixel waits out   *)
(* the reset that its chip needs.  What the shared pin is owed is done on   *)
(* time, and the pin is taken from no pixel that was not hurried.  Frames   *)
(* come and holds end on time.                                             *)
(***************************************************************************)
EXTENDS LedEngine, TLAPS

ChannelFields == {"is", "saved", "step", "lit", "next", "hold"}

\* What the proofs use of the engine's shape.
Shape(e) ==
    /\ {"ch", "first", "bounded", "flags", "claimed", "asked", "pending", "sent"} \subseteq DOMAIN e
    /\ DOMAIN e.ch = Leds
    /\ DOMAIN e.first = Leds
    /\ \A l \in Leds : DOMAIN e.ch[l] = ChannelFields

\* A channel whose hold runs remembers what the first hold replaced, which no
\* hold ends; and a beacon always has a hold.
Remembers(e, l) ==
    /\ e.ch[l].is.mode = "beacon" => e.ch[l].hold # 0
    /\ e.ch[l].hold # 0 => /\ e.ch[l].saved = e.first[l]
                           /\ e.ch[l].saved.mode # "beacon"

\* The colour asked for last waits, or was the last one sent.
Last(e) == e.claimed => e.asked = (IF "write" \in e.flags THEN e.pending ELSE e.sent)

HInv(e) == /\ Shape(e)
           /\ \A l \in Leds : Remembers(e, l)
           /\ Last(e)

\* From e to f only the pin moves.
Keeps(e, f) == /\ DOMAIN f = DOMAIN e
               /\ f.ch = e.ch
               /\ f.first = e.first
               /\ f.bounded = e.bounded

---------------------------------------------------------------------------
(* The pin.                                                                *)

\* A word sent, to a pin or to none, is the word sent last.
LEMMA SendKeeps ==
    ASSUME NEW e, NEW pixel, Shape(e)
    PROVE  /\ Keeps(e, Send(e, pixel))
           /\ Send(e, pixel).sent = pixel
           /\ Send(e, pixel).flags = e.flags
           /\ Send(e, pixel).claimed = e.claimed
           /\ Send(e, pixel).asked = e.asked
BY DEF Send, Keeps, Shape

\* The claim comes with a reset that is owed.
LEMMA ClaimKeeps ==
    ASSUME NEW e, Shape(e)
    PROVE  Keeps(e, Claim(e))
BY DEF Claim, Keeps, Shape

LEMMA BorrowKeeps ==
    ASSUME NEW e, Shape(e)
    PROVE  /\ Keeps(e, Borrow(e))
           /\ "write" \in Borrow(e).flags <=> "write" \in e.flags
BY DEF Borrow, Keeps, Shape

\* What a pixel asked for leads to, from the engine with the pin borrowed: it
\* waits, and then is the one that waits, or it is sent and none waits.
LEMMA RgbWriteKeeps ==
    ASSUME NEW e, NEW pixel, Shape(e)
    PROVE  Keeps(e, RgbWrite(e, pixel)) /\ Last(RgbWrite(e, pixel))
<1> DEFINE c == Borrow(Claim(e))
           b == [c EXCEPT !.asked = pixel, !.hurried = @ \/ "write" \in e.flags \/ e.wire > 0]
           h == [b EXCEPT !.pending = pixel,
                          !.writeDue = Later(ResetDelay),
                          !.flags = (@ \cup {"write"}) \ {"reset"}]
<1>1. Keeps(e, Claim(e)) /\ Shape(Claim(e))
  BY ClaimKeeps DEF Keeps, Shape
<1>2. Keeps(e, c) /\ Shape(c)
  BY <1>1, BorrowKeeps DEF Keeps, Shape
<1>3. Keeps(e, b) /\ Shape(b) /\ b.asked = pixel
  BY <1>2 DEF Keeps, Shape
<1> HIDE DEF c
<1>4. Keeps(e, h) /\ Shape(h) /\ h.asked = pixel /\ h.pending = pixel /\ "write" \in h.flags
  BY <1>3 DEF Keeps, Shape
<1> HIDE DEF b, h
<1>5. CASE MustWait(b)
  <2> DEFINE r == [h EXCEPT !.parkDue = ParkAfterWrite(h)]
  <2>1. Keeps(e, r) /\ Last(r)
    BY <1>4 DEF Keeps, Shape, Last
  <2>2. RgbWrite(e, pixel) = r
    BY <1>5 DEF RgbWrite, c, b, h
  <2> QED BY <2>1, <2>2
<1>6. CASE ~MustWait(b) /\ Waiting(b)
  <2> DEFINE r == [b EXCEPT !.pending = pixel]
  <2>1. Keeps(e, r) /\ Last(r)
    BY <1>3, <1>6 DEF Keeps, Shape, Last, Waiting
  <2>2. RgbWrite(e, pixel) = r
    BY <1>6 DEF RgbWrite, c, b
  <2> QED BY <2>1, <2>2
<1>7. CASE ~MustWait(b) /\ ~Waiting(b)
  <2>1. Keeps(e, Send(b, pixel)) /\ Last(Send(b, pixel))
    BY <1>3, <1>7, SendKeeps DEF Keeps, Last, Waiting
  <2>2. RgbWrite(e, pixel) = Send(b, pixel)
    BY <1>7 DEF RgbWrite, c, b
  <2> QED BY <2>1, <2>2
<1> QED BY <1>5, <1>6, <1>7

\* The status LED's level moves no pixel.
LEMMA StatusShowKeeps ==
    ASSUME NEW e, NEW lit, Shape(e), Last(e)
    PROVE  Keeps(e, StatusShow(e, lit)) /\ Last(StatusShow(e, lit))
BY DEF StatusShow, Keeps, Shape, Last

\* A park forgets no pixel that waits.
LEMMA ParkKeeps ==
    ASSUME NEW e, Shape(e), Last(e)
    PROVE  Keeps(e, Park(e)) /\ Last(Park(e))
<1>1. /\ Keeps(e, Park(e))
      /\ Park(e).claimed = e.claimed /\ Park(e).asked = e.asked
      /\ Park(e).pending = e.pending /\ Park(e).sent = e.sent
  BY DEF Park, Keeps, Shape
<1>2. "write" \in Park(e).flags <=> "write" \in e.flags
  BY DEF Park, Shape
<1> QED BY <1>1, <1>2 DEF Last

\* A waiting pixel leaves the queue only by being sent.
LEMMA PinWorkKeeps ==
    ASSUME NEW e, Shape(e), Last(e)
    PROVE  Keeps(e, PinWork(e)) /\ Last(PinWork(e))
<1> DEFINE n == [e EXCEPT !.flags = @ \ {"write"}]
           w == IF "write" \in e.flags /\ Due(e.writeDue) THEN Send(n, e.pending) ELSE e
<1>1. /\ Keeps(e, n) /\ Shape(n) /\ "write" \notin n.flags
      /\ n.claimed = e.claimed /\ n.asked = e.asked
  BY DEF Keeps, Shape
<1> HIDE DEF n
<1>2. Keeps(e, w) /\ Shape(w) /\ Last(w)
  BY <1>1, SendKeeps DEF Keeps, Shape, Last
<1>3. PinWork(e) = (IF "park" \in w.flags /\ Due(w.parkDue) THEN Park(w) ELSE w)
  BY DEF PinWork, n
<1> HIDE DEF w
<1> QED BY <1>2, <1>3, ParkKeeps DEF Keeps

---------------------------------------------------------------------------
(* The channels.                                                           *)

\* From e to f only channel l changes, and its hold ends only by giving back
\* what the first hold replaced.
Runs(e, f, l) ==
    /\ HInv(f)
    /\ \A k \in Leds \ {l} : f.ch[k] = e.ch[k] /\ f.first[k] = e.first[k]
    /\ e.ch[l].hold # 0 /\ f.ch[l].hold = 0 => f.ch[l].is = e.first[l]

\* The same of what a step does to both.
StepOf(e, f) ==
    /\ HInv(f)
    /\ \A l \in Leds : e.ch[l].hold # 0 /\ f.ch[l].hold = 0 => f.ch[l].is = e.first[l]

\* Whatever keeps the channels keeps what they remember.
LEMMA KeepsHInv ==
    ASSUME NEW e, NEW f, HInv(e), Keeps(e, f), Last(f)
    PROVE  HInv(f)
BY DEF HInv, Keeps, Shape, Remembers

\* Showing a channel changes whether it is lit and the pin, nothing else of it.
LEMMA ShowKeeps ==
    ASSUME NEW e, NEW l \in Leds, NEW lit, Shape(e), Last(e)
    PROVE  /\ Keeps([e EXCEPT !.ch[l].lit = lit], Show(e, l, lit))
           /\ Last(Show(e, l, lit))
<1> DEFINE s == [e EXCEPT !.ch[l].lit = lit]
<1>1. Shape(s) /\ Last(s)
  BY DEF Shape, Last, ChannelFields
<1> HIDE DEF s
<1>2. CASE l = "rgb"
  <2> DEFINE p == Pixel(e.ch[l].is.colour, IF lit THEN Steps["on"] ELSE 0)
  <2>1. Show(e, l, lit) = RgbWrite(s, p)
    BY <1>2 DEF Show, s
  <2> HIDE DEF p
  <2> QED BY <1>1, <2>1, RgbWriteKeeps DEF s
<1>3. CASE l # "rgb"
  <2>1. Show(e, l, lit) = StatusShow(s, lit)
    BY <1>3 DEF Show, s
  <2> QED BY <1>1, <2>1, StatusShowKeeps DEF s
<1> QED BY <1>2, <1>3

\* A hold that runs out.
LEMMA RestoreRuns ==
    ASSUME NEW e, NEW l \in Leds, HInv(e), e.ch[l].hold # 0
    PROVE  Runs(e, Restore(e, l), l)
<1> DEFINE saved == e.ch[l].saved
           b == [e EXCEPT !.ch[l].is = saved, !.ch[l].step = 0, !.ch[l].hold = 0,
                          !.ch[l].next = IF saved.mode \in Repeating THEN MsAt(clock) ELSE @,
                          !.bounded[l] = FALSE, !.first[l] = AtRest]
           lit == saved.mode # "off"
<1>1. saved = e.first[l] /\ saved.mode # "beacon"
  BY DEF HInv, Remembers, Shape
<1>2. /\ DOMAIN b = DOMAIN e /\ DOMAIN b.ch = Leds /\ DOMAIN b.first = Leds
      /\ \A k \in Leds \ {l} : b.ch[k] = e.ch[k] /\ b.first[k] = e.first[k]
      /\ DOMAIN b.ch[l] = ChannelFields /\ b.ch[l].is = saved /\ b.ch[l].hold = 0
      /\ Last(b)
  BY DEF HInv, Shape, Last, ChannelFields
<1> HIDE DEF b
<1>3. Shape(b)
  BY <1>1, <1>2 DEF HInv, Shape
<1> DEFINE s == [b EXCEPT !.ch[l].lit = lit]
<1>4. /\ DOMAIN s = DOMAIN e /\ DOMAIN s.ch = Leds /\ DOMAIN s.first = Leds
      /\ \A k \in Leds \ {l} : s.ch[k] = e.ch[k] /\ s.first[k] = e.first[k]
      /\ DOMAIN s.ch[l] = ChannelFields /\ s.ch[l].is = saved /\ s.ch[l].hold = 0
  BY <1>2, <1>3 DEF Shape, ChannelFields
<1>5. Restore(e, l) = Show(b, l, lit)
  BY DEF Restore, b
<1> HIDE DEF saved, lit
<1>6. Keeps(s, Restore(e, l)) /\ Last(Restore(e, l))
  BY <1>2, <1>3, <1>5, ShowKeeps
<1> HIDE DEF s
<1> QED BY <1>1, <1>4, <1>6 DEF Runs, HInv, Shape, Remembers, Keeps

\* From e to f nothing that channels remember changes.
Carries(e, f) ==
    /\ DOMAIN f = DOMAIN e
    /\ f.first = e.first
    /\ DOMAIN f.ch = Leds
    /\ \A k \in Leds : /\ DOMAIN f.ch[k] = ChannelFields
                       /\ f.ch[k].is = e.ch[k].is
                       /\ f.ch[k].hold = e.ch[k].hold
                       /\ f.ch[k].saved = e.ch[k].saved

LEMMA CarriesHInv ==
    ASSUME NEW e, NEW f, HInv(e), Carries(e, f), Last(f)
    PROVE  HInv(f)
BY DEF HInv, Carries, Shape, Remembers

\* A frame moves a channel on in its mode, and neither ends nor makes a hold.
LEMMA AdvanceRuns ==
    ASSUME NEW e, NEW l \in Leds, NEW ms, HInv(e), e.ch[l].is.mode \in Repeating
    PROVE  Runs(e, Advance(e, l, ms), l)
<1> DEFINE ch == e.ch[l]
           mode == ch.is.mode
           step == (ch.step + 1) % (IF mode = "flame" THEN Len(Flame) ELSE Steps[mode])
           wait == IF mode = "flame" THEN FlameInterval(ch.is, step) ELSE FrameInterval(ch.is)
           m == [e EXCEPT !.ch[l].step = step, !.ch[l].next = MsLater(ms, wait)]
           Lit(level, colour) ==
               RgbWrite([m EXCEPT !.ch[l].lit = (level # 0)], Pixel(colour, level))
           f == Advance(e, l, ms)
<1> HIDE DEF step, wait
<1>1. /\ Carries(e, m) /\ Shape(m) /\ Last(m)
      /\ \A k \in Leds \ {l} : m.ch[k] = e.ch[k]
  BY DEF HInv, Shape, Last, ChannelFields, Carries
<1> HIDE DEF m
<1> DEFINE s(lit) == [m EXCEPT !.ch[l].lit = lit]
<1>2. ASSUME NEW lit
      PROVE  /\ Carries(e, s(lit)) /\ Shape(s(lit))
             /\ \A k \in Leds \ {l} : s(lit).ch[k] = e.ch[k]
  BY <1>1 DEF Carries, Shape, ChannelFields
<1> HIDE DEF s
<1>3. \E lit : Keeps(s(lit), f) /\ Last(f)
  <2>1. ASSUME NEW lit
        PROVE  Keeps(s(lit), Show(m, l, lit)) /\ Last(Show(m, l, lit))
    BY <1>1, ShowKeeps DEF s
  <2>2. ASSUME NEW level, NEW colour
        PROVE  Keeps(s(level # 0), Lit(level, colour)) /\ Last(Lit(level, colour))
    BY <1>2, RgbWriteKeeps DEF s
  <2> HIDE DEF Lit
  <2>3. \/ \E lit : f = Show(m, l, lit)
        \/ \E level, colour : f = Lit(level, colour)
    <3>1. CASE mode = "beacon"
      <4>1. f = Show(m, l, ~ch.lit) BY <3>1 DEF Advance, m, step, wait
      <4> QED BY <4>1
    <3>2. CASE mode = "flame"
      <4>1. f = Show(m, l, Flame[step + 1][1]) BY <3>2 DEF Advance, m, step, wait
      <4> QED BY <4>1
    <3>3. CASE mode = "blink"
      <4>1. f = Show(m, l, step = 0) BY <3>3 DEF Advance, m, step, wait
      <4> QED BY <4>1
    <3>4. CASE mode = "cycle"
      <4>1. f = Lit(step + 1, "hue") BY <3>4 DEF Advance, m, step, wait, Lit
      <4> QED BY <4>1
    <3>5. CASE mode = "breathe"
      <4>1. f = Lit(BreatheLevel(step), ch.is.colour) BY <3>5 DEF Advance, m, step, wait, Lit
      <4> QED BY <4>1
    <3> QED BY <3>1, <3>2, <3>3, <3>4, <3>5 DEF Repeating
  <2>4. CASE \E lit : f = Show(m, l, lit)
    BY <2>1, <2>4
  <2>5. CASE \E level, colour : f = Lit(level, colour)
    BY <2>2, <2>5
  <2> QED BY <2>3, <2>4, <2>5
<1> HIDE DEF f
<1>4. PICK lit : Keeps(s(lit), f) /\ Last(f)
  BY <1>3
<1>5. /\ Carries(e, f)
      /\ \A k \in Leds \ {l} : f.ch[k] = e.ch[k] /\ f.first[k] = e.first[k]
  BY <1>2, <1>4 DEF Carries, Keeps
<1>6. HInv(f)
  BY <1>4, <1>5, CarriesHInv
<1> QED BY <1>5, <1>6 DEF Runs, Carries, f

\* One channel's part of a frame.
LEMMA RunChannelRuns ==
    ASSUME NEW e, NEW l \in Leds, NEW ms, HInv(e)
    PROVE  Runs(e, RunChannel(e, l, ms), l)
<1>1. CASE Expired(e.ch[l], ms)
  BY <1>1, RestoreRuns DEF RunChannel, Expired
<1>2. CASE ~Expired(e.ch[l], ms) /\ FrameDue(e.ch[l], ms)
  BY <1>2, AdvanceRuns DEF RunChannel, FrameDue
<1>3. CASE ~Expired(e.ch[l], ms) /\ ~FrameDue(e.ch[l], ms)
  <2>1. RunChannel(e, l, ms) = e
    BY <1>3 DEF RunChannel
  <2> QED BY <2>1 DEF Runs
<1> QED BY <1>1, <1>2, <1>3

\* A request: what a hold interrupts is kept by the first of several, and a
\* hold that runs is never taken for none.
LEMMA SetSteps ==
    ASSUME NEW e, NEW req \in Requests, NEW ms, HInv(e)
    PROVE  StepOf(e, Set(e, req, ms))
<1> DEFINE l == req.led
           ch == e.ch[l]
           bounded == HoldOf(req) # 0
           is == StateAsked(req)
           end == Expiry(ms, HoldOf(req))
           t == [e EXCEPT !.ch[l].saved = IF bounded /\ ~AlreadyBounded(ch) THEN ch.is ELSE @,
                          !.ch[l].is = is,
                          !.ch[l].step = 0,
                          !.ch[l].hold = IF bounded THEN end ELSE @,
                          !.ch[l].next = IF req.mode \in Repeating
                                           THEN MsLater(ms, FrameInterval(is)) ELSE @,
                          !.first[l] = IF bounded /\ ch.hold = 0 THEN ch.is ELSE @,
                          !.bounded[l] = bounded]
           lit == req.mode # "off"
           s == [t EXCEPT !.ch[l].lit = lit]
           f == Set(e, req, ms)
<1>1. l \in Leds /\ is.mode = req.mode
  BY RequestsAssumption DEF StateAsked
<1>2. end # 0
  BY DEF Expiry
<1>3. req.mode = "beacon" => bounded
  BY TimeAssumption DEF HoldOf
<1> HIDE DEF is, end, bounded, lit
<1>4. /\ DOMAIN t = DOMAIN e /\ DOMAIN t.ch = Leds /\ DOMAIN t.first = Leds
      /\ \A k \in Leds \ {l} : t.ch[k] = e.ch[k] /\ t.first[k] = e.first[k]
      /\ DOMAIN t.ch[l] = ChannelFields
      /\ t.ch[l].is = is
      /\ t.ch[l].hold = (IF bounded THEN end ELSE ch.hold)
      /\ t.ch[l].saved = (IF bounded /\ ~AlreadyBounded(ch) THEN ch.is ELSE ch.saved)
      /\ t.first[l] = (IF bounded /\ ch.hold = 0 THEN ch.is ELSE e.first[l])
      /\ Last(t)
  <2>1. /\ {"ch", "first", "bounded"} \subseteq DOMAIN e
        /\ DOMAIN e.ch = Leds /\ DOMAIN e.first = Leds /\ DOMAIN e.ch[l] = ChannelFields
    BY <1>1 DEF HInv, Shape
  <2>2. DOMAIN t = DOMAIN e
    BY <2>1
  <2>3. DOMAIN t.ch = Leds /\ DOMAIN t.first = Leds
    BY <2>1
  <2>4. \A k \in Leds \ {l} : t.ch[k] = e.ch[k] /\ t.first[k] = e.first[k]
    BY <2>1
  <2>5. DOMAIN t.ch[l] = ChannelFields
    BY <1>1, <2>1
  <2>6. t.ch[l].is = is
    BY <1>1, <2>1 DEF ChannelFields
  <2>7. t.ch[l].hold = (IF bounded THEN end ELSE ch.hold)
    BY <1>1, <2>1 DEF ChannelFields
  <2>8. t.ch[l].saved = (IF bounded /\ ~AlreadyBounded(ch) THEN ch.is ELSE ch.saved)
    BY <1>1, <2>1 DEF ChannelFields
  <2>9. t.first[l] = (IF bounded /\ ch.hold = 0 THEN ch.is ELSE e.first[l])
    BY <1>1, <2>1 DEF ChannelFields
  <2>10. Last(t)
    BY DEF HInv, Shape, Last
  <2> QED BY <2>2, <2>3, <2>4, <2>5, <2>6, <2>7, <2>8, <2>9, <2>10
<1> HIDE DEF t
<1>5. Shape(t)
  BY <1>4 DEF HInv, Shape
<1>6. Remembers(t, l)
  BY <1>1, <1>2, <1>3, <1>4 DEF HInv, Remembers, AlreadyBounded
<1>7. HInv(t)
  BY <1>4, <1>5, <1>6 DEF HInv, Remembers
<1>8. Carries(t, s)
  BY <1>1, <1>5 DEF Shape, ChannelFields, Carries
<1> HIDE DEF s
<1>9. f = Show(t, l, lit)
  BY DEF Set, t, is, bounded, end, lit
<1> HIDE DEF f
<1>10. Keeps(s, f) /\ Last(f)
  BY <1>1, <1>5, <1>7, <1>9, ShowKeeps DEF s, HInv
<1>11. Carries(t, f)
  BY <1>8, <1>10 DEF Carries, Keeps
<1>12. HInv(f)
  BY <1>7, <1>10, <1>11, CarriesHInv
<1>13. ASSUME NEW k \in Leds, e.ch[k].hold # 0, f.ch[k].hold = 0
       PROVE  f.ch[k].is = e.first[k]
  BY <1>2, <1>4, <1>11, <1>13 DEF Carries
<1> QED BY <1>12, <1>13 DEF StepOf, f

---------------------------------------------------------------------------
(* The steps.                                                              *)

\* From e to f the engine's deadlines, or its line, move.
Bears(e, f) ==
    /\ Keeps(e, f)
    /\ f.claimed = e.claimed /\ f.asked = e.asked /\ f.flags \cap {"write"} = e.flags \cap {"write"}
    /\ f.pending = e.pending /\ f.sent = e.sent

LEMMA BearsSteps ==
    ASSUME NEW e, NEW f, HInv(e), Bears(e, f)
    PROVE  StepOf(e, f)
<1>1. "write" \in f.flags <=> "write" \in e.flags
  BY DEF Bears
<1>2. Last(f)
  BY <1>1 DEF HInv, Last, Bears
<1>3. HInv(f)
  BY <1>2, KeepsHInv DEF Bears
<1> QED BY <1>3 DEF StepOf, Bears, Keeps

LEMMA FireBears ==
    ASSUME NEW e, Shape(e)
    PROVE  Bears(e, Fire(e))
BY DEF Fire, Bears, Keeps, Shape

\* The alarm changes no LED.
LEMMA RearmBears ==
    ASSUME NEW e, NEW c, NEW ms, Shape(e)
    PROVE  Bears(e, Rearm(e, c, ms))
<1> DEFINE waits == Wait(e, ms)
           wait == CHOOSE w \in waits : \A x \in waits : w <= x
           a == [e EXCEPT !.alarm = Later(wait), !.nvic = @ \cup {c},
                          !.flags = @ \cup {"timer"}]
           d == [e EXCEPT !.alarm = None, !.nvic = @ \ {c}, !.flags = @ \ {"timer"}]
           n == IF waits # {} THEN IF wait = 0 THEN Fire(a) ELSE a
                ELSE IF "timer" \in e.flags THEN d ELSE e
           at == Since(e, n, clock)
<1> HIDE DEF waits, wait
<1>1. Bears(e, a) /\ Shape(a)
  BY DEF Bears, Keeps, Shape
<1>2. Bears(e, d)
  BY DEF Bears, Keeps, Shape
<1>3. Bears(e, e)
  BY DEF Bears, Keeps
<1> HIDE DEF a, d
<1>4. Bears(e, n)
  BY <1>1, <1>2, <1>3, FireBears DEF Bears, Keeps
<1>5. Rearm(e, c, ms) = [n EXCEPT !.fired = at]
  BY DEF Rearm, a, d, waits, wait
<1> HIDE DEF n, at
<1> QED BY <1>4, <1>5 DEF Bears, Keeps, Shape

\* Alarm and engine together.
LEMMA RearmSteps ==
    ASSUME NEW e, NEW f, NEW c, NEW ms, StepOf(e, f)
    PROVE  StepOf(e, Rearm(f, c, ms))
<1>1. Bears(f, Rearm(f, c, ms))
  BY RearmBears DEF StepOf, HInv
<1>2. StepOf(f, Rearm(f, c, ms))
  BY <1>1, BearsSteps DEF StepOf
<1> QED BY <1>1, <1>2 DEF StepOf, Bears, Keeps

\* A frame: what the pin is owed, then one channel after the other.
LEMMA FrameSteps ==
    ASSUME NEW e, NEW ms, HInv(e)
    PROVE  StepOf(e, RunChannel(RunChannel(PinWork(e), "status", ms), "rgb", ms))
<1> DEFINE w == PinWork(e)
           s == RunChannel(w, "status", ms)
           r == RunChannel(s, "rgb", ms)
<1>1. Keeps(e, w) /\ HInv(w)
  BY PinWorkKeeps, KeepsHInv DEF HInv
<1> HIDE DEF w
<1>2. Runs(w, s, "status")
  BY <1>1, RunChannelRuns DEF Leds
<1> HIDE DEF s
<1>3. Runs(s, r, "rgb")
  BY <1>2, RunChannelRuns DEF Leds, Runs
<1> HIDE DEF r
<1>4. HInv(r)
  BY <1>3 DEF Runs
<1>5. e.ch["status"].hold # 0 /\ r.ch["status"].hold = 0 => r.ch["status"].is = e.first["status"]
  BY <1>1, <1>2, <1>3 DEF Runs, Keeps, Leds
<1>6. e.ch["rgb"].hold # 0 /\ r.ch["rgb"].hold = 0 => r.ch["rgb"].is = e.first["rgb"]
  BY <1>1, <1>2, <1>3 DEF Runs, Keeps, Leds
<1> QED BY <1>4, <1>5, <1>6 DEF StepOf, Leds, s, r, w

\* The invariant: a thread under way brings one of the requests.
IInv == /\ HInv(led)
        /\ DOMAIN call = Cores
        /\ \A c \in Cores : call[c].at # None => call[c].req \in Requests

LEMMA InitIInv == Init => IInv
<1> SUFFICES ASSUME Init PROVE IInv
  OBVIOUS
<1>1. /\ Shape(led)
      /\ \A l \in Leds : led.ch[l].hold = 0 /\ led.ch[l].is.mode # "beacon"
      /\ led.claimed = FALSE
  BY DEF Init, Shape, ChannelFields, Idle, AtRest
<1>2. HInv(led)
  BY <1>1 DEF HInv, Remembers, Last
<1> QED BY <1>2 DEF IInv, Init, NoCall, None

LEMMA NextIInv == IInv /\ [Next]_vars => IInv' /\ (vars' = vars \/ StepOf(led, led'))
<1> SUFFICES ASSUME IInv, [Next]_vars PROVE IInv' /\ (vars' = vars \/ StepOf(led, led'))
  OBVIOUS
<1>1. HInv(led) /\ Shape(led)
  BY DEF IInv, HInv
<1>2. StepOf(led, led)
  BY <1>1 DEF StepOf
<1>3. CASE Tick
  <2> DEFINE n == [led EXCEPT !.wire = NotNegative(@ - 1),
                              !.low = IF ~LineIsLow(led) THEN 0
                                      ELSE IF @ < ResetDelay THEN @ + 1 ELSE @]
             f == IF led.alarm = clock' THEN Fire(n) ELSE n
             at == Since(led, f, clock')
  <2>1. Bears(led, n) /\ Shape(n)
    BY <1>1 DEF Bears, Keeps, Shape
  <2>2. led' = [f EXCEPT !.fired = at] /\ call' = call
    BY <1>3 DEF Tick
  <2> HIDE DEF n
  <2>3. Bears(led, f) /\ Shape(f)
    BY <2>1, FireBears DEF Bears, Keeps, Shape
  <2> HIDE DEF f, at
  <2>4. Bears(led, led')
    BY <2>2, <2>3 DEF Bears, Keeps, Shape
  <2> QED BY <1>1, <2>2, <2>4, BearsSteps DEF IInv, StepOf
<1>4. ASSUME NEW c \in Cores, Call(c) PROVE IInv' /\ StepOf(led, led')
  <2>1. PICK req \in Requests : call' = [call EXCEPT ![c] = [req |-> req, at |-> clock]]
    BY <1>4 DEF Call
  <2>2. led' = led
    BY <1>4 DEF Call
  <2> QED BY <1>2, <2>1, <2>2 DEF IInv
<1>5. ASSUME NEW c \in Cores, LockedSet(c) PROVE IInv' /\ StepOf(led, led')
  <2>1. call[c].req \in Requests
    BY <1>5 DEF LockedSet, IInv
  <2>2. StepOf(led, led')
    BY <1>1, <1>5, <2>1, SetSteps, RearmSteps DEF LockedSet
  <2>3. call' = [call EXCEPT ![c] = NoCall]
    BY <1>5 DEF LockedSet
  <2> QED BY <2>2, <2>3 DEF IInv, StepOf, NoCall
<1>6. ASSUME NEW c \in Cores, TakeInterrupt(c) PROVE IInv' /\ StepOf(led, led')
  <2> DEFINE n == [led EXCEPT !.pend = @ \ {c}]
             at == Since(led, n, clock)
  <2>1. led' = [n EXCEPT !.fired = at] /\ call' = call
    BY <1>6 DEF TakeInterrupt
  <2> HIDE DEF at
  <2>2. Bears(led, led')
    BY <1>1, <2>1 DEF Bears, Keeps, Shape
  <2> QED BY <1>1, <2>1, <2>2, BearsSteps DEF IInv, StepOf
<1>7. ASSUME NEW c \in Cores, LockedFrame(c) PROVE IInv' /\ StepOf(led, led')
  <2>1. StepOf(led, led')
    BY <1>1, <1>7, FrameSteps, RearmSteps DEF LockedFrame
  <2>2. call' = call
    BY <1>7 DEF LockedFrame
  <2> QED BY <2>1, <2>2 DEF IInv, StepOf
<1>8. CASE UNCHANGED vars
  BY <1>8 DEF vars, IInv, HInv, Shape, Remembers, Last
<1> QED BY <1>3, <1>4, <1>5, <1>6, <1>7, <1>8 DEF Next

---------------------------------------------------------------------------
(* The line.  A pixel on a chip that has not seen its reset is lost.       *)

LineFields == {"flags", "claimed", "enabled", "wire", "low", "highBy", "early", "writeDue"}

\* What b holds of the line is what e does.
SameLine(e, f) ==
    /\ LineFields \subseteq DOMAIN f
    /\ f.flags = e.flags /\ f.claimed = e.claimed /\ f.enabled = e.enabled
    /\ f.wire = e.wire /\ f.low = e.low /\ f.highBy = e.highBy
    /\ f.early = e.early /\ f.writeDue = e.writeDue

LineType(e) ==
    /\ LineFields \subseteq DOMAIN e
    /\ e.flags \subseteq {"park", "pio", "write", "high", "timer"}
    /\ e.claimed \in BOOLEAN
    /\ e.wire \in Nat /\ e.low \in Nat /\ e.low <= ResetDelay
    /\ e.writeDue \in Clocks

\* The boot level or a handover had the line high, and it has not been low for
\* its reset since.
Unrested(e) == e.highBy \in {"boot", "park"} /\ e.low < ResetDelay

\* Ticks until t.
Until(t) == (t - clock) % Wrap

\* The flags of the pin are those of a claimed engine, and but for "write" of
\* one that shares it.
FlagsFit(e) ==
    /\ "write" \in e.flags => e.claimed
    /\ "pio" \in e.flags => Shared /\ e.claimed
    /\ "park" \in e.flags => "pio" \in e.flags
    /\ "high" \in e.flags => Shared /\ e.claimed

\* Only a pixel takes a line up, or the GPIO while it has the pin, and the
\* flags know a handover's high level from the status LED's.
WireIsPixel(e) == e.wire # 0 => WithPio(e) /\ e.highBy = "pixel"
HighIsKnown(e) ==
    e.claimed /\ ~WithPio(e) /\ ~e.enabled => e.highBy = "status" \/ "high" \in e.flags

\* A pixel waits for as long as the line is unrested and the state machine has
\* it, for long enough; or the flag is up that makes the next one wait.
ResetIsOwed(e) ==
    e.claimed /\ Unrested(e) =>
        /\ "write" \in e.flags \/ ("high" \in e.flags /\ ~WithPio(e))
        /\ "write" \in e.flags =>
             \/ "high" \in e.flags /\ ~WithPio(e)
             \/ /\ Until(e.writeDue) \in 1 .. ResetDelay
                /\ e.low + Until(e.writeDue) >= ResetDelay

NoneEarly(e) == e.early \cap {"boot", "park"} = {}

LineInv(e) == /\ LineType(e) /\ FlagsFit(e) /\ WireIsPixel(e) /\ HighIsKnown(e)
              /\ ResetIsOwed(e) /\ NoneEarly(e)

LEMMA WrapIsNat == Wrap \in Nat /\ Wrap > 1 /\ 2 * ResetDelay <= Wrap /\ 2 * ParkDelay <= Wrap
                   /\ ResetDelay \in Nat /\ ParkDelay \in Nat
<1>1. MsTicks * MsWrap \in Nat /\ MsTicks * MsWrap > 1
  BY TimeAssumption
<1> QED BY <1>1, TimeAssumption, DelayAssumption DEF Wrap

LEMMA SmallMod == ASSUME NEW w \in Nat, w > 0, NEW x \in Int
                  PROVE  /\ 0 <= x /\ x < w => x % w = x
                         /\ w <= x /\ x < 2 * w => x % w = x - w
                         /\ -w <= x /\ x < 0 => x % w = x + w
                         /\ x % w \in 0 .. w - 1
  OBVIOUS

\* A delay begun now is over when it has passed, and not before.
LEMMA LaterIs ==
    ASSUME clock \in Clocks, NEW k \in Nat, 2 * k <= Wrap
    PROVE  Later(k) \in Clocks /\ Until(Later(k)) = k
<1>1. clock \in Nat /\ clock < Wrap /\ k < Wrap
  BY WrapIsNat DEF Clocks
<1>2. Later(k) = (IF clock + k < Wrap THEN clock + k ELSE clock + k - Wrap)
  BY <1>1, WrapIsNat, SmallMod DEF Later
<1>3. Until(Later(k)) = k
  <2>1. CASE clock + k < Wrap
    <3>1. Later(k) - clock = k
      BY <1>1, <1>2, <2>1
    <3> QED BY <1>1, <3>1, WrapIsNat, SmallMod DEF Until
  <2>2. CASE clock + k >= Wrap
    <3>1. Later(k) - clock = k - Wrap
      BY <1>1, <1>2, <2>2, WrapIsNat
    <3> QED BY <1>1, <3>1, WrapIsNat, SmallMod DEF Until
  <2> QED BY <1>1, <2>1, <2>2, WrapIsNat
<1> QED BY <1>1, <1>2, <1>3, WrapIsNat DEF Clocks

LEMMA DueIs ==
    ASSUME clock \in Clocks, NEW t \in Clocks, Until(t) \in 1 .. ResetDelay
    PROVE  ~Due(t)
<1>1. clock \in Nat /\ clock < Wrap /\ t \in Nat /\ t < Wrap
  BY WrapIsNat DEF Clocks
<1>2. (clock - t) % Wrap = Wrap - Until(t)
  <2>1. CASE t > clock
    <3>1. Until(t) = t - clock
      BY <1>1, <2>1, WrapIsNat, SmallMod DEF Until
    <3>2. (clock - t) % Wrap = clock - t + Wrap
      BY <1>1, <2>1, WrapIsNat, SmallMod
    <3> QED BY <3>1, <3>2, <1>1, WrapIsNat
  <2>2. CASE t <= clock
    <3>1. t # clock
      BY <1>1, WrapIsNat, SmallMod DEF Until
    <3>2. Until(t) = t - clock + Wrap
      BY <1>1, <2>2, <3>1, WrapIsNat, SmallMod DEF Until
    <3>3. (clock - t) % Wrap = clock - t
      BY <1>1, <2>2, WrapIsNat, SmallMod
    <3> QED BY <3>2, <3>3, <1>1, WrapIsNat
  <2> QED BY <1>1, <2>1, <2>2
<1>3. 2 * (Wrap - Until(t)) >= Wrap
  BY WrapIsNat
<1>4. Diff(clock, t, Wrap) = Wrap - Until(t) - Wrap
  BY <1>2, <1>3 DEF Diff
<1> QED BY <1>4, WrapIsNat DEF Due

\* A tick brings a delay to come one tick nearer.
LEMMA TickUntil ==
    ASSUME clock \in Clocks, clock' = (IF clock + 1 < Wrap THEN clock + 1 ELSE 0),
           NEW t \in Clocks, Until(t) # 0
    PROVE  (t - clock') % Wrap = Until(t) - 1
<1>1. clock \in Nat /\ clock < Wrap /\ t \in Nat /\ t < Wrap
  BY WrapIsNat DEF Clocks
<1>2. CASE t > clock
  <2>1. Until(t) = t - clock
    BY <1>1, <1>2, WrapIsNat, SmallMod DEF Until
  <2>2. clock' = clock + 1
    BY <1>1, <1>2, WrapIsNat
  <2>3. (t - clock') % Wrap = t - clock'
    BY <1>1, <1>2, <2>2, WrapIsNat, SmallMod
  <2> QED BY <2>1, <2>2, <2>3, <1>1
<1>3. CASE t <= clock
  <2>1. t # clock
    BY <1>1, WrapIsNat, SmallMod DEF Until
  <2>2. Until(t) = t - clock + Wrap
    BY <1>1, <1>3, <2>1, WrapIsNat, SmallMod DEF Until
  <2>3. CASE clock + 1 < Wrap
    <3>1. t - clock' < 0 /\ -Wrap <= t - clock'
      BY <1>1, <1>3, <2>1, <2>3, WrapIsNat
    <3>2. (t - clock') % Wrap = t - clock' + Wrap
      BY <1>1, <2>3, <3>1, WrapIsNat, SmallMod
    <3> QED BY <2>2, <2>3, <3>2, <1>1, WrapIsNat
  <2>4. CASE clock + 1 >= Wrap
    <3>1. clock' = 0 /\ clock + 1 = Wrap
      BY <1>1, <2>4, WrapIsNat
    <3>2. (t - clock') % Wrap = t
      BY <1>1, <3>1, WrapIsNat, SmallMod
    <3> QED BY <2>2, <3>1, <3>2, <1>1, WrapIsNat
  <2> QED BY <2>3, <2>4, <1>1, WrapIsNat
<1> QED BY <1>2, <1>3, <1>1

---------------------------------------------------------------------------

LEMMA SameLineInv == ASSUME NEW e, NEW f, LineInv(e), SameLine(e, f) PROVE LineInv(f)
<1>1. WithPio(f) = WithPio(e) /\ Unrested(f) = Unrested(e)
  BY DEF SameLine, WithPio, Unrested
<1>2. LineType(f) /\ FlagsFit(f) /\ WireIsPixel(f) /\ HighIsKnown(f) /\ NoneEarly(f)
  BY <1>1 DEF SameLine, LineInv, LineType, FlagsFit, WireIsPixel, HighIsKnown, NoneEarly
<1>3. ResetIsOwed(f)
  BY <1>1 DEF SameLine, LineInv, ResetIsOwed
<1> QED BY <1>2, <1>3 DEF LineInv

LEMMA RgbWriteLine ==
    ASSUME clock \in Clocks, NEW e, NEW pixel, LineInv(e)
    PROVE  LineInv(RgbWrite(e, pixel))
<1> DEFINE c == Claim(e)
           d == Borrow(c)
           b == [d EXCEPT !.asked = pixel, !.hurried = @ \/ "write" \in e.flags \/ e.wire > 0]
           h == [b EXCEPT !.pending = pixel,
                          !.writeDue = Later(ResetDelay),
                          !.flags = (@ \cup {"write"}) \ {"reset"}]
<1>0. LineType(e) /\ FlagsFit(e) /\ WireIsPixel(e) /\ ResetIsOwed(e) /\ NoneEarly(e)
  BY DEF LineInv
<1>1. /\ LineFields \subseteq DOMAIN b
      /\ b.claimed = TRUE
      /\ b.enabled = e.enabled /\ b.wire = e.wire /\ b.low = e.low
      /\ b.highBy = e.highBy /\ b.early = e.early /\ b.writeDue = e.writeDue
      /\ b.flags = e.flags \cup (IF Shared THEN {"pio", "park"} ELSE {})
                           \cup (IF e.claimed THEN {} ELSE {"reset"})
  <2>1. /\ LineFields \subseteq DOMAIN c
        /\ c.claimed = TRUE
        /\ c.enabled = e.enabled /\ c.wire = e.wire /\ c.low = e.low
        /\ c.highBy = e.highBy /\ c.early = e.early /\ c.writeDue = e.writeDue
        /\ c.flags = e.flags \cup (IF e.claimed THEN {} ELSE {"reset"})
    <3>1. CASE e.claimed
      BY <1>0, <3>1 DEF Claim, LineType, LineFields
    <3>2. CASE ~e.claimed
      BY <1>0, <3>2 DEF Claim, ClaimedFlags, LineType, LineFields
    <3> QED BY <3>1, <3>2
  <2> HIDE DEF c
  <2>2. /\ LineFields \subseteq DOMAIN d
        /\ d.claimed = TRUE
        /\ d.enabled = e.enabled /\ d.wire = e.wire /\ d.low = e.low
        /\ d.highBy = e.highBy /\ d.early = e.early /\ d.writeDue = e.writeDue
        /\ d.flags = c.flags \cup (IF Shared THEN {"pio", "park"} ELSE {})
    BY <2>1 DEF Borrow, LineFields
  <2> HIDE DEF d
  <2> QED BY <2>1, <2>2 DEF LineFields
<1> HIDE DEF b
<1>2. WithPio(b)
  BY <1>1 DEF WithPio
<1>3. CASE MustWait(b)
  <2> DEFINE r == [h EXCEPT !.parkDue = ParkAfterWrite(h)]
  <2>1. /\ LineFields \subseteq DOMAIN r
        /\ r.claimed = TRUE
        /\ r.enabled = e.enabled /\ r.wire = e.wire /\ r.low = e.low
        /\ r.highBy = e.highBy /\ r.early = e.early /\ r.writeDue = Later(ResetDelay)
        /\ r.flags = (b.flags \cup {"write"}) \ {"reset"}
    BY <1>1 DEF LineFields
  <2>2. RgbWrite(e, pixel) = r
    BY <1>3 DEF RgbWrite, b, h, c, d
  <2> HIDE DEF r
  <2>3. WithPio(r)
    BY <2>1, <1>1 DEF WithPio
  <2>4. Later(ResetDelay) \in Clocks /\ Until(Later(ResetDelay)) = ResetDelay
    BY LaterIs, WrapIsNat
  <2>5. LineType(r)
    BY <2>1, <2>4, <1>0, <1>1 DEF LineType
  <2>6. FlagsFit(r)
    BY <2>1, <1>0, <1>1 DEF FlagsFit
  <2>7. WireIsPixel(r) /\ HighIsKnown(r) /\ NoneEarly(r)
    BY <2>1, <2>3, <1>0 DEF WireIsPixel, HighIsKnown, NoneEarly
  <2>8. ResetIsOwed(r)
    BY <2>1, <2>4, <1>0, WrapIsNat DEF ResetIsOwed, Unrested, LineType
  <2> QED BY <2>2, <2>5, <2>6, <2>7, <2>8 DEF LineInv
<1>4. CASE ~MustWait(b)
  <2>1. "reset" \notin b.flags /\ "high" \notin b.flags /\ e.claimed
    BY <1>0, <1>1, <1>4 DEF MustWait, FlagsFit
  <2>2. Unrested(e) => "write" \in e.flags
    BY <1>0, <1>1, <2>1 DEF ResetIsOwed
  <2>3. LineType(b)
    BY <1>0, <1>1, <2>1 DEF LineType
  <2>4. FlagsFit(b)
    BY <1>0, <1>1, <2>1 DEF FlagsFit
  <2>5. WireIsPixel(b) /\ HighIsKnown(b) /\ NoneEarly(b)
    BY <1>0, <1>1, <1>2 DEF WireIsPixel, HighIsKnown, NoneEarly
  <2>6. CASE Waiting(b)
    <3>1. ResetIsOwed(b)
      BY <1>0, <1>1, <1>2, <2>1, <2>2, <2>6 DEF ResetIsOwed, Unrested, Waiting
    <3>2. LineInv(b)
      BY <2>3, <2>4, <2>5, <3>1 DEF LineInv
    <3>3. RgbWrite(e, pixel) = [b EXCEPT !.pending = pixel]
      BY <1>4, <2>6 DEF RgbWrite, b, c, d
    <3>4. SameLine(b, [b EXCEPT !.pending = pixel])
      BY <1>1 DEF SameLine, LineFields
    <3> QED BY <3>2, <3>3, <3>4, SameLineInv
  <2>7. CASE ~Waiting(b)
    <3> DEFINE s == Send(b, pixel)
    <3>1. "write" \notin e.flags
      BY <1>1, <2>7 DEF Waiting
    <3>2. /\ LineFields \subseteq DOMAIN s
          /\ s.claimed = TRUE /\ s.flags = b.flags /\ s.enabled = b.enabled
          /\ s.writeDue = b.writeDue /\ s.low = 0 /\ s.highBy = "pixel"
          /\ s.wire = b.wire + WireTime
          /\ s.early = (IF b.low < ResetDelay THEN b.early \cup {b.highBy} ELSE b.early)
      BY <1>1, <1>2 DEF Send, LineFields
    <3>3. RgbWrite(e, pixel) = s
      BY <1>4, <2>7 DEF RgbWrite, b, c, d
    <3> HIDE DEF s
    <3>4. WithPio(s)
      BY <1>1, <1>2, <3>2 DEF WithPio
    <3>5. LineType(s)
      <4>1. s.wire \in Nat
        BY <2>3, <3>2, TimeAssumption DEF LineType
      <4>2. /\ LineFields \subseteq DOMAIN s /\ s.claimed = TRUE /\ s.flags = b.flags
            /\ s.writeDue = b.writeDue /\ s.low = 0
        BY <3>2
      <4>3. b.flags \subseteq {"park", "pio", "write", "high", "timer"} /\ b.writeDue \in Clocks
        BY <2>3 DEF LineType
      <4>4. s.claimed \in BOOLEAN
        BY <4>2
      <4>5. s.low \in Nat /\ s.low <= ResetDelay
        BY <4>2, WrapIsNat
      <4> QED BY <4>1, <4>2, <4>3, <4>4, <4>5 DEF LineType
    <3>6. FlagsFit(s)
      BY <2>4, <1>1, <3>2 DEF FlagsFit
    <3>7. WireIsPixel(s) /\ HighIsKnown(s) /\ ResetIsOwed(s)
      BY <3>2, <3>4 DEF WireIsPixel, HighIsKnown, ResetIsOwed, Unrested
    <3>8. NoneEarly(s)
      BY <3>2, <2>5, <2>2, <3>1, <1>1 DEF NoneEarly, Unrested
    <3> QED BY <3>3, <3>5, <3>6, <3>7, <3>8 DEF LineInv
  <2> QED BY <2>6, <2>7
<1> QED BY <1>3, <1>4

LEMMA StatusShowLine ==
    ASSUME NEW e, NEW lit, LineInv(e)
    PROVE  LineInv(StatusShow(e, lit))
<1> DEFINE s == StatusShow(e, lit)
           up == Shared /\ ~WithPio(e) /\ ~lit
<1>1. /\ LineFields \subseteq DOMAIN s
      /\ s.claimed = e.claimed /\ s.flags = e.flags /\ s.enabled = lit
      /\ s.writeDue = e.writeDue /\ s.wire = e.wire /\ s.early = e.early
      /\ s.low = IF up THEN 0 ELSE e.low
      /\ s.highBy = IF up THEN "status" ELSE e.highBy
  BY DEF StatusShow, LineInv, LineType, LineFields
<1> HIDE DEF s
<1>2. WithPio(s) = WithPio(e)
  BY <1>1 DEF WithPio
<1>3. LineType(s) /\ FlagsFit(s) /\ NoneEarly(s)
  BY <1>1, WrapIsNat DEF LineInv, LineType, FlagsFit, NoneEarly
<1>4. WireIsPixel(s)
  BY <1>1, <1>2 DEF LineInv, WireIsPixel
<1>5. HighIsKnown(s)
  BY <1>1, <1>2 DEF HighIsKnown, WithPio
<1>6. Unrested(s) => Unrested(e) /\ s.low = e.low
  BY <1>1 DEF Unrested
<1>7. ResetIsOwed(s)
  BY <1>1, <1>2, <1>6 DEF LineInv, ResetIsOwed
<1> QED BY <1>3, <1>4, <1>5, <1>7 DEF LineInv, s

LEMMA ParkLine ==
    ASSUME NEW e, LineInv(e), "park" \in e.flags
    PROVE  LineInv(Park(e))
<1> DEFINE s == Park(e)
<1>1. /\ LineFields \subseteq DOMAIN s
      /\ s.claimed = e.claimed /\ s.enabled = e.enabled
      /\ s.writeDue = e.writeDue /\ s.wire = 0 /\ s.early = e.early
      /\ s.flags = IF e.enabled THEN e.flags \ {"park", "pio", "high"}
                                ELSE (e.flags \ {"park", "pio"}) \cup {"high"}
      /\ s.low = IF e.enabled THEN e.low ELSE 0
      /\ s.highBy = IF e.enabled THEN e.highBy ELSE "park"
  BY DEF Park, LineInv, LineType, LineFields
<1> HIDE DEF s
<1>2. WithPio(e) /\ ~WithPio(s) /\ Shared /\ e.claimed
  BY <1>1 DEF WithPio, LineInv, FlagsFit
<1>3. LineType(s) /\ FlagsFit(s) /\ NoneEarly(s) /\ WireIsPixel(s) /\ HighIsKnown(s)
  BY <1>1, <1>2, WrapIsNat
     DEF LineInv, LineType, FlagsFit, NoneEarly, WireIsPixel, HighIsKnown
<1>4. ResetIsOwed(s)
  BY <1>1, <1>2 DEF LineInv, ResetIsOwed, Unrested
<1> QED BY <1>3, <1>4 DEF LineInv, s

LEMMA PinWorkLine ==
    ASSUME clock \in Clocks, NEW e, LineInv(e)
    PROVE  LineInv(PinWork(e))
<1> DEFINE n == [e EXCEPT !.flags = @ \ {"write"}]
           w == IF "write" \in e.flags /\ Due(e.writeDue) THEN Send(n, e.pending) ELSE e
<1>1. LineInv(w)
  <2>1. CASE "write" \in e.flags /\ Due(e.writeDue)
    <3>1. /\ LineFields \subseteq DOMAIN n
          /\ n.claimed = e.claimed /\ n.enabled = e.enabled /\ n.wire = e.wire /\ n.low = e.low
          /\ n.highBy = e.highBy /\ n.early = e.early /\ n.writeDue = e.writeDue
          /\ n.flags = e.flags \ {"write"}
      BY DEF LineInv, LineType, LineFields
    <3>2. WithPio(n) = WithPio(e) /\ e.claimed
      BY <3>1, <2>1 DEF WithPio, LineInv, FlagsFit
    <3>3. Unrested(e) => "high" \in e.flags /\ ~WithPio(e)
      BY <2>1, <3>2, DueIs DEF LineInv, LineType, ResetIsOwed
    <3>4. w = Send(n, e.pending)
      BY <2>1
    <3> HIDE DEF n, w
    <3>5. LineType(n) /\ FlagsFit(n) /\ WireIsPixel(n) /\ HighIsKnown(n) /\ NoneEarly(n)
      BY <3>1, <3>2 DEF LineInv, LineType, FlagsFit, WireIsPixel, HighIsKnown, NoneEarly
    <3>6. CASE ~WithPio(e)
      <4>1. ResetIsOwed(n)
        BY <3>1, <3>2, <3>3, <3>6 DEF ResetIsOwed, Unrested
      <4>2. SameLine(n, w)
        BY <3>1, <3>2, <3>4, <3>6 DEF Send, SameLine, LineFields
      <4> QED BY <4>1, <4>2, <3>5, SameLineInv DEF LineInv
    <3>7. CASE WithPio(e)
      <4>1. /\ LineFields \subseteq DOMAIN w
            /\ w.claimed = n.claimed /\ w.flags = n.flags /\ w.enabled = n.enabled
            /\ w.writeDue = n.writeDue /\ w.low = 0 /\ w.highBy = "pixel"
            /\ w.wire = n.wire + WireTime
            /\ w.early = (IF n.low < ResetDelay THEN n.early \cup {n.highBy} ELSE n.early)
        BY <3>1, <3>2, <3>4, <3>7 DEF Send, LineFields
      <4>2. WithPio(w)
        BY <3>2, <3>7, <4>1 DEF WithPio
      <4>3. LineType(w) /\ FlagsFit(w)
        BY <3>5, <4>1, TimeAssumption DEF LineType, FlagsFit
      <4>4. WireIsPixel(w) /\ HighIsKnown(w) /\ ResetIsOwed(w)
        BY <4>1, <4>2 DEF WireIsPixel, HighIsKnown, ResetIsOwed, Unrested
      <4>5. NoneEarly(w)
        BY <3>1, <3>3, <3>5, <3>7, <4>1 DEF NoneEarly, Unrested
      <4> QED BY <4>3, <4>4, <4>5 DEF LineInv
    <3> QED BY <3>6, <3>7
  <2>2. CASE ~("write" \in e.flags /\ Due(e.writeDue))
    <3>1. w = e
      BY <2>2
    <3> QED BY <3>1
  <2> QED BY <2>1, <2>2
<1>2. PinWork(e) = (IF "park" \in w.flags /\ Due(w.parkDue) THEN Park(w) ELSE w)
  BY DEF PinWork
<1> HIDE DEF w
<1> QED BY <1>1, <1>2, ParkLine

---------------------------------------------------------------------------
(* The channels show through the line's functions and touch it no other    *)
(* way.                                                                    *)

LEMMA ShowLine ==
    ASSUME clock \in Clocks, NEW e, NEW l, NEW lit, LineInv(e)
    PROVE  LineInv(Show(e, l, lit))
<1> DEFINE s == [e EXCEPT !.ch[l].lit = lit]
           p == Pixel(e.ch[l].is.colour, IF lit THEN Steps["on"] ELSE 0)
<1>1. SameLine(e, s)
  BY DEF SameLine, LineInv, LineType, LineFields
<1>2. LineInv(s)
  BY <1>1, SameLineInv
<1>3. Show(e, l, lit) = IF l = "rgb" THEN RgbWrite(s, p) ELSE StatusShow(s, lit)
  BY DEF Show
<1> HIDE DEF s, p
<1>4. LineInv(RgbWrite(s, p)) /\ LineInv(StatusShow(s, lit))
  BY <1>2, RgbWriteLine, StatusShowLine
<1> QED BY <1>3, <1>4

LEMMA RunChannelLine ==
    ASSUME clock \in Clocks, NEW e, NEW l, NEW ms, LineInv(e)
    PROVE  LineInv(RunChannel(e, l, ms))
<1>1. LineInv(Restore(e, l))
  <2> DEFINE saved == e.ch[l].saved
             b == [e EXCEPT !.ch[l].is = saved, !.ch[l].step = 0, !.ch[l].hold = 0,
                            !.ch[l].next = IF saved.mode \in Repeating THEN MsAt(clock) ELSE @,
                            !.bounded[l] = FALSE, !.first[l] = AtRest]
  <2>1. SameLine(e, b)
    BY DEF SameLine, LineInv, LineType, LineFields
  <2>2. Restore(e, l) = Show(b, l, saved.mode # "off")
    BY DEF Restore
  <2> HIDE DEF b, saved
  <2>3. LineInv(b)
    BY <2>1, SameLineInv
  <2> QED BY <2>2, <2>3, ShowLine
<1>2. e.ch[l].is.mode \in Repeating => LineInv(Advance(e, l, ms))
  <2> DEFINE ch == e.ch[l]
             mode == ch.is.mode
             step == (ch.step + 1) % (IF mode = "flame" THEN Len(Flame) ELSE Steps[mode])
             wait == IF mode = "flame" THEN FlameInterval(ch.is, step) ELSE FrameInterval(ch.is)
             m == [e EXCEPT !.ch[l].step = step, !.ch[l].next = MsLater(ms, wait)]
             n(level) == [m EXCEPT !.ch[l].lit = (level # 0)]
             Lit(level, colour) == RgbWrite(n(level), Pixel(colour, level))
  <2> HIDE DEF step, wait
  <2>1. LineInv(m)
    <3>1. SameLine(e, m)
      BY DEF SameLine, LineInv, LineType, LineFields
    <3> QED BY <3>1, SameLineInv
  <2> HIDE DEF m
  <2>2. ASSUME NEW level, NEW colour PROVE LineInv(Lit(level, colour))
    <3>1. SameLine(m, n(level))
      BY <2>1 DEF SameLine, LineInv, LineType, LineFields
    <3>2. LineInv(n(level))
      BY <2>1, <3>1, SameLineInv
    <3> HIDE DEF n
    <3> QED BY <3>2, RgbWriteLine
  <2> HIDE DEF Lit
  <2>3. CASE mode = "beacon"
    <3>1. Advance(e, l, ms) = Show(m, l, ~ch.lit)
      BY <2>3 DEF Advance, m, step, wait
    <3> QED BY <2>1, <3>1, ShowLine
  <2>4. CASE mode = "flame"
    <3>1. Advance(e, l, ms) = Show(m, l, Flame[step + 1][1])
      BY <2>4 DEF Advance, m, step, wait
    <3> QED BY <2>1, <3>1, ShowLine
  <2>5. CASE mode = "blink"
    <3>1. Advance(e, l, ms) = Show(m, l, step = 0)
      BY <2>5 DEF Advance, m, step, wait
    <3> QED BY <2>1, <3>1, ShowLine
  <2>6. CASE mode = "cycle"
    <3>1. Advance(e, l, ms) = Lit(step + 1, "hue")
      BY <2>6 DEF Advance, m, step, wait, Lit
    <3> QED BY <2>2, <3>1
  <2>7. CASE mode = "breathe"
    <3>1. Advance(e, l, ms) = Lit(BreatheLevel(step), ch.is.colour)
      BY <2>7 DEF Advance, m, step, wait, Lit
    <3> QED BY <2>2, <3>1
  <2> QED BY <2>3, <2>4, <2>5, <2>6, <2>7 DEF Repeating
<1> QED BY <1>1, <1>2 DEF RunChannel, FrameDue

LEMMA SetLine ==
    ASSUME clock \in Clocks, NEW e, NEW req, NEW ms, LineInv(e)
    PROVE  LineInv(Set(e, req, ms))
<1> DEFINE l == req.led
           ch == e.ch[l]
           bounded == HoldOf(req) # 0
           is == StateAsked(req)
           t == [e EXCEPT !.ch[l].saved = IF bounded /\ ~AlreadyBounded(ch) THEN ch.is ELSE @,
                    !.ch[l].is = is,
                    !.ch[l].step = 0,
                    !.ch[l].hold = IF bounded THEN Expiry(ms, HoldOf(req)) ELSE @,
                    !.ch[l].next = IF req.mode \in Repeating
                                     THEN MsLater(ms, FrameInterval(is)) ELSE @,
                    !.first[l] = IF bounded /\ ch.hold = 0 THEN ch.is ELSE @,
                    !.bounded[l] = bounded]
<1>1. SameLine(e, t)
  BY DEF SameLine, LineInv, LineType, LineFields
<1>2. Set(e, req, ms) = Show(t, l, req.mode # "off")
  BY DEF Set
<1> HIDE DEF t
<1>3. LineInv(t)
  BY <1>1, SameLineInv
<1> QED BY <1>2, <1>3, ShowLine

\* The alarm's flag is no flag of the pin.
LEMMA RearmLine ==
    ASSUME NEW e, NEW c, NEW ms, LineInv(e)
    PROVE  LineInv(Rearm(e, c, ms))
<1> DEFINE f == Rearm(e, c, ms)
<1>1. /\ LineFields \subseteq DOMAIN f
      /\ f.claimed = e.claimed /\ f.enabled = e.enabled
      /\ f.wire = e.wire /\ f.low = e.low /\ f.highBy = e.highBy
      /\ f.early = e.early /\ f.writeDue = e.writeDue
      /\ f.flags \ {"timer"} = e.flags \ {"timer"}
  <2> DEFINE waits == Wait(e, ms)
             wait == CHOOSE w \in waits : \A x \in waits : w <= x
             a == [e EXCEPT !.alarm = Later(wait), !.nvic = @ \cup {c},
                            !.flags = @ \cup {"timer"}]
             d == [e EXCEPT !.alarm = None, !.nvic = @ \ {c}, !.flags = @ \ {"timer"}]
             n == IF waits # {} THEN IF wait = 0 THEN Fire(a) ELSE a
                  ELSE IF "timer" \in e.flags THEN d ELSE e
             at == Since(e, n, clock)
  <2> HIDE DEF waits, wait
  <2>1. n \in {Fire(a), a, d, e}
    OBVIOUS
  <2>2. f = [n EXCEPT !.fired = at]
    BY DEF Rearm, waits, wait
  <2> HIDE DEF n, at, f
  <2>3. CASE n = Fire(a)
    BY <2>2, <2>3 DEF Fire, LineInv, LineType, LineFields
  <2>4. CASE n = a
    BY <2>2, <2>4 DEF LineInv, LineType, LineFields
  <2>5. CASE n = d
    BY <2>2, <2>5 DEF LineInv, LineType, LineFields
  <2>6. CASE n = e
    BY <2>2, <2>6 DEF LineInv, LineType, LineFields
  <2> QED BY <2>1, <2>3, <2>4, <2>5, <2>6
<1> HIDE DEF f
<1>2. \A x : x # "timer" => (x \in f.flags <=> x \in e.flags)
  BY <1>1
<1>3. WithPio(f) = WithPio(e) /\ Unrested(f) = Unrested(e)
  BY <1>1, <1>2 DEF WithPio, Unrested
<1>4. LineType(f)
  BY <1>1, <1>2 DEF LineInv, LineType
<1>5. FlagsFit(f) /\ WireIsPixel(f) /\ HighIsKnown(f) /\ NoneEarly(f)
  BY <1>1, <1>2, <1>3 DEF LineInv, FlagsFit, WireIsPixel, HighIsKnown, NoneEarly
<1>6. ResetIsOwed(f)
  BY <1>1, <1>2, <1>3 DEF LineInv, ResetIsOwed
<1> QED BY <1>4, <1>5, <1>6 DEF LineInv, f

\* A tick: a line that is low gets nearer to its reset as the pixel that waits
\* gets nearer to being due.
LEMMA TickLine ==
    ASSUME clock \in Clocks, LineInv(led), Tick
    PROVE  clock' \in Clocks /\ LineInv(led)'
<1> DEFINE n == [led EXCEPT !.wire = NotNegative(@ - 1),
                            !.low = IF ~LineIsLow(led) THEN 0
                                    ELSE IF @ < ResetDelay THEN @ + 1 ELSE @]
           f == IF led.alarm = clock' THEN Fire(n) ELSE n
           at == Since(led, f, clock')
<1>1. led' = [f EXCEPT !.fired = at] /\ clock' = Later(1)
  BY DEF Tick
<1>2. /\ LineFields \subseteq DOMAIN led'
      /\ led'.claimed = led.claimed /\ led'.enabled = led.enabled
      /\ led'.flags = led.flags /\ led'.highBy = led.highBy
      /\ led'.early = led.early /\ led'.writeDue = led.writeDue
      /\ led'.wire = NotNegative(led.wire - 1)
      /\ led'.low = IF ~LineIsLow(led) THEN 0
                    ELSE IF led.low < ResetDelay THEN led.low + 1 ELSE led.low
  <2>1. f \in {n, Fire(n)}
    OBVIOUS
  <2> HIDE DEF f, at
  <2>2. CASE f = n
    BY <1>1, <2>2 DEF LineInv, LineType, LineFields
  <2>3. CASE f = Fire(n)
    BY <1>1, <2>3 DEF Fire, LineInv, LineType, LineFields
  <2> QED BY <2>1, <2>2, <2>3
<1> HIDE DEF f
<1>3. clock' \in Clocks /\ clock \in Nat /\ clock < Wrap
      /\ clock' = IF clock + 1 < Wrap THEN clock + 1 ELSE 0
  <2>1. clock \in Nat /\ clock < Wrap
    BY WrapIsNat DEF Clocks
  <2>2. clock' = IF clock + 1 < Wrap THEN clock + 1 ELSE 0
    BY <1>1, <2>1, WrapIsNat, SmallMod DEF Later
  <2> QED BY <2>1, <2>2, WrapIsNat DEF Clocks
<1>4. WithPio(led)' = WithPio(led)
  BY <1>2 DEF WithPio
<1>5. LineType(led)' /\ FlagsFit(led)' /\ NoneEarly(led)' /\ HighIsKnown(led)'
  BY <1>2, <1>4, WrapIsNat DEF LineInv, LineType, FlagsFit, NoneEarly, HighIsKnown, NotNegative
<1>6. WireIsPixel(led)'
  BY <1>2, <1>4 DEF LineInv, WireIsPixel, LineType, NotNegative
<1>7. ResetIsOwed(led)'
  <2> SUFFICES ASSUME led.claimed, Unrested(led)'
               PROVE  /\ "write" \in led.flags \/ ("high" \in led.flags /\ ~WithPio(led))
                      /\ "write" \in led.flags =>
                           \/ "high" \in led.flags /\ ~WithPio(led)
                           \/ /\ Until(led.writeDue)' \in 1 .. ResetDelay
                              /\ led'.low + Until(led.writeDue)' >= ResetDelay
    BY <1>2, <1>4 DEF ResetIsOwed
  <2>1. led.highBy \in {"boot", "park"} /\ led'.low < ResetDelay
    BY <1>2 DEF Unrested
  <2>2. CASE ~LineIsLow(led)
    BY <2>1, <2>2 DEF LineIsLow, LineInv, WireIsPixel, HighIsKnown, FlagsFit, WithPio
  <2>3. CASE LineIsLow(led)
    <3>1. Unrested(led) /\ led'.low = led.low + 1
      BY <1>2, <2>1, <2>3 DEF Unrested, LineInv, LineType
    <3>2. CASE "write" \in led.flags /\ ~("high" \in led.flags /\ ~WithPio(led))
      <4>1. Until(led.writeDue) \in 1 .. ResetDelay /\ led.low + Until(led.writeDue) >= ResetDelay
        BY <3>1, <3>2 DEF LineInv, ResetIsOwed
      <4>2. led.writeDue \in Nat /\ led.writeDue < Wrap
        BY WrapIsNat DEF LineInv, LineType, Clocks
      <4>3. Until(led.writeDue)' = Until(led.writeDue) - 1
        <5>1. led.writeDue \in Clocks /\ Until(led.writeDue) # 0
          BY <4>1, WrapIsNat DEF LineInv, LineType
        <5>2. (led.writeDue - clock') % Wrap = Until(led.writeDue) - 1
          BY <1>3, <5>1, TickUntil
        <5> QED BY <1>2, <5>2 DEF Until
      <4> QED BY <4>1, <4>3, <3>1, <2>1, <3>2, WrapIsNat DEF LineInv, LineType
    <3> QED BY <3>1, <3>2 DEF LineInv, ResetIsOwed
  <2> QED BY <2>2, <2>3
<1> QED BY <1>3, <1>5, <1>6, <1>7 DEF LineInv

\* While the clock stands still, so does what a delay has to go.
LEMMA StaysLine ==
    ASSUME clock \in Clocks, clock' = clock, NEW f, LineInv(f), led' = f
    PROVE  clock' \in Clocks /\ LineInv(led)'
<1>1. clock' \in Clocks
  OBVIOUS
<1>2. LineInv(led)'
  BY DEF LineInv, LineType, FlagsFit, WireIsPixel, HighIsKnown, ResetIsOwed, NoneEarly,
         Unrested, WithPio, Until
<1> QED BY <1>1, <1>2

LEMMA LineInit == Init => clock \in Clocks /\ LineInv(led)
<1> SUFFICES ASSUME Init PROVE clock \in Clocks /\ LineInv(led)
  OBVIOUS
<1>1. /\ LineFields \subseteq DOMAIN led
      /\ led.flags = {} /\ led.claimed = FALSE /\ led.wire = 0 /\ led.low = 0
      /\ led.writeDue = 0 /\ led.early = {} /\ clock = 0
  BY DEF Init, LineFields
<1>2. 0 \in Clocks /\ 0 <= ResetDelay
  BY WrapIsNat DEF Clocks
<1>3. LineType(led)
  <2>1. led.claimed \in BOOLEAN
    BY <1>1
  <2>2. led.wire \in Nat /\ led.low \in Nat /\ led.low <= ResetDelay /\ led.writeDue \in Clocks
    BY <1>1, <1>2
  <2>3. led.flags \subseteq {"park", "pio", "write", "high", "timer"}
    BY <1>1
  <2>4. LineFields \subseteq DOMAIN led
    BY <1>1
  <2> QED BY <2>1, <2>2, <2>3, <2>4 DEF LineType
<1>4. ~led.claimed /\ ~WithPio(led)
  BY <1>1 DEF WithPio
<1>5. FlagsFit(led) /\ WireIsPixel(led) /\ NoneEarly(led)
  BY <1>1 DEF FlagsFit, WireIsPixel, NoneEarly
<1>6. HighIsKnown(led) /\ ResetIsOwed(led)
  BY <1>4 DEF HighIsKnown, ResetIsOwed
<1> QED BY <1>1, <1>2, <1>3, <1>5, <1>6 DEF LineInv

LEMMA LineNext ==
    ASSUME clock \in Clocks, LineInv(led), [Next]_vars
    PROVE  clock' \in Clocks /\ LineInv(led)'
<1>1. CASE Tick
  BY <1>1, TickLine
<1>2. ASSUME NEW c \in Cores, LockedSet(c) PROVE clock' \in Clocks /\ LineInv(led)'
  <2> DEFINE ms == MsAt(call[c].at)
             f == Rearm(Set(led, call[c].req, ms), c, ms)
  <2>1. led' = f /\ clock' = clock
    BY <1>2 DEF LockedSet
  <2>2. LineInv(f)
    BY SetLine, RearmLine
  <2> HIDE DEF f
  <2> QED BY <2>1, <2>2, StaysLine
<1>3. ASSUME NEW c \in Cores, LockedFrame(c) PROVE clock' \in Clocks /\ LineInv(led)'
  <2> DEFINE ms == MsAt(frame[c])
             s == RunChannel(PinWork(led), "status", ms)
             f == Rearm(RunChannel(s, "rgb", ms), c, ms)
  <2>1. led' = f /\ clock' = clock
    BY <1>3 DEF LockedFrame
  <2>2. LineInv(f)
    BY PinWorkLine, RunChannelLine, RearmLine
  <2> HIDE DEF f
  <2> QED BY <2>1, <2>2, StaysLine
<1>4. ASSUME NEW c \in Cores, TakeInterrupt(c) PROVE clock' \in Clocks /\ LineInv(led)'
  <2> DEFINE n == [led EXCEPT !.pend = @ \ {c}]
             f == [n EXCEPT !.fired = Since(led, n, clock)]
  <2>1. led' = f /\ clock' = clock
    BY <1>4 DEF TakeInterrupt
  <2>2. SameLine(led, f)
    BY DEF SameLine, LineInv, LineType, LineFields
  <2> HIDE DEF f
  <2>3. LineInv(f)
    BY <2>2, SameLineInv
  <2> QED BY <2>1, <2>3, StaysLine
<1>5. ASSUME UNCHANGED <<clock, led>> PROVE clock' \in Clocks /\ LineInv(led)'
  BY <1>5, StaysLine
<1> QED BY <1>1, <1>2, <1>3, <1>4, <1>5 DEF Next, Call, vars

---------------------------------------------------------------------------
(* Time passed.                                                            *)

\* How far past t the clock is: negative while t is to come.
Over(t) == Diff(clock, t, Wrap)

LEMMA LateIs == /\ MsTicks \in Nat /\ MsTicks > 0 /\ MsWrap \in Nat /\ MsWrap > 1
                /\ Late \in Nat /\ 2 * (2 * Late + 1) < Wrap
                /\ 2 * (ResetDelay + ParkDelay) <= Wrap
<1>1. 2 * (2 * Late + 1) < Wrap
  BY TimeAssumption, LateAssumption, WrapIsNat
<1> QED BY <1>1, TimeAssumption, DelayAssumption

LEMMA DiffIs ==
    ASSUME NEW w \in Nat, w > 0, NEW a \in 0 .. w - 1, NEW b \in 0 .. w - 1
    PROVE  /\ Diff(a, b, w) \in Int
           /\ 2 * Diff(a, b, w) < w /\ -w <= 2 * Diff(a, b, w)
           /\ \/ Diff(a, b, w) = a - b
              \/ Diff(a, b, w) = a - b + w
              \/ Diff(a, b, w) = a - b - w
<1>1. (a - b) % w = IF a >= b THEN a - b ELSE a - b + w
  BY SmallMod
<1> QED BY <1>1 DEF Diff

\* Of numbers apart by less than half the range, it is the difference.
LEMMA DiffExact ==
    ASSUME NEW w \in Nat, w > 0, NEW a \in 0 .. w - 1, NEW b \in 0 .. w - 1, NEW k \in Int,
           k = a - b \/ k = a - b + w \/ k = a - b - w,
           2 * k < w, -w <= 2 * k
    PROVE  Diff(a, b, w) = k
<1>1. PICK d \in Int : d = Diff(a, b, w)
  BY DiffIs
<1>2. /\ 2 * d < w /\ -w <= 2 * d
      /\ d = a - b \/ d = a - b + w \/ d = a - b - w
  BY <1>1, DiffIs
<1> QED BY <1>1, <1>2

LEMMA OverLater ==
    ASSUME clock \in Clocks, NEW k \in Nat, 2 * k <= Wrap
    PROVE  Later(k) \in Clocks /\ Over(Later(k)) = -k
<1>1. clock \in 0 .. Wrap - 1 /\ k < Wrap
  BY WrapIsNat DEF Clocks
<1>2. Later(k) = IF clock + k < Wrap THEN clock + k ELSE clock + k - Wrap
  BY <1>1, WrapIsNat, SmallMod DEF Later
<1>3. Later(k) \in 0 .. Wrap - 1
  BY <1>1, <1>2, WrapIsNat
<1>4. Diff(clock, Later(k), Wrap) = -k
  BY <1>1, <1>2, <1>3, WrapIsNat, DiffExact
<1> QED BY <1>3, <1>4 DEF Clocks, Over

\* The clock moves on.
Ticks == clock \in Clocks /\ clock' = Later(1)

LEMMA OverTicks ==
    ASSUME Ticks, NEW t \in Clocks, 2 * (Over(t) + 1) < Wrap
    PROVE  Diff(clock', t, Wrap) = Over(t) + 1
<1>1. clock \in 0 .. Wrap - 1 /\ t \in 0 .. Wrap - 1
  BY DEF Ticks, Clocks
<1>2. clock' = IF clock + 1 < Wrap THEN clock + 1 ELSE clock + 1 - Wrap
  BY <1>1, WrapIsNat, SmallMod DEF Ticks, Later
<1>3. clock' \in 0 .. Wrap - 1
  BY <1>1, <1>2, WrapIsNat
<1>4. PICK k \in Int : k = Over(t)
  BY <1>1, WrapIsNat, DiffIs DEF Over
<1>5. /\ k = clock - t \/ k = clock - t + Wrap \/ k = clock - t - Wrap
      /\ -Wrap <= 2 * k
  BY <1>1, <1>4, WrapIsNat, DiffIs DEF Over
<1>6. \/ k + 1 = clock' - t
      \/ k + 1 = clock' - t + Wrap
      \/ k + 1 = clock' - t - Wrap
      \/ k + 1 = clock' - t + 2 * Wrap
  BY <1>1, <1>2, <1>5, WrapIsNat
<1>7. k + 1 # clock' - t + 2 * Wrap
  BY <1>1, <1>3, <1>4, WrapIsNat
<1> QED BY <1>1, <1>3, <1>4, <1>5, <1>6, <1>7, WrapIsNat, DiffExact

LEMMA OverNow == ASSUME clock \in Clocks PROVE Over(clock) = 0
<1>1. clock \in 0 .. Wrap - 1
  BY DEF Clocks
<1> QED BY <1>1, WrapIsNat, DiffExact DEF Over

LEMMA OverInt == ASSUME clock \in Clocks, NEW t \in Clocks
                 PROVE  /\ Over(t) \in Int /\ 2 * Over(t) < Wrap /\ -Wrap <= 2 * Over(t)
                        /\ Due(t) <=> Over(t) >= 0
<1>1. clock \in 0 .. Wrap - 1 /\ t \in 0 .. Wrap - 1
  BY DEF Clocks
<1> QED BY <1>1, WrapIsNat, DiffIs DEF Over, Due

\* A time to come is as far away as it is counted from now.
LEMMA ToCome ==
    ASSUME clock \in Clocks, NEW t \in Clocks
    PROVE  /\ Diff(t, clock, Wrap) \in Int
           /\ Diff(t, clock, Wrap) = -Over(t) \/ (2 * Over(t) = -Wrap /\ 2 * Diff(t, clock, Wrap) = -Wrap)
           /\ 2 * Diff(t, clock, Wrap) < Wrap
<1>1. clock \in 0 .. Wrap - 1 /\ t \in 0 .. Wrap - 1
  BY DEF Clocks
<1>2. PICK k \in Int : k = Over(t)
  BY <1>1, WrapIsNat, DiffIs DEF Over
<1>3. /\ 2 * k < Wrap /\ -Wrap <= 2 * k
      /\ k = clock - t \/ k = clock - t + Wrap \/ k = clock - t - Wrap
  BY <1>1, <1>2, WrapIsNat, DiffIs DEF Over
<1>4. CASE 2 * k = -Wrap
  <2>1. k = t - clock \/ k = t - clock + Wrap \/ k = t - clock - Wrap
    BY <1>1, <1>3, <1>4, WrapIsNat
  <2>2. Diff(t, clock, Wrap) = k
    BY <1>1, <1>3, <2>1, WrapIsNat, DiffExact
  <2> QED BY <1>2, <1>4, <2>2, WrapIsNat
<1>5. CASE 2 * k # -Wrap
  <2>1. -k = t - clock \/ -k = t - clock + Wrap \/ -k = t - clock - Wrap
    BY <1>1, <1>3, WrapIsNat
  <2>2. Diff(t, clock, Wrap) = -k
    BY <1>1, <1>3, <1>5, <2>1, WrapIsNat, DiffExact
  <2> QED BY <1>2, <1>3, <1>5, <2>2, WrapIsNat
<1> QED BY <1>4, <1>5

\* The handover after a pixel that waits.
LEMMA OverPark ==
    ASSUME clock \in Clocks, NEW t \in Clocks, -ResetDelay <= Over(t)
    PROVE  /\ (t + ParkDelay) % Wrap \in Clocks
           /\ Over((t + ParkDelay) % Wrap) = Over(t) - ParkDelay
<1>1. clock \in 0 .. Wrap - 1 /\ t \in 0 .. Wrap - 1
  BY DEF Clocks
<1>2. PICK k \in Int : k = Over(t)
  BY <1>1, WrapIsNat, DiffIs DEF Over
<1>3. /\ 2 * k < Wrap /\ -ResetDelay <= k
      /\ k = clock - t \/ k = clock - t + Wrap \/ k = clock - t - Wrap
  BY <1>1, <1>2, WrapIsNat, DiffIs DEF Over
<1>4. PICK p \in Int : p = (t + ParkDelay) % Wrap
  BY <1>1, WrapIsNat, SmallMod
<1>5. p \in 0 .. Wrap - 1 /\ (p = t + ParkDelay \/ p = t + ParkDelay - Wrap)
  BY <1>1, <1>4, WrapIsNat, SmallMod
<1>6. PICK q \in Int : q = k - ParkDelay
  BY <1>2, WrapIsNat
<1>7. 2 * q < Wrap /\ -Wrap <= 2 * q
  BY <1>3, <1>6, LateIs, WrapIsNat
<1>8. q = clock - p \/ q = clock - p + Wrap \/ q = clock - p - Wrap
  <2>1. \/ q = clock - p \/ q = clock - p + Wrap \/ q = clock - p - Wrap
        \/ q = clock - p - 2 * Wrap \/ q = clock - p + 2 * Wrap
    BY <1>1, <1>3, <1>5, <1>6, WrapIsNat
  <2>2. clock - p > -Wrap /\ clock - p < Wrap
    BY <1>1, <1>5, WrapIsNat
  <2> QED BY <2>1, <2>2, <1>7, <1>1, <1>5, WrapIsNat
<1>9. Diff(clock, p, Wrap) = q
  BY <1>1, <1>5, <1>7, <1>8, WrapIsNat, DiffExact
<1> QED BY <1>2, <1>4, <1>5, <1>6, <1>9 DEF Over, Clocks

---------------------------------------------------------------------------
(* What is owed to the pin.                                                *)

TimerFields == {"alarm", "nvic", "pend", "fired"}
PinFields == {"flags", "claimed", "wire", "hurried", "cut", "writeDue", "parkDue"}

PinType(e) ==
    /\ TimerFields \cup PinFields \subseteq DOMAIN e
    /\ e.writeDue \in Clocks /\ e.parkDue \in Clocks
    /\ e.wire \in Nat
    /\ "park" \in e.flags => Shared
    /\ e.alarm \in Clocks \cup {None} /\ e.fired \in Clocks

ChannelType(ch) ==
    /\ ch.is.mode \in Modes /\ ch.is.period \in Nat
    /\ ch.saved.mode \in Modes /\ ch.saved.period \in Nat
    /\ ch.step \in Int /\ ch.next \in Int /\ ch.hold \in Int

\* The handover is counted from the pixel before it, and from a pixel that
\* waits when that goes: unless a pixel came before the last one was out, none
\* is on the wire when the pin is due back.
CutInv(e) ==
    ~e.hurried =>
      /\ ~e.cut
      /\ "write" \in e.flags => /\ e.wire = 0
                                /\ e.parkDue = ParkAfterWrite(e)
                                /\ -ResetDelay <= Over(e.writeDue)
      /\ "write" \notin e.flags /\ "park" \in e.flags /\ e.wire # 0 =>
            Over(e.parkDue) + e.wire <= 0

PinOk(e) == /\ Shape(e)
            /\ PinType(e)
            /\ \A l \in Leds : ChannelType(e.ch[l])
            /\ Timely => CutInv(e)

SamePin(e, f) ==
    /\ \A x \in PinFields \cup TimerFields : x \in DOMAIN f /\ f[x] = e[x]

\* From e to f the timer stands, and what is owed is what was or not yet due.
Owes(e, f) ==
    /\ f.alarm = e.alarm /\ f.nvic = e.nvic /\ f.pend = e.pend /\ f.fired = e.fired
    /\ PinOwed(f) => \/ PinOwed(e) /\ PinDue(f) = PinDue(e)
                     \/ Over(PinDue(f)) <= 0

LEMMA OwesTrans == ASSUME NEW e, NEW f, NEW g, Owes(e, f), Owes(f, g) PROVE Owes(e, g)
BY DEF Owes

LEMMA SamePinOk ==
    ASSUME NEW e, NEW f, PinOk(e), SamePin(e, f), Shape(f),
           \A l \in Leds : ChannelType(f.ch[l])
    PROVE  PinOk(f) /\ Owes(e, f)
<1>1. /\ f.flags = e.flags /\ f.claimed = e.claimed /\ f.wire = e.wire /\ f.hurried = e.hurried
      /\ f.cut = e.cut /\ f.writeDue = e.writeDue /\ f.parkDue = e.parkDue
      /\ f.alarm = e.alarm /\ f.nvic = e.nvic /\ f.pend = e.pend /\ f.fired = e.fired
      /\ TimerFields \cup PinFields \subseteq DOMAIN f
  BY DEF SamePin, PinFields, TimerFields
<1>2. PinType(f)
  BY <1>1 DEF PinOk, PinType
<1>3. Timely => CutInv(f)
  BY <1>1 DEF PinOk, CutInv, ParkAfterWrite
<1>4. Owes(e, f)
  BY <1>1 DEF Owes, PinOwed, PinDue
<1> QED BY <1>2, <1>3, <1>4 DEF PinOk

\* A pixel asked for waits out a reset, takes the place of one that does, or
\* is sent.
LEMMA RgbWriteIs ==
    ASSUME NEW e, NEW pixel, TimerFields \cup PinFields \subseteq DOMAIN e, Shape(e)
    PROVE  LET f == RgbWrite(e, pixel)
               flags == e.flags \cup (IF Shared THEN {"pio", "park"} ELSE {})
                                \cup (IF e.claimed THEN {} ELSE {"reset"})
           IN  /\ TimerFields \cup PinFields \subseteq DOMAIN f
               /\ f.alarm = e.alarm /\ f.nvic = e.nvic /\ f.pend = e.pend /\ f.fired = e.fired
               /\ f.cut = e.cut
               /\ ~f.hurried => ~e.hurried /\ "write" \notin e.flags /\ ~(e.wire > 0)
               /\ \/ /\ f.flags = (flags \cup {"write"}) \ {"reset"}
                     /\ f.writeDue = Later(ResetDelay)
                     /\ f.parkDue = (Later(ResetDelay) + ParkDelay) % Wrap
                     /\ f.wire = e.wire
                  \/ /\ f.flags = flags
                     /\ f.writeDue = e.writeDue
                     /\ f.parkDue = (IF Shared THEN Later(ParkDelay) ELSE e.parkDue)
                     /\ f.wire = (IF "write" \in e.flags THEN e.wire ELSE e.wire + WireTime)
<1> DEFINE c == Claim(e)
           d == Borrow(c)
           b == [d EXCEPT !.asked = pixel, !.hurried = @ \/ "write" \in e.flags \/ e.wire > 0]
           h == [b EXCEPT !.pending = pixel,
                          !.writeDue = Later(ResetDelay),
                          !.flags = (@ \cup {"write"}) \ {"reset"}]
           f == RgbWrite(e, pixel)
           All == TimerFields \cup PinFields
           Timer(x, y) == /\ All \subseteq DOMAIN y
                          /\ y.alarm = x.alarm /\ y.nvic = x.nvic
                          /\ y.pend = x.pend /\ y.fired = x.fired /\ y.cut = x.cut
<1>1. /\ Timer(e, c) /\ c.hurried = e.hurried /\ c.wire = e.wire /\ c.claimed
      /\ c.writeDue = e.writeDue /\ c.parkDue = e.parkDue
      /\ c.flags = e.flags \cup (IF e.claimed THEN {} ELSE {"reset"})
  <2>1. CASE e.claimed
    <3>1. c = e
      BY <2>1 DEF Claim
    <3> QED BY <2>1, <3>1
  <2>2. CASE ~e.claimed
    BY <2>2 DEF Claim, ClaimedFlags, TimerFields, PinFields
  <2> QED BY <2>1, <2>2
<1> HIDE DEF c
<1>2. /\ Timer(e, d) /\ d.hurried = e.hurried /\ d.wire = e.wire /\ d.claimed
      /\ d.writeDue = e.writeDue
      /\ d.parkDue = (IF Shared THEN Later(ParkDelay) ELSE e.parkDue)
      /\ d.flags = c.flags \cup (IF Shared THEN {"pio", "park"} ELSE {})
  BY <1>1 DEF Borrow, TimerFields, PinFields
<1> HIDE DEF d
<1>3. /\ Timer(e, b) /\ b.wire = e.wire /\ b.claimed
      /\ ~b.hurried => ~e.hurried /\ "write" \notin e.flags /\ ~(e.wire > 0)
      /\ b.writeDue = e.writeDue
      /\ b.parkDue = (IF Shared THEN Later(ParkDelay) ELSE e.parkDue)
      /\ b.flags = e.flags \cup (IF Shared THEN {"pio", "park"} ELSE {})
                           \cup (IF e.claimed THEN {} ELSE {"reset"})
  BY <1>1, <1>2 DEF TimerFields, PinFields
<1>4. RgbWrite(e, pixel) = IF MustWait(b) THEN [h EXCEPT !.parkDue = ParkAfterWrite(h)]
                           ELSE IF Waiting(b) THEN [b EXCEPT !.pending = pixel]
                           ELSE Send(b, pixel)
  BY DEF RgbWrite, b, h, c, d
<1> HIDE DEF b
<1>5. WithPio(b)
  BY <1>3 DEF WithPio
<1>6. CASE MustWait(b)
  BY <1>3, <1>4, <1>6 DEF ParkAfterWrite, TimerFields, PinFields
<1>7. CASE ~MustWait(b) /\ Waiting(b)
  BY <1>3, <1>4, <1>7 DEF Waiting, TimerFields, PinFields
<1>8. CASE ~MustWait(b) /\ ~Waiting(b)
  <2>1. /\ Timer(b, Send(b, pixel)) /\ Send(b, pixel).flags = b.flags
        /\ Send(b, pixel).hurried = b.hurried /\ Send(b, pixel).wire = b.wire + WireTime
        /\ Send(b, pixel).writeDue = b.writeDue /\ Send(b, pixel).parkDue = b.parkDue
    BY <1>3, <1>5 DEF Send, TimerFields, PinFields
  <2>2. RgbWrite(e, pixel) = Send(b, pixel) /\ "write" \notin e.flags
    BY <1>3, <1>4, <1>8 DEF Waiting
  <2> QED BY <1>3, <2>1, <2>2
<1> QED BY <1>6, <1>7, <1>8

LEMMA RgbWritePin ==
    ASSUME clock \in Clocks, NEW e, NEW pixel, PinOk(e)
    PROVE  PinOk(RgbWrite(e, pixel)) /\ Owes(e, RgbWrite(e, pixel))
<1> DEFINE f == RgbWrite(e, pixel)
           flags == e.flags \cup (IF Shared THEN {"pio", "park"} ELSE {})
                            \cup (IF e.claimed THEN {} ELSE {"reset"})
<1>1. Shape(e) /\ PinType(e) /\ (Timely => CutInv(e))
  BY DEF PinOk
<1>2. /\ Shape(f) /\ \A l \in Leds : ChannelType(f.ch[l])
  BY <1>1, RgbWriteKeeps DEF Keeps, Shape, PinOk
<1>3. /\ TimerFields \cup PinFields \subseteq DOMAIN f
      /\ f.alarm = e.alarm /\ f.nvic = e.nvic /\ f.pend = e.pend /\ f.fired = e.fired
      /\ ~f.cut <=> ~e.cut
      /\ ~f.hurried => ~e.hurried /\ "write" \notin e.flags /\ ~(e.wire > 0)
  BY <1>1, RgbWriteIs DEF PinType
<1>4. \/ /\ f.flags = (flags \cup {"write"}) \ {"reset"}
         /\ f.writeDue = Later(ResetDelay)
         /\ f.parkDue = (Later(ResetDelay) + ParkDelay) % Wrap
         /\ f.wire = e.wire
      \/ /\ f.flags = flags
         /\ f.writeDue = e.writeDue
         /\ f.parkDue = (IF Shared THEN Later(ParkDelay) ELSE e.parkDue)
         /\ f.wire = (IF "write" \in e.flags THEN e.wire ELSE e.wire + WireTime)
  BY <1>1, RgbWriteIs DEF PinType
<1> HIDE DEF f
<1>5. /\ "write" \in flags <=> "write" \in e.flags
      /\ "park" \in flags <=> (Shared \/ "park" \in e.flags)
  OBVIOUS
<1>6. /\ e.writeDue \in Clocks /\ e.parkDue \in Clocks /\ e.wire \in Nat
      /\ "park" \in e.flags => Shared
      /\ e.alarm \in Clocks \cup {None} /\ e.fired \in Clocks
  BY <1>1 DEF PinType
<1> HIDE DEF flags
<1>7. /\ Later(ResetDelay) \in Clocks /\ Over(Later(ResetDelay)) = -ResetDelay
      /\ Later(ParkDelay) \in Clocks /\ Over(Later(ParkDelay)) = -ParkDelay
      /\ (Later(ResetDelay) + ParkDelay) % Wrap \in Clocks
  <2>1. /\ Later(ResetDelay) \in Clocks /\ Over(Later(ResetDelay)) = -ResetDelay
        /\ Later(ParkDelay) \in Clocks /\ Over(Later(ParkDelay)) = -ParkDelay
    BY WrapIsNat, OverLater
  <2> QED BY <2>1, WrapIsNat, OverPark
<1>8. CASE /\ f.flags = (flags \cup {"write"}) \ {"reset"}
           /\ f.writeDue = Later(ResetDelay)
           /\ f.parkDue = (Later(ResetDelay) + ParkDelay) % Wrap
           /\ f.wire = e.wire
  <2>1. "write" \in f.flags /\ ("park" \in f.flags => Shared)
    BY <1>5, <1>6, <1>8
  <2>2. PinType(f)
    BY <1>3, <1>6, <1>7, <1>8, <2>1 DEF PinType
  <2>3. Timely => CutInv(f)
    <3>1. f.parkDue = ParkAfterWrite(f)
      BY <1>8 DEF ParkAfterWrite
    <3>2. -ResetDelay <= Over(f.writeDue)
      BY <1>7, <1>8, WrapIsNat
    <3>3. ~f.hurried => ~e.hurried /\ e.wire = 0
      BY <1>3, <1>6
    <3> QED BY <1>1, <1>3, <1>8, <2>1, <3>1, <3>2, <3>3 DEF CutInv
  <2>4. Over(PinDue(f)) <= 0
    BY <2>1, <1>7, <1>8, WrapIsNat DEF PinDue
  <2>5. PinOk(f)
    BY <1>2, <2>2, <2>3 DEF PinOk
  <2>6. Owes(e, f)
    BY <1>3, <2>4 DEF Owes
  <2> QED BY <2>5, <2>6 DEF f
<1>9. CASE /\ f.flags = flags
           /\ f.writeDue = e.writeDue
           /\ f.parkDue = (IF Shared THEN Later(ParkDelay) ELSE e.parkDue)
           /\ f.wire = (IF "write" \in e.flags THEN e.wire ELSE e.wire + WireTime)
  <2>1. /\ "write" \in f.flags <=> "write" \in e.flags
        /\ "park" \in f.flags <=> Shared \/ "park" \in e.flags
    BY <1>5, <1>9
  <2>2. f.wire \in Nat
    BY <1>6, <1>9, TimeAssumption
  <2>3. PinType(f)
    BY <1>3, <1>6, <1>7, <1>9, <2>1, <2>2 DEF PinType
  <2>4. ASSUME Timely PROVE CutInv(f)
    <3>1. ~f.hurried => ~e.hurried /\ "write" \notin e.flags /\ e.wire = 0
      BY <1>3, <1>6
    <3>2. ~f.hurried => ~f.cut
      BY <1>1, <1>3, <2>4, <3>1 DEF CutInv
    <3>3. ~f.hurried => "write" \notin f.flags
      BY <2>1, <3>1
    <3>4. ~f.hurried /\ "park" \in f.flags => Over(f.parkDue) + f.wire <= 0
      <4>1. WireTime <= ParkDelay
        BY <2>4, TimeAssumption DEF Timely
      <4> QED BY <4>1, <3>1, <2>1, <1>6, <1>7, <1>9, WrapIsNat, TimeAssumption
    <3> QED BY <3>2, <3>3, <3>4 DEF CutInv
  <2>5. PinOwed(f) => \/ PinOwed(e) /\ PinDue(f) = PinDue(e)
                      \/ Over(PinDue(f)) <= 0
    <3>1. CASE "write" \in e.flags
      BY <3>1, <2>1, <1>9 DEF PinOwed, PinDue
    <3>2. CASE "write" \notin e.flags /\ Shared
      BY <3>2, <2>1, <1>7, <1>9, WrapIsNat DEF PinOwed, PinDue
    <3>3. CASE "write" \notin e.flags /\ ~Shared
      BY <3>3, <2>1, <1>9 DEF PinOwed, PinDue
    <3> QED BY <3>1, <3>2, <3>3
  <2>6. PinOk(f)
    BY <1>2, <2>3, <2>4 DEF PinOk
  <2>7. Owes(e, f)
    BY <1>3, <2>5 DEF Owes
  <2> QED BY <2>6, <2>7 DEF f
<1> QED BY <1>4, <1>8, <1>9 DEF f

LEMMA StatusShowPin ==
    ASSUME NEW e, NEW lit, PinOk(e)
    PROVE  PinOk(StatusShow(e, lit)) /\ Owes(e, StatusShow(e, lit))
<1> DEFINE f == StatusShow(e, lit)
<1>1. SamePin(e, f)
  BY DEF StatusShow, SamePin, PinOk, PinType, PinFields, TimerFields
<1>2. f.ch = e.ch /\ Shape(f)
  BY DEF StatusShow, PinOk, Shape
<1> HIDE DEF f
<1>3. \A l \in Leds : ChannelType(f.ch[l])
  BY <1>2 DEF PinOk
<1> QED BY <1>1, <1>2, <1>3, SamePinOk DEF f

\* The pin's own work leaves what is not yet due, and takes the pin back only
\* when what was on the wire is out.
LEMMA PinWorkPin ==
    ASSUME clock \in Clocks, NEW e, PinOk(e),
           PinOwed(e) => Over(PinDue(e)) <= 2 * Late
    PROVE  LET f == PinWork(e)
           IN  /\ PinOk(f)
               /\ f.alarm = e.alarm /\ f.nvic = e.nvic /\ f.pend = e.pend /\ f.fired = e.fired
               /\ PinOwed(f) => Over(PinDue(f)) <= 0
<1> DEFINE n == [e EXCEPT !.flags = @ \ {"write"}]
           w == IF "write" \in e.flags /\ Due(e.writeDue) THEN Send(n, e.pending) ELSE e
           Timer(x, y) == /\ TimerFields \cup PinFields \subseteq DOMAIN y
                          /\ y.alarm = x.alarm /\ y.nvic = x.nvic
                          /\ y.pend = x.pend /\ y.fired = x.fired
                          /\ y.writeDue = x.writeDue /\ y.parkDue = x.parkDue
<1>1. /\ Shape(e) /\ PinType(e) /\ (Timely => CutInv(e))
      /\ \A l \in Leds : ChannelType(e.ch[l])
  BY DEF PinOk
<1>2. /\ e.writeDue \in Clocks /\ e.parkDue \in Clocks /\ e.wire \in Nat
      /\ "park" \in e.flags => Shared
      /\ e.alarm \in Clocks \cup {None} /\ e.fired \in Clocks
      /\ Over(e.writeDue) \in Int /\ Over(e.parkDue) \in Int
      /\ Due(e.writeDue) <=> Over(e.writeDue) >= 0
      /\ Due(e.parkDue) <=> Over(e.parkDue) >= 0
  BY <1>1, OverInt DEF PinType
<1>3. /\ Timer(e, w) /\ Shape(w) /\ w.ch = e.ch
      /\ ~w.cut <=> ~e.cut
      /\ ~w.hurried <=> ~e.hurried
      /\ IF "write" \in e.flags /\ Due(e.writeDue)
           THEN w.flags = e.flags \ {"write"} /\ w.wire \in {e.wire, e.wire + WireTime}
           ELSE w = e
  <2>1. CASE "write" \in e.flags /\ Due(e.writeDue)
    <3>1. /\ Timer(e, n) /\ Shape(n) /\ n.ch = e.ch /\ n.cut = e.cut /\ n.hurried = e.hurried
          /\ n.flags = e.flags \ {"write"} /\ n.wire = e.wire
      BY <1>1 DEF PinType, Shape, PinFields, TimerFields
    <3> HIDE DEF n
    <3>2. /\ Timer(n, Send(n, e.pending)) /\ Shape(Send(n, e.pending))
          /\ Send(n, e.pending).ch = n.ch
          /\ Send(n, e.pending).cut = n.cut /\ Send(n, e.pending).hurried = n.hurried
          /\ Send(n, e.pending).flags = n.flags
          /\ Send(n, e.pending).wire \in {n.wire, n.wire + WireTime}
      BY <3>1 DEF Send, Shape, PinFields, TimerFields
    <3> QED BY <2>1, <3>1, <3>2
  <2>2. CASE ~("write" \in e.flags /\ Due(e.writeDue))
    BY <2>2, <1>1 DEF PinType
  <2> QED BY <2>1, <2>2
<1>4. PinWork(e) = (IF "park" \in w.flags /\ Due(w.parkDue) THEN Park(w) ELSE w)
  BY DEF PinWork
<1> HIDE DEF w, n
<1>5. PinType(w)
  <2>1. w.wire \in Nat
    BY <1>2, <1>3, TimeAssumption
  <2>2. "park" \in w.flags => "park" \in e.flags
    BY <1>3
  <2> QED BY <1>2, <1>3, <2>1, <2>2 DEF PinType
<1>6. "write" \in w.flags => ~Due(w.writeDue)
  BY <1>3
<1>7. ASSUME Timely PROVE CutInv(w)
  <2>1. CASE "write" \in e.flags /\ Due(e.writeDue)
    <3> SUFFICES ASSUME ~e.hurried
                 PROVE  /\ ~e.cut
                        /\ Over(e.parkDue) + w.wire <= 0
      BY <1>3, <2>1 DEF CutInv
    <3>1. ~e.cut /\ e.wire = 0 /\ e.parkDue = ParkAfterWrite(e) /\ -ResetDelay <= Over(e.writeDue)
      BY <1>1, <1>7, <2>1 DEF CutInv
    <3>2. Over(e.parkDue) = Over(e.writeDue) - ParkDelay
      BY <1>2, <3>1, OverPark DEF ParkAfterWrite
    <3>3. Over(e.writeDue) <= 2 * Late
      BY <2>1 DEF PinOwed, PinDue
    <3>4. w.wire \in Nat /\ w.wire <= WireTime
      BY <1>3, <2>1, <3>1, TimeAssumption
    <3>5. WireTime + 2 * Late <= ParkDelay
      BY <1>7 DEF Timely
    <3> QED BY <3>1, <3>2, <3>3, <3>4, <3>5, <1>2, TimeAssumption
  <2>2. CASE ~("write" \in e.flags /\ Due(e.writeDue))
    <3>1. w = e
      BY <1>3, <2>2
    <3> QED BY <3>1, <1>1, <1>7
  <2> QED BY <2>1, <2>2
<1>8. CASE ~("park" \in w.flags /\ Due(w.parkDue))
  <2>1. PinOk(w)
    BY <1>1, <1>3, <1>5, <1>7 DEF PinOk
  <2>2. PinOwed(w) => Over(PinDue(w)) <= 0
    BY <1>2, <1>3, <1>6, <1>8 DEF PinOwed, PinDue
  <2>3. PinWork(e) = w
    BY <1>4, <1>8
  <2> QED BY <1>3, <2>1, <2>2, <2>3
<1>9. CASE "park" \in w.flags /\ Due(w.parkDue)
  <2> DEFINE f == Park(w)
  <2>1. /\ Timer(w, f) /\ Shape(f) /\ f.ch = w.ch
        /\ f.wire = 0
        /\ ~f.hurried <=> ~w.hurried
        /\ ~f.cut <=> ~w.cut /\ ~(w.wire > 0) /\ "write" \notin w.flags
        /\ "park" \notin f.flags
        /\ "write" \in f.flags <=> "write" \in w.flags
    BY <1>3 DEF Park, Shape, PinFields, TimerFields
  <2>2. PinWork(e) = f
    BY <1>4, <1>9
  <2> HIDE DEF f
  <2>3. PinType(f)
    BY <1>2, <1>3, <2>1 DEF PinType
  <2>4. PinOwed(f) => Over(PinDue(f)) <= 0
    BY <1>2, <1>3, <1>6, <2>1 DEF PinOwed, PinDue
  <2>5. ASSUME Timely, ~f.hurried PROVE ~f.cut /\ "write" \notin f.flags
    <3>1. CutInv(w) /\ ~w.hurried
      BY <1>7, <2>1, <2>5
    <3>2. "write" \notin w.flags
      <4> SUFFICES ASSUME "write" \in w.flags PROVE FALSE
        OBVIOUS
      <4>1. w.parkDue = ParkAfterWrite(w) /\ -ResetDelay <= Over(w.writeDue)
        BY <3>1 DEF CutInv
      <4>2. Over(w.parkDue) = Over(w.writeDue) - ParkDelay
        BY <1>2, <1>3, <4>1, OverPark DEF ParkAfterWrite
      <4> QED BY <1>2, <1>3, <1>6, <1>9, <4>2, WrapIsNat
    <3>3. w.wire = 0
      <4>1. w.wire # 0 => Over(w.parkDue) + w.wire <= 0
        BY <1>9, <3>1, <3>2 DEF CutInv
      <4> QED BY <4>1, <1>2, <1>3, <1>5, <1>9 DEF PinType
    <3> QED BY <2>1, <3>1, <3>2, <3>3 DEF CutInv
  <2>6. Timely => CutInv(f)
    BY <2>1, <2>5 DEF CutInv
  <2> QED BY <1>1, <1>3, <2>1, <2>2, <2>3, <2>4, <2>6 DEF PinOk
<1> QED BY <1>8, <1>9

---------------------------------------------------------------------------
(* The channels show through the pin's functions, and owe it nothing of    *)
(* their own.                                                              *)

LEMMA ShowPin ==
    ASSUME clock \in Clocks, NEW e, NEW l \in Leds, NEW lit, PinOk(e)
    PROVE  PinOk(Show(e, l, lit)) /\ Owes(e, Show(e, l, lit))
<1> DEFINE s == [e EXCEPT !.ch[l].lit = lit]
           p == Pixel(e.ch[l].is.colour, IF lit THEN Steps["on"] ELSE 0)
<1>1. Shape(s) /\ \A k \in Leds : ChannelType(s.ch[k])
  BY DEF PinOk, Shape, ChannelFields, ChannelType
<1>2. SamePin(e, s)
  BY DEF SamePin, PinOk, PinType, PinFields, TimerFields
<1>3. Show(e, l, lit) = IF l = "rgb" THEN RgbWrite(s, p) ELSE StatusShow(s, lit)
  BY DEF Show
<1> HIDE DEF s, p
<1>4. PinOk(s) /\ Owes(e, s)
  BY <1>1, <1>2, SamePinOk
<1>5. PinOk(RgbWrite(s, p)) /\ Owes(e, RgbWrite(s, p))
  BY <1>4, RgbWritePin, OwesTrans
<1>6. PinOk(StatusShow(s, lit)) /\ Owes(e, StatusShow(s, lit))
  BY <1>4, StatusShowPin, OwesTrans
<1> QED BY <1>3, <1>5, <1>6

\* Every mode's waits are whole milliseconds.
LEMMA WaitsAreInt ==
    ASSUME NEW is, is.mode \in Modes, is.period \in Nat
    PROVE  /\ FrameInterval(is) \in Int
           /\ \A n \in Int : n % Len(Flame) \in Int /\ n % Steps[is.mode] \in Int
           /\ \A n \in Int : FlameInterval(is, n % Len(Flame)) \in Int
           /\ \A ms, n \in Int : MsLater(ms, n) \in Int
<1>1. FrameInterval(is) \in Int
  <2>1. Steps[is.mode] \in Nat /\ Steps[is.mode] > 0
    BY TableAssumption
  <2>2. is.period \div Steps[is.mode] \in Int
    BY <2>1
  <2> QED BY <2>2, TableAssumption DEF FrameInterval
<1>2. Len(Flame) \in Nat /\ Len(Flame) > 0
  BY TableAssumption
<1>3. \A n \in Int : n % Len(Flame) \in 0 .. Len(Flame) - 1
  BY <1>2
<1>4. \A n \in Int : n % Steps[is.mode] \in Int
  <2>1. Steps[is.mode] \in Nat /\ Steps[is.mode] > 0
    BY TableAssumption
  <2> QED BY <2>1
<1>5. ASSUME NEW n \in 0 .. Len(Flame) - 1
      PROVE  FlameInterval(is, n) \in Int
  <2>1. Flame[n + 1] \in BOOLEAN \X Nat
    BY <1>2, TableAssumption
  <2>2. Flame[n + 1][2] \in Nat
    BY <2>1
  <2>3. DefaultPeriod["flame"] \in Nat /\ DefaultPeriod["flame"] > 0
    BY TableAssumption DEF Modes, Repeating
  <2>4. Flame[n + 1][2] * is.period \in Nat
    BY <2>2
  <2>5. (Flame[n + 1][2] * is.period) \div DefaultPeriod["flame"] \in Int
    BY <2>3, <2>4
  <2> QED BY <2>5 DEF FlameInterval
<1>6. \A ms, n \in Int : MsLater(ms, n) \in Int
  BY LateIs DEF MsLater
<1>7. \A n \in Int : FlameInterval(is, n % Len(Flame)) \in Int
  BY <1>3, <1>5
<1>8. \A n \in Int : n % Len(Flame) \in Int
  BY <1>2
<1> QED BY <1>1, <1>4, <1>6, <1>7, <1>8

LEMMA MsIsInt == ASSUME NEW t \in Clocks PROVE MsAt(t) \in Int
<1>1. t \in Nat /\ MsTicks \in Nat /\ MsTicks > 0
  BY TimeAssumption, WrapIsNat DEF Clocks
<1> QED BY <1>1 DEF MsAt

LEMMA RestorePin ==
    ASSUME clock \in Clocks, NEW e, NEW l \in Leds, PinOk(e)
    PROVE  PinOk(Restore(e, l)) /\ Owes(e, Restore(e, l))
<1> DEFINE saved == e.ch[l].saved
           b == [e EXCEPT !.ch[l].is = saved, !.ch[l].step = 0, !.ch[l].hold = 0,
                          !.ch[l].next = IF saved.mode \in Repeating THEN MsAt(clock) ELSE @,
                          !.bounded[l] = FALSE, !.first[l] = AtRest]
<1>1. /\ Shape(e) /\ PinType(e)
      /\ saved.mode \in Modes /\ saved.period \in Nat
      /\ \A k \in Leds : ChannelType(e.ch[k])
  BY DEF PinOk, ChannelType
<1>2. MsAt(clock) \in Int
  BY MsIsInt
<1>3. Shape(b)
  BY <1>1 DEF Shape, ChannelFields
<1>4. /\ b.ch[l].is = saved /\ b.ch[l].saved = saved /\ b.ch[l].step = 0 /\ b.ch[l].hold = 0
      /\ b.ch[l].next \in {e.ch[l].next, MsAt(clock)}
      /\ \A k \in Leds \ {l} : b.ch[k] = e.ch[k]
  BY <1>1 DEF Shape, ChannelFields
<1>5. SamePin(e, b)
  BY <1>1 DEF SamePin, PinType, PinFields, TimerFields
<1>6. Restore(e, l) = Show(b, l, saved.mode # "off")
  BY DEF Restore
<1> HIDE DEF b
<1>7. \A k \in Leds : ChannelType(b.ch[k])
  BY <1>1, <1>2, <1>4 DEF ChannelType
<1>8. PinOk(b) /\ Owes(e, b)
  BY <1>3, <1>5, <1>7, SamePinOk
<1> HIDE DEF saved
<1> QED BY <1>6, <1>8, ShowPin, OwesTrans

LEMMA AdvancePin ==
    ASSUME clock \in Clocks, NEW e, NEW l \in Leds, NEW ms \in Int, PinOk(e),
           e.ch[l].is.mode \in Repeating
    PROVE  PinOk(Advance(e, l, ms)) /\ Owes(e, Advance(e, l, ms))
<1> DEFINE ch == e.ch[l]
           mode == ch.is.mode
           step == (ch.step + 1) % (IF mode = "flame" THEN Len(Flame) ELSE Steps[mode])
           wait == IF mode = "flame" THEN FlameInterval(ch.is, step) ELSE FrameInterval(ch.is)
           m == [e EXCEPT !.ch[l].step = step, !.ch[l].next = MsLater(ms, wait)]
           n(level) == [m EXCEPT !.ch[l].lit = (level # 0)]
           Lit(level, colour) == RgbWrite(n(level), Pixel(colour, level))
           Good(f) == PinOk(f) /\ Owes(e, f)
<1>1. /\ Shape(e) /\ PinType(e)
      /\ ch.is.mode \in Modes /\ ch.is.period \in Nat /\ ch.step + 1 \in Int
      /\ \A k \in Leds : ChannelType(e.ch[k])
  BY DEF PinOk, ChannelType
<1>2. step \in Int /\ wait \in Int
  BY <1>1, WaitsAreInt
<1>3. MsLater(ms, wait) \in Int
  BY <1>1, <1>2, WaitsAreInt
<1> HIDE DEF step, wait
<1>4. Good(m)
  <2>1. Shape(m)
    BY <1>1 DEF Shape, ChannelFields
  <2>2. /\ m.ch[l].is = ch.is /\ m.ch[l].saved = ch.saved /\ m.ch[l].hold = ch.hold
        /\ m.ch[l].step = step /\ m.ch[l].next = MsLater(ms, wait)
        /\ \A k \in Leds \ {l} : m.ch[k] = e.ch[k]
    BY <1>1 DEF Shape, ChannelFields
  <2>3. SamePin(e, m)
    BY <1>1 DEF SamePin, PinType, PinFields, TimerFields
  <2> HIDE DEF m
  <2>4. \A k \in Leds : ChannelType(m.ch[k])
    BY <1>1, <1>2, <1>3, <2>2 DEF ChannelType
  <2> QED BY <2>1, <2>3, <2>4, SamePinOk
<1> HIDE DEF m
<1>5. ASSUME NEW lit PROVE Good(Show(m, l, lit))
  BY <1>4, ShowPin, OwesTrans
<1>6. ASSUME NEW level, NEW colour PROVE Good(Lit(level, colour))
  <2>1. Shape(n(level)) /\ \A k \in Leds : ChannelType(n(level).ch[k])
    BY <1>4 DEF PinOk, Shape, ChannelFields, ChannelType
  <2>2. SamePin(m, n(level))
    BY <1>4 DEF SamePin, PinOk, PinType, PinFields, TimerFields
  <2> HIDE DEF n
  <2>3. PinOk(n(level)) /\ Owes(e, n(level))
    BY <1>4, <2>1, <2>2, SamePinOk, OwesTrans
  <2> QED BY <2>3, RgbWritePin, OwesTrans
<1> HIDE DEF Lit, Good
<1>7. CASE mode = "beacon"
  <2>1. Advance(e, l, ms) = Show(m, l, ~ch.lit)
    BY <1>7 DEF Advance, m, step, wait
  <2> QED BY <1>5, <2>1 DEF Good
<1>8. CASE mode = "flame"
  <2>1. Advance(e, l, ms) = Show(m, l, Flame[step + 1][1])
    BY <1>8 DEF Advance, m, step, wait
  <2> QED BY <1>5, <2>1 DEF Good
<1>9. CASE mode = "blink"
  <2>1. Advance(e, l, ms) = Show(m, l, step = 0)
    BY <1>9 DEF Advance, m, step, wait
  <2> QED BY <1>5, <2>1 DEF Good
<1>10. CASE mode = "cycle"
  <2>1. Advance(e, l, ms) = Lit(step + 1, "hue")
    BY <1>10 DEF Advance, m, step, wait, Lit
  <2> QED BY <1>6, <2>1 DEF Good
<1>11. CASE mode = "breathe"
  <2>1. Advance(e, l, ms) = Lit(BreatheLevel(step), ch.is.colour)
    BY <1>11 DEF Advance, m, step, wait, Lit
  <2> QED BY <1>6, <2>1 DEF Good
<1> QED BY <1>7, <1>8, <1>9, <1>10, <1>11 DEF Repeating

LEMMA RunChannelPin ==
    ASSUME clock \in Clocks, NEW e, NEW l \in Leds, NEW ms \in Int, PinOk(e)
    PROVE  PinOk(RunChannel(e, l, ms)) /\ Owes(e, RunChannel(e, l, ms))
<1>1. CASE Expired(e.ch[l], ms)
  BY <1>1, RestorePin DEF RunChannel
<1>2. CASE ~Expired(e.ch[l], ms) /\ FrameDue(e.ch[l], ms)
  <2>1. RunChannel(e, l, ms) = Advance(e, l, ms) /\ e.ch[l].is.mode \in Repeating
    BY <1>2 DEF RunChannel, FrameDue
  <2> QED BY <2>1, AdvancePin
<1>3. CASE ~Expired(e.ch[l], ms) /\ ~FrameDue(e.ch[l], ms)
  BY <1>3 DEF RunChannel, Owes
<1> QED BY <1>1, <1>2, <1>3

LEMMA SetPin ==
    ASSUME clock \in Clocks, NEW e, NEW req \in Requests, NEW ms \in Int, PinOk(e)
    PROVE  PinOk(Set(e, req, ms)) /\ Owes(e, Set(e, req, ms))
<1> DEFINE l == req.led
           ch == e.ch[l]
           bounded == HoldOf(req) # 0
           is == StateAsked(req)
           end == Expiry(ms, HoldOf(req))
           t == [e EXCEPT !.ch[l].saved = IF bounded /\ ~AlreadyBounded(ch) THEN ch.is ELSE @,
                          !.ch[l].is = is,
                          !.ch[l].step = 0,
                          !.ch[l].hold = IF bounded THEN end ELSE @,
                          !.ch[l].next = IF req.mode \in Repeating
                                           THEN MsLater(ms, FrameInterval(is)) ELSE @,
                          !.first[l] = IF bounded /\ ch.hold = 0 THEN ch.is ELSE @,
                          !.bounded[l] = bounded]
           next == MsLater(ms, FrameInterval(is))
<1>1. l \in Leds /\ req.mode \in Modes /\ req.period \in Nat /\ req.hold \in Nat
  BY RequestsAssumption
<1>2. is.mode \in Modes /\ is.period \in Nat
  BY <1>1, TableAssumption DEF StateAsked
<1>3. HoldOf(req) \in Nat
  BY <1>1, TimeAssumption DEF HoldOf
<1>4. end \in Int
  <2>1. MsLater(ms, HoldOf(req)) \in Int
    BY <1>3, LateIs DEF MsLater
  <2> QED BY <2>1 DEF Expiry
<1>5. next \in Int
  BY <1>2, WaitsAreInt
<1>6. /\ Shape(e) /\ PinType(e) /\ \A k \in Leds : ChannelType(e.ch[k])
  BY DEF PinOk
<1> HIDE DEF is, end, next, bounded
<1>7. Shape(t)
  <2>1. /\ {"ch", "first", "bounded"} \subseteq DOMAIN e
        /\ DOMAIN e.ch = Leds /\ DOMAIN e.first = Leds /\ DOMAIN e.ch[l] = ChannelFields
    BY <1>1, <1>6 DEF Shape
  <2>2. DOMAIN t = DOMAIN e /\ DOMAIN t.ch = Leds /\ DOMAIN t.first = Leds
    BY <2>1
  <2>3. \A k \in Leds \ {l} : t.ch[k] = e.ch[k]
    BY <2>1
  <2>4. DOMAIN t.ch[l] = ChannelFields
    BY <1>1, <2>1
  <2> QED BY <1>6, <2>2, <2>3, <2>4 DEF Shape
<1>8. /\ t.ch[l].is = is
      /\ t.ch[l].saved \in {ch.is, ch.saved}
      /\ t.ch[l].step = 0
      /\ t.ch[l].hold \in {ch.hold, end}
      /\ t.ch[l].next \in {ch.next, next}
      /\ \A k \in Leds \ {l} : t.ch[k] = e.ch[k]
  <2>1. /\ {"ch", "first", "bounded"} \subseteq DOMAIN e
        /\ DOMAIN e.ch = Leds /\ DOMAIN e.ch[l] = ChannelFields
    BY <1>1, <1>6 DEF Shape
  <2>2. t.ch[l].is = is
    BY <1>1, <2>1 DEF ChannelFields
  <2>3. t.ch[l].saved \in {ch.is, ch.saved}
    BY <1>1, <2>1 DEF ChannelFields
  <2>4. t.ch[l].step = 0
    BY <1>1, <2>1 DEF ChannelFields
  <2>5. t.ch[l].hold \in {ch.hold, end}
    BY <1>1, <2>1 DEF ChannelFields
  <2>6. t.ch[l].next \in {ch.next, next}
    BY <1>1, <2>1 DEF ChannelFields, next
  <2>7. \A k \in Leds \ {l} : t.ch[k] = e.ch[k]
    BY <2>1
  <2> QED BY <2>2, <2>3, <2>4, <2>5, <2>6, <2>7
<1>9. SamePin(e, t)
  <2>1. TimerFields \cup PinFields \subseteq DOMAIN e
    BY <1>6 DEF PinType
  <2>2. /\ t.flags = e.flags /\ t.claimed = e.claimed /\ t.wire = e.wire
        /\ t.hurried = e.hurried /\ t.cut = e.cut
        /\ t.writeDue = e.writeDue /\ t.parkDue = e.parkDue
    BY <2>1 DEF PinFields
  <2>3. t.alarm = e.alarm /\ t.nvic = e.nvic /\ t.pend = e.pend /\ t.fired = e.fired
    BY <2>1 DEF TimerFields
  <2>4. DOMAIN t = DOMAIN e
    OBVIOUS
  <2> HIDE DEF t
  <2> QED BY <2>1, <2>2, <2>3, <2>4 DEF SamePin, PinFields, TimerFields
<1>10. Set(e, req, ms) = Show(t, l, req.mode # "off")
  BY DEF Set, is, end, bounded
<1> HIDE DEF t
<1>11. \A k \in Leds : ChannelType(t.ch[k])
  BY <1>1, <1>2, <1>4, <1>5, <1>6, <1>8 DEF ChannelType
<1>12. PinOk(t) /\ Owes(e, t)
  BY <1>7, <1>9, <1>11, SamePinOk
<1> QED BY <1>1, <1>10, <1>12, ShowPin, OwesTrans

---------------------------------------------------------------------------
(* The alarm.                                                              *)

LEMMA DiffInt ==
    ASSUME NEW w \in Nat, w > 0, NEW a \in Int, NEW b \in Int
    PROVE  Diff(a, b, w) \in Int /\ 2 * Diff(a, b, w) < w
<1>1. (a - b) % w \in 0 .. w - 1
  BY SmallMod
<1> QED BY <1>1 DEF Diff

LEMMA MsWait ==
    ASSUME NEW n \in Nat, 2 * n <= MsWrap
    PROVE  n * MsTicks \in Nat /\ 2 * (n * MsTicks) <= Wrap
<1>1. MsTicks \in Nat /\ MsWrap \in Nat
  BY TimeAssumption
<1>2. \A a, b, k \in Nat : a <= b => a * k <= b * k
  OBVIOUS
<1>3. (2 * n) * MsTicks <= MsWrap * MsTicks
  BY <1>1, <1>2
<1>4. (2 * n) * MsTicks = 2 * (n * MsTicks) /\ MsWrap * MsTicks = MsTicks * MsWrap
  BY <1>1
<1> QED BY <1>1, <1>3, <1>4 DEF Wrap

LEMMA EarliestIsInt ==
    ASSUME NEW e, \A l \in Leds : ChannelType(e.ch[l])
    PROVE  Earliest(e) \in Int
<1>1. \A a, b \in Int : Sooner(a, b) \in Int
  BY DEF Sooner
<1>2. \A l \in Leds : NextFrame(e.ch[l]) \in Int /\ HoldEnd(e.ch[l]) \in Int
  BY DEF NextFrame, HoldEnd, ChannelType, None
<1>3. \A a \in Int, l \in Leds : SoonerOf(a, e.ch[l]) \in Int
  BY <1>1, <1>2 DEF SoonerOf
<1> QED BY <1>3 DEF Earliest, Leds, None

\* What to wait for is never half the counter's range away, and not later than
\* what the pin is owed.
LEMMA WaitIs ==
    ASSUME clock \in Clocks, NEW e, NEW ms \in Int, PinOk(e), Wait(e, ms) # {}
    PROVE  LET wait == CHOOSE w \in Wait(e, ms) : \A x \in Wait(e, ms) : w <= x
           IN  /\ wait \in Nat /\ 2 * wait <= Wrap
               /\ \A w \in Wait(e, ms) : wait <= w
               /\ PinOwed(e) /\ wait # 0 => Over(PinDue(e)) <= -wait
<1> DEFINE ahead == NotNegative(Diff(Earliest(e), ms, MsWrap))
           a == ahead * MsTicks
           b == NotNegative(Diff(PinDue(e), clock, Wrap))
           frames == IF Earliest(e) = None THEN {} ELSE {a}
           pin == IF PinOwed(e) THEN {b} ELSE {}
           wait == CHOOSE w \in Wait(e, ms) : \A x \in Wait(e, ms) : w <= x
<1>1. Wait(e, ms) = frames \cup pin
  BY DEF Wait
<1>2. a \in Nat /\ 2 * a <= Wrap
  <2>1. Earliest(e) \in Int
    BY EarliestIsInt DEF PinOk
  <2>2. Diff(Earliest(e), ms, MsWrap) \in Int /\ 2 * Diff(Earliest(e), ms, MsWrap) < MsWrap
    BY <2>1, TimeAssumption, DiffInt
  <2>3. ahead \in Nat /\ 2 * ahead <= MsWrap
    BY <2>2, TimeAssumption DEF NotNegative
  <2> HIDE DEF ahead
  <2> QED BY <2>3, MsWait
<1>3. PinDue(e) \in Clocks
  BY DEF PinDue, PinOk, PinType
<1>4. /\ b \in Nat /\ 2 * b <= Wrap
      /\ b # 0 => Over(PinDue(e)) = -b
  <2>1. /\ Diff(PinDue(e), clock, Wrap) \in Int
        /\ 2 * Diff(PinDue(e), clock, Wrap) < Wrap
        /\ Over(PinDue(e)) \in Int
        /\ \/ Diff(PinDue(e), clock, Wrap) = -Over(PinDue(e))
           \/ 2 * Diff(PinDue(e), clock, Wrap) = -Wrap
    BY <1>3, ToCome, OverInt
  <2> QED BY <2>1, WrapIsNat DEF NotNegative
<1> HIDE DEF a, b
<1>5. wait \in Wait(e, ms) /\ \A x \in Wait(e, ms) : wait <= x
  <2>1. \E w \in Wait(e, ms) : \A x \in Wait(e, ms) : w <= x
    <3>1. Wait(e, ms) \in {{a}, {b}, {a, b}}
      BY <1>1
    <3> QED BY <1>2, <1>4, <3>1
  <2> QED BY <2>1
<1> HIDE DEF wait
<1>6. wait \in Nat /\ 2 * wait <= Wrap
  BY <1>1, <1>2, <1>4, <1>5
<1>7. ASSUME PinOwed(e), wait # 0 PROVE Over(PinDue(e)) <= -wait
  <2>1. wait <= b
    BY <1>1, <1>5, <1>7
  <2>2. b # 0
    BY <1>6, <1>7, <2>1, <1>4
  <2> QED BY <1>4, <1>6, <2>1, <2>2
<1> QED BY <1>5, <1>6, <1>7 DEF wait

\* An interrupt is there for a core to take.
Raised(e) == e.pend \cap e.nvic # {}

\* The alarm is set, and later than t by no more than the slack.
Armed(e, t, slack) == /\ e.alarm \in Clocks /\ e.nvic # {}
                      /\ Over(e.alarm) < 0
                      /\ Over(t) <= Over(e.alarm) + slack

LEMMA RearmPin ==
    ASSUME clock \in Clocks, NEW e, NEW c, NEW ms \in Int, PinOk(e)
    PROVE  LET f == Rearm(e, c, ms)
           IN  /\ PinOk(f)
               /\ Raised(f) => f.fired = clock \/ (Raised(e) /\ f.fired = e.fired)
               /\ PinOwed(f) => /\ PinOwed(e) /\ PinDue(f) = PinDue(e)
                                /\ \/ Armed(f, PinDue(f), 0)
                                   \/ Raised(f) /\ (Raised(e) => f.fired = e.fired)
               /\ f.ch = e.ch /\ f.bounded = e.bounded
               /\ Wait(e, ms) # {} =>
                    \E wait \in Nat :
                      /\ 2 * wait <= Wrap
                      /\ \A w \in Wait(e, ms) : wait <= w
                      /\ \/ wait # 0 /\ f.alarm = Later(wait) /\ f.nvic # {}
                         \/ Raised(f) /\ (Raised(e) => f.fired = e.fired)
<1> DEFINE waits == Wait(e, ms)
           wait == CHOOSE w \in waits : \A x \in waits : w <= x
           a == [e EXCEPT !.alarm = Later(wait), !.nvic = @ \cup {c},
                          !.flags = @ \cup {"timer"}]
           d == [e EXCEPT !.alarm = None, !.nvic = @ \ {c}, !.flags = @ \ {"timer"}]
           n == IF waits # {} THEN IF wait = 0 THEN Fire(a) ELSE a
                ELSE IF "timer" \in e.flags THEN d ELSE e
           at == Since(e, n, clock)
           f == Rearm(e, c, ms)
           Like(x) ==
             /\ Shape(x) /\ x.ch = e.ch /\ x.bounded = e.bounded
             /\ TimerFields \cup PinFields \subseteq DOMAIN x
             /\ x.claimed = e.claimed /\ x.wire = e.wire /\ x.hurried = e.hurried
             /\ x.cut = e.cut /\ x.writeDue = e.writeDue /\ x.parkDue = e.parkDue
             /\ x.flags \ {"timer"} = e.flags \ {"timer"}
<1>1. /\ Shape(e) /\ PinType(e) /\ (Timely => CutInv(e))
      /\ \A l \in Leds : ChannelType(e.ch[l])
  BY DEF PinOk
<1>2. waits # {} => /\ wait \in Nat /\ 2 * wait <= Wrap
                    /\ \A w \in waits : wait <= w
                    /\ PinOwed(e) /\ wait # 0 => Over(PinDue(e)) <= -wait
  BY WaitIs
<1>3. waits = {} => ~PinOwed(e)
  BY DEF Wait
<1>4. f = [n EXCEPT !.fired = at]
  BY DEF Rearm
<1> HIDE DEF waits, wait
<1>5. Like(e)
  BY <1>1 DEF PinType
<1>6. Like(a) /\ a.alarm = Later(wait) /\ a.nvic = e.nvic \cup {c} /\ a.pend = e.pend
  BY <1>5 DEF Shape, TimerFields, PinFields
<1>7. Like(d) /\ d.alarm = None /\ d.nvic = e.nvic \ {c} /\ d.pend = e.pend
  BY <1>5 DEF Shape, TimerFields, PinFields
<1> HIDE DEF a, d
<1>8. /\ Like(Fire(a)) /\ Fire(a).alarm = None
      /\ Fire(a).nvic = a.nvic /\ Fire(a).pend = a.pend \cup a.nvic
  BY <1>6 DEF Fire, Shape, TimerFields, PinFields
<1>9. /\ Like(n)
      /\ n.alarm \in {None, e.alarm} \/ (waits # {} /\ n.alarm = Later(wait))
      /\ waits # {} /\ wait # 0 => n.alarm = Later(wait) /\ c \in n.nvic
      /\ waits # {} /\ wait = 0 => Raised(n)
  BY <1>5, <1>6, <1>7, <1>8 DEF Raised
<1> HIDE DEF n
<1>10. /\ Like(f) /\ f.alarm = n.alarm /\ f.nvic = n.nvic /\ f.pend = n.pend /\ f.fired = at
  BY <1>4, <1>9 DEF Shape, TimerFields, PinFields
<1>11. Raised(f) <=> Raised(n)
  BY <1>10 DEF Raised
<1>12. at = (IF ~Raised(n) THEN 0 ELSE IF ~Raised(e) THEN clock ELSE e.fired)
  BY DEF Since, Raised
<1> HIDE DEF f, at
<1>13. \A x : x # "timer" => (x \in f.flags <=> x \in e.flags)
  BY <1>10
<1>14. /\ PinOwed(f) <=> PinOwed(e)
       /\ PinDue(f) = PinDue(e)
  BY <1>10, <1>13 DEF PinOwed, PinDue
<1>15. waits # {} => Later(wait) \in Clocks /\ Over(Later(wait)) = -wait
  BY <1>2, OverLater
<1>16. PinOk(f)
  <2>1. f.alarm \in Clocks \cup {None}
    BY <1>1, <1>9, <1>10, <1>15 DEF PinType
  <2>2. f.fired \in Clocks
    BY <1>1, <1>10, <1>12, WrapIsNat DEF PinType, Clocks
  <2>3. PinType(f)
    BY <1>1, <1>10, <1>13, <2>1, <2>2 DEF PinType
  <2>4. Timely => CutInv(f)
    BY <1>1, <1>10, <1>13 DEF CutInv, ParkAfterWrite
  <2> QED BY <1>1, <1>10, <2>3, <2>4 DEF PinOk
<1>17. Raised(f) => f.fired = clock \/ (Raised(e) /\ f.fired = e.fired)
  BY <1>10, <1>11, <1>12
<1>18. ASSUME PinOwed(f)
       PROVE  Armed(f, PinDue(f), 0) \/ (Raised(f) /\ (Raised(e) => f.fired = e.fired))
  <2>1. waits # {} /\ PinOwed(e)
    BY <1>3, <1>14, <1>18
  <2>2. CASE wait = 0
    BY <1>9, <1>10, <1>11, <1>12, <2>1, <2>2
  <2>3. CASE wait # 0
    <3>1. f.alarm = Later(wait) /\ f.nvic # {}
      BY <1>9, <1>10, <2>1, <2>3
    <3>2. Over(f.alarm) = -wait /\ wait \in Nat /\ f.alarm \in Clocks
      BY <1>2, <1>15, <2>1, <3>1
    <3>3. Over(PinDue(f)) <= -wait
      BY <1>2, <1>14, <2>1, <2>3
    <3>4. Over(f.alarm) < 0 /\ Over(PinDue(f)) <= Over(f.alarm) + 0
      BY <2>3, <3>2, <3>3
    <3> QED BY <3>1, <3>2, <3>4 DEF Armed
  <2> QED BY <2>2, <2>3
<1>19. ASSUME waits # {}
       PROVE  \E x \in Nat :
                /\ 2 * x <= Wrap
                /\ \A w \in waits : x <= w
                /\ \/ x # 0 /\ f.alarm = Later(x) /\ f.nvic # {}
                   \/ Raised(f) /\ (Raised(e) => f.fired = e.fired)
  <2>1. CASE wait = 0
    BY <1>2, <1>9, <1>10, <1>11, <1>12, <1>19, <2>1
  <2>2. CASE wait # 0
    BY <1>2, <1>9, <1>10, <1>19, <2>2
  <2> QED BY <2>1, <2>2
<1>20. f.ch = e.ch /\ f.bounded = e.bounded
  BY <1>10
<1> QED BY <1>14, <1>16, <1>17, <1>18, <1>19, <1>20 DEF f, waits

\* What is due at t is seen to: the alarm is set for it, or an interrupt is on
\* its way that came no sooner, or a frame that took such an interrupt waits for
\* the lock; each later by no more than the slack, and the last by an
\* interrupt's lateness.
Answers(t) == 0 <= Over(t) /\ Over(t) <= Late
Meets(e, fr, t, slack) ==
    \/ Armed(e, t, slack)
    \/ Raised(e) /\ Over(t) <= Over(e.fired) + slack
    \/ \E c \in Cores : fr[c] # None /\ Over(t) <= Over(fr[c]) + Late + slack

\* What the pin is owed is seen to, without slack.
PinInv ==
    /\ clock \in Clocks
    /\ PinOk(led)
    /\ DOMAIN frame = Cores
    /\ \A c \in Cores : /\ call[c].at \in Clocks \cup {None}
                        /\ frame[c] \in Clocks \cup {None}
                        /\ frame[c] # None => Answers(frame[c])
    /\ Raised(led) => Answers(led.fired)
    /\ PinOwed(led) => Meets(led, frame, PinDue(led), 0)

\* What is seen to is not late by more than two interrupts.
LEMMA MeetsBound ==
    ASSUME PinInv, NEW t \in Clocks, NEW slack \in Nat, Meets(led, frame, t, slack)
    PROVE  Over(t) \in Int /\ Over(t) <= slack + 2 * Late
<1>1. Over(t) \in Int /\ Late \in Nat
  BY OverInt, LateIs DEF PinInv
<1>2. CASE Armed(led, t, slack)
  <2>1. Over(led.alarm) \in Int
    BY <1>2, OverInt DEF Armed, PinInv
  <2> QED BY <1>1, <1>2, <2>1 DEF Armed
<1>3. CASE Raised(led) /\ Over(t) <= Over(led.fired) + slack
  <2>1. Over(led.fired) \in Int
    BY OverInt DEF PinInv, PinOk, PinType
  <2> QED BY <1>1, <1>3, <2>1 DEF PinInv, Answers
<1>4. ASSUME NEW c \in Cores, frame[c] # None, Over(t) <= Over(frame[c]) + Late + slack
      PROVE  Over(t) <= slack + 2 * Late
  <2>1. Over(frame[c]) \in Int
    BY <1>4, OverInt DEF PinInv
  <2> QED BY <1>1, <1>4, <2>1 DEF PinInv, Answers
<1> QED BY <1>1, <1>2, <1>3, <1>4 DEF Meets

LEMMA PinDueIs == ASSUME NEW e, PinOk(e) PROVE PinDue(e) \in Clocks
BY DEF PinOk, PinType, PinDue

LEMMA PinInTime == PinInv => PinOnTime
<1> SUFFICES ASSUME PinInv, PinOwed(led) PROVE Over(PinDue(led)) <= 2 * Late
  BY DEF PinOnTime, PinOwed, Over
<1>1. PinDue(led) \in Clocks /\ Meets(led, frame, PinDue(led), 0)
  BY PinDueIs DEF PinInv
<1> QED BY <1>1, MeetsBound, LateIs

LEMMA PinInit == Init => PinInv
<1> SUFFICES ASSUME Init PROVE PinInv
  OBVIOUS
<1>1. clock \in Clocks /\ 0 \in Clocks
  BY WrapIsNat DEF Init, Clocks
<1>2. Shape(led) /\ \A l \in Leds : ChannelType(led.ch[l])
  <2>1. Shape(led)
    BY DEF Init, Shape, ChannelFields, Idle
  <2>2. ASSUME NEW l \in Leds PROVE ChannelType(led.ch[l])
    <3>1. \E m \in {"on", "off"} : led.ch[l] = Idle([AtRest EXCEPT !.mode = m])
      BY DEF Init
    <3>2. PICK m \in {"on", "off"} : led.ch[l] = Idle([AtRest EXCEPT !.mode = m])
      BY <3>1
    <3> QED BY <3>2 DEF Idle, AtRest, ChannelType, Modes
  <2> QED BY <2>1, <2>2
<1>3. /\ led.flags = {} /\ led.wire = 0 /\ ~led.cut /\ led.pend = {} /\ led.alarm = None
      /\ led.writeDue = 0 /\ led.parkDue = 0 /\ led.fired = 0
      /\ TimerFields \cup PinFields \subseteq DOMAIN led
  BY DEF Init, TimerFields, PinFields
<1>4. PinType(led)
  BY <1>1, <1>3 DEF PinType
<1>5. CutInv(led)
  BY <1>3 DEF CutInv
<1>6. ~Raised(led) /\ ~PinOwed(led)
  BY <1>3 DEF Raised, PinOwed
<1> QED BY <1>1, <1>2, <1>4, <1>5, <1>6 DEF PinInv, PinOk, Init, NoCall

\* A tick: the pixel on the wire goes on, and the alarm may fire.
LEMMA TickIs ==
    ASSUME PinInv, Tick
    PROVE  /\ Ticks /\ clock' \in Clocks /\ call' = call /\ frame' = frame
           /\ Shape(led') /\ led'.ch = led.ch /\ led'.bounded = led.bounded
           /\ TimerFields \cup PinFields \subseteq DOMAIN led'
           /\ led'.flags = led.flags /\ led'.claimed = led.claimed
           /\ led'.hurried = led.hurried /\ led'.cut = led.cut
           /\ led'.writeDue = led.writeDue /\ led'.parkDue = led.parkDue
           /\ led'.wire = NotNegative(led.wire - 1)
           /\ led'.nvic = led.nvic
           /\ IF led.alarm = clock' THEN led'.alarm = None /\ led'.pend = led.pend \cup led.nvic
                                    ELSE led'.alarm = led.alarm /\ led'.pend = led.pend
           /\ led'.fired = (IF ~Raised(led') THEN 0 ELSE IF ~Raised(led) THEN clock' ELSE led.fired)
<1> DEFINE n == [led EXCEPT !.wire = NotNegative(@ - 1),
                            !.low = IF ~LineIsLow(led) THEN 0
                                    ELSE IF @ < ResetDelay THEN @ + 1 ELSE @]
           g == IF led.alarm = clock' THEN Fire(n) ELSE n
           at == Since(led, g, clock')
           All == TimerFields \cup PinFields
<1>1. led' = [g EXCEPT !.fired = at] /\ clock' = Later(1) /\ call' = call /\ frame' = frame
  BY DEF Tick
<1>2. /\ clock \in Clocks /\ Shape(led) /\ PinType(led)
      /\ \A l \in Leds : ChannelType(led.ch[l])
  BY DEF PinInv, PinOk
<1>3. Ticks /\ clock' \in Clocks
  BY <1>1, <1>2, OverLater, WrapIsNat DEF Ticks
<1>4. /\ Shape(led') /\ led'.ch = led.ch /\ led'.bounded = led.bounded /\ All \subseteq DOMAIN led'
      /\ led'.flags = led.flags /\ led'.claimed = led.claimed
      /\ led'.hurried = led.hurried /\ led'.cut = led.cut
      /\ led'.writeDue = led.writeDue /\ led'.parkDue = led.parkDue
      /\ led'.wire = NotNegative(led.wire - 1)
      /\ led'.nvic = led.nvic
      /\ IF led.alarm = clock' THEN led'.alarm = None /\ led'.pend = led.pend \cup led.nvic
                               ELSE led'.alarm = led.alarm /\ led'.pend = led.pend
      /\ led'.fired = at
  <2>1. /\ Shape(n) /\ n.ch = led.ch /\ n.bounded = led.bounded /\ All \subseteq DOMAIN n
        /\ n.flags = led.flags /\ n.claimed = led.claimed
        /\ n.hurried = led.hurried /\ n.cut = led.cut
        /\ n.writeDue = led.writeDue /\ n.parkDue = led.parkDue
        /\ n.wire = NotNegative(led.wire - 1)
        /\ n.nvic = led.nvic /\ n.alarm = led.alarm /\ n.pend = led.pend
    BY <1>2 DEF Shape, PinType, TimerFields, PinFields
  <2> HIDE DEF n, at
  <2>2. CASE led.alarm = clock'
    <3>1. g = Fire(n)
      BY <2>2
    <3> HIDE DEF g
    <3> QED BY <1>1, <2>1, <2>2, <3>1 DEF Fire, Shape, TimerFields, PinFields
  <2>3. CASE led.alarm # clock'
    <3>1. g = n
      BY <2>3
    <3> HIDE DEF g
    <3> QED BY <1>1, <2>1, <2>3, <3>1 DEF Shape, TimerFields, PinFields
  <2> QED BY <2>2, <2>3
<1>5. at = (IF ~Raised(led') THEN 0 ELSE IF ~Raised(led) THEN clock' ELSE led.fired)
  <2>1. g.pend = led'.pend /\ g.nvic = led'.nvic
    <3> HIDE DEF g, at
    <3> QED BY <1>1
  <2> QED BY <2>1 DEF Since, Raised
<1> HIDE DEF g, at
<1> QED BY <1>1, <1>3, <1>4, <1>5

\* What is seen to stays so: the alarm comes nearer with what it is set for, and
\* time does not pass an interrupt or a frame that is late already.
LEMMA MeetsTick ==
    ASSUME PinInv, Tick, NEW t \in Clocks, NEW slack \in Nat,
           2 * (slack + 2 * Late + 1) < Wrap, Meets(led, frame, t, slack)
    PROVE  Diff(clock', t, Wrap) = Over(t) + 1 /\ Meets(led, frame, t, slack)'
<1> DEFINE Past(x) == Diff(clock', x, Wrap)
<1>1. /\ Ticks /\ clock' \in Clocks /\ clock \in Clocks /\ frame' = frame
      /\ led'.nvic = led.nvic
      /\ IF led.alarm = clock' THEN led'.alarm = None /\ led'.pend = led.pend \cup led.nvic
                               ELSE led'.alarm = led.alarm /\ led'.pend = led.pend
      /\ led'.fired = (IF ~Raised(led') THEN 0 ELSE IF ~Raised(led) THEN clock' ELSE led.fired)
  BY TickIs DEF PinInv
<1>2. Late \in Nat /\ Wrap \in Nat
  BY LateIs, WrapIsNat
<1>3. \A x \in Clocks : 2 * (Over(x) + 1) < Wrap => Past(x) = Over(x) + 1
  BY <1>1, OverTicks
<1>4. Over(t) \in Int /\ Past(t) = Over(t) + 1
  BY <1>2, <1>3, MeetsBound
<1>5. CASE Armed(led, t, slack)
  <2>1. /\ led.alarm \in Clocks /\ led.nvic # {} /\ Over(led.alarm) < 0
        /\ Over(t) <= Over(led.alarm) + slack
    BY <1>5 DEF Armed
  <2>2. Past(led.alarm) = Over(led.alarm) + 1 /\ Over(led.alarm) \in Int
    BY <1>1, <1>2, <1>3, <2>1, OverInt
  <2>3. CASE led.alarm = clock'
    <3>1. Raised(led')
      BY <1>1, <2>1, <2>3 DEF Raised
    <3>2. Past(clock') = 0
      BY <1>1, WrapIsNat, DiffExact DEF Clocks
    <3>3. Past(t) <= slack
      BY <1>4, <2>1, <2>2, <2>3, <3>2
    <3>4. 0 <= Past(led'.fired) /\ Past(led'.fired) \in Int
      <4>1. CASE Raised(led)
        <5>1. led.fired \in Clocks /\ 0 <= Over(led.fired) /\ Over(led.fired) <= Late
          BY <4>1 DEF PinInv, PinOk, PinType, Answers
        <5>2. Past(led.fired) = Over(led.fired) + 1 /\ Over(led.fired) \in Int
          BY <1>1, <1>2, <1>3, <5>1, OverInt, LateIs
        <5> QED BY <1>1, <3>1, <4>1, <5>1, <5>2
      <4>2. CASE ~Raised(led)
        BY <1>1, <3>1, <3>2, <4>2
      <4> QED BY <4>1, <4>2
    <3>5. Past(t) <= Past(led'.fired) + slack
      BY <1>4, <3>3, <3>4
    <3> QED BY <1>4, <3>1, <3>5 DEF Meets, Over, Raised
  <2>4. CASE led.alarm # clock'
    <3>1. led'.alarm = led.alarm
      BY <1>1, <2>4
    <3>2. Past(led.alarm) # 0
      <4>1. led.alarm \in 0 .. Wrap - 1 /\ clock' \in 0 .. Wrap - 1
        BY <1>1, <2>1 DEF Clocks
      <4>2. \/ Past(led.alarm) = clock' - led.alarm
            \/ Past(led.alarm) = clock' - led.alarm + Wrap
            \/ Past(led.alarm) = clock' - led.alarm - Wrap
        BY <4>1, WrapIsNat, DiffIs
      <4> QED BY <2>4, <4>1, <4>2, WrapIsNat
    <3>3. Past(led.alarm) < 0 /\ Past(t) <= Past(led.alarm) + slack
      BY <1>4, <2>1, <2>2, <3>2
    <3> QED BY <1>1, <1>4, <2>1, <3>1, <3>3 DEF Meets, Armed, Over
  <2> QED BY <2>3, <2>4
<1>6. CASE Raised(led) /\ Over(t) <= Over(led.fired) + slack
  <2>1. led.fired \in Clocks /\ Over(led.fired) \in Int /\ Over(led.fired) < Late
    BY <1>1, <1>6, OverInt DEF PinInv, PinOk, PinType, Tick, Prompt, Over, Raised
  <2>2. Past(led.fired) = Over(led.fired) + 1
    BY <1>2, <1>3, <2>1, LateIs
  <2>3. Raised(led') /\ led'.fired = led.fired
    BY <1>1, <1>6 DEF Raised
  <2>4. Past(t) <= Past(led'.fired) + slack
    BY <1>4, <1>6, <2>1, <2>2, <2>3
  <2> QED BY <1>4, <2>3, <2>4 DEF Meets, Over, Raised
<1>7. ASSUME NEW c \in Cores, frame[c] # None, Over(t) <= Over(frame[c]) + Late + slack
      PROVE  Meets(led, frame, t, slack)'
  <2>1. frame[c] \in Clocks /\ Over(frame[c]) \in Int /\ Over(frame[c]) < Late
    BY <1>1, <1>7, OverInt DEF PinInv, Tick, Prompt, Over
  <2>2. Past(frame[c]) = Over(frame[c]) + 1
    BY <1>2, <1>3, <2>1, LateIs
  <2>3. Past(t) <= Past(frame[c]) + Late + slack
    BY <1>2, <1>4, <1>7, <2>1, <2>2
  <2> QED BY <1>1, <1>7, <2>3 DEF Meets, Over
<1> QED BY <1>4, <1>5, <1>6, <1>7 DEF Meets

LEMMA PinTick ==
    ASSUME PinInv, Tick
    PROVE  PinInv'
<1> DEFINE Past(t) == Diff(clock', t, Wrap)
<1>1. /\ Ticks /\ clock' \in Clocks /\ call' = call /\ frame' = frame
      /\ Shape(led') /\ led'.ch = led.ch /\ TimerFields \cup PinFields \subseteq DOMAIN led'
      /\ led'.flags = led.flags /\ led'.claimed = led.claimed
      /\ led'.hurried = led.hurried /\ led'.cut = led.cut
      /\ led'.writeDue = led.writeDue /\ led'.parkDue = led.parkDue
      /\ led'.wire = NotNegative(led.wire - 1)
      /\ led'.alarm \in {led.alarm, None}
      /\ led'.fired = (IF ~Raised(led') THEN 0 ELSE IF ~Raised(led) THEN clock' ELSE led.fired)
  BY TickIs
<1>2. /\ clock \in Clocks /\ PinType(led)
      /\ \A l \in Leds : ChannelType(led.ch[l])
  BY DEF PinInv, PinOk
<1>3. \A t \in Clocks : 2 * (Over(t) + 1) < Wrap => Past(t) = Over(t) + 1
  BY <1>1, OverTicks
<1>4. \A t \in Clocks : Over(t) < Late => Past(t) = Over(t) + 1
  <2> SUFFICES ASSUME NEW t \in Clocks, Over(t) < Late PROVE 2 * (Over(t) + 1) < Wrap
    BY <1>3
  <2> QED BY <1>2, LateIs, WrapIsNat, OverInt
<1>5. /\ led.wire \in Nat /\ led.writeDue \in Clocks /\ led.parkDue \in Clocks
      /\ Over(led.writeDue) \in Int /\ Over(led.parkDue) \in Int
      /\ led.wire # 0 => led'.wire = led.wire - 1
      /\ led.wire = 0 => led'.wire = 0
      /\ led'.wire \in Nat
  BY <1>1, <1>2, OverInt DEF PinType, NotNegative
<1>6. PinType(led')
  <2>1. led'.fired \in Clocks /\ led'.alarm \in Clocks \cup {None}
    BY <1>1, <1>2, WrapIsNat DEF PinType, Clocks
  <2> QED BY <1>1, <1>2, <1>5, <2>1 DEF PinType
<1>7. ASSUME Timely PROVE CutInv(led)'
  <2> SUFFICES ASSUME ~led.hurried
               PROVE  /\ ~led.cut
                      /\ "write" \in led.flags =>
                           /\ led'.wire = 0
                           /\ led.parkDue = (led.writeDue + ParkDelay) % Wrap
                           /\ -ResetDelay <= Past(led.writeDue)
                      /\ "write" \notin led.flags /\ "park" \in led.flags /\ led'.wire # 0 =>
                           Past(led.parkDue) + led'.wire <= 0
    BY <1>1 DEF CutInv, Over, ParkAfterWrite
  <2>1. /\ ~led.cut
        /\ "write" \in led.flags => /\ led.wire = 0
                                    /\ led.parkDue = (led.writeDue + ParkDelay) % Wrap
                                    /\ -ResetDelay <= Over(led.writeDue)
        /\ "write" \notin led.flags /\ "park" \in led.flags /\ led.wire # 0 =>
              Over(led.parkDue) + led.wire <= 0
    BY <1>7 DEF PinInv, PinOk, CutInv, ParkAfterWrite
  <2>2. ASSUME "write" \in led.flags PROVE -ResetDelay <= Past(led.writeDue)
    <3>1. Over(led.writeDue) <= 2 * Late
      BY PinInTime, <2>2 DEF PinOnTime, PinDue, Over
    <3>2. Past(led.writeDue) = Over(led.writeDue) + 1
      BY <1>3, <1>5, <3>1, LateIs, WrapIsNat
    <3> QED BY <1>5, <2>1, <2>2, <3>2, WrapIsNat
  <2>3. ASSUME "write" \notin led.flags, "park" \in led.flags, led'.wire # 0
        PROVE  Past(led.parkDue) + led'.wire <= 0
    <3>1. led.wire # 0 /\ Over(led.parkDue) + led.wire <= 0 /\ led'.wire = led.wire - 1
      BY <1>5, <2>1, <2>3
    <3>2. Past(led.parkDue) = Over(led.parkDue) + 1
      BY <1>3, <1>5, <3>1, WrapIsNat
    <3> QED BY <1>5, <3>1, <3>2
  <2> QED BY <1>5, <2>1, <2>2, <2>3
<1>8. PinOk(led)'
  BY <1>1, <1>2, <1>6, <1>7 DEF PinOk
<1>9. ASSUME NEW c \in Cores, frame[c] # None
      PROVE  0 <= Past(frame[c]) /\ Past(frame[c]) <= Late
  <2>1. frame[c] \in Clocks /\ 0 <= Over(frame[c]) /\ Over(frame[c]) < Late
    BY <1>9 DEF PinInv, Answers, Tick, Prompt, Over
  <2> QED BY <1>2, <1>4, <2>1, OverInt, LateIs
<1>10. ASSUME Raised(led')
       PROVE  0 <= Past(led'.fired) /\ Past(led'.fired) <= Late
  <2>1. CASE Raised(led)
    <3>1. led.fired \in Clocks /\ 0 <= Over(led.fired) /\ Over(led.fired) < Late
      BY <1>2, <2>1 DEF PinInv, PinType, Raised, Answers, Tick, Prompt, Over
    <3> QED BY <1>1, <1>2, <1>4, <1>10, <2>1, <3>1, OverInt, LateIs
  <2>2. CASE ~Raised(led)
    <3>1. Past(clock') = 0
      BY <1>1, WrapIsNat, DiffExact DEF Clocks
    <3> QED BY <1>1, <1>10, <2>2, <3>1, LateIs
  <2> QED BY <2>1, <2>2
<1>11. ASSUME PinOwed(led) PROVE Meets(led, frame, PinDue(led), 0)'
  <2>1. PICK due \in Clocks : due = PinDue(led)
    BY PinDueIs DEF PinInv
  <2>2. Meets(led, frame, due, 0)
    BY <1>11, <2>1 DEF PinInv
  <2>3. Meets(led, frame, due, 0)'
    BY <2>2, MeetsTick, LateIs
  <2>4. PinDue(led)' = due
    BY <1>1, <2>1 DEF PinDue
  <2> QED BY <2>3, <2>4 DEF Meets, Armed, Over
<1>12. PinOwed(led)' => PinOwed(led)
  BY <1>1 DEF PinOwed
<1>13. (Raised(led) => Answers(led.fired))'
  BY <1>10 DEF Answers, Over, Raised
<1>14. (\A c \in Cores : /\ call[c].at \in Clocks \cup {None}
                         /\ frame[c] \in Clocks \cup {None}
                         /\ frame[c] # None => Answers(frame[c]))'
  BY <1>1, <1>9 DEF PinInv, Answers, Over
<1> QED BY <1>1, <1>8, <1>11, <1>12, <1>13, <1>14 DEF PinInv

\* Between ticks: what the engine and the cores must be for the step to keep
\* the invariant.
LEMMA PinStands ==
    ASSUME clock \in Clocks, clock' = clock, NEW f, NEW at, led' = f, frame' = at,
           PinOk(f), DOMAIN at = Cores,
           \A c \in Cores : /\ call'[c].at \in Clocks \cup {None}
                            /\ at[c] \in Clocks \cup {None}
                            /\ at[c] # None => Answers(at[c]),
           Raised(f) => Answers(f.fired),
           PinOwed(f) => Meets(f, at, PinDue(f), 0)
    PROVE  PinInv'
<1>1. PinOk(led)'
  <2>1. Shape(led)' /\ PinType(led)' /\ (\A l \in Leds : ChannelType(led.ch[l]))'
    BY DEF PinOk, PinType
  <2>2. (Timely => CutInv(led))'
    BY DEF PinOk, CutInv, Over, ParkAfterWrite
  <2> QED BY <2>1, <2>2 DEF PinOk
<1>2. (\A c \in Cores : /\ call[c].at \in Clocks \cup {None}
                        /\ frame[c] \in Clocks \cup {None}
                        /\ frame[c] # None => Answers(frame[c]))'
  BY DEF Answers, Over
<1>3. (Raised(led) => Answers(led.fired))'
  BY DEF Raised, Answers, Over
<1>4. (PinOwed(led) => Meets(led, frame, PinDue(led), 0))'
  BY DEF PinOwed, Meets, Armed, Raised, PinDue, Over
<1> QED BY <1>1, <1>2, <1>3, <1>4 DEF PinInv

\* What was seen to is seen to by an interrupt that is there now, if that is the
\* one that was there before.
LEMMA MeetsRaised ==
    ASSUME PinInv, NEW t \in Clocks, NEW slack \in Nat, Meets(led, frame, t, slack), NEW f,
           Raised(f), Raised(led) => f.fired = led.fired, f.fired \in Clocks, 0 <= Over(f.fired)
    PROVE  Meets(f, frame, t, slack)
<1>1. Over(t) \in Int /\ Over(f.fired) \in Int
  BY OverInt DEF PinInv
<1>2. CASE Armed(led, t, slack)
  <2>1. Over(led.alarm) \in Int
    BY <1>2, OverInt DEF Armed, PinInv
  <2>2. Over(t) <= Over(f.fired) + slack
    BY <1>1, <1>2, <2>1 DEF Armed
  <2> QED BY <2>2 DEF Meets
<1>3. CASE Raised(led) /\ Over(t) <= Over(led.fired) + slack
  BY <1>3 DEF Meets
<1>4. CASE \E c \in Cores : frame[c] # None /\ Over(t) <= Over(frame[c]) + Late + slack
  BY <1>4 DEF Meets
<1> QED BY <1>2, <1>3, <1>4 DEF Meets

\* What was seen to by an interrupt is seen to by the frame that takes it.
LEMMA MeetsTaken ==
    ASSUME PinInv, NEW t \in Clocks, NEW slack \in Nat, Meets(led, frame, t, slack),
           NEW c \in Cores, frame[c] = None, NEW at, at = [frame EXCEPT ![c] = clock],
           NEW f, f.alarm = led.alarm, f.nvic = led.nvic
    PROVE  Meets(f, at, t, slack)
<1>1. /\ Over(t) \in Int /\ clock \in Clocks /\ Over(clock) = 0 /\ Late \in Nat
      /\ DOMAIN frame = Cores
  BY OverInt, OverNow, LateIs DEF PinInv
<1>2. /\ at[c] = clock /\ clock # None
      /\ \A d \in Cores : frame[d] # None => at[d] = frame[d]
  BY <1>1, WrapIsNat DEF Clocks, None
<1>3. CASE Armed(led, t, slack)
  BY <1>3 DEF Armed, Meets
<1>4. CASE Raised(led) /\ Over(t) <= Over(led.fired) + slack
  <2>1. Over(led.fired) \in Int /\ Over(led.fired) <= Late
    BY <1>4, OverInt DEF PinInv, PinOk, PinType, Answers
  <2>2. Over(t) <= Over(at[c]) + Late + slack
    BY <1>1, <1>2, <1>4, <2>1
  <2> QED BY <1>2, <2>2 DEF Meets
<1>5. ASSUME NEW d \in Cores, frame[d] # None, Over(t) <= Over(frame[d]) + Late + slack
      PROVE  Meets(f, at, t, slack)
  BY <1>2, <1>5 DEF Meets
<1> QED BY <1>3, <1>4, <1>5 DEF Meets

LEMMA PinCall ==
    ASSUME PinInv, NEW c \in Cores, Call(c), DOMAIN call = Cores
    PROVE  PinInv'
<1>1. PICK req \in Requests : call' = [call EXCEPT ![c] = [req |-> req, at |-> clock]]
  BY DEF Call
<1>2. clock' = clock /\ led' = led /\ frame' = frame /\ clock \in Clocks
  BY DEF Call, PinInv
<1>3. \A d \in Cores : call'[d].at \in Clocks \cup {None}
  BY <1>1, <1>2 DEF PinInv
<1> QED BY <1>2, <1>3 DEF PinInv, PinOk, PinType, CutInv, ParkAfterWrite, Answers, Meets,
             Armed, Raised, PinOwed, PinDue, Over

\* A request sets the alarm for what the pin is owed by it, and for what it was
\* owed before unless an interrupt or a frame sees to that.
LEMMA PinLockedSet ==
    ASSUME PinInv, IInv, NEW c \in Cores, LockedSet(c)
    PROVE  PinInv'
<1> DEFINE ms == MsAt(call[c].at)
           s == Set(led, call[c].req, ms)
           f == Rearm(s, c, ms)
<1>1. led' = f /\ clock' = clock /\ frame' = frame /\ call' = [call EXCEPT ![c] = NoCall]
  BY DEF LockedSet
<1>2. clock \in Clocks /\ PinOk(led) /\ ms \in Int /\ call[c].req \in Requests
  BY MsIsInt DEF PinInv, IInv, LockedSet
<1> HIDE DEF ms
<1>3. PinOk(s) /\ Owes(led, s)
  BY <1>2, SetPin
<1> HIDE DEF s
<1>4. /\ PinOk(f)
      /\ Raised(f) => f.fired = clock \/ (Raised(s) /\ f.fired = s.fired)
      /\ PinOwed(f) => /\ PinOwed(s) /\ PinDue(f) = PinDue(s)
                       /\ \/ Armed(f, PinDue(f), 0)
                          \/ Raised(f) /\ (Raised(s) => f.fired = s.fired)
  BY <1>2, <1>3, RearmPin
<1> HIDE DEF f
<1>5. (Raised(s) <=> Raised(led)) /\ s.fired = led.fired
  BY <1>3 DEF Owes, Raised
<1>6. Answers(clock)
  BY <1>2, OverNow, LateIs DEF Answers
<1>7. Raised(f) => Answers(f.fired)
  BY <1>4, <1>5, <1>6 DEF PinInv
<1>8. ASSUME PinOwed(f) PROVE Meets(f, frame, PinDue(f), 0)
  <2>1. CASE Armed(f, PinDue(f), 0)
    BY <2>1 DEF Meets
  <2>2. CASE ~Armed(f, PinDue(f), 0)
    <3>1. Raised(f) /\ (Raised(led) => f.fired = led.fired) /\ 0 <= Over(f.fired)
      BY <1>4, <1>5, <1>7, <1>8, <2>2 DEF Answers
    <3>2. /\ Over(f.fired) \in Int /\ Over(PinDue(f)) \in Int
          /\ f.fired \in Clocks /\ PinDue(f) \in Clocks
      BY <1>2, <1>4, OverInt DEF PinOk, PinType, PinDue
    <3>3. CASE Over(PinDue(f)) <= 0
      <4>1. Over(PinDue(f)) <= Over(f.fired) + 0
        BY <3>1, <3>2, <3>3
      <4> QED BY <3>1, <4>1 DEF Meets
    <3>4. CASE PinOwed(led) /\ PinDue(f) = PinDue(led)
      <4>1. Meets(led, frame, PinDue(f), 0)
        BY <3>4 DEF PinInv
      <4> QED BY <3>1, <3>2, <4>1, MeetsRaised
    <3> QED BY <1>3, <1>4, <1>8, <3>3, <3>4 DEF Owes
  <2> QED BY <2>1, <2>2
<1>9. \A d \in Cores : call'[d].at \in Clocks \cup {None}
  BY <1>1 DEF PinInv, IInv, NoCall
<1> QED BY <1>1, <1>2, <1>4, <1>7, <1>8, <1>9, PinStands DEF PinInv

LEMMA PinTakeInterrupt ==
    ASSUME PinInv, NEW c \in Cores, TakeInterrupt(c)
    PROVE  PinInv'
<1> DEFINE n == [led EXCEPT !.pend = @ \ {c}]
           f == [n EXCEPT !.fired = Since(led, n, clock)]
           at == [frame EXCEPT ![c] = clock]
<1>1. led' = f /\ clock' = clock /\ call' = call /\ frame' = at /\ Raised(led)
  BY DEF TakeInterrupt, Raised
<1>2. /\ clock \in Clocks /\ PinOk(led) /\ Shape(led) /\ PinType(led)
      /\ \A l \in Leds : ChannelType(led.ch[l])
      /\ Timely => CutInv(led)
  BY DEF PinInv, PinOk
<1>3. /\ Shape(f) /\ f.ch = led.ch
      /\ TimerFields \cup PinFields \subseteq DOMAIN f
      /\ f.flags = led.flags /\ f.claimed = led.claimed /\ f.wire = led.wire
      /\ f.hurried = led.hurried /\ f.cut = led.cut
      /\ f.writeDue = led.writeDue /\ f.parkDue = led.parkDue
      /\ f.alarm = led.alarm /\ f.nvic = led.nvic
      /\ f.fired = (IF Raised(f) THEN led.fired ELSE 0)
  <2>1. /\ Shape(n) /\ n.ch = led.ch
        /\ TimerFields \cup PinFields \subseteq DOMAIN n
        /\ n.flags = led.flags /\ n.claimed = led.claimed /\ n.wire = led.wire
        /\ n.hurried = led.hurried /\ n.cut = led.cut
        /\ n.writeDue = led.writeDue /\ n.parkDue = led.parkDue
        /\ n.alarm = led.alarm /\ n.nvic = led.nvic
    BY <1>2 DEF Shape, PinType, TimerFields, PinFields
  <2>2. Since(led, n, clock) = (IF Raised(n) THEN led.fired ELSE 0)
    BY <1>1 DEF Since, Raised
  <2> HIDE DEF n
  <2>3. Raised(f) <=> Raised(n)
    BY <2>1 DEF Raised, TimerFields
  <2> QED BY <2>1, <2>2, <2>3 DEF Shape, TimerFields, PinFields
<1> HIDE DEF f
<1>4. PinType(f)
  <2>1. f.fired \in Clocks
    BY <1>2, <1>3, WrapIsNat DEF PinType, Clocks
  <2> QED BY <1>2, <1>3, <2>1 DEF PinType
<1>5. Timely => CutInv(f)
  BY <1>2, <1>3 DEF CutInv, ParkAfterWrite
<1>6. PinOk(f)
  BY <1>2, <1>3, <1>4, <1>5 DEF PinOk
<1>7. Answers(led.fired) /\ Answers(clock) /\ Over(clock) = 0
  BY <1>1, <1>2, OverNow, LateIs DEF PinInv, Answers
<1>8. Raised(f) => Answers(f.fired)
  BY <1>3, <1>7
<1>9. /\ DOMAIN at = Cores /\ at[c] = clock /\ clock # None
      /\ \A d \in Cores \ {c} : at[d] = frame[d]
  BY <1>2, WrapIsNat DEF PinInv, Clocks, None
<1>10. frame[c] = None
  BY DEF TakeInterrupt
<1> HIDE DEF at
<1>11. \A d \in Cores : /\ call'[d].at \in Clocks \cup {None}
                        /\ at[d] \in Clocks \cup {None}
                        /\ at[d] # None => Answers(at[d])
  BY <1>1, <1>2, <1>7, <1>9 DEF PinInv
<1>12. ASSUME PinOwed(f) PROVE Meets(f, at, PinDue(f), 0)
  <2>1. PinOwed(led) /\ PinDue(f) = PinDue(led)
    BY <1>3, <1>12 DEF PinOwed, PinDue
  <2>2. Meets(led, frame, PinDue(f), 0) /\ PinDue(f) \in Clocks
    BY <1>2, <2>1, PinDueIs DEF PinInv
  <2> QED BY <1>3, <1>10, <2>2, MeetsTaken DEF at
<1> QED BY <1>1, <1>2, <1>6, <1>8, <1>9, <1>11, <1>12, PinStands

\* A frame leaves nothing that is due undone, and sets the alarm for the rest.
LEMMA PinLockedFrame ==
    ASSUME PinInv, NEW c \in Cores, LockedFrame(c)
    PROVE  PinInv'
<1> DEFINE ms == MsAt(frame[c])
           w == PinWork(led)
           s == RunChannel(w, "status", ms)
           r == RunChannel(s, "rgb", ms)
           f == Rearm(r, c, ms)
           at == [frame EXCEPT ![c] = None]
<1>1. led' = f /\ clock' = clock /\ call' = call /\ frame' = at
  BY DEF LockedFrame
<1>2. clock \in Clocks /\ PinOk(led) /\ ms \in Int
  BY MsIsInt DEF PinInv, LockedFrame
<1>3. PinOwed(led) => Over(PinDue(led)) <= 2 * Late
  BY PinInTime DEF PinOnTime, PinOwed, Over
<1>4. /\ PinOk(w)
      /\ w.alarm = led.alarm /\ w.nvic = led.nvic /\ w.pend = led.pend /\ w.fired = led.fired
      /\ PinOwed(w) => Over(PinDue(w)) <= 0
  BY <1>2, <1>3, PinWorkPin
<1> HIDE DEF ms, w
<1>5. PinOk(s) /\ Owes(w, s)
  BY <1>2, <1>4, RunChannelPin DEF Leds
<1> HIDE DEF s
<1>6. PinOk(r) /\ Owes(w, r)
  BY <1>2, <1>5, RunChannelPin, OwesTrans DEF Leds
<1> HIDE DEF r
<1>7. /\ PinOk(f)
      /\ Raised(f) => f.fired = clock \/ (Raised(r) /\ f.fired = r.fired)
      /\ PinOwed(f) => /\ PinOwed(r) /\ PinDue(f) = PinDue(r)
                       /\ Armed(f, PinDue(f), 0) \/ Raised(f)
  BY <1>2, <1>6, RearmPin
<1> HIDE DEF f
<1>8. (Raised(r) <=> Raised(led)) /\ r.fired = led.fired
  BY <1>4, <1>6 DEF Owes, Raised
<1>9. Answers(clock)
  BY <1>2, OverNow, LateIs DEF Answers
<1>10. Raised(f) => Answers(f.fired)
  BY <1>7, <1>8, <1>9 DEF PinInv
<1>11. ASSUME PinOwed(f)
       PROVE  Meets(f, at, PinDue(f), 0)
  <2>1. Over(PinDue(f)) <= 0
    BY <1>4, <1>6, <1>7, <1>11 DEF Owes
  <2>2. Over(f.fired) \in Int /\ Over(PinDue(f)) \in Int
    BY <1>2, <1>7, OverInt DEF PinOk, PinType, PinDue
  <2>3. Raised(f) => Over(PinDue(f)) <= Over(f.fired) + 0
    BY <1>10, <2>1, <2>2 DEF Answers
  <2> QED BY <1>7, <1>11, <2>3 DEF Meets
<1>12. /\ DOMAIN at = Cores
       /\ \A d \in Cores : /\ call'[d].at \in Clocks \cup {None}
                           /\ at[d] \in Clocks \cup {None}
                           /\ at[d] # None => Answers(at[d])
  BY <1>1 DEF PinInv
<1> HIDE DEF at
<1> QED BY <1>1, <1>2, <1>7, <1>10, <1>11, <1>12, PinStands

LEMMA PinNext == PinInv /\ IInv /\ [Next]_vars => PinInv'
<1> SUFFICES ASSUME PinInv, IInv, [Next]_vars PROVE PinInv'
  OBVIOUS
<1>1. CASE UNCHANGED vars
  BY <1>1 DEF vars, PinInv, PinOk, PinType, CutInv, ParkAfterWrite, Answers, Meets,
              Armed, Raised, PinOwed, PinDue, Over
<1>2. DOMAIN call = Cores
  BY DEF IInv
<1> QED BY <1>1, <1>2, PinTick, PinCall, PinLockedSet, PinTakeInterrupt, PinLockedFrame DEF Next

---------------------------------------------------------------------------
(* Frames and holds.  Their deadlines are in milliseconds; what follows    *)
(* counts them in ticks, as the alarm does.                                *)

\* How far past the start of a millisecond the clock is.
OverMs(d) == Over(d * MsTicks)

\* What a core that has read the time and waited for the lock may be behind.
Slack == MsTicks - 1 + Late

\* Not so late, and not so far ahead, that the sign of a difference misleads.
NotLost(d) == /\ d \in Ms
              /\ OverMs(d) <= Slack + 2 * Late
              /\ 2 * (MsTicks + 3 * Late - OverMs(d)) < Wrap

LEMMA SlackIs == /\ Slack \in Nat /\ MsTicks - 1 \in Nat /\ Slack = MsTicks - 1 + Late
                 /\ 2 * (MsTicks + 3 * Late + 1) < Wrap
                 /\ MsTicks \in Nat /\ MsTicks > 0 /\ Late \in Nat
BY TimeAssumption, LateAssumption DEF Slack

LEMMA Scale ==
    ASSUME NEW k \in Int, NEW n \in Int
    PROVE  /\ k * MsTicks \in Int
           /\ (k + n) * MsTicks = k * MsTicks + n * MsTicks
           /\ (k - n) * MsTicks = k * MsTicks - n * MsTicks
           /\ (2 * k) * MsTicks = 2 * (k * MsTicks)
           /\ k <= n => k * MsTicks <= n * MsTicks
           /\ k < n => k * MsTicks < n * MsTicks
           /\ MsWrap * MsTicks = Wrap /\ 0 * MsTicks = 0 /\ 1 * MsTicks = MsTicks
<1>1. MsTicks \in Nat /\ MsTicks > 0 /\ MsWrap \in Nat
  BY TimeAssumption
<1>2. \A a, b, t \in Int : (a + b) * t = a * t + b * t /\ (a - b) * t = a * t - b * t
  OBVIOUS
<1>3. \A a, b \in Int, t \in Nat : t > 0 => (a <= b => a * t <= b * t) /\ (a < b => a * t < b * t)
  OBVIOUS
<1>4. (2 * k) * MsTicks = 2 * (k * MsTicks)
  BY <1>1
<1>5. MsWrap * MsTicks = Wrap
  BY <1>1 DEF Wrap
<1> QED BY <1>1, <1>2, <1>3, <1>4, <1>5

LEMMA MsIsClock == ASSUME NEW d \in Ms PROVE d * MsTicks \in Clocks
<1>1. d \in Int /\ 0 <= d /\ d <= MsWrap - 1 /\ MsWrap \in Int /\ MsWrap - 1 \in Int
  BY TimeAssumption DEF Ms
<1>2. 0 <= d * MsTicks /\ d * MsTicks <= (MsWrap - 1) * MsTicks
      /\ (MsWrap - 1) * MsTicks = Wrap - MsTicks /\ d * MsTicks \in Int
  BY <1>1, Scale
<1> QED BY <1>2, LateIs, WrapIsNat DEF Clocks

\* A difference of milliseconds is one of ticks.
LEMMA MsDiff ==
    ASSUME NEW a \in Ms, NEW b \in Ms
    PROVE  /\ Diff(a, b, MsWrap) \in Int
           /\ Diff(a, b, MsWrap) * MsTicks = Diff(a * MsTicks, b * MsTicks, Wrap)
<1>1. /\ a \in 0 .. MsWrap - 1 /\ b \in 0 .. MsWrap - 1
      /\ MsWrap \in Nat /\ MsWrap > 0
  BY TimeAssumption DEF Ms
<1>2. PICK k \in Int : k = Diff(a, b, MsWrap)
  BY <1>1, DiffIs
<1>3. /\ 2 * k < MsWrap /\ -MsWrap <= 2 * k
      /\ k = a - b \/ k = a - b + MsWrap \/ k = a - b - MsWrap
  BY <1>1, <1>2, DiffIs
<1>4. a * MsTicks \in 0 .. Wrap - 1 /\ b * MsTicks \in 0 .. Wrap - 1
  BY MsIsClock DEF Clocks
<1>5. PICK q \in Int : q = k * MsTicks
  BY Scale
<1>6. 2 * q < Wrap
  <2>1. (2 * k) * MsTicks < MsWrap * MsTicks
    BY <1>1, <1>3, Scale
  <2> QED BY <1>5, <2>1, Scale
<1>7. -Wrap <= 2 * q
  <2>1. (0 - MsWrap) * MsTicks <= (2 * k) * MsTicks
    BY <1>1, <1>3, Scale
  <2>2. (0 - MsWrap) * MsTicks = 0 - Wrap
    BY <1>1, Scale
  <2> QED BY <1>5, <2>1, <2>2, Scale, WrapIsNat
<1>8. q = a * MsTicks - b * MsTicks \/ q = a * MsTicks - b * MsTicks + Wrap
      \/ q = a * MsTicks - b * MsTicks - Wrap
  <2>1. (a - b) * MsTicks = a * MsTicks - b * MsTicks
    BY <1>1, Scale
  <2>2. a - b \in Int
    BY <1>1
  <2>3. (a - b + MsWrap) * MsTicks = a * MsTicks - b * MsTicks + Wrap
    BY <1>1, <2>1, <2>2, Scale
  <2>4. (a - b - MsWrap) * MsTicks = a * MsTicks - b * MsTicks - Wrap
    BY <1>1, <2>1, <2>2, Scale
  <2> QED BY <1>3, <1>5, <2>1, <2>3, <2>4
<1>9. Diff(a * MsTicks, b * MsTicks, Wrap) = q
  BY <1>4, <1>6, <1>7, <1>8, WrapIsNat, DiffExact
<1> QED BY <1>2, <1>5, <1>9

\* Of two times near the clock, the one that is further past is the earlier.
LEMMA OverDiff ==
    ASSUME clock \in Clocks, NEW a \in Clocks, NEW b \in Clocks,
           2 * (Over(b) - Over(a)) < Wrap, -Wrap <= 2 * (Over(b) - Over(a))
    PROVE  Diff(a, b, Wrap) = Over(b) - Over(a)
<1>1. clock \in 0 .. Wrap - 1 /\ a \in 0 .. Wrap - 1 /\ b \in 0 .. Wrap - 1
  BY DEF Clocks
<1>2. PICK x \in Int : x = Over(a)
  BY OverInt
<1>3. PICK y \in Int : y = Over(b)
  BY OverInt
<1>4. /\ x = clock - a \/ x = clock - a + Wrap \/ x = clock - a - Wrap
      /\ y = clock - b \/ y = clock - b + Wrap \/ y = clock - b - Wrap
  BY <1>1, <1>2, <1>3, WrapIsNat, DiffIs DEF Over
<1>5. PICK k \in Int : k = y - x
  BY <1>2
<1>6. \/ k = a - b \/ k = a - b + Wrap \/ k = a - b - Wrap
      \/ k = a - b + 2 * Wrap \/ k = a - b - 2 * Wrap
  BY <1>1, <1>4, <1>5, WrapIsNat
<1>7. 2 * k < Wrap /\ -Wrap <= 2 * k
  BY <1>2, <1>3, <1>5
<1>8. k = a - b \/ k = a - b + Wrap \/ k = a - b - Wrap
  BY <1>1, <1>6, <1>7, WrapIsNat
<1> QED BY <1>1, <1>2, <1>3, <1>5, <1>7, <1>8, WrapIsNat, DiffExact

LEMMA MsSooner ==
    ASSUME clock \in Clocks, NEW a, NEW b, NotLost(a), NotLost(b)
    PROVE  /\ Diff(a, b, MsWrap) \in Int
           /\ Diff(a, b, MsWrap) * MsTicks = OverMs(b) - OverMs(a)
           /\ Diff(a, b, MsWrap) < 0 <=> OverMs(b) < OverMs(a)
<1>1. /\ a \in Ms /\ b \in Ms /\ a * MsTicks \in Clocks /\ b * MsTicks \in Clocks
  BY MsIsClock DEF NotLost
<1>2. OverMs(a) \in Int /\ OverMs(b) \in Int
  BY <1>1, OverInt DEF OverMs
<1>3. 2 * (OverMs(b) - OverMs(a)) < Wrap /\ -Wrap <= 2 * (OverMs(b) - OverMs(a))
  BY <1>2, SlackIs, WrapIsNat DEF NotLost
<1>4. Diff(a * MsTicks, b * MsTicks, Wrap) = OverMs(b) - OverMs(a)
  BY <1>1, <1>3, OverDiff DEF OverMs
<1>5. Diff(a, b, MsWrap) \in Int /\ Diff(a, b, MsWrap) * MsTicks = OverMs(b) - OverMs(a)
  BY <1>1, <1>4, MsDiff
<1>6. PICK k \in Int : k = Diff(a, b, MsWrap)
  BY <1>5
<1>7. (k < 0 => k * MsTicks < 0) /\ (0 <= k => 0 <= k * MsTicks) /\ k * MsTicks \in Int
  <2>1. (k < 0 => k * MsTicks < 0 * MsTicks) /\ k * MsTicks \in Int /\ 0 * MsTicks = 0
    BY <1>6, Scale
  <2>2. 0 <= k => 0 * MsTicks <= k * MsTicks
    BY <1>6, Scale
  <2> QED BY <2>1, <2>2
<1> QED BY <1>2, <1>5, <1>6, <1>7

\* The millisecond of a reading that is not older than an interrupt is late.
LEMMA ReadingIs ==
    ASSUME clock \in Clocks, NEW r \in Clocks, Answers(r)
    PROVE  /\ NotLost(MsAt(r))
           /\ 0 <= OverMs(MsAt(r)) /\ OverMs(MsAt(r)) <= Slack
           /\ Over(r) <= OverMs(MsAt(r)) /\ OverMs(MsAt(r)) <= Over(r) + MsTicks - 1
<1>1. r \in Nat /\ r < Wrap /\ MsTicks \in Nat /\ MsTicks > 0 /\ MsWrap \in Nat
  BY TimeAssumption, WrapIsNat DEF Clocks
<1>2. PICK m \in Int : m = MsAt(r)
  BY MsIsInt
<1>3. m * MsTicks <= r /\ r <= m * MsTicks + MsTicks - 1 /\ 0 <= m
  <2>1. /\ (r \div MsTicks) \in Int /\ 0 <= r \div MsTicks
        /\ MsTicks * (r \div MsTicks) <= r
        /\ r <= MsTicks * (r \div MsTicks) + MsTicks - 1
    BY <1>1
  <2> QED BY <1>1, <1>2, <2>1 DEF MsAt
<1>4. m < MsWrap
  <2> SUFFICES ASSUME MsWrap <= m PROVE FALSE
    BY <1>1, <1>2
  <2>1. Wrap <= m * MsTicks /\ m * MsTicks \in Int
    BY <1>1, <1>2, Scale
  <2> QED BY <1>1, <1>3, <2>1, WrapIsNat
<1>5. m \in Ms
  BY <1>1, <1>2, <1>3, <1>4 DEF Ms
<1>6. PICK t \in Int : t = m * MsTicks
  BY Scale
<1>7. t \in 0 .. Wrap - 1 /\ r \in 0 .. Wrap - 1 /\ clock \in 0 .. Wrap - 1
  BY <1>5, <1>6, MsIsClock DEF Clocks
<1>8. PICK k \in Int : k = Over(r)
  BY OverInt
<1>9. /\ 0 <= k /\ k <= Late
      /\ k = clock - r \/ k = clock - r + Wrap \/ k = clock - r - Wrap
  BY <1>7, <1>8, WrapIsNat, DiffIs DEF Over, Answers
<1>10. PICK q \in Int : q = k + (r - t)
  BY <1>1, <1>6
<1>11. k <= q /\ q <= k + MsTicks - 1 /\ q <= Slack /\ 0 <= q
  BY <1>1, <1>3, <1>6, <1>9, <1>10, SlackIs
<1>12. 2 * q < Wrap /\ -Wrap <= 2 * q
  BY <1>11, SlackIs, WrapIsNat
<1>13. q = clock - t \/ q = clock - t + Wrap \/ q = clock - t - Wrap
  BY <1>1, <1>6, <1>7, <1>9, <1>10, WrapIsNat
<1>14. OverMs(m) = q
  BY <1>6, <1>7, <1>12, <1>13, WrapIsNat, DiffExact DEF OverMs, Over
<1>15. NotLost(m)
  BY <1>5, <1>11, <1>14, SlackIs, WrapIsNat DEF NotLost
<1> QED BY <1>2, <1>8, <1>11, <1>14, <1>15

LEMMA AheadIs ==
    ASSUME clock \in Clocks, NEW m, NotLost(m), 0 <= OverMs(m), OverMs(m) <= Slack,
           NEW n, Near(n)
    PROVE  /\ NotLost(MsLater(m, n))
           /\ OverMs(MsLater(m, n)) = OverMs(m) - n * MsTicks
           /\ OverMs(MsLater(m, n)) <= Slack
<1>1. /\ m \in Nat /\ m < MsWrap /\ m \in Ms /\ n \in Nat /\ MsWrap \in Nat /\ MsWrap > 1
      /\ MsTicks \in Nat /\ MsTicks > 0
  BY TimeAssumption DEF NotLost, Near, Ms
<1>2. PICK s \in Int : s = n * MsTicks
  BY <1>1, Scale
<1>3. 0 <= s /\ 2 * (s + MsTicks + 3 * Late) < Wrap
  BY <1>1, <1>2, Scale DEF Near
<1>4. n < MsWrap
  <2> SUFFICES ASSUME MsWrap <= n PROVE FALSE
    BY <1>1
  <2>1. Wrap <= s
    BY <1>1, <1>2, Scale
  <2> QED BY <1>2, <1>3, <2>1, SlackIs, WrapIsNat
<1>5. PICK d \in Int : d = MsLater(m, n)
  BY <1>1 DEF MsLater
<1>6. d \in Ms /\ (d = m + n \/ d = m + n - MsWrap)
  <2>1. (m + n) % MsWrap = (IF m + n < MsWrap THEN m + n ELSE m + n - MsWrap)
    BY <1>1, <1>4, SmallMod
  <2> QED BY <1>1, <1>4, <1>5, <2>1 DEF MsLater, Ms
<1>7. PICK t \in Int : t = m * MsTicks
  BY <1>1, Scale
<1>8. PICK p \in Int : p = d * MsTicks
  BY Scale
<1>9. p = t + s \/ p = t + s - Wrap
  <2>1. (m + n) * MsTicks = t + s /\ m + n \in Int
    BY <1>1, <1>2, <1>7, Scale
  <2>2. (m + n - MsWrap) * MsTicks = t + s - Wrap
    BY <1>1, <2>1, Scale
  <2> QED BY <1>6, <1>8, <2>1, <2>2
<1>10. t \in 0 .. Wrap - 1 /\ p \in 0 .. Wrap - 1 /\ clock \in 0 .. Wrap - 1
  BY <1>1, <1>6, <1>7, <1>8, MsIsClock DEF Clocks
<1>11. PICK k \in Int : k = OverMs(m)
  BY <1>1, MsIsClock, OverInt DEF OverMs
<1>12. /\ 0 <= k /\ k <= Slack
       /\ k = clock - t \/ k = clock - t + Wrap \/ k = clock - t - Wrap
  BY <1>7, <1>10, <1>11, WrapIsNat, DiffIs DEF OverMs, Over
<1>13. PICK q \in Int : q = k - s
  BY <1>2
<1>14. 2 * q < Wrap /\ -Wrap <= 2 * q /\ q <= Slack
  BY <1>2, <1>3, <1>12, <1>13, SlackIs, WrapIsNat
<1>15. q = clock - p \/ q = clock - p + Wrap \/ q = clock - p - Wrap
  <2>1. \/ q = clock - p \/ q = clock - p + Wrap \/ q = clock - p - Wrap
        \/ q = clock - p + 2 * Wrap \/ q = clock - p - 2 * Wrap
    BY <1>2, <1>9, <1>10, <1>12, <1>13, WrapIsNat
  <2> QED BY <1>10, <1>14, <2>1, WrapIsNat
<1>16. OverMs(d) = q
  BY <1>8, <1>10, <1>14, <1>15, WrapIsNat, DiffExact DEF OverMs, Over
<1>17. NotLost(d)
  BY <1>2, <1>3, <1>6, <1>12, <1>13, <1>14, <1>16, SlackIs, WrapIsNat DEF NotLost
<1> QED BY <1>2, <1>5, <1>11, <1>13, <1>14, <1>16, <1>17

\* A reading of the time that is no older than the lock allows.
Reading(ms) == NotLost(ms) /\ 0 <= OverMs(ms) /\ OverMs(ms) <= Slack

Deadlines(ch) == (IF ch.is.mode \in Repeating THEN {ch.next} ELSE {})
                     \cup (IF ch.hold # 0 THEN {ch.hold} ELSE {})

ChannelOk(ch) == /\ Paced(ch.is) /\ Paced(ch.saved)
                 /\ \A d \in Deadlines(ch) : NotLost(d)

\* Nothing a channel waits for is further past than a reading may be behind.
Current(ch) == \A d \in Deadlines(ch) : OverMs(d) <= Slack

FramesOk(e) == /\ Shape(e) /\ DOMAIN e.bounded = Leds
               /\ \A l \in Leds : /\ ChannelOk(e.ch[l])
                                  /\ e.bounded[l] => e.ch[l].hold # 0

\* Showing a channel is no matter to its deadlines.
Alike(ch, new) == /\ new.is = ch.is /\ new.saved = ch.saved
                  /\ new.next = ch.next /\ new.hold = ch.hold

LEMMA AlikeOk ==
    ASSUME NEW ch, NEW new, Alike(ch, new)
    PROVE  /\ Deadlines(new) = Deadlines(ch)
           /\ ChannelOk(ch) => ChannelOk(new)
           /\ Current(ch) => Current(new)
<1>1. Deadlines(new) = Deadlines(ch)
  BY DEF Alike, Deadlines
<1> QED BY <1>1 DEF Alike, ChannelOk, Current

LEMMA NearIs == ASSUME NEW n, Near(n + 1), n \in Nat PROVE Near(n) /\ n + 1 < MsWrap
<1>1. n * MsTicks \in Int /\ (n + 1) * MsTicks \in Int /\ n * MsTicks <= (n + 1) * MsTicks
  BY Scale
<1>2. n + 1 < MsWrap
  <2> SUFFICES ASSUME MsWrap <= n + 1 PROVE FALSE
    BY TimeAssumption
  <2>1. Wrap <= (n + 1) * MsTicks
    BY Scale, TimeAssumption
  <2> QED BY <1>1, <2>1, SlackIs, WrapIsNat DEF Near
<1> QED BY <1>1, <1>2, SlackIs, WrapIsNat DEF Near

LEMMA LitAlike ==
    ASSUME NEW e, NEW l \in Leds, NEW lit, NEW f, Shape(e),
           Keeps([e EXCEPT !.ch[l].lit = lit], f)
    PROVE  /\ Shape(f)
           /\ f.bounded = e.bounded
           /\ \A k \in Leds : Alike(e.ch[k], f.ch[k])
           /\ \A k \in Leds \ {l} : f.ch[k] = e.ch[k]
<1> DEFINE s == [e EXCEPT !.ch[l].lit = lit]
<1>1. /\ Shape(s) /\ s.bounded = e.bounded
      /\ \A k \in Leds : Alike(e.ch[k], s.ch[k])
      /\ \A k \in Leds \ {l} : s.ch[k] = e.ch[k]
  BY DEF Shape, ChannelFields, Alike
<1> HIDE DEF s
<1>2. f.bounded = s.bounded /\ f.ch = s.ch /\ DOMAIN f = DOMAIN s /\ f.first = s.first
  BY DEF Keeps, s
<1> QED BY <1>1, <1>2 DEF Shape

\* From e to f channel l is shown.
Shown(e, f, l) ==
    /\ Shape(f)
    /\ f.bounded = e.bounded
    /\ \A k \in Leds : Alike(e.ch[k], f.ch[k])
    /\ \A k \in Leds \ {l} : f.ch[k] = e.ch[k]

LEMMA ShowFrames ==
    ASSUME NEW e, NEW l \in Leds, NEW lit, Shape(e), Last(e)
    PROVE  Shown(e, Show(e, l, lit), l)
<1>1. Keeps([e EXCEPT !.ch[l].lit = lit], Show(e, l, lit))
  BY ShowKeeps
<1> QED BY <1>1, LitAlike DEF Shown

\* What channel l's part of a frame leaves.
Run(e, f, l) == /\ FramesOk(f)
                /\ Current(f.ch[l])
                /\ \A k \in Leds \ {l} : f.ch[k] = e.ch[k]

LEMMA ShownRun ==
    ASSUME NEW e, NEW b, NEW f, NEW l \in Leds, FramesOk(b), Current(b.ch[l]),
           \A k \in Leds \ {l} : b.ch[k] = e.ch[k],
           Shown(b, f, l)
    PROVE  Run(e, f, l)
<1>1. ASSUME NEW k \in Leds
      PROVE  ChannelOk(f.ch[k]) /\ (f.bounded[k] => f.ch[k].hold # 0)
  BY AlikeOk DEF FramesOk, Shown, Alike
<1>2. Current(f.ch[l])
  BY AlikeOk DEF Shown
<1>3. \A k \in Leds \ {l} : f.ch[k] = e.ch[k]
  BY DEF Shown
<1> QED BY <1>1, <1>2, <1>3 DEF Run, FramesOk, Shown

LEMMA RestoreFrames ==
    ASSUME clock \in Clocks, NEW e, NEW l \in Leds, FramesOk(e), Last(e)
    PROVE  Run(e, Restore(e, l), l)
<1> DEFINE saved == e.ch[l].saved
           b == [e EXCEPT !.ch[l].is = saved, !.ch[l].step = 0, !.ch[l].hold = 0,
                          !.ch[l].next = IF saved.mode \in Repeating THEN MsAt(clock) ELSE @,
                          !.bounded[l] = FALSE, !.first[l] = AtRest]
<1>1. /\ Shape(e) /\ Paced(saved) /\ DOMAIN e.bounded = Leds
      /\ \A k \in Leds : ChannelOk(e.ch[k]) /\ (e.bounded[k] => e.ch[k].hold # 0)
  BY DEF FramesOk, ChannelOk
<1>2. NotLost(MsAt(clock)) /\ OverMs(MsAt(clock)) <= Slack
  <2>1. Answers(clock)
    BY OverNow, LateIs DEF Answers
  <2> QED BY <2>1, ReadingIs
<1>3. /\ Shape(b) /\ Last(b)
      /\ b.ch[l].is = saved /\ b.ch[l].saved = saved /\ b.ch[l].hold = 0
      /\ saved.mode \in Repeating => b.ch[l].next = MsAt(clock)
      /\ ~b.bounded[l] /\ DOMAIN b.bounded = Leds
      /\ \A k \in Leds \ {l} : b.ch[k] = e.ch[k] /\ b.bounded[k] = e.bounded[k]
  <2>1. Shape(b) /\ Last(b)
    BY <1>1 DEF Shape, Last, ChannelFields
  <2>2. /\ b.ch[l].is = saved /\ b.ch[l].saved = saved /\ b.ch[l].hold = 0
        /\ saved.mode \in Repeating => b.ch[l].next = MsAt(clock)
    BY <1>1 DEF Shape, ChannelFields
  <2>3. ~b.bounded[l]
    <3>1. b.bounded[l] = FALSE
      BY <1>1 DEF Shape
    <3> QED BY <3>1
  <2>4. \A k \in Leds \ {l} : b.ch[k] = e.ch[k] /\ b.bounded[k] = e.bounded[k]
    BY <1>1 DEF Shape
  <2>5. DOMAIN b.bounded = Leds
    BY <1>1 DEF Shape
  <2> QED BY <2>1, <2>2, <2>3, <2>4, <2>5
<1>4. Restore(e, l) = Show(b, l, saved.mode # "off")
  BY DEF Restore
<1> HIDE DEF b, saved
<1>5. Deadlines(b.ch[l]) \subseteq {MsAt(clock)}
  BY <1>3 DEF Deadlines
<1>6. ChannelOk(b.ch[l]) /\ Current(b.ch[l])
  BY <1>1, <1>2, <1>3, <1>5 DEF ChannelOk, Current
<1>7. FramesOk(b)
  BY <1>1, <1>3, <1>6 DEF FramesOk
<1>8. Shown(b, Restore(e, l), l)
  BY <1>3, <1>4, ShowFrames
<1> QED BY <1>3, <1>6, <1>7, <1>8, ShownRun

\* A deadline a reading has not passed is still to come, or was not long ago.
LEMMA NotYet ==
    ASSUME clock \in Clocks, NEW ms, Reading(ms), NEW d, NotLost(d), Diff(ms, d, MsWrap) < 0
    PROVE  OverMs(d) <= Slack
<1>1. OverMs(d) < OverMs(ms)
  BY MsSooner DEF Reading
<1>2. OverMs(d) \in Int /\ OverMs(ms) \in Int
  BY MsIsClock, OverInt DEF OverMs, NotLost, Reading
<1> QED BY <1>1, <1>2, SlackIs DEF Reading

LEMMA AdvanceFrames ==
    ASSUME clock \in Clocks, NEW e, NEW l \in Leds, NEW ms, Reading(ms), FramesOk(e), Last(e),
           e.ch[l].step \in Int, e.ch[l].is.mode \in Repeating, ~Expired(e.ch[l], ms)
    PROVE  Run(e, Advance(e, l, ms), l)
<1> DEFINE ch == e.ch[l]
           mode == ch.is.mode
           step == (ch.step + 1) % (IF mode = "flame" THEN Len(Flame) ELSE Steps[mode])
           wait == IF mode = "flame" THEN FlameInterval(ch.is, step) ELSE FrameInterval(ch.is)
           m == [e EXCEPT !.ch[l].step = step, !.ch[l].next = MsLater(ms, wait)]
           n(level) == [m EXCEPT !.ch[l].lit = (level # 0)]
           Lit(level, colour) == RgbWrite(n(level), Pixel(colour, level))
           f == Advance(e, l, ms)
<1>1. /\ Shape(e) /\ DOMAIN e.bounded = Leds
      /\ \A k \in Leds : ChannelOk(e.ch[k]) /\ (e.bounded[k] => e.ch[k].hold # 0)
  BY DEF FramesOk
<1>2. Near(wait)
  <2>1. CASE mode = "flame"
    <3>1. Len(Flame) \in Nat /\ Len(Flame) > 0
      BY TableAssumption
    <3>2. step \in 0 .. Len(Flame) - 1
      BY <2>1, <3>1
    <3> QED BY <1>1, <2>1, <3>2 DEF ChannelOk, Paced
  <2>2. CASE mode # "flame"
    BY <1>1, <2>2 DEF ChannelOk, Paced
  <2> QED BY <2>1, <2>2
<1>3. NotLost(MsLater(ms, wait)) /\ OverMs(MsLater(ms, wait)) <= Slack
  BY <1>2, AheadIs DEF Reading
<1> HIDE DEF step, wait
<1>4. /\ Shape(m) /\ Last(m) /\ m.bounded = e.bounded
      /\ m.ch[l].is = ch.is /\ m.ch[l].saved = ch.saved /\ m.ch[l].hold = ch.hold
      /\ m.ch[l].next = MsLater(ms, wait)
      /\ \A k \in Leds \ {l} : m.ch[k] = e.ch[k]
  BY <1>1 DEF Shape, Last, ChannelFields
<1> HIDE DEF m
<1>5. ch.hold # 0 => NotLost(ch.hold) /\ OverMs(ch.hold) <= Slack
  <2> SUFFICES ASSUME ch.hold # 0 PROVE NotLost(ch.hold) /\ OverMs(ch.hold) <= Slack
    OBVIOUS
  <2>1. NotLost(ch.hold)
    BY <1>1 DEF ChannelOk, Deadlines
  <2>2. Diff(ms, ch.hold, MsWrap) \in Int
    BY <2>1, MsSooner DEF Reading
  <2>3. Diff(ms, ch.hold, MsWrap) < 0
    BY <2>2 DEF Expired
  <2> QED BY <2>1, <2>3, NotYet
<1>6. Deadlines(m.ch[l]) \subseteq {MsLater(ms, wait)} \cup (IF ch.hold # 0 THEN {ch.hold} ELSE {})
  BY <1>4 DEF Deadlines
<1>7. ChannelOk(m.ch[l]) /\ Current(m.ch[l])
  BY <1>1, <1>3, <1>4, <1>5, <1>6 DEF ChannelOk, Current
<1>8. FramesOk(m)
  BY <1>1, <1>4, <1>7 DEF FramesOk
<1>9. \E b : Run(e, b, l) /\ b = f
  <2>1. ASSUME NEW lit PROVE Run(e, Show(m, l, lit), l)
    BY <1>4, <1>7, <1>8, ShowFrames, ShownRun
  <2>2. ASSUME NEW level, NEW colour PROVE Run(e, Lit(level, colour), l)
    <3>1. Shape(n(level))
      BY <1>4 DEF Shape, ChannelFields
    <3>2. Keeps(n(level), Lit(level, colour))
      BY <3>1, RgbWriteKeeps
    <3> HIDE DEF Lit
    <3>3. Shown(m, Lit(level, colour), l)
      BY <1>4, <3>2, LitAlike DEF Shown
    <3> QED BY <1>4, <1>7, <1>8, <3>3, ShownRun
  <2> HIDE DEF Lit
  <2>3. CASE mode = "beacon"
    <3>1. f = Show(m, l, ~ch.lit)
      BY <2>3 DEF Advance, m, step, wait
    <3> QED BY <2>1, <3>1
  <2>4. CASE mode = "flame"
    <3>1. f = Show(m, l, Flame[step + 1][1])
      BY <2>4 DEF Advance, m, step, wait
    <3> QED BY <2>1, <3>1
  <2>5. CASE mode = "blink"
    <3>1. f = Show(m, l, step = 0)
      BY <2>5 DEF Advance, m, step, wait
    <3> QED BY <2>1, <3>1
  <2>6. CASE mode = "cycle"
    <3>1. f = Lit(step + 1, "hue")
      BY <2>6 DEF Advance, m, step, wait, Lit
    <3> QED BY <2>2, <3>1
  <2>7. CASE mode = "breathe"
    <3>1. f = Lit(BreatheLevel(step), ch.is.colour)
      BY <2>7 DEF Advance, m, step, wait, Lit
    <3> QED BY <2>2, <3>1
  <2> QED BY <2>3, <2>4, <2>5, <2>6, <2>7 DEF Repeating
<1> QED BY <1>9

\* A channel's part of a frame leaves nothing of it that the reading has passed.
LEMMA RunChannelFrames ==
    ASSUME clock \in Clocks, NEW e, NEW l \in Leds, NEW ms, Reading(ms), FramesOk(e), Last(e),
           e.ch[l].step \in Int
    PROVE  Run(e, RunChannel(e, l, ms), l)
<1> DEFINE ch == e.ch[l]
<1>1. CASE Expired(ch, ms)
  BY <1>1, RestoreFrames DEF RunChannel
<1>2. CASE ~Expired(ch, ms) /\ FrameDue(ch, ms)
  <2>1. RunChannel(e, l, ms) = Advance(e, l, ms) /\ ch.is.mode \in Repeating
    BY <1>2 DEF RunChannel, FrameDue
  <2> QED BY <1>2, <2>1, AdvanceFrames
<1>3. CASE ~Expired(ch, ms) /\ ~FrameDue(ch, ms)
  <2>1. RunChannel(e, l, ms) = e
    BY <1>3 DEF RunChannel
  <2>2. ASSUME NEW d \in Deadlines(ch) PROVE OverMs(d) <= Slack
    <3>1. NotLost(d)
      BY DEF FramesOk, ChannelOk
    <3>2. ~(Diff(ms, d, MsWrap) >= 0)
      BY <1>3, <2>2 DEF Deadlines, Expired, FrameDue
    <3>3. Diff(ms, d, MsWrap) \in Int
      BY <3>1, MsSooner DEF Reading
    <3> QED BY <3>1, <3>2, <3>3, NotYet
  <2> QED BY <2>1, <2>2 DEF Run, Current
<1> QED BY <1>1, <1>2, <1>3

LEMMA HoldOfIsNat == ASSUME NEW req \in Requests PROVE HoldOf(req) \in Nat
BY TimeAssumption, RequestsAssumption DEF HoldOf

\* The end of a hold is where it is asked for, or a millisecond later.
LEMMA ExpiryIs ==
    ASSUME clock \in Clocks, NEW ms, Reading(ms), NEW n \in Nat, Near(n + 1)
    PROVE  LET end == Expiry(ms, n)
           IN  end # 0 /\ NotLost(end) /\ OverMs(end) <= Slack
<1>1. Near(n) /\ n + 1 < MsWrap
  BY NearIs
<1>2. /\ NotLost(MsLater(ms, n)) /\ OverMs(MsLater(ms, n)) <= Slack
      /\ NotLost(MsLater(ms, n + 1)) /\ OverMs(MsLater(ms, n + 1)) <= Slack
  BY <1>1, AheadIs DEF Reading
<1>3. CASE MsLater(ms, n) # 0
  BY <1>2, <1>3 DEF Expiry
<1>4. CASE MsLater(ms, n) = 0
  <2>1. /\ ms \in Nat /\ ms < MsWrap /\ MsWrap \in Nat /\ MsWrap > 1
    BY TimeAssumption DEF Reading, NotLost, Ms
  <2>2. (ms + n) % MsWrap = IF ms + n < MsWrap THEN ms + n ELSE ms + n - MsWrap
    BY <1>1, <2>1, SmallMod
  <2>3. ms + n = 0 \/ ms + n = MsWrap
    BY <1>4, <2>1, <2>2 DEF MsLater
  <2>4. (ms + (n + 1)) % MsWrap = 1
    BY <2>1, <2>3, SmallMod
  <2> QED BY <1>2, <1>4, <2>4 DEF Expiry, MsLater
<1> QED BY <1>3, <1>4

\* A request adds deadlines that its reading has not passed, and drops none
\* that it does not replace.
LEMMA SetFrames ==
    ASSUME clock \in Clocks, Roomy, NEW e, NEW req \in Requests, Accepts(req),
           NEW ms, Reading(ms), FramesOk(e), Last(e)
    PROVE  LET f == Set(e, req, ms)
           IN  /\ FramesOk(f)
               /\ \A l \in Leds : \A d \in Deadlines(f.ch[l]) :
                     d \in Deadlines(e.ch[l]) \/ OverMs(d) <= Slack
<1> DEFINE l == req.led
           ch == e.ch[l]
           bounded == HoldOf(req) # 0
           is == StateAsked(req)
           end == Expiry(ms, HoldOf(req))
           next == MsLater(ms, FrameInterval(is))
           t == [e EXCEPT !.ch[l].saved = IF bounded /\ ~AlreadyBounded(ch) THEN ch.is ELSE @,
                          !.ch[l].is = is,
                          !.ch[l].step = 0,
                          !.ch[l].hold = IF bounded THEN end ELSE @,
                          !.ch[l].next = IF req.mode \in Repeating
                                           THEN MsLater(ms, FrameInterval(is)) ELSE @,
                          !.first[l] = IF bounded /\ ch.hold = 0 THEN ch.is ELSE @,
                          !.bounded[l] = bounded]
           lit == req.mode # "off"
           f == Set(e, req, ms)
<1>1. l \in Leds /\ is.mode = req.mode
  BY RequestsAssumption DEF StateAsked
<1>2. end # 0 /\ NotLost(end) /\ OverMs(end) <= Slack
  BY HoldOfIsNat, ExpiryIs DEF Roomy
<1>3. Paced(is)
  BY DEF Roomy
<1>4. req.mode \in Repeating => NotLost(next) /\ OverMs(next) <= Slack
  BY <1>1, <1>3, AheadIs DEF Paced, Reading
<1>5. /\ Shape(e) /\ DOMAIN e.bounded = Leds
      /\ \A k \in Leds : ChannelOk(e.ch[k]) /\ (e.bounded[k] => e.ch[k].hold # 0)
  BY DEF FramesOk
<1>6. bounded \in BOOLEAN
  OBVIOUS
<1> HIDE DEF is, end, next, bounded
<1>7. /\ Shape(t) /\ Last(t) /\ DOMAIN t.bounded = Leds
      /\ t.ch[l].is = is
      /\ t.ch[l].saved \in {ch.is, ch.saved}
      /\ t.ch[l].hold = (IF bounded THEN end ELSE ch.hold)
      /\ req.mode \in Repeating => t.ch[l].next = next
      /\ t.bounded[l] = bounded
      /\ \A k \in Leds \ {l} : t.ch[k] = e.ch[k] /\ t.bounded[k] = e.bounded[k]
  <2>1. /\ {"ch", "first", "bounded"} \subseteq DOMAIN e
        /\ DOMAIN e.ch = Leds /\ DOMAIN e.first = Leds /\ DOMAIN e.ch[l] = ChannelFields
    BY <1>1, <1>5 DEF Shape
  <2>2. DOMAIN t = DOMAIN e /\ DOMAIN t.ch = Leds /\ DOMAIN t.first = Leds
        /\ DOMAIN t.bounded = Leds
    BY <1>5, <2>1
  <2>3. \A k \in Leds \ {l} : t.ch[k] = e.ch[k] /\ t.bounded[k] = e.bounded[k]
    BY <2>1
  <2>4. DOMAIN t.ch[l] = ChannelFields
    BY <1>1, <2>1
  <2>5. Shape(t)
    <3> HIDE DEF t
    <3> QED BY <1>5, <2>2, <2>3, <2>4 DEF Shape
  <2>6. Last(t)
    BY <1>5 DEF Shape, Last
  <2>7. t.ch[l].is = is
    BY <1>1, <2>1 DEF ChannelFields
  <2>8. t.ch[l].saved \in {ch.is, ch.saved}
    BY <1>1, <2>1 DEF ChannelFields
  <2>9. t.ch[l].hold = (IF bounded THEN end ELSE ch.hold)
    BY <1>1, <2>1 DEF ChannelFields
  <2>10. req.mode \in Repeating => t.ch[l].next = next
    BY <1>1, <2>1 DEF ChannelFields, next
  <2>11. t.bounded[l] = bounded
    BY <1>1, <1>5, <2>1
  <2> QED BY <2>2, <2>3, <2>5, <2>6, <2>7, <2>8, <2>9, <2>10, <2>11
<1>8. f = Show(t, l, lit)
  BY DEF Set, is, end, bounded
<1> HIDE DEF t, f, lit
<1>9. \A d \in Deadlines(t.ch[l]) : NotLost(d) /\ (d \in Deadlines(ch) \/ OverMs(d) <= Slack)
  <2> SUFFICES ASSUME NEW d \in Deadlines(t.ch[l])
               PROVE  NotLost(d) /\ (d \in Deadlines(ch) \/ OverMs(d) <= Slack)
    OBVIOUS
  <2>1. \/ req.mode \in Repeating /\ d = next
        \/ bounded /\ d = end
        \/ ch.hold # 0 /\ d = ch.hold
    BY <1>1, <1>7 DEF Deadlines
  <2>2. ch.hold # 0 => ch.hold \in Deadlines(ch)
    BY DEF Deadlines
  <2> QED BY <1>1, <1>2, <1>4, <1>5, <2>1, <2>2 DEF ChannelOk
<1>10. ChannelOk(t.ch[l])
  BY <1>1, <1>3, <1>5, <1>7, <1>9 DEF ChannelOk
<1>11. t.bounded[l] => t.ch[l].hold # 0
  BY <1>2, <1>7
<1>12. ASSUME NEW k \in Leds
       PROVE  ChannelOk(t.ch[k]) /\ (t.bounded[k] => t.ch[k].hold # 0)
  BY <1>5, <1>7, <1>10, <1>11
<1>13. Shown(t, f, l)
  BY <1>1, <1>7, <1>8, ShowFrames
<1>14. ASSUME NEW k \in Leds
       PROVE  /\ ChannelOk(f.ch[k]) /\ (f.bounded[k] => f.ch[k].hold # 0)
              /\ Deadlines(f.ch[k]) = Deadlines(t.ch[k])
  BY <1>12, <1>13, AlikeOk DEF Shown, Alike
<1>15. FramesOk(f)
  BY <1>7, <1>13, <1>14 DEF FramesOk, Shown
<1>16. ASSUME NEW k \in Leds, NEW d \in Deadlines(f.ch[k])
       PROVE  d \in Deadlines(e.ch[k]) \/ OverMs(d) <= Slack
  BY <1>7, <1>9, <1>14, <1>16
<1> QED BY <1>15, <1>16 DEF f

\* The earliest of some deadlines, if there are any.
Best(a, ds) == IF a = None THEN ds = {}
               ELSE a \in ds /\ \A d \in ds : OverMs(d) <= OverMs(a)

LEMMA NotLostInt == ASSUME clock \in Clocks, NEW d, NotLost(d)
                    PROVE  d # None /\ d \in Int /\ d * MsTicks \in Clocks /\ OverMs(d) \in Int
BY MsIsClock, OverInt, TimeAssumption DEF NotLost, Ms, None, OverMs

LEMMA SoonerBest ==
    ASSUME clock \in Clocks, NEW ds, \A d \in ds : NotLost(d), NEW a, Best(a, ds),
           NEW b, b = None \/ NotLost(b)
    PROVE  Best(Sooner(a, b), ds \cup (IF b = None THEN {} ELSE {b}))
<1>1. CASE b = None
  BY <1>1 DEF Sooner, Best
<1>2. CASE b # None /\ a = None
  BY <1>2, NotLostInt DEF Sooner, Best
<1>3. CASE b # None /\ a # None
  <2>1. NotLost(a) /\ NotLost(b)
    BY <1>3 DEF Best
  <2>2. Diff(b, a, MsWrap) < 0 <=> OverMs(a) < OverMs(b)
    BY <2>1, MsSooner
  <2>3. OverMs(a) \in Int /\ OverMs(b) \in Int /\ \A d \in ds : OverMs(d) \in Int
    BY <2>1, NotLostInt
  <2>4. CASE OverMs(a) < OverMs(b)
    <3>1. Sooner(a, b) = b
      BY <1>3, <2>2, <2>4 DEF Sooner
    <3>2. \A d \in ds : OverMs(d) <= OverMs(b)
      BY <1>3, <2>3, <2>4 DEF Best
    <3> QED BY <1>3, <2>3, <3>1, <3>2 DEF Best
  <2>5. CASE ~(OverMs(a) < OverMs(b))
    <3>1. Sooner(a, b) = a
      BY <1>3, <2>2, <2>5 DEF Sooner
    <3> QED BY <1>3, <2>3, <2>5, <3>1 DEF Best
  <2> QED BY <2>4, <2>5
<1> QED BY <1>1, <1>2, <1>3

LEMMA SoonerOfBest ==
    ASSUME clock \in Clocks, NEW ds, \A d \in ds : NotLost(d), NEW a, Best(a, ds),
           NEW ch, \A d \in Deadlines(ch) : NotLost(d)
    PROVE  Best(SoonerOf(a, ch), ds \cup Deadlines(ch))
<1> DEFINE next == NextFrame(ch)
           end == HoldEnd(ch)
           One(b) == IF b = None THEN {} ELSE {b}
<1>1. (next = None \/ NotLost(next)) /\ (end = None \/ NotLost(end))
  BY DEF NextFrame, HoldEnd, Deadlines
<1>2. Deadlines(ch) = One(next) \cup One(end)
  <2>1. One(next) = IF ch.is.mode \in Repeating THEN {ch.next} ELSE {}
    BY NotLostInt DEF NextFrame, Deadlines
  <2>2. One(end) = IF ch.hold # 0 THEN {ch.hold} ELSE {}
    BY NotLostInt DEF HoldEnd, Deadlines
  <2> HIDE DEF One
  <2> QED BY <2>1, <2>2 DEF Deadlines
<1> HIDE DEF next, end
<1>3. \A d \in ds \cup One(next) : NotLost(d)
  BY <1>1
<1>4. Best(Sooner(a, next), ds \cup One(next))
  BY <1>1, SoonerBest
<1>5. Best(Sooner(Sooner(a, next), end), (ds \cup One(next)) \cup One(end))
  BY <1>1, <1>3, <1>4, SoonerBest
<1>6. (ds \cup One(next)) \cup One(end) = ds \cup Deadlines(ch)
  BY <1>2
<1> QED BY <1>5, <1>6 DEF SoonerOf, next, end

\* The loop of led_rearm finds the deadline that is furthest past.
LEMMA EarliestIs ==
    ASSUME clock \in Clocks, NEW e, FramesOk(e)
    PROVE  \A l \in Leds : \A d \in Deadlines(e.ch[l]) :
              /\ Earliest(e) # None /\ NotLost(Earliest(e))
              /\ OverMs(d) <= OverMs(Earliest(e))
<1> DEFINE s == Deadlines(e.ch["status"])
           r == Deadlines(e.ch["rgb"])
<1>1. (\A d \in s : NotLost(d)) /\ (\A d \in r : NotLost(d))
  BY DEF FramesOk, ChannelOk, Leds
<1>2. Best(None, {})
  BY DEF Best
<1>3. Best(SoonerOf(None, e.ch["status"]), {} \cup s)
  BY <1>1, <1>2, SoonerOfBest
<1>4. Best(SoonerOf(None, e.ch["status"]), s)
  <2>1. {} \cup s = s
    OBVIOUS
  <2> QED BY <1>3, <2>1
<1>5. Best(Earliest(e), s \cup r)
  BY <1>1, <1>4, SoonerOfBest DEF Earliest
<1>6. \A l \in Leds : Deadlines(e.ch[l]) \subseteq s \cup r
  BY DEF Leds
<1> HIDE DEF s, r
<1> QED BY <1>1, <1>5, <1>6 DEF Best

\* Whatever led_rearm finds to wait for, it leaves every deadline seen to.
LEMMA RearmFrames ==
    ASSUME clock \in Clocks, NEW e, NEW c, NEW ms, Reading(ms), PinOk(e), FramesOk(e),
           NEW l \in Leds, NEW d \in Deadlines(e.ch[l])
    PROVE  LET f == Rearm(e, c, ms)
           IN  \/ Armed(f, d * MsTicks, Slack)
               \/ Raised(f) /\ (Raised(e) => f.fired = e.fired)
<1> DEFINE f == Rearm(e, c, ms)
           k == Diff(Earliest(e), ms, MsWrap)
<1>1. /\ Earliest(e) # None /\ NotLost(Earliest(e)) /\ OverMs(d) <= OverMs(Earliest(e))
      /\ OverMs(Earliest(e)) \in Int /\ OverMs(d) \in Int
  <2>1. NotLost(d)
    BY DEF FramesOk, ChannelOk
  <2> QED BY <2>1, EarliestIs, NotLostInt
<1>2. ms \in Int /\ OverMs(ms) \in Int /\ OverMs(ms) <= Slack
  BY NotLostInt DEF Reading
<1>3. k \in Int /\ k * MsTicks = OverMs(ms) - OverMs(Earliest(e))
  BY <1>1, MsSooner DEF Reading
<1>4. NotNegative(k) * MsTicks \in Wait(e, ms)
  BY <1>1 DEF Wait
<1> HIDE DEF f, k
<1>5. \E wait \in Nat :
         /\ 2 * wait <= Wrap
         /\ \A w \in Wait(e, ms) : wait <= w
         /\ \/ wait # 0 /\ f.alarm = Later(wait) /\ f.nvic # {}
            \/ Raised(f) /\ (Raised(e) => f.fired = e.fired)
  <2>1. Wait(e, ms) # {}
    BY <1>4
  <2> QED BY <1>2, <2>1, RearmPin DEF f
<1>6. PICK wait \in Nat :
         /\ 2 * wait <= Wrap
         /\ \A w \in Wait(e, ms) : wait <= w
         /\ \/ wait # 0 /\ f.alarm = Later(wait) /\ f.nvic # {}
            \/ Raised(f) /\ (Raised(e) => f.fired = e.fired)
  BY <1>5
<1>7. ASSUME wait # 0, f.alarm = Later(wait), f.nvic # {}
      PROVE  Armed(f, d * MsTicks, Slack)
  <2>1. f.alarm \in Clocks /\ Over(f.alarm) = -wait
    BY <1>6, <1>7, OverLater
  <2>2. wait <= NotNegative(k) * MsTicks
    BY <1>4, <1>6
  <2>3. wait <= k * MsTicks /\ k * MsTicks \in Int
    <3>1. NotNegative(k) = 0 \/ NotNegative(k) = k
      BY DEF NotNegative
    <3>2. 0 * MsTicks = 0 /\ k * MsTicks \in Int
      BY <1>3, Scale
    <3>3. NotNegative(k) # 0
      BY <1>6, <1>7, <2>2, <3>2
    <3> QED BY <2>2, <3>1, <3>2, <3>3
  <2>4. OverMs(d) <= Over(f.alarm) + Slack
    BY <1>1, <1>2, <1>3, <1>6, <2>1, <2>3, SlackIs
  <2>5. Over(f.alarm) < 0
    BY <1>6, <1>7, <2>1
  <2> QED BY <1>7, <2>1, <2>4, <2>5 DEF Armed, OverMs
<1>8. Armed(f, d * MsTicks, Slack) \/ (Raised(f) /\ (Raised(e) => f.fired = e.fired))
  BY <1>6, <1>7
<1> QED BY <1>8 DEF f

\* Every deadline of the channels is seen to, but for what a reading of the
\* time may be behind; and no call waits for the lock longer than an interrupt.
FrInv ==
    /\ FramesOk(led)
    /\ \A c \in Cores : call[c].at # None => Answers(call[c].at) /\ Accepts(call[c].req)
    /\ \A l \in Leds : \A d \in Deadlines(led.ch[l]) : Meets(led, frame, d * MsTicks, Slack)

LEMMA FrInTime ==
    ASSUME PinInv, FrInv
    PROVE  FramesOnTime
<1>1. ASSUME NEW l \in Leds, NEW d \in Deadlines(led.ch[l]) PROVE OnTime(d)
  <2>1. clock \in Clocks /\ NotLost(d) /\ Meets(led, frame, d * MsTicks, Slack)
    BY DEF PinInv, FrInv, FramesOk, ChannelOk
  <2>2. d * MsTicks \in Clocks
    BY <2>1, NotLostInt
  <2>3. Over(d * MsTicks) \in Int /\ Over(d * MsTicks) <= Slack + 2 * Late
    BY <2>1, <2>2, MeetsBound, SlackIs
  <2>4. Over(d * MsTicks) <= MsTicks + 3 * Late
    BY <2>3, SlackIs
  <2> QED BY <2>4 DEF OnTime, Over
<1> QED BY <1>1 DEF FramesOnTime, Deadlines, FrInv, FramesOk

LEMMA FrInit == Init => FrInv
<1> SUFFICES ASSUME Init PROVE FrInv
  OBVIOUS
<1>1. Shape(led)
  BY PinInit DEF PinInv, PinOk
<1>2. ASSUME NEW l \in Leds
      PROVE  /\ led.ch[l].is.mode \notin Repeating /\ led.ch[l].hold = 0
             /\ led.ch[l].saved.mode \notin Repeating
  <2>1. \E m \in {"on", "off"} : led.ch[l] = Idle([AtRest EXCEPT !.mode = m])
    BY DEF Init
  <2> QED BY <2>1 DEF Idle, AtRest, Repeating
<1>3. DOMAIN led.bounded = Leds /\ \A l \in Leds : ~led.bounded[l]
  <2>1. led.bounded = [l \in Leds |-> FALSE]
    BY DEF Init
  <2> QED BY <2>1
<1>4. FramesOk(led) /\ \A l \in Leds : Deadlines(led.ch[l]) = {}
  BY <1>1, <1>2, <1>3 DEF FramesOk, ChannelOk, Paced, Deadlines
<1>5. \A c \in Cores : call[c].at = None
  BY DEF Init, NoCall
<1> QED BY <1>4, <1>5 DEF FrInv

\* A step between ticks.
LEMMA FrStands ==
    ASSUME clock' = clock, NEW f, NEW at, led' = f, frame' = at, FramesOk(f),
           \A c \in Cores : call'[c].at # None => Answers(call'[c].at) /\ Accepts(call'[c].req),
           \A l \in Leds : \A d \in Deadlines(f.ch[l]) : Meets(f, at, d * MsTicks, Slack)
    PROVE  FrInv'
<1>1. FramesOk(led)'
  BY DEF FramesOk, ChannelOk, NotLost, OverMs, Over
<1>2. (\A c \in Cores : call[c].at # None => Answers(call[c].at) /\ Accepts(call[c].req))'
  BY DEF Answers, Over
<1>3. (\A l \in Leds : \A d \in Deadlines(led.ch[l]) : Meets(led, frame, d * MsTicks, Slack))'
  BY DEF Meets, Armed, Over
<1> QED BY <1>1, <1>2, <1>3 DEF FrInv

\* What led_rearm leaves of deadlines that were seen to before, or that the
\* reading it is given has not passed.
LEMMA RearmLeaves ==
    ASSUME PinInv, NEW s, NEW c, NEW ms, NEW at,
           Reading(ms), PinOk(s), FramesOk(s),
           s.pend = led.pend, s.nvic = led.nvic, s.fired = led.fired,
           \A l \in Leds : \A d \in Deadlines(s.ch[l]) :
              OverMs(d) <= Slack \/ (at = frame /\ Meets(led, frame, d * MsTicks, Slack))
    PROVE  LET f == Rearm(s, c, ms)
           IN  /\ FramesOk(f)
               /\ \A l \in Leds : \A d \in Deadlines(f.ch[l]) : Meets(f, at, d * MsTicks, Slack)
<1> DEFINE f == Rearm(s, c, ms)
<1>1. clock \in Clocks /\ ms \in Int
  BY NotLostInt DEF PinInv, Reading
<1>2. /\ PinOk(f) /\ f.ch = s.ch /\ f.bounded = s.bounded
      /\ Raised(f) => f.fired = clock \/ (Raised(s) /\ f.fired = s.fired)
  BY <1>1, RearmPin
<1>3. ASSUME NEW l \in Leds, NEW d \in Deadlines(s.ch[l])
      PROVE  Armed(f, d * MsTicks, Slack) \/ (Raised(f) /\ (Raised(s) => f.fired = s.fired))
  BY <1>1, RearmFrames
<1> HIDE DEF f
<1>4. Raised(s) <=> Raised(led)
  BY DEF Raised
<1>5. Raised(f) => f.fired \in Clocks /\ 0 <= Over(f.fired) /\ Over(f.fired) \in Int
  <2>1. Answers(clock)
    BY <1>1, OverNow, LateIs DEF Answers
  <2>2. Raised(f) => f.fired \in Clocks /\ Answers(f.fired)
    BY <1>1, <1>2, <1>4, <2>1 DEF PinInv, PinOk, PinType
  <2> QED BY <1>1, <2>2, OverInt DEF Answers
<1>6. FramesOk(f)
  BY <1>2 DEF FramesOk, PinOk
<1>7. ASSUME NEW l \in Leds, NEW d \in Deadlines(s.ch[l]) PROVE Meets(f, at, d * MsTicks, Slack)
  <2>1. d * MsTicks \in Clocks /\ OverMs(d) \in Int
    BY <1>1, NotLostInt DEF FramesOk, ChannelOk
  <2>2. CASE Armed(f, d * MsTicks, Slack)
    BY <2>2 DEF Meets
  <2>3. CASE Raised(f) /\ (Raised(s) => f.fired = s.fired)
    <3>1. CASE OverMs(d) <= Slack
      <4>1. Over(d * MsTicks) <= Over(f.fired) + Slack
        BY <1>5, <2>1, <2>3, <3>1, SlackIs DEF OverMs
      <4> QED BY <2>3, <4>1 DEF Meets
    <3>2. CASE at = frame /\ Meets(led, frame, d * MsTicks, Slack)
      <4>1. Meets(f, frame, d * MsTicks, Slack)
        BY <1>4, <1>5, <2>1, <2>3, <3>2, MeetsRaised, SlackIs
      <4> QED BY <3>2, <4>1
    <3> QED BY <3>1, <3>2
  <2> QED BY <1>3, <2>2, <2>3
<1>8. FramesOk(f) /\ \A l \in Leds : \A d \in Deadlines(f.ch[l]) : Meets(f, at, d * MsTicks, Slack)
  BY <1>2, <1>6, <1>7
<1> QED BY <1>8 DEF f

\* The time a core reads before it waits for the lock is near when it has it.
LEMMA ReadingAt ==
    ASSUME clock \in Clocks, NEW r \in Clocks, Answers(r)
    PROVE  Reading(MsAt(r))
BY ReadingIs DEF Reading

LEMMA FrLockedSet ==
    ASSUME PinInv, IInv, FrInv, Roomy, NEW c \in Cores, LockedSet(c)
    PROVE  FrInv'
<1> DEFINE req == call[c].req
           ms == MsAt(call[c].at)
           s == Set(led, req, ms)
           f == Rearm(s, c, ms)
<1>1. led' = f /\ clock' = clock /\ frame' = frame /\ call' = [call EXCEPT ![c] = NoCall]
  BY DEF LockedSet
<1>2. /\ clock \in Clocks /\ PinOk(led) /\ FramesOk(led) /\ Last(led)
      /\ req \in Requests /\ Accepts(req) /\ call[c].at \in Clocks /\ Answers(call[c].at)
  BY DEF LockedSet, PinInv, IInv, HInv, FrInv
<1>3. Reading(ms) /\ ms \in Int
  BY <1>2, ReadingAt, NotLostInt DEF Reading
<1> HIDE DEF ms, req
<1>4. PinOk(s) /\ Owes(led, s)
  BY <1>2, <1>3, SetPin
<1>5. /\ FramesOk(s)
      /\ \A l \in Leds : \A d \in Deadlines(s.ch[l]) :
            d \in Deadlines(led.ch[l]) \/ OverMs(d) <= Slack
  BY <1>2, <1>3, SetFrames
<1> HIDE DEF s
<1>6. s.pend = led.pend /\ s.nvic = led.nvic /\ s.fired = led.fired
  BY <1>4 DEF Owes
<1>7. \A l \in Leds : \A d \in Deadlines(s.ch[l]) :
         OverMs(d) <= Slack \/ (frame = frame /\ Meets(led, frame, d * MsTicks, Slack))
  BY <1>5 DEF FrInv
<1>8. /\ FramesOk(f)
      /\ \A l \in Leds : \A d \in Deadlines(f.ch[l]) : Meets(f, frame, d * MsTicks, Slack)
  BY <1>3, <1>4, <1>5, <1>6, <1>7, RearmLeaves
<1> HIDE DEF f
<1>9. \A x \in Cores : call'[x].at # None => Answers(call'[x].at) /\ Accepts(call'[x].req)
  BY <1>1 DEF FrInv, IInv, NoCall
<1> QED BY <1>1, <1>8, <1>9, FrStands

\* A frame does what is due on both channels.
LEMMA FrLockedFrame ==
    ASSUME PinInv, IInv, FrInv, NEW c \in Cores, LockedFrame(c)
    PROVE  FrInv'
<1> DEFINE ms == MsAt(frame[c])
           w == PinWork(led)
           s == RunChannel(w, "status", ms)
           r == RunChannel(s, "rgb", ms)
           f == Rearm(r, c, ms)
           at == [frame EXCEPT ![c] = None]
<1>1. led' = f /\ clock' = clock /\ call' = call /\ frame' = at
  BY DEF LockedFrame
<1>2. /\ clock \in Clocks /\ PinOk(led) /\ FramesOk(led) /\ HInv(led)
      /\ frame[c] \in Clocks /\ Answers(frame[c])
  BY DEF LockedFrame, PinInv, IInv, FrInv
<1>3. Reading(ms) /\ ms \in Int
  BY <1>2, ReadingAt, NotLostInt DEF Reading
<1>4. PinOwed(led) => Over(PinDue(led)) <= 2 * Late
  BY PinInTime DEF PinOnTime, PinOwed, Over
<1>5. /\ PinOk(w)
      /\ w.nvic = led.nvic /\ w.pend = led.pend /\ w.fired = led.fired
  BY <1>2, <1>4, PinWorkPin
<1>6. Keeps(led, w) /\ Last(w)
  BY <1>2, PinWorkKeeps DEF HInv
<1> HIDE DEF ms, w
<1>7. HInv(w) /\ FramesOk(w)
  <2>1. Shape(w)
    BY <1>5 DEF PinOk
  <2> QED BY <1>2, <1>6, <2>1 DEF HInv, Remembers, Keeps, FramesOk
<1>8. PinOk(s) /\ Owes(w, s)
  BY <1>2, <1>3, <1>5, RunChannelPin DEF Leds
<1>9. HInv(s)
  BY <1>7, RunChannelRuns DEF Runs, Leds
<1>10. Run(w, s, "status")
  <2>1. w.ch["status"].step \in Int
    BY <1>5 DEF PinOk, ChannelType, Leds
  <2> QED BY <1>2, <1>3, <1>7, <2>1, RunChannelFrames DEF HInv, Leds
<1> HIDE DEF s
<1>11. PinOk(r) /\ Owes(w, r)
  BY <1>2, <1>3, <1>8, RunChannelPin, OwesTrans DEF Leds
<1>12. Run(s, r, "rgb")
  <2>1. s.ch["rgb"].step \in Int
    BY <1>8 DEF PinOk, ChannelType, Leds
  <2> QED BY <1>2, <1>3, <1>9, <1>10, <2>1, RunChannelFrames DEF HInv, Leds, Run
<1> HIDE DEF r
<1>13. FramesOk(r) /\ \A l \in Leds : Current(r.ch[l])
  BY <1>10, <1>12 DEF Run, Leds
<1>14. r.pend = led.pend /\ r.nvic = led.nvic /\ r.fired = led.fired
  BY <1>5, <1>11 DEF Owes
<1>15. \A l \in Leds : \A d \in Deadlines(r.ch[l]) :
          OverMs(d) <= Slack \/ (at = frame /\ Meets(led, frame, d * MsTicks, Slack))
  BY <1>13 DEF Current
<1> HIDE DEF at
<1>16. /\ FramesOk(f)
       /\ \A l \in Leds : \A d \in Deadlines(f.ch[l]) : Meets(f, at, d * MsTicks, Slack)
  BY <1>3, <1>11, <1>13, <1>14, <1>15, RearmLeaves
<1> HIDE DEF f
<1>17. \A x \in Cores : call'[x].at # None => Answers(call'[x].at) /\ Accepts(call'[x].req)
  BY <1>1 DEF FrInv
<1> QED BY <1>1, <1>16, <1>17, FrStands

LEMMA FrTakeInterrupt ==
    ASSUME PinInv, FrInv, NEW c \in Cores, TakeInterrupt(c)
    PROVE  FrInv'
<1> DEFINE n == [led EXCEPT !.pend = @ \ {c}]
           f == [n EXCEPT !.fired = Since(led, n, clock)]
           at == [frame EXCEPT ![c] = clock]
<1>1. led' = f /\ clock' = clock /\ call' = call /\ frame' = at /\ frame[c] = None
  BY DEF TakeInterrupt
<1>2. clock \in Clocks /\ FramesOk(led) /\ Shape(led)
  BY DEF PinInv, FrInv, FramesOk
<1>3. /\ Shape(f) /\ f.ch = led.ch /\ f.bounded = led.bounded
      /\ f.alarm = led.alarm /\ f.nvic = led.nvic
  BY <1>2 DEF Shape
<1> HIDE DEF f
<1>4. FramesOk(f)
  BY <1>2, <1>3 DEF FramesOk
<1>5. ASSUME NEW l \in Leds, NEW d \in Deadlines(f.ch[l]) PROVE Meets(f, at, d * MsTicks, Slack)
  <2>1. d \in Deadlines(led.ch[l])
    BY <1>3
  <2>2. Meets(led, frame, d * MsTicks, Slack) /\ d * MsTicks \in Clocks
    BY <1>2, <2>1, NotLostInt DEF FrInv, FramesOk, ChannelOk
  <2> QED BY <1>1, <1>3, <2>2, MeetsTaken, SlackIs
<1> HIDE DEF at
<1>6. \A x \in Cores : call'[x].at # None => Answers(call'[x].at) /\ Accepts(call'[x].req)
  BY <1>1 DEF FrInv
<1> QED BY <1>1, <1>4, <1>5, <1>6, FrStands

LEMMA FrCall ==
    ASSUME PinInv, IInv, FrInv, NEW c \in Cores, Call(c)
    PROVE  FrInv'
<1>1. PICK req \in Requests :
         Accepts(req) /\ call' = [call EXCEPT ![c] = [req |-> req, at |-> clock]]
  BY DEF Call
<1>2. clock' = clock /\ led' = led /\ frame' = frame
  BY DEF Call
<1>3. Answers(clock)
  BY OverNow, LateIs DEF Answers, PinInv
<1>4. \A x \in Cores : call'[x].at # None => Answers(call'[x].at) /\ Accepts(call'[x].req)
  BY <1>1, <1>3 DEF FrInv, IInv
<1> QED BY <1>2, <1>4, FrStands DEF FrInv

\* Time does not pass a deadline that it may not pass.
LEMMA FrTick ==
    ASSUME PinInv, FrInv, Tick
    PROVE  FrInv'
<1>1. /\ Ticks /\ clock' \in Clocks /\ clock \in Clocks /\ call' = call /\ frame' = frame
      /\ Shape(led') /\ led'.ch = led.ch /\ led'.bounded = led.bounded
  BY TickIs DEF PinInv
<1>2. ASSUME NEW l \in Leds, NEW d \in Deadlines(led.ch[l])
      PROVE  NotLost(d)' /\ Meets(led, frame, d * MsTicks, Slack)'
  <2> DEFINE t == d * MsTicks
  <2>1. NotLost(d) /\ Meets(led, frame, t, Slack) /\ t \in Clocks /\ OverMs(d) \in Int
    BY <1>1, NotLostInt DEF FrInv, FramesOk, ChannelOk
  <2> HIDE DEF t
  <2>2. 2 * (Slack + 2 * Late + 1) < Wrap
    BY SlackIs, WrapIsNat
  <2>3. Diff(clock', t, Wrap) = Over(t) + 1 /\ Meets(led, frame, t, Slack)'
    BY <2>1, <2>2, MeetsTick, SlackIs
  <2>4. Over(t) + 1 <= Slack + 2 * Late
    <3>1. Over(t) \in Int /\ Late \in Nat /\ Slack \in Nat
      BY <1>1, <2>1, OverInt, SlackIs
    <3>2. CASE Armed(led, t, Slack)
      <4>1. Over(led.alarm) \in Int
        BY <1>1, <3>2, OverInt DEF Armed
      <4> QED BY <3>1, <3>2, <4>1 DEF Armed
    <3>3. CASE Raised(led) /\ Over(t) <= Over(led.fired) + Slack
      <4>1. Over(led.fired) \in Int /\ Over(led.fired) < Late
        BY <1>1, <3>3, OverInt DEF PinInv, PinOk, PinType, Tick, Prompt, Over, Raised
      <4> QED BY <3>1, <3>3, <4>1
    <3>4. ASSUME NEW c \in Cores, frame[c] # None, Over(t) <= Over(frame[c]) + Late + Slack
          PROVE  Over(t) + 1 <= Slack + 2 * Late
      <4>1. Over(frame[c]) \in Int /\ Over(frame[c]) < Late
        BY <1>1, <3>4, OverInt DEF PinInv, Tick, Prompt, Over
      <4> QED BY <3>1, <3>4, <4>1
    <3> QED BY <2>1, <3>2, <3>3, <3>4 DEF Meets
  <2>5. OverMs(d)' = OverMs(d) + 1
    BY <2>3 DEF OverMs, Over, t
  <2>6. OverMs(d) + 1 <= Slack + 2 * Late
    BY <2>4 DEF OverMs, t
  <2>7. NotLost(d)'
    <3>1. PICK k \in Int : k = OverMs(d)
      BY <2>1
    <3>2. d \in Ms /\ 2 * (MsTicks + 3 * Late - k) < Wrap
      BY <2>1, <3>1 DEF NotLost
    <3>3. 2 * (MsTicks + 3 * Late - (k + 1)) < Wrap
      BY <3>1, <3>2, SlackIs, WrapIsNat
    <3> QED BY <2>5, <2>6, <3>1, <3>2, <3>3 DEF NotLost
  <2> QED BY <2>3, <2>7 DEF t
<1>3. FramesOk(led)'
  <2>1. ASSUME NEW l \in Leds PROVE ChannelOk(led.ch[l])'
    <3>1. led'.ch[l] = led.ch[l] /\ ChannelOk(led.ch[l])
      BY <1>1 DEF FrInv, FramesOk
    <3>2. \A d \in Deadlines(led.ch[l]) : NotLost(d)'
      BY <1>2
    <3> QED BY <3>1, <3>2 DEF ChannelOk
  <2> QED BY <1>1, <2>1 DEF FrInv, FramesOk
<1>4. (\A l \in Leds : \A d \in Deadlines(led.ch[l]) : Meets(led, frame, d * MsTicks, Slack))'
  BY <1>1, <1>2
<1>5. ASSUME NEW c \in Cores, call[c].at # None PROVE Answers(call[c].at)'
  <2>1. /\ call[c].at \in Clocks /\ 0 <= Over(call[c].at) /\ Over(call[c].at) < Late
        /\ Over(call[c].at) \in Int
    BY <1>1, <1>5, OverInt DEF PinInv, FrInv, Answers, Tick, Prompt, Over
  <2>2. Diff(clock', call[c].at, Wrap) = Over(call[c].at) + 1
    BY <1>1, <2>1, OverTicks, LateIs, WrapIsNat
  <2> QED BY <1>1, <2>1, <2>2, LateIs DEF Answers, Over
<1>6. (\A c \in Cores : call[c].at # None => Answers(call[c].at) /\ Accepts(call[c].req))'
  BY <1>1, <1>5 DEF FrInv
<1> QED BY <1>3, <1>4, <1>6 DEF FrInv

LEMMA FrNext == ASSUME Roomy PROVE PinInv /\ IInv /\ FrInv /\ [Next]_vars => FrInv'
<1> SUFFICES ASSUME PinInv, IInv, FrInv, [Next]_vars PROVE FrInv'
  OBVIOUS
<1>1. CASE UNCHANGED vars
  <2>1. clock' = clock /\ led' = led /\ frame' = frame /\ call' = call
    BY <1>1 DEF vars
  <2> QED BY <2>1, FrStands DEF FrInv
<1> QED BY <1>1, FrTick, FrCall, FrLockedSet, FrTakeInterrupt, FrLockedFrame DEF Next

---------------------------------------------------------------------------
(* The theorems.                                                           *)

\* What channels remember stays true, whoever calls and whenever the interrupt
\* comes (pio_led_set and pio_led_frame, pioled.c 861-1091).
THEOREM Invariance == Spec => []IInv
<1>1. Init => IInv
  BY InitIInv
<1>2. IInv /\ [Next]_vars => IInv'
  BY NextIInv
<1> QED BY <1>1, <1>2, PTL DEF Spec

\* However many holds nest, the last to end gives the LED back to what it was
\* doing when the first arrived (pioled.c 1000-1012, led_restore).
THEOREM HoldsNest == Spec => ExpiryReturns
<1> DEFINE A == \A l \in Leds : led.ch[l].hold # 0 /\ led'.ch[l].hold = 0 =>
                    led'.ch[l].is = led.first[l]
<1>1. IInv /\ [Next]_vars => [A]_vars
  BY NextIInv DEF StepOf
<1>2. Spec => [][A]_vars
  BY <1>1, Invariance, PTL DEF Spec
<1> QED BY <1>2 DEF ExpiryReturns

\* The colour asked for last waits for its reset or is the one sent last
\* (led_rgb_write, pioled.c 590-605).
THEOREM NewestLast == Spec => []Newest
<1>1. IInv => Newest
  BY DEF IInv, HInv, Last, Newest
<1> QED BY <1>1, Invariance, PTL

\* A pixel that the chip could take for more of the last one is not sent after
\* the claim or a handover until its reset has passed (led_rgb_write, pioled.c
\* 578-594, and pio_led_frame, 869-873).
THEOREM PixelsWaitOutReset == Spec => []WaitsOutReset
<1>1. Init => clock \in Clocks /\ LineInv(led)
  BY LineInit
<1>2. clock \in Clocks /\ LineInv(led) /\ [Next]_vars => (clock \in Clocks /\ LineInv(led))'
  BY LineNext
<1>3. LineInv(led) => WaitsOutReset
  BY DEF LineInv, NoneEarly, WaitsOutReset
<1> QED BY <1>1, <1>2, <1>3, PTL DEF Spec

\* The timer is kept in step with what the pin is owed, whichever core sets the
\* alarm last (led_rearm, pioled.c 704-758).
THEOREM PinWatched == Spec => []PinInv
<1>1. Init => PinInv
  BY PinInit
<1>2. PinInv /\ IInv /\ [Next]_vars => PinInv'
  BY PinNext
<1> QED BY <1>1, <1>2, Invariance, PTL DEF Spec

\* A pixel that waits goes, and a pin borrowed comes back, as soon as an
\* interrupt and the lock allow (pio_led_frame, pioled.c 865-878).
THEOREM PinServedOnTime == Spec => []PinOnTime
BY PinWatched, PinInTime, PTL

\* Where a handover's interrupt is not later than the handover was put off for
\* (LED_PARK_DELAY_US, pioled.c 83), the pin is taken from no pixel that waits
\* or is going out, unless pixels are asked for faster than they go (led_park,
\* 480-517; the delay behind a reset, 594).
THEOREM UnhurriedPixelsKept == ASSUME Timely PROVE Spec => []CutOnlyIfHurried
<1>1. PinInv => CutOnlyIfHurried
  BY DEF PinInv, PinOk, CutInv, CutOnlyIfHurried
<1> QED BY <1>1, PinWatched, PTL

\* Frames come and holds end no later than a millisecond and three interrupts
\* after they are due, whichever core set the alarm last and with what reading
\* of the time (led_rearm, pioled.c 704-758; pio_led_frame, 861-896), where no
\* hold and no interval comes within a few milliseconds of half the counter's
\* range.
THEOREM FramesInTime == ASSUME Roomy PROVE Spec => []FramesOnTime
<1>1. Init => FrInv
  BY FrInit
<1>2. PinInv /\ IInv /\ FrInv /\ [Next]_vars => FrInv'
  BY FrNext
<1>3. PinInv /\ FrInv => FramesOnTime
  BY FrInTime
<1> QED BY <1>1, <1>2, <1>3, PinWatched, Invariance, PTL DEF Spec
==============================================================================
