------------------------ MODULE ExclusiveModeProofs ------------------------
(***************************************************************************)
(* Exclusive mode is exclusive for every FIFO depth, every set of layouts  *)
(* and every set of requesters in which each requester is told to ask.     *)
(*                                                                         *)
(* The argument rests on the handshake being half duplex: at any moment    *)
(* the two FIFOs hold one of a handful of word sequences, fixed by where   *)
(* the cores are.  IInv lists them.  The only state in which two words are *)
(* in one FIFO is a holder that has left and asks again before the other   *)
(* core has seen the RESUME.                                               *)
(***************************************************************************)
EXTENDS ExclusiveMode, SequenceTheorems, TLAPS

\* There are two cores and each has the other one for its partner.
LEMMA CoreFacts ==
  ASSUME NEW c \in Cores
  PROVE  /\ Other(c) \in Cores /\ Other(c) # c /\ Other(Other(c)) = c
         /\ \A x \in Cores : x = c \/ x = Other(c)
  BY DEF Cores, Other

\* What pushing and popping does to the short word sequences in flight.
LEMMA WordSeqs ==
  ASSUME NEW v \in Words, NEW w \in Words
  PROVE  /\ Append(<<>>, w) = <<w>> /\ Append(<<v>>, w) = <<v, w>>
         /\ Head(<<w>>) = w /\ Tail(<<w>>) = <<>>
         /\ Head(<<v, w>>) = v /\ Tail(<<v, w>>) = <<w>>
         /\ <<w>> # <<>> /\ <<v, w>> # <<>>
         /\ Len(<<>>) = 0 /\ Len(<<w>>) = 1 /\ Len(<<v, w>>) = 2
  <1>1. Append(<<v>>, w) = <<v, w>>
    <2>1. Append(<<v>>, w) \in Seq(Words) /\ <<v, w>> \in Seq(Words)
      OBVIOUS
    <2>2. Len(Append(<<v>>, w)) = Len(<<v, w>>)
      OBVIOUS
    <2>3. \A i \in 1..Len(Append(<<v>>, w)) : Append(<<v>>, w)[i] = <<v, w>>[i]
      OBVIOUS
    <2> QED
      BY <2>1, <2>2, <2>3, SeqEqual
  <1> QED
    BY <1>1

\* At launch both cores run, no word is in flight and no interrupt is masked.
LEMMA InitInv == Init => IInv
  <1> SUFFICES ASSUME Init PROVE IInv
    OBVIOUS
  <1>1. TypeOK
    BY DepthAssumption DEF Init, TypeOK, Words, Cores, Other
  <1>2. BothUp
    BY CoreFacts DEF Init, BothUp, Quiet
  <1>3. Masked
    BY DEF Init, Masked
  <1> QED
    BY <1>1, <1>2, <1>3 DEF IInv, Handshake
----------------------------------------------------------------------------
(* Types and masks are inductive without regard to the handshake.          *)

\* A step that changes nothing preserves the invariant.
LEMMA StutterInv == IInv /\ UNCHANGED vars => IInv'
  BY DEF vars, IInv, TypeOK, Masked, Handshake, BothUp, Stopping, Acked, Held,
         Releasing, Quiet

\* One word more in a FIFO with room, or one fewer.
LEMMA FifoStep ==
  ASSUME TypeOK, NEW c \in Cores, NEW w \in Words, Push(c, w) \/ Pop(c)
  PROVE  fifo' \in [Cores -> Seq(Words)] /\ \A x \in Cores : Len(fifo'[x]) <= FifoDepth
  <1>1. Other(c) \in Cores /\ FifoDepth \in Nat
    BY CoreFacts, DepthAssumption
  <1>2. CASE Push(c, w)
    <2>1. /\ Append(fifo[Other(c)], w) \in Seq(Words)
          /\ Len(Append(fifo[Other(c)], w)) <= FifoDepth
      BY <1>1, <1>2 DEF TypeOK, Push
    <2> QED
      BY <1>1, <1>2, <2>1 DEF TypeOK, Push
  <1>3. CASE Pop(c)
    <2>1. Tail(fifo[c]) \in Seq(Words) /\ Len(Tail(fifo[c])) <= FifoDepth
      BY <1>1, <1>3, HeadTailProperties DEF TypeOK, Pop
    <2> QED
      BY <1>1, <1>3, <2>1 DEF TypeOK, Pop
  <1> QED
    BY <1>2, <1>3

\* No step of enter, yield, stub or exit leaves a variable's type.
LEMMA TypeStep == TypeOK /\ Next => TypeOK'
  <1> SUFFICES ASSUME TypeOK, NEW c \in Cores, Enter(c) \/ Proceed(c) \/ Yield(c)
               PROVE  TypeOK'
    BY DEF Next
  <1> DEFINE States == {"run", "request", "await", "stub"} \cup Granted \cup InRam
  <1>1. layout' = layout
    BY DEF Enter, Proceed, Yield, Request, Await, MaskIrq, TakeFlash, RestoreFlash,
           UnmaskIrq, Exit, StubMask, StubAck, Unpark
  <1>2. pc' \in [Cores -> States]
    BY DEF TypeOK, Granted, InRam, Goto, Enter, Proceed, Yield, Request, Await, MaskIrq,
           TakeFlash, RestoreFlash, UnmaskIrq, Exit, StubMask, StubAck, Unpark
  <1>3. irq' \in [Cores -> BOOLEAN]
    BY DEF TypeOK, SetIrq, Enter, Proceed, Yield, Request, Await, MaskIrq,
           TakeFlash, RestoreFlash, UnmaskIrq, Exit, StubMask, StubAck, Unpark
  <1>4. fifo' \in [Cores -> Seq(Words)] /\ \A x \in Cores : Len(fifo'[x]) <= FifoDepth
    <2>1. CASE fifo' = fifo
      BY <2>1 DEF TypeOK
    <2>2. CASE fifo' # fifo
      <3>1. Pop(c) \/ \E w \in Words : Push(c, w)
        BY <2>2 DEF Words, Enter, Proceed, Yield, Request, Await, MaskIrq, TakeFlash,
                    RestoreFlash, UnmaskIrq, Exit, StubMask, StubAck, Unpark
      <3>2. \E w \in Words : TRUE
        BY DEF Words
      <3> QED
        BY <3>1, <3>2, FifoStep
    <2> QED
      BY <2>1, <2>2
  <1> QED
    BY <1>1, <1>2, <1>3, <1>4 DEF TypeOK

\* Interrupts are masked where the stub and the flash window mask them, and
\* nowhere else.
LEMMA MaskStep == TypeOK /\ Masked /\ Next => Masked'
  <1> SUFFICES ASSUME TypeOK, Masked, NEW c \in Cores, Enter(c) \/ Proceed(c) \/ Yield(c)
               PROVE  Masked'
    BY DEF Next
  <1> USE DEF TypeOK, Masked, Goto, SetIrq, Granted, InRam
  <1>1. CASE Enter(c) \/ Request(c) \/ Await(c) \/ Yield(c)
    BY <1>1 DEF Enter, Request, Await, Yield
  <1>2. CASE MaskIrq(c) \/ TakeFlash(c) \/ RestoreFlash(c) \/ UnmaskIrq(c) \/ Exit(c)
    BY <1>2 DEF MaskIrq, TakeFlash, RestoreFlash, UnmaskIrq, Exit
  <1>3. CASE StubMask(c) \/ StubAck(c)
    BY <1>3 DEF StubMask, StubAck
  <1>4. CASE Unpark(c)
    BY <1>4 DEF Unpark
  <1> QED
    BY <1>1, <1>2, <1>3, <1>4 DEF Proceed
----------------------------------------------------------------------------
(* The handshake.  c is the core that moves and d the other one.           *)

\* Every step takes one form of the handshake to another.
LEMMA HandshakeStep ==
  ASSUME TypeOK, Handshake, AllAsk, NEW c \in Cores, Enter(c) \/ Proceed(c) \/ Yield(c)
  PROVE  Handshake'
  <1> DEFINE d == Other(c)
  <1>0. /\ d \in Cores /\ d # c /\ Other(d) = c /\ Other(c) = d
        /\ \A x \in Cores : x = c \/ x = d
    BY CoreFacts
  <1> HIDE DEF d
  <1>w. /\ \A w \in Words : /\ Append(<<>>, w) = <<w>> /\ <<w>> # <<>>
                            /\ Head(<<w>>) = w /\ Tail(<<w>>) = <<>>
        /\ \A v, w \in Words : /\ Append(<<v>>, w) = <<v, w>> /\ <<v, w>> # <<>>
                               /\ Head(<<v, w>>) = v /\ Tail(<<v, w>>) = <<w>>
    BY WordSeqs
  <1>h. \/ BothUp
        \/ Stopping(c) \/ Acked(c) \/ Held(c) \/ Releasing(c)
        \/ Stopping(d) \/ Acked(d) \/ Held(d) \/ Releasing(d)
    BY <1>0 DEF Handshake
  <1>1. CASE Enter(c)
    <2>1. pc[c] = "run" /\ pc' = [pc EXCEPT ![c] = "request"] /\ fifo' = fifo
      BY <1>1 DEF Enter, Goto, AllAsk, TypeOK
    <2>2. BothUp \/ Releasing(c)
      BY <2>1, <1>h, <1>0 DEF BothUp, Stopping, Acked, Held, Releasing,
                              Quiet, Granted, InRam
    <2>3. /\ pc'[c] = "request" /\ pc'[d] = pc[d]
      BY <2>1, <1>0 DEF TypeOK
    <2>4. CASE BothUp
      <3>1. BothUp'
        BY <2>1, <2>3, <2>4, <1>0 DEF BothUp, Quiet
      <3> QED
        BY <3>1 DEF Handshake
    <2>5. CASE Releasing(c)
      <3>1. Releasing(c)'
        BY <2>1, <2>3, <2>5, <1>0 DEF Releasing, Quiet
      <3> QED
        BY <3>1 DEF Handshake
    <2> QED
      BY <2>2, <2>4, <2>5
  <1>2. CASE Request(c)
    <2>1. \/ BothUp /\ fifo[d] = <<>>
          \/ Releasing(c) /\ fifo[d] = <<"RESUME">>
      BY <1>2, <1>h, <1>0 DEF Request, Goto, Push, BothUp, Stopping, Acked, Held, Releasing,
                              Quiet, Granted, InRam
    <2>2. /\ pc'[d] = pc[d] /\ fifo'[c] = fifo[c]
          /\ pc'[c] = "await" /\ fifo'[d] = Append(fifo[d], "REQUEST")
      BY <1>2, <1>0 DEF Request, Goto, Push, TypeOK
    <2>3. CASE BothUp /\ fifo[d] = <<>>
      <3>1. fifo'[d] = <<"REQUEST">>
        BY <2>2, <2>3, <1>w DEF Words
      <3>2. BothUp'
        BY <2>2, <2>3, <3>1, <1>0 DEF BothUp, Stopping, Acked, Held, Releasing,
                                      Quiet, Granted, InRam
      <3> QED
        BY <3>2, <1>0 DEF Handshake
    <2>4. CASE Releasing(c) /\ fifo[d] = <<"RESUME">>
      <3>1. fifo'[d] = <<"RESUME", "REQUEST">>
        BY <2>2, <2>4, <1>w DEF Words
      <3>2. Releasing(c)'
        BY <2>2, <2>4, <3>1, <1>0 DEF BothUp, Stopping, Acked, Held, Releasing,
                                      Quiet, Granted, InRam
      <3> QED
        BY <3>2, <1>0 DEF Handshake
    <2> QED
      BY <2>1, <2>3, <2>4
  <1>3. CASE Await(c)
    <2>1. \/ BothUp /\ fifo[c] = <<"REQUEST">> /\ pc[c] = "await" /\ pc[d] = "await"
          \/ Acked(c) /\ fifo[c] = <<"ACK">>
      BY <1>3, <1>h, <1>0 DEF Await, IsAck, Pop, BothUp, Stopping, Acked, Held, Releasing,
                              Quiet, Granted, InRam
    <2>2. /\ pc'[d] = pc[d] /\ fifo'[d] = fifo[d] /\ fifo'[c] = Tail(fifo[c])
          /\ pc'[c] = IF Head(fifo[c]) = "ACK" THEN "granted" ELSE "await"
      BY <1>3, <1>0 DEF Await, IsAck, Pop, TypeOK
    <2>3. CASE BothUp /\ fifo[c] = <<"REQUEST">> /\ pc[c] = "await" /\ pc[d] = "await"
      <3>1. fifo'[c] = <<>> /\ pc'[c] = "await"
        BY <2>2, <2>3, <1>w DEF Words
      <3>2. BothUp'
        BY <2>2, <2>3, <3>1, <1>0 DEF BothUp, Stopping, Acked, Held, Releasing,
                                      Quiet, Granted, InRam
      <3> QED
        BY <3>2, <1>0 DEF Handshake
    <2>4. CASE Acked(c) /\ fifo[c] = <<"ACK">>
      <3>1. fifo'[c] = <<>> /\ pc'[c] = "granted"
        BY <2>2, <2>4, <1>w DEF Words
      <3>2. Held(c)'
        BY <2>2, <2>4, <3>1, <1>0 DEF BothUp, Stopping, Acked, Held, Releasing,
                                      Quiet, Granted, InRam
      <3> QED
        BY <3>2, <1>0 DEF Handshake
    <2> QED
      BY <2>1, <2>3, <2>4
  <1>4. CASE MaskIrq(c)
    <2>1. Held(c)
      BY <1>4, <1>h, <1>0 DEF MaskIrq, Goto, SetIrq, BothUp, Stopping, Acked, Held, Releasing,
                              Quiet, Granted, InRam
    <2>2. /\ pc'[d] = pc[d] /\ fifo'[c] = fifo[c] /\ fifo'[d] = fifo[d] /\ pc'[c] = "masked"
      BY <1>4, <1>0 DEF MaskIrq, Goto, SetIrq, TypeOK
    <2>3. Held(c)'
      BY <2>2, <2>1, <1>0 DEF BothUp, Stopping, Acked, Held, Releasing,
                              Quiet, Granted, InRam
    <2> QED
      BY <2>3, <1>0 DEF Handshake
  <1>5. CASE TakeFlash(c)
    <2>1. Held(c)
      BY <1>5, <1>h, <1>0 DEF TakeFlash, Goto, BothUp, Stopping, Acked, Held, Releasing,
                              Quiet, Granted, InRam
    <2>2. /\ pc'[d] = pc[d] /\ fifo'[c] = fifo[c] /\ fifo'[d] = fifo[d] /\ pc'[c] = "flash"
      BY <1>5, <1>0 DEF TakeFlash, Goto, TypeOK
    <2>3. Held(c)'
      BY <2>2, <2>1, <1>0 DEF BothUp, Stopping, Acked, Held, Releasing,
                              Quiet, Granted, InRam
    <2> QED
      BY <2>3, <1>0 DEF Handshake
  <1>6. CASE RestoreFlash(c)
    <2>1. Held(c)
      BY <1>6, <1>h, <1>0 DEF RestoreFlash, Goto, BothUp, Stopping, Acked, Held, Releasing,
                              Quiet, Granted, InRam
    <2>2. /\ pc'[d] = pc[d] /\ fifo'[c] = fifo[c] /\ fifo'[d] = fifo[d] /\ pc'[c] = "restored"
      BY <1>6, <1>0 DEF RestoreFlash, Goto, TypeOK
    <2>3. Held(c)'
      BY <2>2, <2>1, <1>0 DEF BothUp, Stopping, Acked, Held, Releasing,
                              Quiet, Granted, InRam
    <2> QED
      BY <2>3, <1>0 DEF Handshake
  <1>7. CASE UnmaskIrq(c)
    <2>1. Held(c)
      BY <1>7, <1>h, <1>0 DEF UnmaskIrq, Goto, SetIrq, BothUp, Stopping, Acked, Held, Releasing,
                              Quiet, Granted, InRam
    <2>2. /\ pc'[d] = pc[d] /\ fifo'[c] = fifo[c] /\ fifo'[d] = fifo[d] /\ pc'[c] = "leave"
      BY <1>7, <1>0 DEF UnmaskIrq, Goto, SetIrq, TypeOK
    <2>3. Held(c)'
      BY <2>2, <2>1, <1>0 DEF BothUp, Stopping, Acked, Held, Releasing,
                              Quiet, Granted, InRam
    <2> QED
      BY <2>3, <1>0 DEF Handshake
  <1>8. CASE Exit(c)
    <2>1. Held(c) /\ fifo[d] = <<>>
      BY <1>8, <1>h, <1>0 DEF Exit, Goto, Push, BothUp, Stopping, Acked, Held, Releasing,
                              Quiet, Granted, InRam
    <2>2. /\ pc'[d] = pc[d] /\ fifo'[c] = fifo[c]
          /\ pc'[c] = "run" /\ fifo'[d] = Append(fifo[d], "RESUME")
      BY <1>8, <1>0 DEF Exit, Goto, Push, TypeOK
    <2>3. fifo'[d] = <<"RESUME">>
      BY <2>2, <2>1, <1>w DEF Words
    <2>4. Releasing(c)'
      BY <2>2, <2>1, <2>3, <1>0 DEF BothUp, Stopping, Acked, Held, Releasing,
                                    Quiet, Granted, InRam
    <2> QED
      BY <2>4, <1>0 DEF Handshake
  <1>9. CASE StubMask(c)
    <2>1. Stopping(d)
      BY <1>9, <1>h, <1>0 DEF StubMask, Goto, SetIrq, BothUp, Stopping, Acked, Held, Releasing,
                              Quiet, Granted, InRam
    <2>2. /\ pc'[d] = pc[d] /\ fifo'[c] = fifo[c] /\ fifo'[d] = fifo[d] /\ pc'[c] = "ack"
      BY <1>9, <1>0 DEF StubMask, Goto, SetIrq, TypeOK
    <2>3. Stopping(d)'
      BY <2>2, <2>1, <1>0 DEF BothUp, Stopping, Acked, Held, Releasing,
                              Quiet, Granted, InRam
    <2> QED
      BY <2>3, <1>0 DEF Handshake
  <1>10. CASE StubAck(c)
    <2>1. Stopping(d) /\ fifo[d] = <<>>
      BY <1>10, <1>h, <1>0 DEF StubAck, Goto, Push, BothUp, Stopping, Acked, Held, Releasing,
                               Quiet, Granted, InRam
    <2>2. /\ pc'[d] = pc[d] /\ fifo'[c] = fifo[c]
          /\ pc'[c] = "parked" /\ fifo'[d] = Append(fifo[d], "ACK")
      BY <1>10, <1>0 DEF StubAck, Goto, Push, TypeOK
    <2>3. fifo'[d] = <<"ACK">>
      BY <2>2, <2>1, <1>w DEF Words
    <2>4. Acked(d)'
      BY <2>2, <2>1, <2>3, <1>0 DEF BothUp, Stopping, Acked, Held, Releasing,
                                    Quiet, Granted, InRam
    <2> QED
      BY <2>4, <1>0 DEF Handshake
  <1>11. CASE Unpark(c)
    <2>1. \/ Releasing(d) /\ fifo[c] = <<"RESUME">> /\ pc[d] \in {"run", "request"}
          \/ Releasing(d) /\ fifo[c] = <<"RESUME", "REQUEST">> /\ pc[d] = "await"
      BY <1>11, <1>h, <1>0 DEF Unpark, SetIrq, Pop, BothUp, Stopping, Acked, Held, Releasing,
                               Quiet, Granted, InRam
    <2>2. /\ pc'[d] = pc[d] /\ fifo'[d] = fifo[d] /\ fifo'[c] = Tail(fifo[c])
          /\ pc'[c] = IF Head(fifo[c]) = "RESUME" THEN "run" ELSE "parked"
      BY <1>11, <1>0 DEF Unpark, SetIrq, Pop, TypeOK
    <2>3. CASE Releasing(d) /\ fifo[c] = <<"RESUME">> /\ pc[d] \in {"run", "request"}
      <3>1. fifo'[c] = <<>> /\ pc'[c] = "run"
        BY <2>2, <2>3, <1>w DEF Words
      <3>2. BothUp'
        BY <2>2, <2>3, <3>1, <1>0 DEF BothUp, Stopping, Acked, Held, Releasing,
                                      Quiet, Granted, InRam
      <3> QED
        BY <3>2, <1>0 DEF Handshake
    <2>4. CASE Releasing(d) /\ fifo[c] = <<"RESUME", "REQUEST">> /\ pc[d] = "await"
      <3>1. fifo'[c] = <<"REQUEST">> /\ pc'[c] = "run"
        BY <2>2, <2>4, <1>w DEF Words
      <3>2. BothUp'
        BY <2>2, <2>4, <3>1, <1>0 DEF BothUp, Stopping, Acked, Held, Releasing,
                                      Quiet, Granted, InRam
      <3> QED
        BY <3>2, <1>0 DEF Handshake
    <2> QED
      BY <2>1, <2>3, <2>4
  <1>12. CASE Yield(c)
    <2>1. BothUp /\ fifo[c] = <<"REQUEST">> /\ pc[d] = "await" /\ fifo[d] = <<>>
      BY <1>12, <1>h, <1>0 DEF Yield, Pop, BothUp, Stopping, Acked, Held, Releasing,
                               Quiet, Granted, InRam
    <2>2. /\ pc'[d] = pc[d] /\ fifo'[d] = fifo[d] /\ fifo'[c] = Tail(fifo[c])
          /\ pc'[c] = IF Head(fifo[c]) = "REQUEST" THEN "stub" ELSE "run"
      BY <1>12, <1>0 DEF Yield, Pop, TypeOK
    <2>3. fifo'[c] = <<>> /\ pc'[c] = "stub"
      BY <2>2, <2>1, <1>w DEF Words
    <2>4. Stopping(d)'
      BY <2>2, <2>1, <2>3, <1>0 DEF BothUp, Stopping, Acked, Held, Releasing,
                                    Quiet, Granted, InRam
    <2> QED
      BY <2>4, <1>0 DEF Handshake
  <1> QED
    BY <1>1, <1>2, <1>3, <1>4, <1>5, <1>6, <1>7, <1>8, <1>9, <1>10, <1>11, <1>12 DEF Proceed
----------------------------------------------------------------------------
(* The theorems.                                                           *)

\* Every variable keeps its type and no FIFO overflows, whatever the slots
\* hold and whoever asks.
THEOREM TypeCorrect == Spec => []TypeOK
  <1>1. Init => TypeOK
    BY InitInv DEF IInv
  <1>2. TypeOK /\ UNCHANGED vars => TypeOK'
    BY DEF TypeOK, vars
  <1> QED
    BY <1>1, <1>2, TypeStep, PTL DEF Spec

\* The two cores are always in one of the forms the handshake has, given that
\* whoever enters exclusive mode is told to ask.
THEOREM Invariance == ASSUME AllAsk PROVE Spec => []IInv
  <1>1. IInv /\ Next => IInv'
    BY TypeStep, MaskStep, HandshakeStep, AllAsk DEF Next, IInv
  <1> QED
    BY <1>1, InitInv, StutterInv, PTL DEF Spec

\* Two holders, or a holder and a core still running, do not exist.
LEMMA HolderFacts ==
  ASSUME IInv, NEW c \in Cores, pc[c] \in Granted
  PROVE  Held(c)
  <1>1. Other(c) \in Cores /\ Other(Other(c)) = c /\ \A x \in Cores : x = c \/ x = Other(c)
    BY CoreFacts
  <1> QED
    BY <1>1 DEF IInv, Handshake, BothUp, Stopping, Acked, Held, Releasing,
                Granted, InRam

\* From the return of ora_enter_exclusive_mode to the exit the other core is
\* suspended with its interrupts disabled.
THEOREM Suspends == ASSUME AllAsk PROVE Spec => []SuspendedOnReturn
  <1>1. IInv => SuspendedOnReturn
    BY HolderFacts, CoreFacts DEF SuspendedOnReturn, IInv, Held, Masked
  <1> QED
    BY <1>1, Invariance, AllAsk, PTL

\* Nothing runs out of flash, on either core, while flash is off line.
THEOREM FlashIsExclusive == ASSUME AllAsk PROVE Spec => []FlashExclusive
  <1>1. IInv => FlashExclusive
    BY HolderFacts, CoreFacts DEF FlashExclusive, IInv, Held, Masked, Granted
  <1> QED
    BY <1>1, Invariance, AllAsk, PTL

\* A word that must be pushed always finds room.
THEOREM PushesFit == ASSUME AllAsk PROVE Spec => []PushNeverBlocks
  <1>1. ASSUME IInv, NEW c \in Cores, pc[c] \in {"request", "leave", "ack"}
        PROVE  Len(fifo[Other(c)]) < FifoDepth
    <2>1. /\ Other(c) \in Cores /\ Other(Other(c)) = c
          /\ \A x \in Cores : x = c \/ x = Other(c)
      BY CoreFacts
    <2>2. fifo[Other(c)] = <<>> \/ fifo[Other(c)] = <<"RESUME">>
      BY <1>1, <2>1 DEF IInv, Handshake, BothUp, Stopping, Acked, Held, Releasing, Quiet,
                        Granted, InRam
    <2>3. Len(<<>>) = 0 /\ Len(<<"RESUME">>) = 1
      OBVIOUS
    <2>4. Len(fifo[Other(c)]) = 0 \/ Len(fifo[Other(c)]) = 1
      BY <2>2, <2>3
    <2>5. 0 < FifoDepth /\ 1 < FifoDepth
      BY DepthAssumption
    <2> QED
      BY <2>4, <2>5
  <1>2. IInv => PushNeverBlocks
    BY <1>1 DEF PushNeverBlocks
  <1> QED
    BY <1>2, Invariance, AllAsk, PTL

\* A core returns from RAM into flash only once flash is back.
THEOREM ResumesInTime == ASSUME AllAsk PROVE Spec => ResumesAfterRestore
  <1>1. ASSUME IInv, Next, NEW c \in Cores, pc[c] = "parked", pc'[c] = "run"
        PROVE  pc[Other(c)] \notin Granted
    <2> SUFFICES ASSUME pc[Other(c)] \in Granted PROVE FALSE
      OBVIOUS
    <2>1. Other(c) \in Cores /\ Other(Other(c)) = c /\ Other(c) # c
      BY CoreFacts
    <2>2. fifo[c] = <<>>
      BY <2>1, HolderFacts, <1>1 DEF Held, Quiet
    <2>3. PICK x \in Cores : Enter(x) \/ Proceed(x) \/ Yield(x)
      BY <1>1 DEF Next
    <2>4. x = c
      <3>1. CASE Enter(x) \/ Yield(x)
        BY <1>1, <3>1 DEF IInv, TypeOK, Goto, Enter, Yield
      <3>2. CASE Proceed(x)
        <4>1. \E v : pc' = [pc EXCEPT ![x] = v]
          BY <3>2 DEF Proceed, Goto, Request, Await, MaskIrq, TakeFlash, RestoreFlash,
                UnmaskIrq, Exit, StubMask, StubAck, Unpark
        <4> QED
          BY <1>1, <4>1 DEF IInv, TypeOK
      <3> QED
        BY <2>3, <3>1, <3>2
    <2>5. Pop(c)
      BY <1>1, <2>3, <2>4 DEF Proceed, Goto, Enter, Yield, Request, Await,
            MaskIrq, TakeFlash, RestoreFlash, UnmaskIrq, Exit, StubMask, StubAck, Unpark
    <2> QED
      BY <2>2, <2>5 DEF Pop
  <1>2. IInv /\ [Next]_vars =>
          [\A c \in Cores : pc[c] = "parked" /\ pc'[c] = "run"
              => pc[Other(c)] \notin Granted]_vars
    BY <1>1
  <1> QED
    BY <1>2, Invariance, AllAsk, PTL DEF Spec, ResumesAfterRestore
----------------------------------------------------------------------------
(* The handshake implements the lock.  A core is stopped from the stub's   *)
(* masking of interrupts to the RESUME, and holds from the ACK to the exit.*)

\* Every step of the FIFO handshake is a step of the lock or a stutter of it.
LEMMA RefinementStep ==
  ASSUME IInv, AllAsk, Next
  PROVE  Lock!Next \/ UNCHANGED Lock!vars
  <1>1. PICK c \in Cores : Enter(c) \/ Proceed(c) \/ Yield(c)
    BY DEF Next
  <1> DEFINE d == Other(c)
  <1>2. /\ d \in Cores /\ d # c /\ Other(d) = c /\ Other(c) = d
        /\ \A x \in Cores : x = c \/ x = d
    BY CoreFacts
  <1> HIDE DEF d
  <1>3. /\ pc \in [Cores -> {"run", "request", "await", "stub"} \cup Granted \cup InRam]
        /\ layout \in Layouts
    BY DEF IInv, TypeOK
  <1>4. pc'[d] = pc[d]
    <2>1. CASE Enter(c) \/ Yield(c)
      BY <2>1, <1>2, <1>3 DEF Enter, Yield, Goto
    <2>2. CASE Proceed(c)
      <3>1. \E v : pc' = [pc EXCEPT ![c] = v]
        BY <2>2 DEF Proceed, Goto, Request, Await, MaskIrq, TakeFlash, RestoreFlash,
              UnmaskIrq, Exit, StubMask, StubAck, Unpark
      <3> QED
        BY <3>1, <1>2, <1>3
    <2> QED
      BY <1>1, <2>1, <2>2
  <1>5. ASSUME /\ pc'[c] \in Granted <=> pc[c] \in Granted
               /\ pc'[c] \in InRam <=> pc[c] \in InRam
        PROVE  UNCHANGED Lock!vars
    <2>1. Holders' = Holders /\ Stopped' = Stopped
      BY <1>2, <1>4, <1>5 DEF Holders, Stopped
    <2> QED
      BY <2>1 DEF Lock!vars
  <1>6. CASE Enter(c)
    <2>1. pc[c] = "run" /\ pc'[c] = "request"
      BY <1>6, <1>3 DEF Enter, Goto, AllAsk
    <2> QED
      BY <2>1, <1>5 DEF Granted, InRam
  <1>7. CASE Request(c) \/ Yield(c)
    <2>1. pc[c] \in {"run", "request"} /\ pc'[c] \in {"run", "await", "stub"}
      BY <1>7, <1>3 DEF Request, Yield, Goto
    <2> QED
      BY <2>1, <1>5 DEF Granted, InRam
  <1>8. CASE MaskIrq(c) \/ TakeFlash(c) \/ RestoreFlash(c) \/ UnmaskIrq(c)
    <2>1. pc[c] \in Granted /\ pc'[c] \in Granted
      BY <1>8, <1>3 DEF MaskIrq, TakeFlash, RestoreFlash, UnmaskIrq, Goto, Granted
    <2> QED
      BY <2>1, <1>5 DEF Granted, InRam
  <1>9. CASE StubAck(c)
    <2>1. pc[c] = "ack" /\ pc'[c] = "parked"
      BY <1>9, <1>3 DEF StubAck, Goto
    <2> QED
      BY <2>1, <1>5 DEF Granted, InRam
  <1>10. CASE StubMask(c)
    <2>1. pc[c] = "stub" /\ pc'[c] = "ack"
      BY <1>10, <1>3 DEF StubMask, Goto
    <2>2. pc[d] = "await"
      BY <2>1, <1>2 DEF IInv, Handshake, BothUp, Stopping, Acked, Held, Releasing, Granted
    <2>3. Holders = {} /\ Stopped = {} /\ Stopped' = {c} /\ Holders' = Holders
      BY <2>1, <2>2, <1>2, <1>4 DEF Holders, Stopped, Granted, InRam
    <2> QED
      BY <2>3 DEF Lock!Next, Lock!Stop
  <1>11. CASE Await(c)
    <2>1. CASE ~IsAck(Head(fifo[c]))
      <3>1. pc[c] = "await" /\ pc'[c] = "await"
        BY <2>1, <1>11, <1>3 DEF Await
      <3> QED
        BY <3>1, <1>5
    <2>2. CASE IsAck(Head(fifo[c]))
      <3>1. pc[c] = "await" /\ pc'[c] = "granted" /\ fifo[c] # <<>> /\ Head(fifo[c]) = "ACK"
        BY <2>2, <1>11, <1>3 DEF Await, IsAck, Pop
      <3>2. Head(<<"REQUEST">>) # "ACK"
        OBVIOUS
      <3>3. pc[d] = "parked"
        BY <3>1, <3>2, <1>2 DEF IInv, Handshake, BothUp, Stopping, Acked, Held, Releasing,
                                Quiet, Granted
      <3>4. Holders = {} /\ Holders' = {c} /\ Stopped = Cores \ {c} /\ Stopped' = Stopped
        BY <3>1, <3>3, <1>2, <1>4 DEF Holders, Stopped, Granted, InRam
      <3> QED
        BY <3>4 DEF Lock!Next, Lock!Acquire
    <2> QED
      BY <2>1, <2>2
  <1>12. CASE Exit(c)
    <2>1. pc[c] = "leave" /\ pc'[c] = "run"
      BY <1>12, <1>3 DEF Exit, Goto
    <2>2. pc[d] = "parked"
      BY <2>1, HolderFacts DEF Held, Granted, d
    <2>3. Holders = {c} /\ Holders' = {} /\ Stopped' = Stopped
      BY <2>1, <2>2, <1>2, <1>4 DEF Holders, Stopped, Granted, InRam
    <2> QED
      BY <2>3 DEF Lock!Next, Lock!Release
  <1>13. CASE Unpark(c)
    <2>1. CASE Head(fifo[c]) # "RESUME"
      <3>1. pc[c] = "parked" /\ pc'[c] = "parked"
        BY <2>1, <1>13, <1>3 DEF Unpark
      <3> QED
        BY <3>1, <1>5
    <2>2. CASE Head(fifo[c]) = "RESUME"
      <3>1. pc[c] = "parked" /\ pc'[c] = "run" /\ fifo[c] # <<>>
        BY <2>2, <1>13, <1>3 DEF Unpark, Pop
      <3>2. pc[d] \notin Granted
        BY <3>1, <1>2, HolderFacts DEF Held, Quiet
      <3>3. Holders = {} /\ Holders' = {} /\ c \in Stopped /\ Stopped' = Stopped \ {c}
        BY <3>1, <3>2, <1>2, <1>4 DEF Holders, Stopped, Granted, InRam
      <3> QED
        BY <3>3 DEF Lock!Next, Lock!Resume
    <2> QED
      BY <2>1, <2>2
  <1> QED
    BY <1>1, <1>6, <1>7, <1>8, <1>9, <1>10, <1>11, <1>12, <1>13 DEF Proceed

\* What a plugin is promised of exclusive mode is what the FIFO handshake
\* gives it.
THEOREM Refinement == ASSUME AllAsk PROVE Spec => LockSpec
  <1>1. Init => Lock!Init
    BY DEF Init, Lock!Init, Holders, Stopped, Granted, InRam
  <1>2. IInv /\ [Next]_vars => [Lock!Next]_(Lock!vars)
    <2>1. UNCHANGED vars => UNCHANGED Lock!vars
      BY DEF vars, Lock!vars, Holders, Stopped
    <2> QED
      BY <2>1, RefinementStep, AllAsk
  <1> QED
    BY <1>1, <1>2, Invariance, AllAsk, PTL DEF Spec, LockSpec, Lock!Spec
=============================================================================
