--------------------------- MODULE ExclusiveMode ---------------------------
(***************************************************************************)
(* Exclusive mode: how a plugin on one core stops the other core so that   *)
(* flash, out of which both execute, can be erased and programmed.         *)
(*                                                                         *)
(* The cores exchange three words over the two inter-core FIFOs.  The core *)
(* that wants the device pushes REQUEST and waits for ACK; the other finds *)
(* the request when its main loop calls ora_yield, copies a stub to its    *)
(* stack, masks its interrupts, answers ACK and spins in RAM until RESUME. *)
(* The holder masks its own interrupts, takes flash off line, restores it, *)
(* and only then pushes RESUME (nv_flash_write of the host-control plugin, *)
(* the flash operations of ext-flash).                                     *)
(*                                                                         *)
(* Core 1 runs the system plugin.  Core 0 runs the user plugin, or, when   *)
(* none was launched, a firmware loop that calls ora_yield.                *)
(***************************************************************************)
EXTENDS Integers, Sequences, FiniteSets

CONSTANTS
  Requesters,   \* cores whose plugin asks for exclusive mode
  Layouts,      \* what slots 0 and 1 may hold
  FifoDepth     \* words an inter-core FIFO holds (4 on RP2350)

Cores == {0, 1}
Other(c) == 1 - c

SystemSlot == {"yields", "stubborn"}
\* Slot 1: nothing, an ordinary ROM image, a user plugin that does or does not
\* declare yield support, or a user plugin outside flash, never launched.
UserSlot == {"absent", "rom", "yields", "stubborn", "outside"}

ASSUME RequestersAssumption == Requesters \subseteq Cores
ASSUME LayoutsAssumption == Layouts \subseteq [system : SystemSlot, slot1 : UserSlot]
ASSUME DepthAssumption == FifoDepth \in Nat /\ FifoDepth >= 2

VARIABLES
  layout,   \* the slot table; fixed at boot
  fifo,     \* fifo[c]: words on their way to core c, oldest first
  pc,       \* where each core is
  irq       \* irq[c]: core c takes interrupts

vars == <<layout, fifo, pc, irq>>

\* other_core_yield_capability_from: 1 ask, 0 proceed without asking, -1 refuse.
Capability_AnyPlugin(l, c) == IF c = 1 /\ l.slot1 = "rom" THEN 0 ELSE 1
Capability(l, c) ==
  IF c = 0
  THEN IF l.system = "yields" THEN 1 ELSE -1
  ELSE CASE l.slot1 \in {"absent", "outside", "yields"} -> 1
         [] l.slot1 = "rom"                             -> 0
         [] OTHER                                       -> -1

\* Core 1 runs the system plugin; core 0 runs the user plugin if one is
\* launched, and otherwise a firmware loop that asks for nothing.
RunsPlugin(l, c) == c = 1 \/ l.slot1 \in {"yields", "stubborn"}

\* Whether the code on a core calls ora_yield in its main loop.
Yields(c) == IF c = 1 THEN layout.system = "yields" ELSE layout.slot1 # "stubborn"

Init ==
  /\ layout \in Layouts
  /\ fifo = [c \in Cores |-> <<>>]
  /\ pc = [c \in Cores |-> "run"]
  /\ irq = [c \in Cores |-> TRUE]

----------------------------------------------------------------------------
Goto(c, from, to) == pc[c] = from /\ pc' = [pc EXCEPT ![c] = to]

\* Spin until the FIFO takes the word; spin until there is a word to take.
Push(c, w) ==
  /\ Len(fifo[Other(c)]) < FifoDepth
  /\ fifo' = [fifo EXCEPT ![Other(c)] = Append(@, w)]
Pop(c) == fifo[c] # <<>> /\ fifo' = [fifo EXCEPT ![c] = Tail(@)]

SetIrq(c, on) == irq' = [irq EXCEPT ![c] = on]

\* ora_enter_exclusive_mode: refused, granted without a word, or asked for.
Enter(c) ==
  /\ c \in Requesters /\ RunsPlugin(layout, c)
  /\ \/ Capability(layout, c) = 0 /\ Goto(c, "run", "granted")
     \/ Capability(layout, c) = 1 /\ Goto(c, "run", "request")
  /\ UNCHANGED <<layout, fifo, irq>>

Request(c) ==
  /\ Goto(c, "request", "await")
  /\ Push(c, "REQUEST")
  /\ UNCHANGED <<layout, irq>>

\* Anything but an ACK is thrown away, and the core goes on waiting.
IsAck(w) == w = "ACK"

Await(c) ==
  /\ pc[c] = "await" /\ Pop(c)
  /\ pc' = [pc EXCEPT ![c] = IF IsAck(Head(fifo[c])) THEN "granted" ELSE "await"]
  /\ UNCHANGED <<layout, irq>>

\* The holder's own interrupts are masked before flash goes off line ...
MaskIrq_Omitted(c) == Goto(c, "granted", "masked") /\ UNCHANGED <<layout, fifo, irq>>
MaskIrq(c) ==
  /\ Goto(c, "granted", "masked")
  /\ SetIrq(c, FALSE)
  /\ UNCHANGED <<layout, fifo>>

TakeFlash(c) == Goto(c, "masked", "flash") /\ UNCHANGED <<layout, fifo, irq>>

\* ... and stay masked until it is back.
RestoreFlash_ResumeFirst(c) ==
  Goto(c, "flash", "restored") /\ Push(c, "RESUME") /\ UNCHANGED <<layout, irq>>
RestoreFlash(c) == Goto(c, "flash", "restored") /\ UNCHANGED <<layout, fifo, irq>>

UnmaskIrq(c) ==
  /\ Goto(c, "restored", "leave")
  /\ SetIrq(c, TRUE)
  /\ UNCHANGED <<layout, fifo>>

\* ora_exit_exclusive_mode pushes RESUME whatever the capability was.
Exit_NoResume(c) == Goto(c, "leave", "run") /\ UNCHANGED <<layout, fifo, irq>>
Exit(c) ==
  /\ Goto(c, "leave", "run")
  /\ Push(c, "RESUME")
  /\ UNCHANGED <<layout, irq>>

\* ora_yield takes one word; one that is not a request is logged and dropped.
Yield(c) ==
  /\ pc[c] = "run" /\ Pop(c)
  /\ pc' = [pc EXCEPT ![c] = IF Head(fifo[c]) = "REQUEST" THEN "stub" ELSE "run"]
  /\ UNCHANGED <<layout, irq>>

\* yield_wait_for_resume, from its copy on the stack.
StubMask_Omitted(c) == Goto(c, "stub", "ack") /\ UNCHANGED <<layout, fifo, irq>>
StubMask(c) ==
  /\ Goto(c, "stub", "ack")
  /\ SetIrq(c, FALSE)
  /\ UNCHANGED <<layout, fifo>>

StubAck(c) ==
  /\ Goto(c, "ack", "parked")
  /\ Push(c, "ACK")
  /\ UNCHANGED <<layout, irq>>

Unpark(c) ==
  /\ pc[c] = "parked" /\ Pop(c)
  /\ LET go == Head(fifo[c]) = "RESUME" IN
       /\ pc' = [pc EXCEPT ![c] = IF go THEN "run" ELSE "parked"]
       /\ irq' = [irq EXCEPT ![c] = go]
  /\ UNCHANGED layout

\* Everything a core does once begun, and the call to ora_yield.
Proceed(c) ==
  \/ Request(c) \/ Await(c) \/ MaskIrq(c) \/ TakeFlash(c) \/ RestoreFlash(c)
  \/ UnmaskIrq(c) \/ Exit(c) \/ StubMask(c) \/ StubAck(c) \/ Unpark(c)

Next == \E c \in Cores : Enter(c) \/ Proceed(c) \/ Yield(c)

Spec == Init /\ [][Next]_vars

\* A core goes on with what it has begun, and a core whose plugin declares
\* yield support calls ora_yield again and again.
FairSpec ==
  Spec /\ \A c \in Cores : WF_vars(Proceed(c)) /\ WF_vars(Yields(c) /\ Yield(c))

----------------------------------------------------------------------------
Words    == {"REQUEST", "ACK", "RESUME"}
Granted  == {"granted", "masked", "flash", "restored", "leave"}
InRam    == {"ack", "parked"}

\* Every variable holds a value of its kind, and a FIFO never overflows.
TypeOK ==
  /\ layout \in Layouts
  /\ fifo \in [Cores -> Seq(Words)]
  /\ \A c \in Cores : Len(fifo[c]) <= FifoDepth
  /\ pc \in [Cores -> {"run", "request", "await", "stub"} \cup Granted \cup InRam]
  /\ irq \in [Cores -> BOOLEAN]

\* While one core has flash off line neither core can execute out of it: the
\* other spins in RAM, and no interrupt handler runs on either, since every
\* handler lives in flash (nv_flash_write, yield_wait_for_resume).
FlashExclusive ==
  \A c \in Cores : pc[c] = "flash" =>
    /\ ~irq[c]
    /\ pc[Other(c)] = "parked" /\ ~irq[Other(c)]

\* What api.h promises the caller of ora_enter_exclusive_mode: from its return
\* to the exit the other core is suspended with its interrupts disabled.
SuspendedOnReturn ==
  \A c \in Cores : pc[c] \in Granted => pc[Other(c)] = "parked" /\ ~irq[Other(c)]

\* No core that must push finds the FIFO full: exclusive mode never spins on
\* an inter-core FIFO filled with words nobody reads.
PushNeverBlocks ==
  \A c \in Cores : pc[c] \in {"request", "leave", "ack"} => Len(fifo[Other(c)]) < FifoDepth

\* A parked core resumes only after the holder has put flash back, so that it
\* returns from RAM into code it can read.
ResumesAfterRestore ==
  [][\A c \in Cores : pc[c] = "parked" /\ pc'[c] = "run" => pc[Other(c)] \notin Granted]_vars

\* A core that enters exclusive mode is granted it, does its work and is back
\* in its main loop (ora_enter_exclusive_mode's wait for an ACK and
\* ora_exit_exclusive_mode's wait for room in the FIFO both end), unless two
\* cores wait for each other.
EnterCompletesAlone ==
  \A c \in Cores :
    (pc[c] \in {"request", "await"} \cup Granted)
      ~> (pc[c] = "run" \/ \A d \in Cores : pc[d] = "await")

\* A core that stopped for the other is resumed (yield_wait_for_resume).
ParkedResumes == \A c \in Cores : (pc[c] \in {"stub"} \cup InRam) ~> (pc[c] = "run")

\* The handshake implements the lock the API describes.
Holders == {c \in Cores : pc[c] \in Granted}
Stopped == {c \in Cores : pc[c] \in InRam}

Lock == INSTANCE ExclusiveLock WITH holder <- Holders, stopped <- Stopped
LockSpec == Lock!Spec

----------------------------------------------------------------------------
(* The inductive invariant: every state of the handshake is one of these   *)
(* forms of the two program counters and the words in flight.              *)

Quiet(c) == fifo[c] = <<>>

\* Neither core is stopped.  A request may be on its way, or, when both asked
\* at once, already thrown away by a core that was itself waiting for an ACK.
BothUp ==
  \A c \in Cores :
    /\ pc[c] \in {"run", "request", "await"}
    /\ pc[c] # "await" => Quiet(Other(c))
    /\ pc[c] = "await" => \/ fifo[Other(c)] = <<"REQUEST">>
                          \/ Quiet(Other(c)) /\ pc[Other(c)] = "await"

\* c's request was taken and the other core is on its way to stopping.
Stopping(c) ==
  pc[c] = "await" /\ pc[Other(c)] \in {"stub", "ack"} /\ Quiet(c) /\ Quiet(Other(c))

Acked(c) ==
  pc[c] = "await" /\ pc[Other(c)] = "parked" /\ fifo[c] = <<"ACK">> /\ Quiet(Other(c))

Held(c) ==
  pc[c] \in Granted /\ pc[Other(c)] = "parked" /\ Quiet(c) /\ Quiet(Other(c))

\* c is done; the other core has yet to see the RESUME, and c may ask again.
Releasing(c) ==
  /\ pc[Other(c)] = "parked" /\ Quiet(c)
  /\ \/ pc[c] \in {"run", "request"} /\ fifo[Other(c)] = <<"RESUME">>
     \/ pc[c] = "await" /\ fifo[Other(c)] = <<"RESUME", "REQUEST">>

Handshake ==
  BothUp \/ \E c \in Cores : Stopping(c) \/ Acked(c) \/ Held(c) \/ Releasing(c)

Masked == \A c \in Cores :
  irq[c] = (pc[c] \notin {"masked", "flash", "restored", "ack", "parked"})

\* Every requester is told to ask; none is told there is nobody to stop.
AllAsk == \A l \in Layouts, c \in Requesters : Capability(l, c) # 0

IInv == TypeOK /\ Handshake /\ Masked
=============================================================================
