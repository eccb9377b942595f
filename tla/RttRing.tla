------------------------------- MODULE RttRing -------------------------------
(***************************************************************************)
(* The ring behind a log channel (src/firmware/src/rtt.c), one access to   *)
(* an offset or a byte per step.  Plugins on two cores, their interrupt    *)
(* handlers and a debug probe use it; a device thread masks interrupts on  *)
(* its own core for the length of a call, and that is the only lock.       *)
(*                                                                         *)
(* A probe is outside the device.  It is taken to do what the device's own *)
(* code does from its side of the channel: sample, copy, then publish.     *)
(***************************************************************************)
EXTENDS Naturals, Sequences

CONSTANTS
    Threads,     \* the cores' main programs, their handlers, the probe
    Boot,        \* the thread that boots the device: core 0's main program
    Handlers,    \* the threads that are interrupt handlers
    Probe,       \* the threads that are a debug probe
    Core,        \* the core of each thread; a probe counts as one
    Roles,       \* ways to use the channel: who writes, who reads, and which
                 \* offset a confused probe scribbles on ("none": it does not)
    Size,        \* the bytes of the ring
    Bytes,
    Records,     \* what writers append
    Asks,        \* how much readers ask for
    Zero         \* a byte of the zeroed buffer

ASSUME ThreadsAssumption ==
    /\ Boot \in Threads \ (Handlers \cup Probe)
    /\ Handlers \subseteq Threads
    /\ Probe \subseteq Threads \ Handlers
    /\ \A t, u \in Threads \ Handlers : Core[t] = Core[u] => t = u
    /\ Roles \subseteq [writers : SUBSET Threads, readers : SUBSET Threads,
                        wild : {"rd", "wr", "none"}]

ASSUME RingAssumption ==
    /\ Size \in Nat \ {0}
    /\ Records \subseteq Seq(Bytes) \ {<< >>}
    /\ Asks \subseteq Nat \ {0}
    /\ Zero \in Bytes

VARIABLES
    role,        \* how the channel is used: one of Roles
    launched,    \* the plugins have been launched
    signed,      \* the control block carries its identifier
    buf, wr, rd, \* the ring: bytes, write_offset, read_offset
    pc, op,      \* where each thread is, and in which call
    data,        \* the record being written, or the bytes copied out so far
    want,        \* the bytes the call is to move
    done,        \* the bytes it has copied in
    off,         \* the offset it starts from, once sampled
    room,        \* what a sole writer's last query said is free, less its writes
    got          \* what the last read that found any bytes returned (neither
                 \* is kept where a probe scribbles: it counts for nothing)

ring  == <<buf, wr, rd>>
call  == <<pc, op, data, want, done, off>>
world == <<role, launched, signed>>
vars  == <<world, ring, call, room, got>>

Index == 0..(Size - 1)

TypeOK ==
    /\ role \in Roles
    /\ launched \in BOOLEAN /\ signed \in BOOLEAN
    /\ buf \in [Index -> Bytes]
    /\ wr \in Nat /\ rd \in Nat
    /\ role.wild # "wr" => wr < Size
    /\ role.wild # "rd" => rd < Size
    /\ pc \in [Threads -> {"idle", "entry", "sign", "wr", "rd", "copy"}]
    /\ op \in [Threads -> {"none", "launch", "write", "read", "query"}]
    /\ data \in [Threads -> Seq(Bytes)]
    /\ want \in [Threads -> Nat] /\ done \in [Threads -> Nat]
    /\ off \in [Threads -> Index]
    /\ room \in Nat
    /\ got \in Seq(Bytes)

-----------------------------------------------------------------------------
\* A probe that keeps to the rules of the offset that is its own.
Tame == role.wild = "none"

(* Offsets.                                                                *)

\* The offset i bytes past o: what the two memcpy calls and the two ways of
\* publishing an offset come to.
Past(o, i) == IF o + i < Size THEN o + i ELSE o + i - Size

\* An offset the other side may have written is range checked before use.
Clamped_OneTooFew(o) == IF o > Size THEN 0 ELSE o
Clamped(o) == IF o >= Size THEN 0 ELSE o

Avail(w, r) == IF r <= w THEN Size - 1 - w + r ELSE r - w - 1

Pending(w, r) == IF w >= r THEN w - r ELSE Size - r + w

Free_CountsTheGap(w, r) == Size - Pending(w, r)
Free(w, r) == Size - 1 - Pending(w, r)

Least(m, n) == IF m <= n THEN m ELSE n

-----------------------------------------------------------------------------
(* Who may run.                                                            *)

\* onerom_rtt_lock: no handler runs on a core that is inside a call.
Masked_Never(t) == FALSE
Masked(t) == \E u \in Threads : Core[u] = Core[t] /\ pc[u] # "idle"

\* A handler returns before the program it interrupted goes on.
Runs(t) ==
    t \in Handlers
        \/ \A h \in Handlers : Core[h] = Core[t] => pc[h] = "idle"

\* Until the plugins are launched only core 0's own program runs.  A probe
\* finds the control block by its identifier.
Alive(t) ==
    IF t \in Probe THEN signed ELSE t = Boot \/ launched

MayCall(t) ==
    /\ pc[t] = "idle"
    /\ Alive(t)
    /\ IF t \in Handlers THEN ~Masked(t) ELSE Runs(t)

Begin(t, o, d, n) ==
    /\ MayCall(t)
    /\ pc' = [pc EXCEPT ![t] = "entry"]
    /\ op' = [op EXCEPT ![t] = o]
    /\ data' = [data EXCEPT ![t] = d]
    /\ want' = [want EXCEPT ![t] = n]
    /\ UNCHANGED <<world, ring, done, off, room, got>>

\* The call returns; its locals are gone.
Return(t) ==
    /\ pc' = [pc EXCEPT ![t] = "idle"]
    /\ op' = [op EXCEPT ![t] = "none"]
    /\ data' = [data EXCEPT ![t] = << >>]
    /\ want' = [want EXCEPT ![t] = 0]
    /\ done' = [done EXCEPT ![t] = 0]
    /\ off' = [off EXCEPT ![t] = 0]

Goto(t, place) ==
    /\ pc' = [pc EXCEPT ![t] = place]
    /\ UNCHANGED <<op, data>>

-----------------------------------------------------------------------------
(* Calls.                                                                  *)

Write(t) ==
    /\ t \in role.writers
    /\ \E r \in Records : Begin(t, "write", r, Len(r))

Read(t) ==
    /\ t \in role.readers
    /\ \E n \in Asks : Begin(t, "read", << >>, n)

\* A writer asks how much is free (usb_log.c does before each write).
Query(t) ==
    /\ t \in role.writers \ Probe
    /\ Begin(t, "query", << >>, 0)

\* onerom_rtt_plugins_init builds the control block before core 1 runs.
Launch(t) ==
    /\ t = Boot /\ ~launched
    /\ Begin(t, "launch", << >>, 0)

\* onerom_rtt_init where the block has been built.
Found(t) ==
    /\ pc[t] = "entry" /\ Runs(t)
    /\ signed
    /\ IF op[t] = "launch"
       THEN Return(t) /\ launched' = TRUE
       ELSE Goto(t, "wr") /\ UNCHANGED <<launched, want, done, off>>
    /\ UNCHANGED <<role, signed, ring, room, got>>

\* onerom_rtt_init where it has not: all but the identifier ...
Build(t) ==
    /\ pc[t] = "entry" /\ Runs(t)
    /\ ~signed
    /\ wr' = 0 /\ rd' = 0
    /\ Goto(t, "sign")
    /\ UNCHANGED <<world, buf, want, done, off, room, got>>

\* ... and then the identifier.
Sign(t) ==
    /\ pc[t] = "sign" /\ Runs(t)
    /\ signed' = TRUE
    /\ IF op[t] = "launch"
       THEN Return(t) /\ launched' = TRUE
       ELSE Goto(t, "wr") /\ UNCHANGED <<launched, want, done, off>>
    /\ UNCHANGED <<role, ring, room, got>>

\* The sample of write_offset.  A write puts a wild value right.
SampleWrite(t) ==
    /\ pc[t] = "wr" /\ Runs(t)
    /\ off' = [off EXCEPT ![t] = Clamped(wr)]
    /\ wr' = IF op[t] = "write" THEN Clamped(wr) ELSE wr
    /\ Goto(t, "rd")
    /\ UNCHANGED <<world, buf, rd, want, done, room, got>>

\* The sample of read_offset, and what each call derives from the two.
RoomToWrite(t) ==
    /\ pc[t] = "rd" /\ op[t] = "write" /\ Runs(t)
    /\ Avail(off[t], Clamped(rd)) >= want[t]
    /\ Goto(t, "copy")
    /\ UNCHANGED <<world, ring, want, done, off, room, got>>

\* Skip mode: the whole record is dropped.
Drop(t) ==
    /\ pc[t] = "rd" /\ op[t] = "write" /\ Runs(t)
    /\ Avail(off[t], Clamped(rd)) < want[t]
    /\ Return(t)
    /\ UNCHANGED <<world, ring, room, got>>

BytesToRead(t) ==
    /\ pc[t] = "rd" /\ op[t] = "read" /\ Runs(t)
    /\ Pending(off[t], Clamped(rd)) > 0
    /\ want' = [want EXCEPT ![t] = Least(@, Pending(off[t], Clamped(rd)))]
    /\ off' = [off EXCEPT ![t] = Clamped(rd)]
    /\ Goto(t, "copy")
    /\ UNCHANGED <<world, ring, done, room, got>>

NothingToRead(t) ==
    /\ pc[t] = "rd" /\ op[t] = "read" /\ Runs(t)
    /\ Pending(off[t], Clamped(rd)) = 0
    /\ Return(t)
    /\ UNCHANGED <<world, ring, room, got>>

Answer(t) ==
    /\ pc[t] = "rd" /\ op[t] = "query" /\ Runs(t)
    /\ room' = IF Tame /\ role.writers = {t} THEN Free(off[t], Clamped(rd)) ELSE 0
    /\ Return(t)
    /\ UNCHANGED <<world, ring, got>>

StoreByte(t) ==
    /\ pc[t] = "copy" /\ op[t] = "write" /\ Runs(t)
    /\ done[t] < want[t]
    /\ buf' = [buf EXCEPT ![Past(off[t], done[t])] = data[t][done[t] + 1]]
    /\ done' = [done EXCEPT ![t] = @ + 1]
    /\ UNCHANGED <<world, wr, rd, pc, op, data, want, off, room, got>>

\* The write_offset that makes the record visible.
PublishWrite(t) ==
    /\ pc[t] = "copy" /\ op[t] = "write" /\ Runs(t)
    /\ done[t] = want[t]
    /\ wr' = Past(off[t], want[t])
    /\ room' = IF want[t] <= room THEN room - want[t] ELSE 0
    /\ Return(t)
    /\ UNCHANGED <<world, buf, rd, got>>

LoadByte(t) ==
    /\ pc[t] = "copy" /\ op[t] = "read" /\ Runs(t)
    /\ Len(data[t]) < want[t]
    /\ data' = [data EXCEPT ![t] = Append(@, buf[Past(off[t], Len(@))])]
    /\ UNCHANGED <<world, ring, pc, op, want, done, off, room, got>>

\* The read_offset that gives the space back.
PublishRead(t) ==
    /\ pc[t] = "copy" /\ op[t] = "read" /\ Runs(t)
    /\ Len(data[t]) = want[t]
    /\ rd' = Past(off[t], want[t])
    /\ got' = IF Tame THEN data[t] ELSE got
    /\ Return(t)
    /\ UNCHANGED <<world, buf, wr, room>>

\* A confused probe leaves any value in the offset that is its own.
Scribble ==
    /\ signed
    /\ \E o \in 0..(Size + 1) :
        \/ role.wild = "rd" /\ rd' = o /\ UNCHANGED wr
        \/ role.wild = "wr" /\ wr' = o /\ UNCHANGED rd
    /\ UNCHANGED <<world, buf, call, room, got>>

-----------------------------------------------------------------------------
Init ==
    /\ role \in Roles
    /\ launched = FALSE /\ signed = FALSE
    /\ buf = [i \in Index |-> Zero]
    /\ wr = 0 /\ rd = 0
    /\ pc = [t \in Threads |-> "idle"]
    /\ op = [t \in Threads |-> "none"]
    /\ data = [t \in Threads |-> << >>]
    /\ want = [t \in Threads |-> 0]
    /\ done = [t \in Threads |-> 0]
    /\ off = [t \in Threads |-> 0]
    /\ room = 0
    /\ got = << >>

Step(t) ==
    \/ Found(t) \/ Build(t) \/ Sign(t)
    \/ SampleWrite(t)
    \/ RoomToWrite(t) \/ Drop(t)
    \/ BytesToRead(t) \/ NothingToRead(t) \/ Answer(t)
    \/ StoreByte(t) \/ PublishWrite(t)
    \/ LoadByte(t) \/ PublishRead(t)

Next ==
    \/ \E t \in Threads :
        Write(t) \/ Read(t) \/ Query(t) \/ Launch(t) \/ Step(t)
    \/ Scribble

Spec == Init /\ [][Next]_vars

-----------------------------------------------------------------------------
(* Properties.                                                             *)

\* The bytes written and not taken.
Queue == [i \in 1..Pending(wr, rd) |-> buf[Past(rd, i - 1)]]

\* To a confused probe nothing is promised.
Fifo == INSTANCE LogFifo
            WITH queue <- IF Tame THEN Queue ELSE << >>,
                 taken <- got,
                 Capacity <- Size - 1

\* A writer on one core, with the handlers that preempt it, and a reader
\* elsewhere, plugin or probe, see a bounded queue: records whole and in
\* order, each byte read once, none read before it is written or after it is
\* overwritten, though neither side ever waits for the other.
FifoSpec == Fifo!Spec

\* Whatever a probe leaves in its offset, no copy leaves the buffer: it starts
\* inside, and what wraps ends before it started (onerom_rtt_avail: the
\* arithmetic would otherwise hand back a free space large enough to walk the
\* write off the end).
StaysInside ==
    \A t \in Threads : pc[t] = "copy" => off[t] < Size /\ want[t] < Size

\* A sole writer that asked how much is free and keeps to it is never refused
\* (usb_log.c takes no more from the terminal than the query said, and has to
\* drop what the channel then refuses).
RoomStands ==
    [][\A t \in Threads :
          role.writers = {t} /\ Drop(t) => want[t] > room]_vars
=============================================================================
