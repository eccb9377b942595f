---------------------------- MODULE RttRingProofs ----------------------------
(***************************************************************************)
(* Proofs about RttRing, for a ring of any size and any set of records:    *)
(* nothing leaves the buffer, whatever a probe does; and where one core    *)
(* writes and one core reads (handlers and the probe included), the ring   *)
(* is a bounded queue of whole records.                                    *)
(***************************************************************************)
EXTENDS RttRing, Integers, TLAPS

\* One core on each side of the channel: what LogClaims gives plugins.
OneEachSide ==
    \A r \in Roles :
        /\ \A t, u \in r.writers : Core[t] = Core[u]
        /\ \A t, u \in r.readers : Core[t] = Core[u]

-----------------------------------------------------------------------------
(* The inductive invariant.                                                *)

\* The interrupt mask: of a core's threads one is in a call.
OnePerCore ==
    \A t, u \in Threads :
        Core[t] = Core[u] /\ pc[t] # "idle" /\ pc[u] # "idle" => t = u

\* The control block is built before anybody but the boot thread calls.
Booting ==
    /\ launched => signed
    /\ ~signed => wr = 0 /\ rd = 0

\* What a thread's place says of its call.
Calls(t) ==
    /\ pc[t] = "idle" =>
         op[t] = "none" /\ data[t] = << >> /\ want[t] = 0 /\ off[t] = 0
    /\ pc[t] # "idle" => op[t] # "none"
    /\ pc[t] # "copy" => done[t] = 0
    /\ pc[t] = "copy" => op[t] \in {"write", "read"}
    /\ op[t] \in {"write", "query"} => t \in role.writers
    /\ op[t] = "read" => t \in role.readers /\ 0 < want[t]
    /\ op[t] = "write" => data[t] \in Records /\ want[t] = Len(data[t])
    /\ op[t] = "read" /\ pc[t] # "copy" => data[t] = << >>
    /\ op[t] = "launch" => t = Boot /\ ~launched /\ pc[t] \in {"entry", "sign"}
    /\ pc[t] = "sign" => ~signed
    /\ pc[t] \in {"wr", "rd", "copy"} => signed
    /\ t # Boot /\ pc[t] # "idle" => signed

\* A writer starts from the write_offset, there is room for its record, and
\* the bytes it has copied are in place behind the queue.
Storing(t) ==
    /\ pc[t] = "rd" /\ op[t] \in {"write", "query"} => off[t] = wr
    /\ pc[t] = "copy" /\ op[t] = "write" =>
        /\ off[t] = wr
        /\ Pending(wr, rd) + want[t] < Size
        /\ done[t] <= want[t]
        /\ \A i \in 1..done[t] : buf[Past(wr, i - 1)] = data[t][i]

\* A reader's sample is not ahead of the queue, it starts from the
\* read_offset, and what it has copied is the front of the queue.
Loading(t) ==
    /\ pc[t] = "rd" /\ op[t] = "read" => Pending(off[t], rd) <= Pending(wr, rd)
    /\ pc[t] = "copy" /\ op[t] = "read" =>
        /\ off[t] = rd
        /\ 0 < want[t] /\ want[t] <= Pending(wr, rd)
        /\ Len(data[t]) <= want[t]
        /\ \A i \in 1..Len(data[t]) : data[t][i] = buf[Past(rd, i - 1)]

\* What a query said is free still is.
Told == room + Pending(wr, rd) < Size

\* Where the probe keeps to the rules of its own offset.
IInv ==
    /\ TypeOK
    /\ Tame
    /\ OnePerCore
    /\ Booting
    /\ Told
    /\ \A t \in Threads : Calls(t) /\ Storing(t) /\ Loading(t)
-----------------------------------------------------------------------------
(* Offsets.                                                                *)

\* Every offset the code derives is inside the ring.
LEMMA PastType ==
    ASSUME NEW o \in Index, NEW i \in 0..Size
    PROVE  Past(o, i) \in Index
BY RingAssumption DEF Past, Index

\* A reader's count and a writer's room fill the ring but for one byte.
LEMMA Counts ==
    ASSUME NEW w \in Index, NEW r \in Index
    PROVE  /\ Pending(w, r) \in 0..(Size - 1)
           /\ Avail(w, r) = Size - 1 - Pending(w, r)
           /\ Free(w, r) = Size - 1 - Pending(w, r)
           /\ Clamped(w) = w /\ Clamped(r) = r
BY RingAssumption DEF Pending, Avail, Free, Clamped, Index

\* Publishing a record of n bytes makes n more pending.
LEMMA WriteCounts ==
    ASSUME NEW w \in Index, NEW r \in Index, NEW n \in Nat,
           Pending(w, r) + n < Size
    PROVE  /\ Past(w, n) \in Index
           /\ Pending(Past(w, n), r) = Pending(w, r) + n
BY RingAssumption DEF Pending, Past, Index

\* Releasing n bytes makes n fewer pending.
LEMMA ReadCounts ==
    ASSUME NEW w \in Index, NEW r \in Index, NEW n \in Nat,
           n <= Pending(w, r)
    PROVE  /\ Past(r, n) \in Index
           /\ Pending(w, Past(r, n)) = Pending(w, r) - n
BY RingAssumption DEF Pending, Past, Index

\* Walking on from a place is walking further.
LEMMA PastPast ==
    ASSUME NEW o \in Index, NEW m \in Nat, NEW n \in Nat, m + n < Size
    PROVE  Past(Past(o, m), n) = Past(o, m + n)
BY RingAssumption DEF Past, Index

\* The queue ends where the writer writes.
LEMMA EndOfQueue ==
    ASSUME NEW w \in Index, NEW r \in Index
    PROVE  Past(r, Pending(w, r)) = w
BY RingAssumption DEF Past, Pending, Index

\* Different distances are different places.
LEMMA PastInjective ==
    ASSUME NEW o \in Index, NEW m \in 0..(Size - 1), NEW n \in 0..(Size - 1),
           Past(o, m) = Past(o, n)
    PROVE  m = n
BY RingAssumption DEF Past, Index

-----------------------------------------------------------------------------
(* What a step leaves alone.                                               *)

\* The role a run plays is one of those assumed, and its offsets are inside.
LEMMA RoleFacts ==
    ASSUME OneEachSide, TypeOK, Tame
    PROVE  /\ role.wild = "none"
           /\ \A t, u \in role.writers : Core[t] = Core[u]
           /\ \A t, u \in role.readers : Core[t] = Core[u]
           /\ wr \in Index /\ rd \in Index
<1>1. role \in Roles
  BY DEF TypeOK
<1>2. role.wild = "none"
  BY DEF Tame
<1>3. wr \in Index /\ rd \in Index
  BY <1>2, RingAssumption DEF TypeOK, Index
<1> QED  BY <1>1, <1>2, <1>3 DEF OneEachSide

\* A thread's own part of the state is as it was.
Same(u) ==
    /\ pc'[u] = pc[u] /\ op'[u] = op[u] /\ data'[u] = data[u]
    /\ want'[u] = want[u] /\ done'[u] = done[u] /\ off'[u] = off[u]

\* Until the block is signed nobody but the boot thread is in a call.
LEMMA BootAlone ==
    ASSUME IInv, ~signed, NEW u \in Threads, u # Boot
    PROVE  pc[u] = "idle"
BY DEF IInv, Calls

\* A thread whose own state and whose ring stand still keeps its conditions.
LEMMA CallsKept ==
    ASSUME NEW u \in Threads, Calls(u), Same(u), role' = role,
           signed' = signed \/ pc[u] = "idle",
           launched' = launched \/ op[u] # "launch"
    PROVE  Calls(u)'
<1> USE DEF Calls, Same
<1>1. CASE pc[u] = "idle"
  BY <1>1
<1>2. CASE signed' = signed /\ launched' = launched
  BY <1>2
<1>3. CASE signed' = signed /\ op[u] # "launch"
  BY <1>3
<1> QED  BY <1>1, <1>2, <1>3

\* So does one whose ring and whose own part both stand still.
LEMMA RingKept ==
    ASSUME NEW u \in Threads, Storing(u), Loading(u), Same(u), UNCHANGED ring
    PROVE  Storing(u)' /\ Loading(u)'
BY DEF Storing, Loading, Same, ring

\* One thread moves: the rest of OnePerCore is as it was.
LEMMA OnePerCoreKept ==
    ASSUME OnePerCore, NEW t \in Threads, pc[t] # "idle",
           \A u \in Threads : u # t => pc'[u] = pc[u]
    PROVE  OnePerCore'
BY DEF OnePerCore

\* A step that moves one thread and leaves the ring and the boot alone keeps
\* the invariant if that thread keeps its conditions.
LEMMA LocalStep ==
    ASSUME IInv, NEW t \in Threads, pc[t] # "idle",
           \A u \in Threads : u # t => Same(u),
           UNCHANGED <<world, ring>>,
           TypeOK', Told',
           Calls(t)', Storing(t)', Loading(t)'
    PROVE  IInv'
<1>1. OnePerCore'
  BY OnePerCoreKept DEF IInv, Same
<1>2. Booting'
  BY DEF IInv, Booting, world, ring
<1>3. \A u \in Threads : Calls(u)' /\ Storing(u)' /\ Loading(u)'
  <2> SUFFICES ASSUME NEW u \in Threads, u # t
               PROVE  Calls(u)' /\ Storing(u)' /\ Loading(u)'
    OBVIOUS
  <2>1. Calls(u)'
    BY CallsKept DEF IInv, world
  <2>2. Storing(u)' /\ Loading(u)'
    BY RingKept DEF IInv
  <2> QED  BY <2>1, <2>2
<1>4. Tame'
  BY DEF IInv, Tame, world
<1> QED  BY <1>1, <1>2, <1>3, <1>4 DEF IInv

-----------------------------------------------------------------------------
(* The invariant, action by action.                                        *)

\* An empty ring and nobody in a call.
LEMMA InitHolds == ASSUME Init, Tame PROVE IInv
<1>1. TypeOK
  <2>1. << >> \in Seq(Bytes) /\ 0 \in Index /\ 0 < Size
    BY RingAssumption DEF Index
  <2>2. buf \in [Index -> Bytes]
    BY RingAssumption DEF Init
  <2> QED  BY <2>1, <2>2 DEF Init, TypeOK
<1>2. Told
  BY RingAssumption DEF Init, Told, Pending
<1>3. OnePerCore /\ Booting
  BY DEF Init, OnePerCore, Booting
<1>4. \A t \in Threads : Calls(t) /\ Storing(t) /\ Loading(t)
  BY DEF Init, Calls, Storing, Loading
<1> QED  BY <1>1, <1>2, <1>3, <1>4 DEF IInv

\* A call begins on a core where nothing else is in one.
LEMMA BeginKeeps ==
    ASSUME IInv, NEW t \in Threads,
           NEW o \in {"launch", "write", "read", "query"},
           NEW d \in Seq(Bytes), NEW n \in Nat,
           Begin(t, o, d, n),
           o \in {"write", "query"} => t \in role.writers,
           o = "read" => t \in role.readers /\ d = << >> /\ 0 < n,
           o = "write" => d \in Records /\ n = Len(d),
           o = "launch" => t = Boot /\ ~launched
    PROVE  IInv'
<1> USE DEF Begin
<1>1. TypeOK'
  BY DEF IInv, TypeOK, world, ring
<1>2. \A u \in Threads : Core[u] = Core[t] => pc[u] = "idle"
  BY ThreadsAssumption DEF MayCall, Masked, Runs
<1>3. OnePerCore'
  BY <1>2 DEF OnePerCore, IInv, TypeOK
<1>4. Booting' /\ Told'
  BY DEF IInv, Booting, Told, world, ring
<1>5. Alive(t) /\ pc[t] = "idle"
  BY DEF MayCall
<1>6. t # Boot => signed
  BY <1>5 DEF Alive, IInv, Booting
<1>7. Calls(t)' /\ Storing(t)' /\ Loading(t)'
  <2>1. pc'[t] = "entry" /\ op'[t] = o /\ data'[t] = d /\ want'[t] = n
        /\ done'[t] = done[t] /\ done[t] = 0
    BY <1>5 DEF IInv, TypeOK, Calls
  <2>2. UNCHANGED <<role, launched, signed>>
    BY DEF world
  <2> QED  BY <2>1, <2>2, <1>6 DEF Calls, Storing, Loading
<1>8. \A u \in Threads : u # t => Calls(u)' /\ Storing(u)' /\ Loading(u)'
  <2> SUFFICES ASSUME NEW u \in Threads, u # t
               PROVE  Calls(u)' /\ Storing(u)' /\ Loading(u)'
    OBVIOUS
  <2>1. Same(u)
    BY DEF Same, IInv, TypeOK
  <2> QED  BY <2>1, CallsKept, RingKept DEF IInv, world
<1>9. Tame'
  BY DEF IInv, Tame, world
<1> QED  BY <1>1, <1>3, <1>4, <1>7, <1>8, <1>9 DEF IInv

\* A call that returns leaves the thread as it was before it.
LEMMA Returned ==
    ASSUME TypeOK, NEW t \in Threads, Return(t)
    PROVE  /\ Calls(t)' /\ Storing(t)' /\ Loading(t)'
           /\ \A u \in Threads : u # t => Same(u)
           /\ pc' \in [Threads -> {"idle", "entry", "sign", "wr", "rd", "copy"}]
           /\ op' \in [Threads -> {"none", "launch", "write", "read", "query"}]
           /\ data' \in [Threads -> Seq(Bytes)]
           /\ want' \in [Threads -> Nat] /\ done' \in [Threads -> Nat]
           /\ off' \in [Threads -> Index]
<1> USE DEF Return
<1>1. << >> \in Seq(Bytes) /\ 0 \in Index
  BY RingAssumption DEF Index
<1>2. /\ pc'[t] = "idle" /\ op'[t] = "none" /\ data'[t] = << >>
      /\ want'[t] = 0 /\ done'[t] = 0 /\ off'[t] = 0
  BY DEF TypeOK
<1>3. Calls(t)' /\ Storing(t)' /\ Loading(t)'
  BY <1>2 DEF Calls, Storing, Loading
<1>4. \A u \in Threads : u # t => Same(u)
  BY DEF Same, TypeOK
<1> QED  BY <1>1, <1>3, <1>4 DEF TypeOK

\* A call that found nothing to do.
LEMMA ReturnKeeps ==
    ASSUME IInv, NEW t \in Threads, pc[t] # "idle", Return(t),
           UNCHANGED <<world, ring, room, got>>
    PROVE  IInv'
<1>1. TypeOK
  BY DEF IInv
<1>2. TypeOK'
  BY <1>1, Returned DEF TypeOK, world, ring
<1>3. Told'
  BY DEF IInv, Told, ring
<1> QED  BY <1>1, <1>2, <1>3, Returned, LocalStep

\* The thread has found the block, or has just signed it.
LEMMA BuiltKeeps ==
    ASSUME IInv, NEW t \in Threads, pc[t] \in {"entry", "sign"},
           signed' = TRUE, signed \/ pc[t] = "sign",
           IF op[t] = "launch"
           THEN Return(t) /\ launched' = TRUE
           ELSE Goto(t, "wr") /\ UNCHANGED <<launched, want, done, off>>,
           UNCHANGED <<role, ring, room, got>>
    PROVE  IInv'
<1>0. TypeOK /\ Calls(t)
  BY DEF IInv
<1>1. TypeOK'
  <2>1. CASE op[t] = "launch"
    BY <2>1, <1>0, Returned DEF TypeOK, ring
  <2>2. CASE op[t] # "launch"
    BY <2>2, <1>0 DEF TypeOK, ring, Goto
  <2> QED  BY <2>1, <2>2
<1>2. \A u \in Threads : u # t => Same(u)
  <2>1. CASE op[t] = "launch"
    BY <2>1, <1>0, Returned
  <2>2. CASE op[t] # "launch"
    BY <2>2, <1>0 DEF TypeOK, Goto, Same
  <2> QED  BY <2>1, <2>2
<1>3. OnePerCore'
  BY <1>2, OnePerCoreKept DEF IInv, Same
<1>4. Booting'
  BY DEF Booting, ring
<1>5. Told'
  BY DEF IInv, Told, ring
<1>6. Calls(t)' /\ Storing(t)' /\ Loading(t)'
  <2>1. CASE op[t] = "launch"
    BY <2>1, <1>0, Returned
  <2>2. CASE op[t] # "launch"
    <3>1. /\ pc'[t] = "wr" /\ op'[t] = op[t] /\ data'[t] = data[t]
          /\ want'[t] = want[t] /\ done'[t] = done[t]
      BY <2>2, <1>0 DEF TypeOK, Goto
    <3>2. Calls(t)'
      BY <3>1, <1>0, <2>2 DEF Calls
    <3> QED  BY <3>1, <3>2 DEF Storing, Loading
  <2> QED  BY <2>1, <2>2
<1>7. \A u \in Threads : u # t => Calls(u)' /\ Storing(u)' /\ Loading(u)'
  <2> SUFFICES ASSUME NEW u \in Threads, u # t
               PROVE  Calls(u)' /\ Storing(u)' /\ Loading(u)'
    OBVIOUS
  <2>1. signed' = signed \/ pc[u] = "idle"
    <3>1. CASE signed
      BY <3>1, <1>0 DEF TypeOK
    <3>2. CASE ~signed
      <4>1. t = Boot
        BY <3>2, <1>0 DEF Calls
      <4> QED  BY <3>2, <4>1, BootAlone
    <3> QED  BY <3>1, <3>2
  <2>2. launched' = launched \/ op[u] # "launch"
    <3>1. op[t] = "launch" /\ op[u] = "launch" => u = t
      BY <1>0 DEF IInv, Calls
    <3> QED  BY <3>1
  <2>3. Calls(u)'
    BY <1>2, <2>1, <2>2, CallsKept DEF IInv
  <2>4. Storing(u)' /\ Loading(u)'
    BY <1>2, RingKept DEF IInv
  <2> QED  BY <2>3, <2>4
<1>8. Tame'
  BY DEF IInv, Tame
<1> QED  BY <1>1, <1>3, <1>4, <1>5, <1>6, <1>7, <1>8 DEF IInv

\* Building clears offsets that are still zero.
LEMMA BuildKeeps ==
    ASSUME OneEachSide, IInv, NEW t \in Threads, Build(t)
    PROVE  IInv'
<1> USE DEF Build, Goto
<1>1. UNCHANGED <<world, ring>>
  BY DEF IInv, Booting, ring
<1>2. TypeOK'
  BY <1>1 DEF IInv, TypeOK, world, ring
<1>3. Told'
  BY <1>1 DEF IInv, Told, ring
<1>4. \A u \in Threads : u # t => Same(u)
  BY DEF IInv, TypeOK, Same
<1>5. /\ pc'[t] = "sign" /\ op'[t] = op[t] /\ data'[t] = data[t]
      /\ want'[t] = want[t] /\ done'[t] = done[t]
      /\ signed' = signed /\ launched' = launched /\ role' = role
  BY <1>1 DEF IInv, TypeOK, world
<1>6. Calls(t)'
  BY <1>5 DEF IInv, Calls
<1>7. Storing(t)' /\ Loading(t)'
  BY <1>5 DEF Storing, Loading
<1> QED  BY <1>1, <1>2, <1>3, <1>4, <1>6, <1>7, LocalStep

\* write_offset is the device's own here, and needs no clamping.
LEMMA SampleWriteKeeps ==
    ASSUME OneEachSide, IInv, NEW t \in Threads, SampleWrite(t)
    PROVE  IInv'
<1> USE DEF SampleWrite, Goto
<1>0. wr \in Index /\ rd \in Index /\ Clamped(wr) = wr
  BY RoleFacts, Counts DEF IInv
<1>1. UNCHANGED <<world, ring>>
  BY <1>0 DEF ring
<1>2. TypeOK'
  BY <1>0, <1>1 DEF IInv, TypeOK, world, ring
<1>3. Told'
  BY <1>1 DEF IInv, Told, ring
<1>4. \A u \in Threads : u # t => Same(u)
  BY DEF IInv, TypeOK, Same
<1>5. /\ pc'[t] = "rd" /\ op'[t] = op[t] /\ data'[t] = data[t]
      /\ want'[t] = want[t] /\ done'[t] = done[t] /\ off'[t] = wr
      /\ signed' = signed /\ launched' = launched /\ role' = role
      /\ wr' = wr /\ rd' = rd
  BY <1>0, <1>1 DEF IInv, TypeOK, world, ring
<1>6. Calls(t)'
  BY <1>5 DEF IInv, Calls
<1>7. Storing(t)'
  BY <1>5 DEF Storing
<1>8. Loading(t)'
  <2>1. Pending(wr, rd) <= Pending(wr, rd)
    BY <1>0, Counts
  <2> QED  BY <1>5, <2>1 DEF Loading
<1> QED  BY <1>1, <1>2, <1>3, <1>4, <1>6, <1>7, <1>8, LocalStep

\* The room found is room for the whole record.
LEMMA RoomToWriteKeeps ==
    ASSUME OneEachSide, IInv, NEW t \in Threads, RoomToWrite(t)
    PROVE  IInv'
<1> USE DEF RoomToWrite, Goto
<1>0. wr \in Index /\ rd \in Index
  BY RoleFacts DEF IInv
<1>1. UNCHANGED <<world, ring>>
  OBVIOUS
<1>2. TypeOK'
  BY DEF IInv, TypeOK, world, ring
<1>3. Told'
  BY DEF IInv, Told, ring
<1>4. \A u \in Threads : u # t => Same(u)
  BY DEF IInv, TypeOK, Same
<1>5. /\ pc'[t] = "copy" /\ op'[t] = "write" /\ data'[t] = data[t]
      /\ want'[t] = want[t] /\ done'[t] = done[t] /\ off'[t] = off[t]
      /\ signed' = signed /\ launched' = launched /\ role' = role
      /\ wr' = wr /\ rd' = rd
  BY DEF IInv, TypeOK, world, ring
<1>6. Calls(t)'
  <2>1. Calls(t) /\ done[t] = 0
    BY DEF IInv, Calls
  <2>2. /\ pc'[t] # "copy" => done'[t] = 0
        /\ op'[t] \notin {"read", "query", "launch", "none"}
    BY <1>5
  <2> QED  BY <1>5, <2>1, <2>2 DEF Calls
<1>7. Storing(t)'
  <2>1. off[t] = wr /\ done[t] = 0 /\ want[t] \in Nat
    BY DEF IInv, Storing, Calls, TypeOK
  <2>2. Pending(wr, rd) + want[t] < Size
    BY <1>0, <2>1, Counts, RingAssumption
  <2>3. 0 <= want[t] /\ 1..0 = {}
    BY <2>1
  <2> QED  BY <1>5, <2>1, <2>2, <2>3 DEF Storing
<1>8. Loading(t)'
  BY <1>5 DEF Loading
<1> QED  BY <1>1, <1>2, <1>3, <1>4, <1>6, <1>7, <1>8, LocalStep

\* The sample cannot be ahead of the queue, so what it counts is there.
LEMMA BytesToReadKeeps ==
    ASSUME OneEachSide, IInv, NEW t \in Threads, BytesToRead(t)
    PROVE  IInv'
<1> USE DEF BytesToRead, Goto
<1>0. wr \in Index /\ rd \in Index /\ off[t] \in Index /\ Clamped(rd) = rd
  BY RoleFacts, Counts DEF IInv, TypeOK
<1>1. UNCHANGED <<world, ring>>
  OBVIOUS
<1>2. Pending(off[t], rd) \in Nat /\ want[t] \in Nat
  <2>1. Pending(off[t], rd) \in 0..(Size - 1)
    BY <1>0, Counts
  <2>2. want[t] \in Nat
    BY DEF IInv, TypeOK
  <2> QED  BY <2>1, <2>2, RingAssumption
<1>3. TypeOK'
  BY <1>0, <1>2 DEF IInv, TypeOK, world, ring, Least
<1>4. Told'
  BY DEF IInv, Told, ring
<1>5. \A u \in Threads : u # t => Same(u)
  BY DEF IInv, TypeOK, Same
<1>6. /\ pc'[t] = "copy" /\ op'[t] = "read" /\ data'[t] = data[t]
      /\ want'[t] = Least(want[t], Pending(off[t], rd)) /\ done'[t] = done[t]
      /\ off'[t] = rd
      /\ signed' = signed /\ launched' = launched /\ role' = role
      /\ buf' = buf /\ wr' = wr /\ rd' = rd
  BY <1>0 DEF IInv, TypeOK, world, ring
<1>7. Calls(t) /\ data[t] = << >>
  BY DEF IInv, Calls
<1>8. 0 < want'[t] /\ want'[t] <= Pending(wr, rd) /\ want'[t] \in Nat
  <2>1. Pending(off[t], rd) <= Pending(wr, rd)
    BY DEF IInv, Loading
  <2>2. Pending(off[t], rd) > 0 /\ want[t] > 0
    BY <1>0, <1>7 DEF Calls
  <2>3. Pending(wr, rd) \in Int
    BY <1>0, Counts, RingAssumption
  <2> QED  BY <1>2, <1>6, <2>1, <2>2, <2>3 DEF Least
<1>9. Calls(t)'
  BY <1>6, <1>7, <1>8 DEF Calls
<1>10. Loading(t)'
  <2>1. Len(data'[t]) = 0
    BY <1>6, <1>7
  <2>2. Len(data'[t]) <= want'[t] /\ 1..Len(data'[t]) = {}
    BY <1>8, <2>1
  <2> QED  BY <1>6, <1>8, <2>2 DEF Loading
<1>11. Storing(t)'
  BY <1>6 DEF Storing
<1> QED  BY <1>1, <1>3, <1>4, <1>5, <1>9, <1>10, <1>11, LocalStep

\* The query's answer is what a write would find.
LEMMA AnswerKeeps ==
    ASSUME OneEachSide, IInv, NEW t \in Threads, Answer(t)
    PROVE  IInv'
<1> USE DEF Answer
<1>0. TypeOK /\ wr \in Index /\ rd \in Index /\ Clamped(rd) = rd /\ off[t] = wr
  <2>1. TypeOK /\ Tame /\ off[t] = wr
    BY DEF IInv, Storing
  <2> QED  BY <2>1, RoleFacts, Counts
<1>1. Free(wr, rd) = Size - 1 - Pending(wr, rd) /\ Pending(wr, rd) \in 0..(Size - 1)
  BY <1>0, Counts
<1>2. room' \in Nat /\ room' + Pending(wr, rd) < Size
  <2>1. room' = Free(wr, rd) \/ room' = 0
    BY <1>0
  <2> HIDE DEF Answer
  <2> QED  BY <1>1, <2>1, RingAssumption
<1>3. TypeOK'
  BY <1>0, <1>2, Returned DEF TypeOK, world, ring
<1>4. Told'
  BY <1>2 DEF Told, ring
<1> QED  BY <1>0, <1>3, <1>4, Returned, LocalStep

\* A reader's copy is the front of the queue so far, and one byte more.
LEMMA LoadByteKeeps ==
    ASSUME OneEachSide, IInv, NEW t \in Threads, LoadByte(t)
    PROVE  IInv'
<1> USE DEF LoadByte
<1>0. /\ TypeOK /\ Calls(t) /\ Loading(t)
      /\ wr \in Index /\ rd \in Index
      /\ data[t] \in Seq(Bytes) /\ want[t] \in Nat
  BY RoleFacts DEF IInv, TypeOK
<1>1. off[t] = rd /\ want[t] <= Pending(wr, rd) /\ Len(data[t]) < want[t]
  BY <1>0 DEF Loading
<1>2. Past(rd, Len(data[t])) \in Index
  <2>1. Pending(wr, rd) \in 0..(Size - 1) /\ Len(data[t]) \in Nat
    BY <1>0, Counts
  <2>2. Len(data[t]) \in 0..Size
    <3> HIDE DEF LoadByte
    <3> QED  BY <1>0, <1>1, <2>1, RingAssumption
  <2> QED  BY <1>0, <2>2, PastType
<1>3. buf[Past(rd, Len(data[t]))] \in Bytes
  BY <1>0, <1>2 DEF TypeOK
<1>4. /\ data' = [data EXCEPT ![t] = Append(data[t], buf[Past(rd, Len(data[t]))])]
      /\ Append(data[t], buf[Past(rd, Len(data[t]))]) \in Seq(Bytes)
  BY <1>0, <1>1, <1>3
<1>5. TypeOK'
  BY <1>0, <1>4 DEF TypeOK, world, ring
<1>6. Told'
  BY DEF IInv, Told, ring
<1>7. \A u \in Threads : u # t => Same(u)
  BY <1>0 DEF TypeOK, Same
<1>8. /\ pc'[t] = "copy" /\ op'[t] = "read"
      /\ data'[t] = Append(data[t], buf[Past(rd, Len(data[t]))])
      /\ want'[t] = want[t] /\ off'[t] = rd
      /\ UNCHANGED <<role, launched, signed, buf, wr, rd>>
  BY <1>0, <1>1, <1>4 DEF TypeOK, world, ring
<1>9. Calls(t)'
  BY <1>0, <1>8 DEF Calls
<1>10. Storing(t)'
  BY <1>8 DEF Storing
<1>11. Loading(t)'
  <2>1. Len(data'[t]) = Len(data[t]) + 1 /\ Len(data'[t]) <= want[t]
    BY <1>0, <1>1, <1>3, <1>8
  <2>2. ASSUME NEW i \in 1..Len(data'[t])
        PROVE  data'[t][i] = buf[Past(rd, i - 1)]
    <3>1. CASE i <= Len(data[t])
      <4>1. data'[t][i] = data[t][i]
        BY <1>0, <1>3, <1>8, <2>1, <3>1
      <4> QED  BY <1>0, <4>1, <3>1, <2>1 DEF Loading
    <3>2. CASE i = Len(data[t]) + 1
      <4>1. data'[t][i] = buf[Past(rd, Len(data[t]))] /\ i - 1 = Len(data[t])
        BY <1>0, <1>3, <1>8, <3>2
      <4> QED  BY <4>1
    <3> QED  BY <1>0, <2>1, <3>1, <3>2
  <2> QED  BY <1>0, <1>1, <1>8, <2>1, <2>2 DEF Loading
<1> QED  BY <1>5, <1>6, <1>7, <1>9, <1>10, <1>11, LocalStep

\* A core writes while no other thread is writing: on its core it is alone.
LEMMA WriterAlone ==
    ASSUME OneEachSide, IInv, NEW t \in Threads, NEW u \in Threads,
           pc[t] # "idle", pc[u] # "idle",
           \/ t \in role.writers /\ u \in role.writers
           \/ t \in role.readers /\ u \in role.readers
    PROVE  t = u
<1>1. Core[t] = Core[u]
  BY RoleFacts DEF IInv
<1> QED  BY <1>1 DEF IInv, OnePerCore

\* The byte goes behind the queue, where no reader is looking.
LEMMA BehindQueue ==
    ASSUME OneEachSide, IInv, NEW t \in Threads, StoreByte(t),
           NEW i \in 0..(Pending(wr, rd) - 1)
    PROVE  Past(rd, i) # Past(off[t], done[t])
<1> SUFFICES ASSUME Past(rd, i) = Past(off[t], done[t]) PROVE FALSE
  OBVIOUS
<1>0. /\ TypeOK /\ Storing(t) /\ wr \in Index /\ rd \in Index
      /\ want[t] \in Nat /\ done[t] \in Nat
  BY RoleFacts DEF IInv, TypeOK
<1>1. off[t] = wr /\ done[t] < want[t] /\ Pending(wr, rd) + want[t] < Size
  BY <1>0 DEF Storing, StoreByte
<1>2. Pending(wr, rd) \in Nat
  BY <1>0, Counts, RingAssumption
<1>3. Past(wr, done[t]) = Past(rd, Pending(wr, rd) + done[t])
  <2>1. Past(rd, Pending(wr, rd)) = wr
    BY <1>0, EndOfQueue
  <2>2. Pending(wr, rd) + done[t] < Size
    BY <1>0, <1>1, <1>2, RingAssumption
  <2> QED  BY <1>0, <1>2, <2>1, <2>2, PastPast
<1>4. i \in 0..(Size - 1) /\ Pending(wr, rd) + done[t] \in 0..(Size - 1)
  BY <1>0, <1>1, <1>2, RingAssumption
<1>5. i = Pending(wr, rd) + done[t]
  BY <1>0, <1>1, <1>3, <1>4, PastInjective
<1> QED  BY <1>0, <1>2, <1>5

\* A byte stored disturbs no reader, and no other writer is there.
LEMMA StoreByteKeeps ==
    ASSUME OneEachSide, IInv, NEW t \in Threads, StoreByte(t)
    PROVE  IInv'
<1> USE DEF StoreByte
<1>0. /\ TypeOK /\ Calls(t) /\ Storing(t)
      /\ wr \in Index /\ rd \in Index
      /\ data[t] \in Seq(Bytes) /\ want[t] \in Nat /\ done[t] \in Nat
  BY RoleFacts DEF IInv, TypeOK
<1>1. /\ off[t] = wr /\ done[t] < want[t] /\ want[t] = Len(data[t])
      /\ Pending(wr, rd) + want[t] < Size
  BY <1>0 DEF Storing, Calls
<1>2. Pending(wr, rd) \in Nat
  BY <1>0, Counts, RingAssumption
<1>3. Past(wr, done[t]) \in Index
  <2>1. done[t] \in 0..Size
    BY <1>0, <1>1, <1>2, RingAssumption
  <2> QED  BY <1>0, <2>1, PastType
<1>4. data[t][done[t] + 1] \in Bytes
  BY <1>0, <1>1
<1>5. buf' = [buf EXCEPT ![Past(wr, done[t])] = data[t][done[t] + 1]]
  BY <1>1
<1>6. TypeOK'
  <2>1. buf' \in [Index -> Bytes]
    BY <1>0, <1>3, <1>4, <1>5 DEF TypeOK
  <2>2. done' \in [Threads -> Nat]
    BY <1>0 DEF TypeOK
  <2>3. UNCHANGED <<role, launched, signed, wr, rd, pc, op, data, want, off, room, got>>
    BY DEF world
  <2> HIDE DEF StoreByte
  <2> QED  BY <1>0, <2>1, <2>2, <2>3 DEF TypeOK
<1>7. Told' /\ Booting' /\ OnePerCore'
  BY DEF IInv, Told, Booting, OnePerCore, world
<1>8. \A i \in 0..(Pending(wr, rd) - 1) : Past(rd, i) # Past(wr, done[t])
  BY <1>1, BehindQueue
<1>9. ASSUME NEW u \in Threads, u # t
      PROVE  Calls(u)' /\ Storing(u)' /\ Loading(u)'
  <2>1. Same(u)
    BY <1>0, <1>9 DEF TypeOK, Same
  <2>2. Calls(u) /\ Storing(u) /\ Loading(u)
    BY DEF IInv
  <2>3. Calls(u)'
    BY <2>1, <2>2, CallsKept DEF world
  <2>4. ~(pc[u] \in {"rd", "copy"} /\ op[u] \in {"write", "query"})
    BY <1>0, <1>9, <2>2, WriterAlone DEF Calls
  <2>5. Storing(u)'
    BY <2>1, <2>4 DEF Storing, Same
  <2>6. Loading(u)'
    <3>1. CASE pc[u] = "copy" /\ op[u] = "read"
      <4>1. /\ want[u] <= Pending(wr, rd) /\ Len(data[u]) <= want[u]
            /\ want[u] \in Nat /\ Len(data[u]) \in Nat
        BY <2>2, <3>1, <1>0 DEF Loading, TypeOK
      <4>2. ASSUME NEW i \in 1..Len(data[u])
            PROVE  buf'[Past(rd, i - 1)] = buf[Past(rd, i - 1)]
        <5>1. i - 1 \in 0..(Pending(wr, rd) - 1) /\ i - 1 \in 0..Size
          BY <1>0, <1>1, <1>2, <4>1, RingAssumption
        <5>2. Past(rd, i - 1) # Past(wr, done[t]) /\ Past(rd, i - 1) \in Index
          BY <1>0, <1>8, <5>1, PastType
        <5> QED  BY <1>0, <1>5, <5>2 DEF TypeOK
      <4> QED  BY <2>1, <2>2, <3>1, <4>2 DEF Loading, Same
    <3>2. CASE ~(pc[u] = "copy" /\ op[u] = "read")
      BY <2>1, <2>2, <3>2 DEF Loading, Same
    <3> QED  BY <3>1, <3>2
  <2> QED  BY <2>3, <2>5, <2>6
<1>10. /\ pc'[t] = "copy" /\ op'[t] = "write" /\ data'[t] = data[t]
       /\ want'[t] = want[t] /\ off'[t] = wr /\ done'[t] = done[t] + 1
       /\ UNCHANGED <<role, launched, signed, wr, rd>>
  BY <1>0, <1>1 DEF TypeOK, world
<1>11. Calls(t)'
  BY <1>0, <1>10 DEF Calls
<1>12. Loading(t)'
  BY <1>10 DEF Loading
<1>13. Storing(t)'
  <2>1. ASSUME NEW i \in 1..(done[t] + 1)
        PROVE  buf'[Past(wr, i - 1)] = data[t][i]
    <3>1. CASE i = done[t] + 1
      <4>1. i - 1 = done[t]
        BY <1>0, <3>1
      <4> QED  BY <1>0, <1>3, <1>5, <3>1, <4>1 DEF TypeOK
    <3>2. CASE i <= done[t]
      <4>1. i - 1 \in 0..(Size - 1) /\ done[t] \in 0..(Size - 1) /\ i - 1 # done[t]
            /\ i - 1 \in 0..Size
        BY <1>0, <1>1, <1>2, <3>2, RingAssumption
      <4>2. Past(wr, i - 1) # Past(wr, done[t]) /\ Past(wr, i - 1) \in Index
        BY <1>0, <4>1, PastInjective, PastType
      <4>3. buf[Past(wr, i - 1)] = data[t][i]
        BY <1>0, <3>2 DEF Storing
      <4> QED  BY <1>0, <1>5, <4>2, <4>3 DEF TypeOK
    <3> QED  BY <1>0, <3>1, <3>2
  <2> QED  BY <1>0, <1>1, <1>10, <2>1 DEF Storing
<1>14. Tame'
  BY DEF IInv, Tame, world
<1> QED  BY <1>6, <1>7, <1>9, <1>11, <1>12, <1>13, <1>14 DEF IInv

\* A thread that returns with one offset moved keeps the invariant if the
\* other threads' conditions stand.
LEMMA PublishKeeps ==
    ASSUME OneEachSide, IInv, NEW t \in Threads, pc[t] = "copy", Return(t),
           UNCHANGED <<world, buf>>,
           wr' \in Index, rd' \in Index, room' \in Nat, got' \in Seq(Bytes), Told',
           \A u \in Threads : u # t /\ Same(u) => Storing(u)' /\ Loading(u)'
    PROVE  IInv'
<1>0. TypeOK /\ Calls(t) /\ signed
  BY DEF IInv, Calls
<1>1. /\ Calls(t)' /\ Storing(t)' /\ Loading(t)'
      /\ \A u \in Threads : u # t => Same(u)
  BY <1>0, Returned
<1>2. TypeOK'
  <2>1. wr' \in Nat /\ rd' \in Nat /\ wr' < Size /\ rd' < Size
    BY RingAssumption DEF Index
  <2> QED  BY <1>0, <2>1, Returned DEF TypeOK, world
<1>3. OnePerCore'
  BY <1>1, OnePerCoreKept DEF IInv, Same
<1>4. Booting'
  BY <1>0 DEF Booting, world
<1>5. ASSUME NEW u \in Threads, u # t
      PROVE  Calls(u)' /\ Storing(u)' /\ Loading(u)'
  <2>1. Calls(u) /\ Same(u)
    BY <1>1, <1>5 DEF IInv
  <2>2. Calls(u)'
    BY <2>1, CallsKept DEF world
  <2> QED  BY <1>5, <2>1, <2>2
<1>6. Tame'
  BY DEF IInv, Tame, world
<1> QED  BY <1>1, <1>2, <1>3, <1>4, <1>5, <1>6 DEF IInv

\* The record joins the queue; there was room, so nothing is overtaken.
LEMMA PublishWriteKeeps ==
    ASSUME OneEachSide, IInv, NEW t \in Threads, PublishWrite(t)
    PROVE  IInv'
<1> USE DEF PublishWrite
<1>0. /\ TypeOK /\ Calls(t) /\ Storing(t)
      /\ wr \in Index /\ rd \in Index /\ want[t] \in Nat
  BY RoleFacts DEF IInv, TypeOK
<1>1. off[t] = wr /\ Pending(wr, rd) + want[t] < Size
  BY <1>0 DEF Storing
<1>2. Pending(wr, rd) \in 0..(Size - 1)
  BY <1>0, Counts
<1>3. wr' \in Index /\ Pending(wr', rd) = Pending(wr, rd) + want[t]
  BY <1>0, <1>1, WriteCounts
<1>4. room' \in Nat /\ room' + Pending(wr', rd) < Size
  <2>1. room \in Nat /\ room + Pending(wr, rd) < Size
    BY <1>0 DEF IInv, Told, TypeOK
  <2>2. CASE want[t] <= room
    <3>1. room' = room - want[t]
      BY <2>2
    <3> HIDE DEF PublishWrite
    <3> QED  BY <1>0, <1>2, <1>3, <2>1, <2>2, <3>1, RingAssumption
  <2>3. CASE ~(want[t] <= room)
    <3>1. room' = 0
      BY <2>3
    <3> HIDE DEF PublishWrite
    <3> QED  BY <1>0, <1>1, <1>2, <1>3, <3>1, RingAssumption
  <2> QED  BY <2>2, <2>3
<1>5. Told'
  BY <1>4 DEF Told
<1>6. ASSUME NEW u \in Threads, u # t, Same(u)
      PROVE  Storing(u)' /\ Loading(u)'
  <2>1. Calls(u) /\ Storing(u) /\ Loading(u)
    BY DEF IInv
  <2>2. ~(pc[u] \in {"rd", "copy"} /\ op[u] \in {"write", "query"})
    BY <1>0, <1>6, <2>1, WriterAlone DEF Calls
  <2>3. Storing(u)'
    BY <1>6, <2>2 DEF Storing, Same
  <2>4. CASE pc[u] = "rd" /\ op[u] = "read"
    <3>1. Pending(off[u], rd) \in 0..(Size - 1) /\ Pending(off[u], rd) <= Pending(wr, rd)
      BY <1>0, <2>1, <2>4, Counts DEF Loading, TypeOK
    <3>2. Pending(off[u], rd) <= Pending(wr', rd)
      BY <1>0, <1>2, <1>3, <3>1, RingAssumption
    <3> QED  BY <1>6, <2>3, <2>4, <3>2 DEF Loading, Same
  <2>5. CASE pc[u] = "copy" /\ op[u] = "read"
    <3>1. want[u] \in Nat /\ want[u] <= Pending(wr, rd)
      BY <1>0, <2>1, <2>5 DEF Loading, TypeOK
    <3>2. want[u] <= Pending(wr', rd)
      BY <1>0, <1>2, <1>3, <3>1, RingAssumption
    <3> QED  BY <1>6, <2>1, <2>3, <2>5, <3>2 DEF Loading, Same
  <2>6. CASE ~(pc[u] \in {"rd", "copy"} /\ op[u] = "read")
    BY <1>6, <2>3, <2>6 DEF Loading, Same
  <2> QED  BY <2>4, <2>5, <2>6
<1>7. got' \in Seq(Bytes) /\ rd' \in Index
  BY <1>0 DEF TypeOK
<1> QED  BY <1>3, <1>4, <1>5, <1>6, <1>7, PublishKeeps

\* What was copied leaves the queue; a writer finds more room than it took.
LEMMA PublishReadKeeps ==
    ASSUME OneEachSide, IInv, NEW t \in Threads, PublishRead(t)
    PROVE  IInv'
<1> USE DEF PublishRead
<1>0. /\ TypeOK /\ Calls(t) /\ Loading(t)
      /\ wr \in Index /\ rd \in Index /\ want[t] \in Nat
  BY RoleFacts DEF IInv, TypeOK
<1>1. off[t] = rd /\ want[t] <= Pending(wr, rd)
  BY <1>0 DEF Loading
<1>2. Pending(wr, rd) \in 0..(Size - 1)
  BY <1>0, Counts
<1>3. rd' \in Index /\ Pending(wr, rd') = Pending(wr, rd) - want[t]
  BY <1>0, <1>1, ReadCounts
<1>4. Pending(wr, rd') <= Pending(wr, rd) /\ Pending(wr, rd') \in Nat
  BY <1>0, <1>1, <1>2, <1>3, RingAssumption
<1>5. Told'
  <2>1. room \in Nat /\ room + Pending(wr, rd) < Size
    BY <1>0 DEF IInv, Told, TypeOK
  <2>2. room' = room /\ wr' = wr
    OBVIOUS
  <2>3. room + Pending(wr, rd') < Size
    BY <1>2, <1>4, <2>1, RingAssumption
  <2> QED  BY <2>2, <2>3 DEF Told
<1>6. ASSUME NEW u \in Threads, u # t, Same(u)
      PROVE  Storing(u)' /\ Loading(u)'
  <2>1. Calls(u) /\ Storing(u) /\ Loading(u)
    BY DEF IInv
  <2>2. ~(pc[u] \in {"rd", "copy"} /\ op[u] = "read")
    BY <1>0, <1>6, <2>1, WriterAlone DEF Calls
  <2>3. Loading(u)'
    BY <1>6, <2>2 DEF Loading, Same
  <2>4. CASE pc[u] = "copy" /\ op[u] = "write"
    <3>1. want[u] \in Nat /\ Pending(wr, rd) + want[u] < Size
      BY <1>0, <2>1, <2>4 DEF Storing, TypeOK
    <3>2. Pending(wr, rd') + want[u] < Size
      BY <1>2, <1>4, <3>1, RingAssumption
    <3> QED  BY <1>6, <2>1, <2>3, <2>4, <3>2 DEF Storing, Same
  <2>5. CASE ~(pc[u] = "copy" /\ op[u] = "write")
    BY <1>6, <2>1, <2>3, <2>5 DEF Storing, Same
  <2> QED  BY <2>4, <2>5
<1>7. got' \in Seq(Bytes) /\ wr' \in Index /\ room' \in Nat
  BY <1>0 DEF TypeOK
<1> QED  BY <1>3, <1>5, <1>6, <1>7, PublishKeeps

\* Every step keeps the invariant.
LEMMA NextKeeps ==
    ASSUME OneEachSide, IInv, [Next]_vars
    PROVE  IInv'
<1>1. CASE UNCHANGED vars
  BY <1>1 DEF vars, world, ring, call, IInv, TypeOK, Tame, OnePerCore, Booting, Told,
              Calls, Storing, Loading
<1>2. CASE Scribble
  BY <1>2, RoleFacts DEF Scribble, IInv
<1>3. ASSUME NEW t \in Threads, Write(t)
      PROVE  IInv'
  <2>1. PICK r \in Records : Begin(t, "write", r, Len(r))
    BY <1>3 DEF Write
  <2>2. r \in Seq(Bytes) /\ Len(r) \in Nat /\ << >> \in Seq(Bytes)
    BY RingAssumption
  <2> QED  BY <1>3, <2>1, <2>2, BeginKeeps DEF Write
<1>4. ASSUME NEW t \in Threads, Read(t)
      PROVE  IInv'
  <2>1. PICK n \in Asks : Begin(t, "read", << >>, n)
    BY <1>4 DEF Read
  <2>2. n \in Nat /\ 0 < n /\ << >> \in Seq(Bytes)
    BY RingAssumption
  <2> QED  BY <1>4, <2>1, <2>2, BeginKeeps DEF Read
<1>5. ASSUME NEW t \in Threads, Query(t)
      PROVE  IInv'
  <2>1. t \in role.writers /\ Begin(t, "query", << >>, 0) /\ << >> \in Seq(Bytes)
    BY <1>5 DEF Query
  <2> QED  BY <2>1, BeginKeeps
<1>6. ASSUME NEW t \in Threads, Launch(t)
      PROVE  IInv'
  <2>1. /\ t = Boot /\ ~launched /\ Begin(t, "launch", << >>, 0)
        /\ << >> \in Seq(Bytes)
    BY <1>6 DEF Launch
  <2> QED  BY <2>1, BeginKeeps
<1>7. ASSUME NEW t \in Threads, Step(t)
      PROVE  IInv'
  <2>1. CASE Found(t)
    BY <2>1, BuiltKeeps DEF Found
  <2>2. CASE Build(t)
    BY <2>2, BuildKeeps
  <2>3. CASE Sign(t)
    BY <2>3, BuiltKeeps DEF Sign
  <2>4. CASE SampleWrite(t)
    BY <2>4, SampleWriteKeeps
  <2>5. CASE RoomToWrite(t)
    BY <2>5, RoomToWriteKeeps
  <2>6. CASE Drop(t)
    BY <2>6, ReturnKeeps DEF Drop
  <2>7. CASE BytesToRead(t)
    BY <2>7, BytesToReadKeeps
  <2>8. CASE NothingToRead(t)
    BY <2>8, ReturnKeeps DEF NothingToRead
  <2>9. CASE Answer(t)
    BY <2>9, AnswerKeeps
  <2>10. CASE StoreByte(t)
    BY <2>10, StoreByteKeeps
  <2>11. CASE PublishWrite(t)
    BY <2>11, PublishWriteKeeps
  <2>12. CASE LoadByte(t)
    BY <2>12, LoadByteKeeps
  <2>13. CASE PublishRead(t)
    BY <2>13, PublishReadKeeps
  <2> QED  BY <1>7, <2>1, <2>2, <2>3, <2>4, <2>5, <2>6, <2>7, <2>8, <2>9,
              <2>10, <2>11, <2>12, <2>13 DEF Step
<1> QED  BY <1>1, <1>2, <1>3, <1>4, <1>5, <1>6, <1>7 DEF Next

-----------------------------------------------------------------------------
(* Whatever the probe does.                                                *)

\* A copy stays inside the buffer, and a record is copied from where it is.
Held(t) ==
    /\ pc[t] = "copy" => want[t] < Size
    /\ op[t] = "write" => 0 < want[t] /\ want[t] = Len(data[t])

Inside ==
    /\ TypeOK
    /\ ~Tame => room = 0
    /\ \A t \in Threads : Held(t)

\* What the two offsets come to once they have been checked.
LEMMA Checked ==
    ASSUME NEW w \in Nat, NEW r \in Nat
    PROVE  /\ Clamped(w) \in Index /\ Clamped(r) \in Index
           /\ Pending(Clamped(w), Clamped(r)) \in 0..(Size - 1)
           /\ Avail(Clamped(w), Clamped(r)) \in 0..(Size - 1)
           /\ Free(Clamped(w), Clamped(r)) \in 0..(Size - 1)
BY RingAssumption DEF Clamped, Index, Pending, Avail, Free

\* An offset inside the ring is left as it is.
LEMMA Clean == ASSUME NEW w \in Index PROVE Clamped(w) = w
BY RingAssumption DEF Clamped, Index

\* A step of one thread.
LEMMA HeldStep ==
    ASSUME Inside, NEW t \in Threads, TypeOK', role' = role, ~Tame => room' = 0,
           \A u \in Threads : u # t => Same(u), Held(t)'
    PROVE  Inside'
BY DEF Inside, Held, Same, Tame

\* A call begins with the record where its caller has it.
LEMMA InsideBegins ==
    ASSUME Inside, NEW t \in Threads,
           NEW o \in {"launch", "write", "read", "query"},
           NEW d \in Seq(Bytes), NEW n \in Nat, Begin(t, o, d, n),
           o = "write" => 0 < n /\ n = Len(d)
    PROVE  Inside'
<1> USE DEF Begin
<1>1. TypeOK'
  BY DEF Inside, TypeOK, world, ring
<1>2. \A u \in Threads : u # t => Same(u)
  BY DEF Inside, TypeOK, Same
<1>3. Held(t)'
  BY DEF Inside, TypeOK, Held
<1>4. role' = role /\ room' = room
  BY DEF world
<1> QED  BY <1>1, <1>2, <1>3, <1>4, HeldStep DEF Inside

\* A call that returns leaves nothing behind but the offsets it published.
LEMMA InsideReturns ==
    ASSUME Inside, NEW t \in Threads, Return(t),
           role' = role, launched' \in BOOLEAN, signed' \in BOOLEAN,
           buf' = buf, wr' \in Nat, rd' \in Nat,
           role.wild # "wr" => wr' < Size, role.wild # "rd" => rd' < Size,
           room' \in Nat, ~Tame => room' = 0, got' \in Seq(Bytes)
    PROVE  Inside'
<1>1. TypeOK'
  BY Returned DEF Inside, TypeOK
<1>2. pc'[t] = "idle" /\ op'[t] = "none"
  BY DEF Inside, TypeOK, Return
<1>3. Held(t)'
  BY <1>2 DEF Held
<1> QED  BY <1>1, <1>3, Returned, HeldStep DEF Inside

\* A step that moves a thread on and leaves the ring alone.
LEMMA InsideGoes ==
    ASSUME Inside, NEW t \in Threads,
           NEW place \in {"sign", "wr", "rd", "copy"}, Goto(t, place),
           UNCHANGED <<role, launched, buf, done, room, got>>,
           signed' \in BOOLEAN,
           wr' \in Nat, rd' \in Nat,
           role.wild # "wr" => wr' < Size, role.wild # "rd" => rd' < Size,
           NEW n \in Nat, want' = [want EXCEPT ![t] = n],
           NEW m \in Index, off' = [off EXCEPT ![t] = m],
           place = "copy" => n < Size,
           op[t] = "write" => n = want[t]
    PROVE  Inside'
<1> USE DEF Goto
<1>1. TypeOK'
  BY DEF Inside, TypeOK
<1>2. \A u \in Threads : u # t => Same(u)
  BY DEF Inside, TypeOK, Same
<1>3. /\ pc'[t] = place /\ op'[t] = op[t] /\ data'[t] = data[t] /\ want'[t] = n
  BY DEF Inside, TypeOK
<1>4. Held(t)'
  BY <1>3 DEF Inside, Held
<1> QED  BY <1>1, <1>2, <1>4, HeldStep DEF Inside

\* A channel's role is settled, and of a confused probe's reads no note is kept.
LEMMA Fixed ==
    ASSUME [Next]_vars
    PROVE  role' = role /\ (Tame \/ got' = got)
<1>1. CASE UNCHANGED vars
  BY <1>1 DEF vars, world
<1>2. CASE Scribble
  BY <1>2 DEF Scribble, world
<1>3. ASSUME NEW t \in Threads, Write(t) \/ Read(t) \/ Query(t) \/ Launch(t)
      PROVE  role' = role /\ got' = got
  BY <1>3 DEF Write, Read, Query, Launch, Begin, world
<1>4. ASSUME NEW t \in Threads, Step(t)
      PROVE  role' = role /\ (Tame \/ got' = got)
  <2>1. CASE Found(t) \/ Build(t) \/ Sign(t) \/ SampleWrite(t)
    BY <2>1 DEF Found, Build, Sign, SampleWrite, world
  <2>2. CASE RoomToWrite(t) \/ Drop(t) \/ BytesToRead(t) \/ NothingToRead(t)
    BY <2>2 DEF RoomToWrite, Drop, BytesToRead, NothingToRead, world
  <2>3. CASE Answer(t) \/ StoreByte(t) \/ PublishWrite(t)
    BY <2>3 DEF Answer, StoreByte, PublishWrite, world
  <2>4. CASE LoadByte(t) \/ PublishRead(t)
    BY <2>4 DEF LoadByte, PublishRead, world
  <2> QED  BY <1>4, <2>1, <2>2, <2>3, <2>4 DEF Step
<1> QED  BY <1>1, <1>2, <1>3, <1>4 DEF Next

\* Every step stays inside, in every role.
LEMMA InsideKeeps ==
    ASSUME Inside, [Next]_vars
    PROVE  Inside'
<1>0. /\ TypeOK /\ wr \in Nat /\ rd \in Nat /\ role' \in Roles
      /\ 0 \in Index /\ 0 < Size /\ << >> \in Seq(Bytes)
  <2>1. role' = role
    BY Fixed
  <2> QED  BY <2>1, RingAssumption DEF Inside, TypeOK, Index
<1>1. CASE UNCHANGED vars
  BY <1>1 DEF vars, world, ring, call, Inside, TypeOK, Held, Tame
<1>2. CASE Scribble
  <2>1. wr' \in Nat /\ rd' \in Nat
    BY <1>0, <1>2, RingAssumption DEF Scribble
  <2>2. (role.wild # "wr" => wr' = wr) /\ (role.wild # "rd" => rd' = rd)
    BY <1>2 DEF Scribble
  <2>3. UNCHANGED <<world, buf, call, room, got>>
    BY <1>2 DEF Scribble
  <2> QED  BY <2>1, <2>2, <2>3 DEF world, call, Inside, TypeOK, Held, Tame
<1>3. ASSUME NEW t \in Threads, Write(t)
      PROVE  Inside'
  <2>1. PICK r \in Records : Begin(t, "write", r, Len(r))
    BY <1>3 DEF Write
  <2>2. r \in Seq(Bytes) /\ Len(r) \in Nat /\ 0 < Len(r)
    BY RingAssumption
  <2> QED  BY <2>1, <2>2, InsideBegins
<1>4. ASSUME NEW t \in Threads, Read(t)
      PROVE  Inside'
  <2>1. PICK n \in Asks : Begin(t, "read", << >>, n)
    BY <1>4 DEF Read
  <2>2. n \in Nat
    BY RingAssumption
  <2> QED  BY <1>0, <2>1, <2>2, InsideBegins
<1>5. ASSUME NEW t \in Threads, Query(t) \/ Launch(t)
      PROVE  Inside'
  BY <1>0, <1>5, InsideBegins DEF Query, Launch
<1>6. ASSUME NEW t \in Threads, Step(t)
      PROVE  Inside'
  <2>0. /\ Held(t) /\ want[t] \in Nat /\ done[t] \in Nat /\ off[t] \in Index
        /\ data[t] \in Seq(Bytes)
        /\ (role.wild # "wr" => wr < Size) /\ (role.wild # "rd" => rd < Size)
        /\ want = [want EXCEPT ![t] = want[t]] /\ off = [off EXCEPT ![t] = off[t]]
    BY DEF Inside, TypeOK
  <2>1. CASE Found(t) \/ Sign(t)
    <3>1. /\ role' = role /\ signed' \in BOOLEAN
          /\ UNCHANGED <<ring, room, got>>
      BY <2>1 DEF Found, Sign, Inside, TypeOK
    <3>2. CASE op[t] = "launch"
      <4>1. Return(t) /\ launched' = TRUE
        BY <2>1, <3>2 DEF Found, Sign
      <4> QED  BY <1>0, <2>0, <3>1, <4>1, InsideReturns DEF ring, Inside, TypeOK
    <3>3. CASE op[t] # "launch"
      <4>1. Goto(t, "wr") /\ UNCHANGED <<launched, want, done, off>>
        BY <2>1, <3>3 DEF Found, Sign
      <4> QED  BY <1>0, <2>0, <3>1, <4>1, InsideGoes DEF ring
    <3> QED  BY <3>2, <3>3
  <2>2. CASE Build(t)
    <3>1. /\ UNCHANGED <<role, launched, signed>>
          /\ UNCHANGED <<buf, want, done, off, room, got>>
          /\ wr' = 0 /\ rd' = 0 /\ Goto(t, "sign")
      BY <2>2 DEF Build, world
    <3> QED  BY <1>0, <2>0, <3>1, InsideGoes DEF TypeOK
  <2>3. CASE SampleWrite(t)
    <3>1. Clamped(wr) \in Index
      BY <1>0, Checked
    <3>2. wr' \in Nat /\ (role.wild # "wr" => wr' < Size)
      BY <1>0, <2>0, <2>3, <3>1, RingAssumption DEF SampleWrite, Index
    <3>3. /\ UNCHANGED <<role, launched, signed>>
          /\ UNCHANGED <<buf, rd, want, done, room, got>>
          /\ Goto(t, "rd") /\ off' = [off EXCEPT ![t] = Clamped(wr)]
      BY <2>3 DEF SampleWrite, world
    <3> QED  BY <1>0, <2>0, <3>1, <3>2, <3>3, InsideGoes DEF TypeOK
  <2>4. CASE RoomToWrite(t)
    <3>1. want[t] < Size
      <4>1. off[t] \in Nat /\ Clamped(off[t]) = off[t]
        BY <2>0, Clean, RingAssumption DEF Index
      <4>2. Avail(off[t], Clamped(rd)) \in 0..(Size - 1)
        BY <1>0, <4>1, Checked
      <4>3. want[t] <= Avail(off[t], Clamped(rd))
        BY <2>0, <2>4, <4>2 DEF RoomToWrite
      <4> QED  BY <2>0, <4>2, <4>3, RingAssumption
    <3>2. /\ UNCHANGED <<role, launched, signed>>
          /\ UNCHANGED <<buf, wr, rd, want, done, off, room, got>>
          /\ Goto(t, "copy")
      BY <2>4 DEF RoomToWrite, world, ring
    <3> QED  BY <1>0, <2>0, <3>1, <3>2, InsideGoes DEF TypeOK
  <2>5. CASE Drop(t) \/ NothingToRead(t)
    <3>1. Return(t) /\ UNCHANGED <<role, launched, signed, buf, wr, rd, room, got>>
      BY <2>5 DEF Drop, NothingToRead, world, ring
    <3> QED  BY <1>0, <2>0, <3>1, InsideReturns DEF TypeOK, Inside
  <2>6. CASE BytesToRead(t)
    <3> DEFINE n == Least(want[t], Pending(off[t], Clamped(rd)))
    <3>1. n \in Nat /\ n < Size /\ Clamped(rd) \in Index
      <4>1. off[t] \in Nat /\ Clamped(off[t]) = off[t]
        BY <2>0, Clean, RingAssumption DEF Index
      <4>2. Pending(off[t], Clamped(rd)) \in 0..(Size - 1) /\ Clamped(rd) \in Index
        BY <1>0, <4>1, Checked
      <4> QED  BY <2>0, <4>2, RingAssumption DEF Least
    <3>2. /\ UNCHANGED <<role, launched, signed>>
          /\ UNCHANGED <<buf, wr, rd, done, room, got>>
          /\ Goto(t, "copy") /\ op[t] = "read"
          /\ want' = [want EXCEPT ![t] = n] /\ off' = [off EXCEPT ![t] = Clamped(rd)]
      BY <2>6 DEF BytesToRead, world, ring
    <3> HIDE DEF n
    <3> QED  BY <1>0, <2>0, <3>1, <3>2, InsideGoes DEF TypeOK
  <2>7. CASE Answer(t)
    <3>1. /\ Return(t) /\ UNCHANGED <<role, launched, signed, buf, wr, rd, got>>
          /\ room' = IF Tame /\ role.writers = {t} THEN Free(off[t], Clamped(rd)) ELSE 0
      BY <2>7 DEF Answer, world, ring
    <3>2. Free(off[t], Clamped(rd)) \in Nat
      <4>1. off[t] \in Nat /\ Clamped(off[t]) = off[t]
        BY <2>0, Clean, RingAssumption DEF Index
      <4>2. Free(off[t], Clamped(rd)) \in 0..(Size - 1)
        BY <1>0, <4>1, Checked
      <4> QED  BY <4>2, RingAssumption
    <3>3. room' \in Nat /\ (~Tame => room' = 0)
      BY <3>1, <3>2
    <3> QED  BY <1>0, <2>0, <3>1, <3>3, InsideReturns DEF TypeOK
  <2>8. CASE StoreByte(t)
    <3>1. /\ want[t] < Size /\ done[t] < want[t] /\ want[t] = Len(data[t])
          /\ off[t] \in Index
      BY <2>0, <2>8 DEF StoreByte, Held
    <3>2. Past(off[t], done[t]) \in Index
      <4>1. done[t] \in 0..Size
        BY <2>0, <3>1, RingAssumption
      <4> QED  BY <2>0, <4>1, PastType
    <3>3. data[t][done[t] + 1] \in Bytes
      BY <2>0, <3>1
    <3>4. buf' \in [Index -> Bytes] /\ done' \in [Threads -> Nat]
      BY <1>0, <2>0, <2>8, <3>2, <3>3 DEF StoreByte, TypeOK
    <3>5. /\ UNCHANGED <<role, launched, signed>>
          /\ UNCHANGED <<wr, rd, pc, op, data, want, off, room, got>>
          /\ done' = [done EXCEPT ![t] = @ + 1]
      BY <2>8 DEF StoreByte, world
    <3>6. TypeOK'
      BY <1>0, <3>4, <3>5 DEF TypeOK
    <3> QED  BY <1>0, <2>0, <3>5, <3>6 DEF Inside, Held, Tame
  <2>9. CASE PublishWrite(t)
    <3>1. want[t] < Size /\ off[t] \in Index
      BY <2>0, <2>9 DEF PublishWrite, Held
    <3>2. Past(off[t], want[t]) \in Index
      <4>1. want[t] \in 0..Size
        BY <2>0, <3>1, RingAssumption
      <4> QED  BY <2>0, <4>1, PastType
    <3>3. /\ Return(t) /\ UNCHANGED <<role, launched, signed, buf, rd, got>>
          /\ wr' = Past(off[t], want[t])
          /\ room' = IF want[t] <= room THEN room - want[t] ELSE 0
      BY <2>9 DEF PublishWrite, world
    <3>4. wr' \in Nat /\ wr' < Size
      BY <3>2, <3>3, RingAssumption DEF Index
    <3>5. room' \in Nat /\ (~Tame => room' = 0)
      <4>1. room \in Nat /\ (~Tame => room = 0)
        BY DEF Inside, TypeOK
      <4> QED  BY <2>0, <3>3, <4>1
    <3> QED  BY <1>0, <2>0, <3>3, <3>4, <3>5, InsideReturns DEF TypeOK
  <2>10. CASE LoadByte(t)
    <3>1. want[t] < Size /\ Len(data[t]) < want[t] /\ off[t] \in Index
      BY <2>0, <2>10 DEF LoadByte, Held
    <3>2. Past(off[t], Len(data[t])) \in Index
      <4>1. Len(data[t]) \in 0..Size
        BY <2>0, <3>1, RingAssumption
      <4> QED  BY <2>0, <4>1, PastType
    <3>3. buf[Past(off[t], Len(data[t]))] \in Bytes
      BY <1>0, <3>2 DEF TypeOK
    <3>4. data' = [data EXCEPT ![t] = Append(data[t], buf[Past(off[t], Len(data[t]))])]
          /\ Append(data[t], buf[Past(off[t], Len(data[t]))]) \in Seq(Bytes)
      BY <2>0, <2>10, <3>3 DEF LoadByte
    <3>5. /\ UNCHANGED <<role, launched, signed>>
          /\ UNCHANGED <<buf, wr, rd, pc, op, want, done, off, room, got>>
          /\ op[t] = "read"
      BY <2>10 DEF LoadByte, world, ring
    <3>6. TypeOK'
      BY <1>0, <3>4, <3>5 DEF TypeOK
    <3>7. \A u \in Threads : u # t => data'[u] = data[u]
      BY <1>0, <3>4 DEF TypeOK
    <3> HIDE DEF LoadByte
    <3> QED  BY <1>0, <2>0, <3>5, <3>6, <3>7 DEF Inside, Held, Tame
  <2>11. CASE PublishRead(t)
    <3>1. want[t] < Size /\ off[t] \in Index
      BY <2>0, <2>11 DEF PublishRead, Held
    <3>2. Past(off[t], want[t]) \in Index
      <4>1. want[t] \in 0..Size
        BY <2>0, <3>1, RingAssumption
      <4> QED  BY <2>0, <4>1, PastType
    <3>3. /\ Return(t) /\ UNCHANGED <<role, launched, signed, buf, wr, room>>
          /\ rd' = Past(off[t], want[t])
          /\ got' = IF Tame THEN data[t] ELSE got
      BY <2>11 DEF PublishRead, world
    <3>4. rd' \in Nat /\ rd' < Size
      BY <3>2, <3>3, RingAssumption DEF Index
    <3>5. got' \in Seq(Bytes)
      BY <1>0, <2>0, <3>3 DEF TypeOK
    <3> QED  BY <1>0, <2>0, <3>3, <3>4, <3>5, InsideReturns DEF TypeOK, Inside
  <2> QED  BY <1>6, <2>1, <2>2, <2>3, <2>4, <2>5, <2>6, <2>7, <2>8, <2>9, <2>10,
              <2>11 DEF Step
<1> QED  BY <1>1, <1>2, <1>3, <1>4, <1>5, <1>6 DEF Next

\* That holds in every role, whoever writes, reads or scribbles.
THEOREM Confinement == Spec => []Inside
<1>1. Init => Inside
  <2>1. ASSUME Init PROVE TypeOK
    <3>1. << >> \in Seq(Bytes) /\ 0 \in Index /\ 0 < Size
      BY RingAssumption DEF Index
    <3>2. buf \in [Index -> Bytes]
      BY <2>1, RingAssumption DEF Init
    <3> QED  BY <2>1, <3>1, <3>2 DEF Init, TypeOK
  <2>2. ASSUME Init PROVE room = 0 /\ \A t \in Threads : Held(t)
    BY <2>2 DEF Init, Held
  <2> QED  BY <2>1, <2>2 DEF Inside
<1>2. Inside /\ [Next]_vars => Inside'
  BY InsideKeeps
<1> QED  BY <1>1, <1>2, PTL DEF Spec

\* The types hold, in every role: every offset used is inside the ring.
THEOREM TypeCorrect == Spec => []TypeOK
<1>1. Inside => TypeOK
  BY DEF Inside
<1> QED  BY <1>1, Confinement, PTL

\* No copy starts outside the buffer or is longer than it, whatever a probe
\* leaves in its offset and however many cores write (onerom_rtt_avail).
THEOREM NothingOutside == Spec => []StaysInside
<1>1. Inside => StaysInside
  <2>1. ASSUME Inside, NEW t \in Threads PROVE off[t] < Size
    <3>1. off[t] \in Index
      BY <2>1 DEF Inside, TypeOK
    <3> QED  BY <3>1, RingAssumption DEF Index
  <2> QED  BY <2>1 DEF Inside, Held, StaysInside
<1> QED  BY <1>1, Confinement, PTL

-----------------------------------------------------------------------------
(* One core on each side.                                                  *)

JInv == Inside /\ (Tame => IInv)

\* With one core on each side and a probe that keeps to its offset's rules,
\* what a call has sampled stays true until it publishes.
THEOREM Invariance ==
    ASSUME OneEachSide
    PROVE  Spec => []JInv
<1>1. Init => (Tame => IInv)
  BY InitHolds
<1>2. (Tame => IInv) /\ [Next]_vars => (Tame => IInv)'
  <2> SUFFICES ASSUME Tame => IInv, [Next]_vars, Tame'
               PROVE  IInv'
    OBVIOUS
  <2>1. Tame
    BY Fixed DEF Tame
  <2> QED  BY <2>1, NextKeeps
<1>3. Spec => [](Tame => IInv)
  BY <1>1, <1>2, PTL DEF Spec
<1>4. Inside /\ (Tame => IInv) => JInv
  BY DEF JInv
<1> QED  BY <1>3, <1>4, Confinement, PTL

\* What onerom_rtt_query said is free stays free until its sole writer writes:
\* usb_log.c's query-then-write loses nothing.
THEOREM RoomKept ==
    ASSUME OneEachSide
    PROVE  Spec => RoomStands
<1>1. ASSUME IInv, NEW t \in Threads, Drop(t)
      PROVE  want[t] > room
  <2>1. /\ TypeOK /\ wr \in Index /\ rd \in Index /\ off[t] = wr
        /\ want[t] \in Nat /\ room \in Nat
    BY <1>1, RoleFacts DEF IInv, TypeOK, Storing, Drop
  <2>2. /\ Avail(wr, rd) = Size - 1 - Pending(wr, rd) /\ Clamped(rd) = rd
        /\ Pending(wr, rd) \in 0..(Size - 1)
    BY <2>1, Counts
  <2>3. Avail(wr, rd) < want[t]
    BY <1>1, <2>1, <2>2 DEF Drop
  <2>4. room + Pending(wr, rd) < Size
    BY <1>1 DEF IInv, Told
  <2> QED  BY <2>1, <2>2, <2>3, <2>4, RingAssumption
<1>2. ASSUME Inside, ~Tame, NEW t \in Threads, Drop(t)
      PROVE  want[t] > room
  <2>1. room = 0 /\ 0 < want[t] /\ want[t] \in Nat
    BY <1>2 DEF Inside, Held, TypeOK, Drop
  <2> QED  BY <2>1
<1>3. JInv => \A t \in Threads : role.writers = {t} /\ Drop(t) => want[t] > room
  BY <1>1, <1>2 DEF JInv
<1>4. JInv /\ [Next]_vars =>
        [\A t \in Threads : role.writers = {t} /\ Drop(t) => want[t] > room]_vars
  BY <1>3
<1> QED  BY <1>4, Invariance, PTL DEF Spec, RoomStands

-----------------------------------------------------------------------------
(* The ring implements the bounded queue.                                  *)

\* The queue is as long as the offsets say, and holds bytes.
LEMMA QueueType ==
    ASSUME OneEachSide, TypeOK, Tame
    PROVE  /\ Queue \in Seq(Bytes)
           /\ Len(Queue) = Pending(wr, rd)
           /\ \A i \in 1..Pending(wr, rd) : Queue[i] = buf[Past(rd, i - 1)]
<1>1. wr \in Index /\ rd \in Index /\ buf \in [Index -> Bytes]
  BY RoleFacts DEF TypeOK
<1>2. Pending(wr, rd) \in 0..(Size - 1) /\ Pending(wr, rd) \in Nat
  BY <1>1, Counts, RingAssumption
<1>3. \A i \in 1..Pending(wr, rd) : buf[Past(rd, i - 1)] \in Bytes
  <2> SUFFICES ASSUME NEW i \in 1..Pending(wr, rd)
               PROVE  buf[Past(rd, i - 1)] \in Bytes
    OBVIOUS
  <2>1. i - 1 \in 0..Size
    BY <1>2, RingAssumption
  <2> QED  BY <1>1, <2>1, PastType
<1> QED  BY <1>2, <1>3 DEF Queue

\* A byte behind the queue is not in it.
LEMMA StoreUnseen ==
    ASSUME OneEachSide, IInv, NEW t \in Threads, StoreByte(t)
    PROVE  Queue' = Queue
<1>1. wr' = wr /\ rd' = rd /\ TypeOK /\ wr \in Index /\ rd \in Index
  BY RoleFacts DEF StoreByte, IInv
<1>2. ASSUME NEW i \in 1..Pending(wr, rd)
      PROVE  buf'[Past(rd, i - 1)] = buf[Past(rd, i - 1)]
  <2>1. i - 1 \in 0..(Pending(wr, rd) - 1) /\ i - 1 \in 0..Size
    BY <1>1, Counts, RingAssumption
  <2>2. Past(rd, i - 1) # Past(off[t], done[t]) /\ Past(rd, i - 1) \in Index
    BY <1>1, <2>1, BehindQueue, PastType
  <2> QED  BY <1>1, <2>2 DEF StoreByte, TypeOK
<1> QED  BY <1>1, <1>2 DEF Queue

\* Publishing write_offset appends the record.
LEMMA Appends ==
    ASSUME OneEachSide, IInv, IInv', NEW t \in Threads, PublishWrite(t)
    PROVE  /\ data[t] \in Records
           /\ Queue' = Queue \o data[t]
           /\ Len(Queue) + Len(data[t]) <= Size - 1
<1>0. /\ TypeOK /\ TypeOK' /\ Tame /\ Calls(t) /\ Storing(t)
      /\ wr \in Index /\ rd \in Index
      /\ data[t] \in Seq(Bytes)
      /\ pc[t] = "copy" /\ op[t] = "write" /\ done[t] = want[t]
      /\ buf' = buf /\ rd' = rd /\ wr' = Past(off[t], want[t])
  BY RoleFacts DEF IInv, TypeOK, PublishWrite
<1>1. /\ data[t] \in Records /\ want[t] = Len(data[t]) /\ off[t] = wr
      /\ Pending(wr, rd) + Len(data[t]) < Size
      /\ \A i \in 1..Len(data[t]) : buf[Past(wr, i - 1)] = data[t][i]
  BY <1>0 DEF Calls, Storing
<1> DEFINE n == Pending(wr, rd)
           m == Len(data[t])
<1>2. m \in Nat /\ n \in 0..(Size - 1) /\ n \in Nat
  BY <1>0, Counts, RingAssumption
<1>3. Pending(wr', rd') = n + m
  BY <1>0, <1>1, <1>2, WriteCounts
<1>4. /\ Queue \in Seq(Bytes) /\ Len(Queue) = n
      /\ \A i \in 1..n : Queue[i] = buf[Past(rd, i - 1)]
  BY <1>0, QueueType
<1>5. Queue' = [i \in 1..(n + m) |-> buf[Past(rd, i - 1)]]
  BY <1>0, <1>3 DEF Queue
<1>6. ASSUME NEW i \in 1..(n + m)
      PROVE  buf[Past(rd, i - 1)] = (Queue \o data[t])[i]
  <2>1. CASE i <= n
    BY <1>0, <1>2, <1>4, <2>1
  <2>2. CASE i > n
    <3>1. /\ i - n \in 1..m /\ i - 1 = n + (i - n - 1)
          /\ i - n - 1 \in Nat /\ n + (i - n - 1) < Size
      BY <1>1, <1>2, <2>2, RingAssumption
    <3>2. Past(rd, i - 1) = Past(wr, i - n - 1)
      <4>1. Past(rd, n) = wr
        BY <1>0, EndOfQueue
      <4>2. Past(Past(rd, n), i - n - 1) = Past(rd, n + (i - n - 1))
        BY <1>0, <1>2, <3>1, PastPast
      <4> QED  BY <3>1, <4>1, <4>2
    <3>3. buf[Past(wr, i - n - 1)] = data[t][i - n]
      BY <1>1, <3>1
    <3>4. (Queue \o data[t])[i] = data[t][i - n]
      BY <1>0, <1>2, <1>4, <2>2
    <3> QED  BY <3>2, <3>3, <3>4
  <2>3. i <= n \/ i > n
    <3> HIDE DEF n, m
    <3> QED  BY <1>2
  <2> QED  BY <2>1, <2>2, <2>3
<1>7. Queue \o data[t] = [i \in 1..(n + m) |-> (Queue \o data[t])[i]]
  <2> DEFINE q == Queue
             d == data[t]
             s == q \o d
             k == n + m
  <2>1. q \in Seq(Bytes) /\ d \in Seq(Bytes) /\ Len(q) = n /\ Len(d) = m
    BY <1>0, <1>4
  <2> HIDE DEF n, m, q, d
  <2>2. s \in Seq(Bytes) /\ Len(s) = k
    BY <2>1
  <2>3. s = [i \in 1..k |-> s[i]]
    <3> HIDE DEF s, k
    <3> QED  BY <2>2
  <2> QED  BY <2>3 DEF q, d
<1>8. Queue' = Queue \o data[t]
  <2> HIDE DEF n, m
  <2> QED  BY <1>5, <1>6, <1>7
<1> QED  BY <1>1, <1>2, <1>4, <1>8, RingAssumption

\* Publishing read_offset takes what was copied off the front.
LEMMA Takes ==
    ASSUME OneEachSide, IInv, IInv', NEW t \in Threads, PublishRead(t)
    PROVE  /\ want[t] \in 1..Len(Queue)
           /\ got' = SubSeq(Queue, 1, want[t])
           /\ Queue' = SubSeq(Queue, want[t] + 1, Len(Queue))
<1>0. /\ TypeOK /\ TypeOK' /\ Tame /\ Loading(t)
      /\ wr \in Index /\ rd \in Index
      /\ data[t] \in Seq(Bytes) /\ want[t] \in Nat
      /\ pc[t] = "copy" /\ op[t] = "read" /\ Len(data[t]) = want[t]
      /\ buf' = buf /\ wr' = wr /\ rd' = Past(off[t], want[t])
      /\ got' = data[t]
  BY RoleFacts DEF IInv, TypeOK, PublishRead
<1> DEFINE n == Pending(wr, rd)
           m == want[t]
<1>1. /\ off[t] = rd /\ 0 < m /\ m <= n
      /\ \A i \in 1..m : data[t][i] = buf[Past(rd, i - 1)]
  BY <1>0 DEF Loading
<1>2. n \in 0..(Size - 1) /\ n \in Nat /\ m \in 1..n
  BY <1>0, <1>1, Counts, RingAssumption
<1>3. Pending(wr', rd') = n - m /\ rd' = Past(rd, m)
  BY <1>0, <1>1, ReadCounts
<1>4. /\ Queue \in Seq(Bytes) /\ Len(Queue) = n
      /\ \A i \in 1..n : Queue[i] = buf[Past(rd, i - 1)]
  BY <1>0, QueueType
<1>5. got' = SubSeq(Queue, 1, m)
  <2>1. data[t] = [i \in 1..m |-> data[t][i]]
    BY <1>0
  <2>2. SubSeq(Queue, 1, m) = [i \in 1..m |-> Queue[i]]
    <3> HIDE DEF n, m
    <3> QED  BY <1>2, <1>4
  <2>3. \A i \in 1..m : data[t][i] = Queue[i]
    BY <1>0, <1>1, <1>2, <1>4
  <2> QED  BY <1>0, <2>1, <2>2, <2>3
<1>6. Queue' = [i \in 1..(n - m) |-> buf[Past(Past(rd, m), i - 1)]]
  BY <1>0, <1>3 DEF Queue
<1>7. ASSUME NEW i \in 1..(n - m)
      PROVE  buf[Past(Past(rd, m), i - 1)] = Queue[m + i]
  <2>1. /\ i - 1 \in Nat /\ m \in Nat /\ m + (i - 1) < Size
        /\ m + i \in 1..n /\ m + (i - 1) = (m + i) - 1
    BY <1>2, RingAssumption
  <2>2. Past(Past(rd, m), i - 1) = Past(rd, m + (i - 1))
    BY <1>0, <2>1, PastPast
  <2> QED  BY <1>4, <2>1, <2>2
<1>8. SubSeq(Queue, m + 1, n) = [i \in 1..(n - m) |-> Queue[m + i]]
  <2> HIDE DEF n, m
  <2> QED  BY <1>2, <1>4
<1>9. Queue' = SubSeq(Queue, m + 1, n)
  <2> HIDE DEF n, m
  <2> QED  BY <1>6, <1>7, <1>8
<1> QED  BY <1>2, <1>4, <1>5, <1>9

\* Every step stores a record, takes a prefix, or is none of the queue's.
LEMMA QueueStep ==
    ASSUME OneEachSide, IInv, IInv', [Next]_vars
    PROVE  \/ UNCHANGED <<Queue, got>>
           \/ \E r \in Records : /\ Len(Queue) + Len(r) <= Size - 1
                                /\ Queue' = Queue \o r /\ got' = got
           \/ \E n \in 1..Len(Queue) :
                 /\ got' = SubSeq(Queue, 1, n)
                 /\ Queue' = SubSeq(Queue, n + 1, Len(Queue))
<1>0. TypeOK /\ wr \in Index /\ rd \in Index
  BY RoleFacts DEF IInv
<1>1. ASSUME UNCHANGED <<ring, got>>
      PROVE  UNCHANGED <<Queue, got>>
  BY <1>1 DEF ring, Queue
<1>2. CASE UNCHANGED vars
  BY <1>1, <1>2 DEF vars
<1>3. CASE Scribble
  BY <1>3, RoleFacts DEF Scribble, IInv
<1>4. ASSUME NEW t \in Threads, Write(t) \/ Read(t) \/ Query(t) \/ Launch(t)
      PROVE  UNCHANGED <<ring, got>>
  BY <1>4 DEF Write, Read, Query, Launch, Begin
<1>5. ASSUME NEW t \in Threads, Step(t), ~PublishWrite(t), ~PublishRead(t)
      PROVE  UNCHANGED <<Queue, got>>
  <2>1. CASE Found(t) \/ Sign(t)
    BY <1>1, <2>1 DEF Found, Sign
  <2>2. CASE Build(t)
    BY <1>1, <2>2 DEF Build, IInv, Booting, ring
  <2>3. CASE SampleWrite(t)
    <3>1. Clamped(wr) = wr
      BY <1>0, Counts
    <3> QED  BY <1>1, <2>3, <3>1 DEF SampleWrite, ring
  <2>4. CASE RoomToWrite(t) \/ Drop(t)
    BY <1>1, <2>4 DEF RoomToWrite, Drop
  <2>5. CASE BytesToRead(t) \/ NothingToRead(t) \/ Answer(t)
    BY <1>1, <2>5 DEF BytesToRead, NothingToRead, Answer
  <2>6. CASE StoreByte(t)
    BY <2>6, StoreUnseen DEF StoreByte
  <2>7. CASE LoadByte(t)
    BY <1>1, <2>7 DEF LoadByte
  <2> QED  BY <1>5, <2>1, <2>2, <2>3, <2>4, <2>5, <2>6, <2>7 DEF Step
<1>6. ASSUME NEW t \in Threads, PublishWrite(t)
      PROVE  \E r \in Records : /\ Len(Queue) + Len(r) <= Size - 1
                                /\ Queue' = Queue \o r /\ got' = got
  <2>1. got' = got
    BY <1>6 DEF PublishWrite
  <2> QED  BY <1>6, <2>1, Appends
<1>7. ASSUME NEW t \in Threads, PublishRead(t)
      PROVE  \E n \in 1..Len(Queue) :
                 /\ got' = SubSeq(Queue, 1, n)
                 /\ Queue' = SubSeq(Queue, n + 1, Len(Queue))
  BY <1>7, Takes
<1> QED  BY <1>1, <1>2, <1>3, <1>4, <1>5, <1>6, <1>7 DEF Next

\* With one core on each side the ring is a bounded queue: records whole and
\* in order, each byte read once (rtt.c 16-17), for a ring of any size, any
\* records and any number of handlers.
THEOREM Refinement ==
    ASSUME OneEachSide
    PROVE  Spec => FifoSpec
<1> DEFINE q == IF Tame THEN Queue ELSE << >>
<1>1. Init => Fifo!Init
  <2>1. ASSUME Init, Tame PROVE Queue = << >>
    <3>1. TypeOK
      BY <2>1, InitHolds DEF IInv
    <3>2. Queue \in Seq(Bytes) /\ Len(Queue) = 0
      BY <2>1, <3>1, QueueType, RingAssumption DEF Init, Pending
    <3> QED  BY <3>2
  <2> QED  BY <2>1 DEF Fifo!Init, Init
<1>2. ASSUME JInv, JInv', [Next]_vars
      PROVE  [Fifo!Next]_<<q, got>>
  <2>1. role' = role /\ (Tame \/ got' = got)
    BY <1>2, Fixed
  <2>2. CASE ~Tame
    <3>1. q = << >> /\ q' = << >> /\ got' = got
      BY <2>1, <2>2 DEF Tame
    <3> QED  BY <3>1
  <2>3. CASE Tame
    <3>1. q = Queue /\ q' = Queue'
      BY <2>1, <2>3 DEF Tame
    <3>2. IInv /\ IInv'
      BY <1>2, <2>1, <2>3 DEF JInv, Tame
    <3>3. \/ UNCHANGED <<q, got>>
          \/ \E r \in Records : /\ Len(q) + Len(r) <= Size - 1
                                /\ q' = q \o r /\ got' = got
          \/ \E n \in 1..Len(q) : /\ got' = SubSeq(q, 1, n)
                                  /\ q' = SubSeq(q, n + 1, Len(q))
      BY <1>2, <3>1, <3>2, QueueStep
    <3> QED  BY <3>3 DEF Fifo!Next, Fifo!Store, Fifo!Take
  <2> QED  BY <2>2, <2>3
<1>3. JInv /\ JInv' /\ [Next]_vars => [Fifo!Next]_<<q, got>>
  BY <1>2
<1> QED  BY <1>1, <1>3, Invariance, PTL DEF Spec, FifoSpec, Fifo!Spec
=============================================================================
