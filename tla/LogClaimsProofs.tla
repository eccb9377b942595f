--------------------------- MODULE LogClaimsProofs ---------------------------
(***************************************************************************)
(* Proofs about LogClaims, for any number of plugins and handlers: where   *)
(* only main programs close claims, claims exclude each other although     *)
(* they are used without the lock that guards them.                        *)
(***************************************************************************)
EXTENDS LogClaims, TLAPS

\* Handlers do not close claims (ora_log_close_write asks only for the plugin).
MainsClose == Closers \cap Handlers = {}

-----------------------------------------------------------------------------
(* The inductive invariant.                                                *)

InLock == {"test", "take", "clear", "free"}

\* The spinlock is held exactly in the guarded part of a call.
Locked == \A t \in Threads : pc[t] \in InLock <=> lock = t

\* What each part of a call has found out is still so.
StillTrue ==
    \A t \in Threads :
        /\ pc[t] \in {"spin"} \cup InLock => job[t] \in {"open", "close"}
        /\ job[t] = "close" => t \in Closers
        /\ pc[t] = "take" => job[t] = "open" /\ claim[side[t]] = None
        /\ pc[t] = "clear" => job[t] = "close" /\ Mine(t)
        /\ pc[t] = "free" /\ job[t] = "open" => Mine(t)
        /\ pc[t] = "rename" => side[t] = "write" /\ Mine(t)
        /\ pc[t] \in {"held", "using"} => Mine(t)

IInv == TypeOK /\ Locked /\ StillTrue /\ OpenHolds /\ NameIsOwners

-----------------------------------------------------------------------------
\* While a main program runs, every other thread of its core is idle.
LEMMA Alone ==
    ASSUME NEW t \in Threads \ Handlers, Resumes(t),
           NEW u \in Threads, Core[u] = Core[t], u # t
    PROVE  pc[u] = "idle"
BY ThreadsAssumption DEF Resumes

\* Every call starts from the idle state and disturbs nothing.
LEMMA CallKeeps ==
    ASSUME IInv, NEW t \in Threads, NEW j \in {"open", "close", "use"},
           NEW s \in Sides, NEW place \in {"spin", "held"},
           Call(t, j, s, place),
           j = "close" => t \in Closers,
           place = "spin" => j \in {"open", "close"},
           place = "held" => claim[s] = Core[t]
    PROVE  IInv'
<1> USE DEF IInv, Call, MayCall
<1>1. TypeOK'
  BY DEF TypeOK
<1>2. Locked'
  BY DEF Locked, InLock, TypeOK
<1>3. StillTrue'
  BY DEF StillTrue, InLock, Mine, TypeOK
<1>4. OpenHolds' /\ NameIsOwners'
  BY DEF OpenHolds, NameIsOwners
<1> QED  BY <1>1, <1>2, <1>3, <1>4

\* Nobody is in a call and nothing is claimed.
LEMMA InitHolds == Init => IInv
<1> SUFFICES ASSUME Init PROVE IInv
  OBVIOUS
<1>1. TypeOK
  BY DEF Init, TypeOK, Sides
<1>2. Locked /\ StillTrue
  BY ThreadsAssumption DEF Init, Locked, StillTrue, InLock
<1>3. OpenHolds /\ NameIsOwners
  BY DEF Init, OpenHolds, NameIsOwners, Sides
<1> QED  BY <1>1, <1>2, <1>3 DEF IInv

\* One thread gets the spinlock (ora_log_lock).
LEMMA AcquireKeeps ==
    ASSUME IInv, NEW t \in Threads, Acquire(t)
    PROVE  IInv'
<1> USE DEF IInv, Acquire, Goto
<1>1. TypeOK'
  BY DEF TypeOK
<1>2. Locked'
  BY ThreadsAssumption DEF Locked, InLock, TypeOK
<1>3. StillTrue'
  BY DEF StillTrue, InLock, Mine, TypeOK
<1>4. OpenHolds' /\ NameIsOwners'
  BY DEF OpenHolds, NameIsOwners
<1> QED  BY <1>1, <1>2, <1>3, <1>4

\* Under the lock the table says what the call goes by (ora_log_claim).
LEMMA TestKeeps ==
    ASSUME IInv, NEW t \in Threads, Test(t)
    PROVE  IInv'
<1> USE DEF IInv, Test, Goto
<1>1. TypeOK'
  BY DEF TypeOK
<1>2. Locked'
  BY DEF Locked, InLock, TypeOK
<1>3. StillTrue'
  BY DEF StillTrue, InLock, Mine, TypeOK
<1>4. OpenHolds' /\ NameIsOwners'
  BY DEF OpenHolds, NameIsOwners
<1> QED  BY <1>1, <1>2, <1>3, <1>4

\* A refused call gives the lock back and changes nothing else.
LEMMA RefuseKeeps ==
    ASSUME IInv, NEW t \in Threads, Refuse(t)
    PROVE  IInv'
<1> USE DEF IInv, Refuse, Return
<1>1. TypeOK'
  BY DEF TypeOK, Sides
<1>2. Locked'
  BY ThreadsAssumption DEF Locked, InLock, TypeOK
<1>3. StillTrue'
  BY DEF StillTrue, InLock, Mine, TypeOK
<1>4. OpenHolds' /\ NameIsOwners'
  BY DEF OpenHolds, NameIsOwners
<1> QED  BY <1>1, <1>2, <1>3, <1>4

\* Nobody else is in the lock, and no plugin has the claim.
LEMMA TakeKeeps ==
    ASSUME IInv, NEW t \in Threads, Take(t)
    PROVE  IInv'
<1> USE DEF IInv, Take, Goto
<1>0. claim[side[t]] = None /\ lock = t /\ job[t] = "open"
  BY DEF StillTrue, Locked, InLock
<1>1. TypeOK'
  BY DEF TypeOK, Cores
<1>2. Locked'
  BY DEF Locked, InLock, TypeOK
<1>3. \A u \in Threads : u # t => ~(pc[u] \in InLock)
  BY <1>0 DEF Locked
<1>4. StillTrue'
  BY <1>0, <1>3, ThreadsAssumption DEF StillTrue, InLock, Mine, TypeOK
<1>5. OpenHolds'
  BY <1>0, ThreadsAssumption DEF OpenHolds, TypeOK, Cores
<1>6. NameIsOwners'
  BY <1>0, ThreadsAssumption DEF NameIsOwners, TypeOK
<1> QED  BY <1>1, <1>2, <1>4, <1>5, <1>6

\* The plugin that closes has no other thread in a call.
LEMMA ClearKeeps ==
    ASSUME MainsClose, IInv, NEW t \in Threads, Clear(t)
    PROVE  IInv'
<1> USE DEF IInv, Clear, Goto
<1>0. Mine(t) /\ lock = t /\ job[t] = "close" /\ t \in Threads \ Handlers
  BY DEF StillTrue, Locked, InLock, MainsClose
<1>1. TypeOK'
  BY DEF TypeOK
<1>2. Locked'
  BY DEF Locked, InLock, TypeOK
<1>3. \A u \in Threads : u # t => ~(pc[u] \in InLock)
  BY <1>0 DEF Locked
<1>4. \A u \in Threads : u # t /\ Core[u] = Core[t] => pc[u] = "idle"
  BY <1>0, Alone
<1>5. StillTrue'
  <2> SUFFICES ASSUME NEW u \in Threads
               PROVE  /\ pc'[u] \in {"spin"} \cup InLock => job'[u] \in {"open", "close"}
                      /\ job'[u] = "close" => u \in Closers
                      /\ pc'[u] = "take" => job'[u] = "open" /\ claim'[side'[u]] = None
                      /\ pc'[u] = "clear" => job'[u] = "close" /\ Mine(u)'
                      /\ pc'[u] = "free" /\ job'[u] = "open" => Mine(u)'
                      /\ pc'[u] = "rename" => side'[u] = "write" /\ Mine(u)'
                      /\ pc'[u] \in {"held", "using"} => Mine(u)'
    BY DEF StillTrue
  <2>1. CASE u = t
    BY <1>0, <2>1 DEF StillTrue, InLock, TypeOK
  <2>2. CASE u # t /\ Core[u] = Core[t]
    BY <2>2, <1>4 DEF StillTrue, InLock, TypeOK
  <2>3. CASE u # t /\ Core[u] # Core[t]
    BY <2>3, <1>0, <1>3 DEF StillTrue, InLock, TypeOK, Mine
  <2> QED  BY <2>1, <2>2, <2>3
<1>6. OpenHolds'
  BY <1>0 DEF OpenHolds, TypeOK, Mine
<1>7. NameIsOwners'
  BY <1>0, ThreadsAssumption DEF NameIsOwners, OpenHolds, TypeOK, Mine, Sides
<1> QED  BY <1>1, <1>2, <1>5, <1>6, <1>7

\* Giving the lock back (ora_log_unlock) takes nothing from the claim.
LEMMA FreeKeeps ==
    ASSUME IInv, NEW t \in Threads, Free(t)
    PROVE  IInv'
<1> USE DEF IInv, Free, Goto, Return
<1>1. TypeOK'
  BY DEF TypeOK, Sides, Cores
<1>2. Locked'
  BY ThreadsAssumption DEF Locked, InLock, TypeOK
<1>3. StillTrue'
  BY DEF StillTrue, InLock, Mine, TypeOK
<1>4. OpenHolds'
  BY DEF OpenHolds, StillTrue, Mine, TypeOK
<1>5. opened'["write"] = opened["write"]
  BY DEF TypeOK, Sides
<1>6. NameIsOwners'
  BY <1>5 DEF NameIsOwners
<1> QED  BY <1>1, <1>2, <1>3, <1>4, <1>6

\* The plugin at the naming has the claim, so nobody else was told it has.
LEMMA RenameKeeps ==
    ASSUME IInv, NEW t \in Threads, Rename(t)
    PROVE  IInv'
<1> USE DEF IInv, Rename, Return
<1>0. side[t] = "write" /\ Mine(t)
  BY DEF StillTrue
<1>1. TypeOK'
  BY DEF TypeOK, Sides, Cores
<1>2. Locked'
  BY DEF Locked, InLock, TypeOK
<1>3. StillTrue'
  BY DEF StillTrue, InLock, Mine, TypeOK
<1>4. OpenHolds'
  BY <1>0 DEF OpenHolds, Mine, TypeOK
<1>5. NameIsOwners'
  BY <1>0, ThreadsAssumption DEF NameIsOwners, OpenHolds, Mine, TypeOK, Sides
<1> QED  BY <1>1, <1>2, <1>3, <1>4, <1>5

\* A write or a read in the ring leaves the claims alone.
LEMMA RingKeeps ==
    ASSUME IInv, NEW t \in Threads, EnterRing(t) \/ LeaveRing(t)
    PROVE  IInv'
<1> USE DEF IInv, EnterRing, LeaveRing, Goto, Return
<1>1. TypeOK'
  BY DEF TypeOK, Sides
<1>2. Locked'
  BY DEF Locked, InLock, TypeOK
<1>3. StillTrue'
  BY DEF StillTrue, InLock, Mine, TypeOK
<1>4. OpenHolds' /\ NameIsOwners'
  BY DEF OpenHolds, NameIsOwners
<1> QED  BY <1>1, <1>2, <1>3, <1>4

\* Every step keeps the invariant.
LEMMA NextKeeps ==
    ASSUME MainsClose, IInv, [Next]_vars
    PROVE  IInv'
<1>1. CASE UNCHANGED vars
  BY <1>1 DEF vars, IInv, TypeOK, Locked, StillTrue, Mine, OpenHolds, NameIsOwners
<1>2. ASSUME NEW t \in Threads, Open(t) \/ Close(t) \/ Use(t)
      PROVE  IInv'
  <2>1. CASE Open(t)
    BY <2>1, CallKeeps DEF Open
  <2>2. CASE Close(t)
    BY <2>2, CallKeeps DEF Close
  <2>3. CASE Use(t)
    BY <2>3, CallKeeps DEF Use
  <2> QED  BY <1>2, <2>1, <2>2, <2>3
<1>3. ASSUME NEW t \in Threads, Step(t)
      PROVE  IInv'
  BY <1>3, AcquireKeeps, TestKeeps, RefuseKeeps, TakeKeeps, ClearKeeps,
     FreeKeeps, RenameKeeps, RingKeeps DEF Step
<1> QED  BY <1>1, <1>2, <1>3 DEF Next

-----------------------------------------------------------------------------
(* Theorems.                                                               *)

\* The invariant holds of every behaviour (the claims code keeps the lock,
\* and what it read of the tables stays true for as long as it relies on it).
THEOREM Invariance == ASSUME MainsClose PROVE Spec => []IInv
<1>1. Init => IInv
  BY InitHolds
<1>2. IInv /\ [Next]_vars => IInv'
  BY NextKeeps
<1> QED  BY <1>1, <1>2, PTL DEF Spec

\* A claim names a plugin or nobody, and the lock a thread (plugin.c 1291-1297).
THEOREM TypeCorrect == ASSUME MainsClose PROVE Spec => []TypeOK
<1>1. IInv => TypeOK
  BY DEF IInv
<1> QED  BY <1>1, Invariance, PTL

\* No two plugins write, or read, the ring at once (ora_log_write and
\* ora_log_read look at the claim without the lock).
THEOREM OneAtATime == ASSUME MainsClose PROVE Spec => []OneUser
<1>1. IInv => OneUser
  BY DEF IInv, StillTrue, Mine, OneUser
<1> QED  BY <1>1, Invariance, PTL

\* An open that returned OK stands until that plugin closes
\* (ora_log_claim, ora_log_close_write, ora_log_close_read).
THEOREM ClaimsStand == ASSUME MainsClose PROVE Spec => []OpenHolds
<1>1. IInv => OpenHolds
  BY DEF IInv
<1> QED  BY <1>1, Invariance, PTL

\* A channel shows its holder's name, or the firmware's (ora_log_open_write
\* sets it after it has released the lock).
THEOREM NamesAgree == ASSUME MainsClose PROVE Spec => []NameIsOwners
<1>1. IInv => NameIsOwners
  BY DEF IInv
<1> QED  BY <1>1, Invariance, PTL
=============================================================================
