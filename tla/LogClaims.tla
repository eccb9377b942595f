------------------------------ MODULE LogClaims ------------------------------
(***************************************************************************)
(* The claims on a log channel (src/firmware/src/plugin.c 1287-1530): who  *)
(* may write it and who may read it, and the name a reader is shown.  A    *)
(* plugin is known by its core; its main program and its handlers act for  *)
(* it.  What a write or a read then does to the ring is RttRing.           *)
(***************************************************************************)
EXTENDS Naturals

CONSTANTS
    Threads,    \* the plugins' main programs and interrupt handlers
    Handlers,   \* the threads that are handlers
    Closers,    \* the threads that close claims
    Core,       \* the core, hence the plugin, of each thread
    None        \* no claim; no lock; the firmware's own name

ASSUME ThreadsAssumption ==
    /\ Handlers \subseteq Threads
    /\ Closers \subseteq Threads
    /\ \A t, u \in Threads \ Handlers : Core[t] = Core[u] => t = u
    /\ None \notin Threads /\ \A t \in Threads : Core[t] # None

Sides == {"write", "read"}

Cores == {Core[t] : t \in Threads}

VARIABLES
    claim,      \* ora_log_writer and ora_log_reader of the channel
    name,       \* whose name the channel shows
    lock,       \* SPINLOCK_ORA_LOG: the thread that took it
    pc, job,    \* where each thread is, and in which call
    side,       \* the claim the call is about
    opened      \* the plugins told that a claim is theirs

vars == <<claim, name, lock, pc, job, side, opened>>

TypeOK ==
    /\ claim \in [Sides -> Cores \cup {None}]
    /\ name \in Cores \cup {None}
    /\ lock \in Threads \cup {None}
    /\ pc \in [Threads -> {"idle", "spin", "test", "take", "clear",
                           "free", "rename", "held", "using"}]
    /\ job \in [Threads -> {"none", "open", "close", "use"}]
    /\ side \in [Threads -> Sides]
    /\ opened \in [Sides -> SUBSET Cores]

-----------------------------------------------------------------------------
(* Who may run.                                                            *)

\* Interrupts are masked from before the lock is asked for until after it is
\* given back, and inside the ring.  Between its parts a call is not masked.
Unmasked == {"idle", "rename", "held"}

Masked_Never(t) == FALSE
Masked(t) == \E u \in Threads : Core[u] = Core[t] /\ pc[u] \notin Unmasked

\* A handler returns before what it interrupted goes on.
Resumes(t) ==
    t \in Handlers
        \/ \A h \in Handlers : Core[h] = Core[t] => pc[h] = "idle"

Interrupts(t) ==
    /\ t \in Handlers
    /\ ~Masked(t)
    /\ \A h \in Handlers : Core[h] = Core[t] => pc[h] = "idle"

MayCall(t) ==
    /\ pc[t] = "idle"
    /\ t \in Handlers => Interrupts(t)
    /\ Resumes(t)

Call(t, j, s, place) ==
    /\ MayCall(t)
    /\ pc' = [pc EXCEPT ![t] = place]
    /\ job' = [job EXCEPT ![t] = j]
    /\ side' = [side EXCEPT ![t] = s]
    /\ UNCHANGED <<claim, name, lock, opened>>

Goto(t, place) ==
    /\ Resumes(t)
    /\ pc' = [pc EXCEPT ![t] = place]
    /\ UNCHANGED <<job, side>>

Return(t) ==
    /\ Resumes(t)
    /\ pc' = [pc EXCEPT ![t] = "idle"]
    /\ job' = [job EXCEPT ![t] = "none"]
    /\ side' = [side EXCEPT ![t] = "write"]

Mine_Anybodys(t) == claim[side[t]] # None
Mine(t) == claim[side[t]] = Core[t]

-----------------------------------------------------------------------------
(* ora_log_open_write, ora_log_open_read, and the two closes.              *)

Open(t) == \E s \in Sides : Call(t, "open", s, "spin")

Close(t) == t \in Closers /\ \E s \in Sides : Call(t, "close", s, "spin")

\* The spinlock gives itself to one reader of the register.
Acquire_Regardless(t) ==
    /\ pc[t] = "spin"
    /\ lock' = t
    /\ Goto(t, "test")
    /\ UNCHANGED <<claim, name, opened>>
Acquire(t) ==
    /\ pc[t] = "spin"
    /\ lock = None
    /\ lock' = t
    /\ Goto(t, "test")
    /\ UNCHANGED <<claim, name, opened>>

\* An open finds the channel free, a close finds the claim its own ...
Test(t) ==
    /\ pc[t] = "test"
    /\ \/ job[t] = "open" /\ claim[side[t]] = None /\ Goto(t, "take")
       \/ job[t] = "close" /\ Mine(t) /\ Goto(t, "clear")
    /\ UNCHANGED <<claim, name, lock, opened>>

\* ... or is refused.
Refuse(t) ==
    /\ pc[t] = "test"
    /\ \/ job[t] = "open" /\ claim[side[t]] # None
       \/ job[t] = "close" /\ ~Mine(t)
    /\ lock' = None
    /\ Return(t)
    /\ UNCHANGED <<claim, name, opened>>

Take(t) ==
    /\ pc[t] = "take"
    /\ claim' = [claim EXCEPT ![side[t]] = Core[t]]
    /\ Goto(t, "free")
    /\ UNCHANGED <<name, lock, opened>>

\* The name goes back before the claim does.
Clear_KeepsName(t) ==
    /\ pc[t] = "clear"
    /\ claim' = [claim EXCEPT ![side[t]] = None]
    /\ opened' = [opened EXCEPT ![side[t]] = @ \ {Core[t]}]
    /\ Goto(t, "free")
    /\ UNCHANGED <<name, lock>>
Clear(t) ==
    /\ pc[t] = "clear"
    /\ name' = IF side[t] = "write" THEN None ELSE name
    /\ claim' = [claim EXCEPT ![side[t]] = None]
    /\ opened' = [opened EXCEPT ![side[t]] = @ \ {Core[t]}]
    /\ Goto(t, "free")
    /\ UNCHANGED lock

\* The lock and the mask are given back.  A write claim still has its name
\* to set, outside both.
Free(t) ==
    /\ pc[t] = "free"
    /\ lock' = None
    /\ IF job[t] = "open" /\ side[t] = "write"
       THEN Goto(t, "rename") /\ UNCHANGED opened
       ELSE /\ Return(t)
            /\ opened' = IF job[t] = "open"
                         THEN [opened EXCEPT ![side[t]] = @ \cup {Core[t]}]
                         ELSE opened
    /\ UNCHANGED <<claim, name>>

Rename(t) ==
    /\ pc[t] = "rename"
    /\ name' = Core[t]
    /\ opened' = [opened EXCEPT !["write"] = @ \cup {Core[t]}]
    /\ Return(t)
    /\ UNCHANGED <<claim, lock>>

-----------------------------------------------------------------------------
(* ora_log_write and ora_log_read.                                         *)

\* The claim is looked at without the lock ...
Use(t) ==
    \E s \in Sides :
        /\ claim[s] = Core[t]
        /\ Call(t, "use", s, "held")

\* ... and the ring entered afterwards.
EnterRing(t) ==
    /\ pc[t] = "held"
    /\ Goto(t, "using")
    /\ UNCHANGED <<claim, name, lock, opened>>

LeaveRing(t) ==
    /\ pc[t] = "using"
    /\ Return(t)
    /\ UNCHANGED <<claim, name, lock, opened>>

-----------------------------------------------------------------------------
Init ==
    /\ claim = [s \in Sides |-> None]
    /\ name = None
    /\ lock = None
    /\ pc = [t \in Threads |-> "idle"]
    /\ job = [t \in Threads |-> "none"]
    /\ side = [t \in Threads |-> "write"]
    /\ opened = [s \in Sides |-> {}]

Step(t) ==
    \/ Acquire(t) \/ Test(t) \/ Refuse(t) \/ Take(t) \/ Clear(t) \/ Free(t)
    \/ Rename(t) \/ EnterRing(t) \/ LeaveRing(t)

Next == \E t \in Threads : Open(t) \/ Close(t) \/ Use(t) \/ Step(t)

Spec == Init /\ [][Next]_vars

\* A core goes on with the call it is in.
Fairness == \A t \in Threads : WF_vars(Step(t))

FairSpec == Spec /\ Fairness

-----------------------------------------------------------------------------
(* Properties.                                                             *)

\* Two plugins are never inside the ring on the same side, though neither
\* holds the lock there and the claim was looked at earlier: the one writer
\* and one reader that RttRing needs.
OneUser ==
    \A t, u \in Threads :
        pc[t] = "using" /\ pc[u] = "using" /\ side[t] = side[u]
            => Core[t] = Core[u]

\* A plugin told that a claim is its own keeps it until it closes it.
OpenHolds == \A s \in Sides : \A c \in opened[s] : claim[s] = c

\* The name shown is the claim holder's once it has been told, and the
\* firmware's own where there is none: "the next owner cannot have its own
\* name reverted under it", nor keep the last one's.
NameIsOwners ==
    /\ \A c \in opened["write"] : name = c
    /\ claim["write"] = None => name = None

\* Whoever has the lock gives it back.  A handler that could come in while
\* its own core holds the lock would spin on it for ever.
LockIsFreed == \A t \in Threads : lock = t ~> lock # t
=============================================================================
