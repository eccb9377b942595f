--------------------------- MODULE ExclusiveLock ---------------------------
(***************************************************************************)
(* What exclusive mode promises a plugin (firmware/ora/api.h): between     *)
(* ora_enter_exclusive_mode and ora_exit_exclusive_mode one core holds the *)
(* device and the other executes nothing out of flash, and no core resumes *)
(* while the device is held.  How the cores come to agree is left open.    *)
(***************************************************************************)
CONSTANT Cores

VARIABLES
  holder,   \* the cores in exclusive mode
  stopped   \* the cores suspended out of flash

vars == <<holder, stopped>>

Init == holder = {} /\ stopped = {}

\* A core stops only while some other core is running and nobody holds.
Stop(c) ==
  /\ holder = {} /\ stopped = {}
  /\ stopped' = {c}
  /\ UNCHANGED holder

Acquire(c) ==
  /\ holder = {} /\ stopped = Cores \ {c}
  /\ holder' = {c}
  /\ UNCHANGED stopped

Release(c) ==
  /\ holder = {c}
  /\ holder' = {}
  /\ UNCHANGED stopped

Resume(c) ==
  /\ c \in stopped /\ holder = {}
  /\ stopped' = stopped \ {c}
  /\ UNCHANGED holder

Next == \E c \in Cores : Stop(c) \/ Acquire(c) \/ Release(c) \/ Resume(c)

Spec == Init /\ [][Next]_vars
=============================================================================
