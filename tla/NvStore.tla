------------------------------ MODULE NvStore ------------------------------
(***************************************************************************)
(* What the NV storage group promises a host, whatever the device does to  *)
(* stage a write: storage changes only by a commit or a committed byte,    *)
(* NV_POKE reaches the transaction and nothing else does, and a write that *)
(* fails leaves both storage and transaction alone.  Storage is not to be  *)
(* trusted while it is being written, and power may go at any time.        *)
(***************************************************************************)
CONSTANTS
  Locs,     \* locations of NV storage
  Window,   \* the no-slot window
  Bytes     \* what a location may hold

VARIABLES
  nv,        \* the storage
  staged,    \* the open transaction's bytes; empty when there is none
  goal,      \* what the write in progress must leave; empty when there is none
  changing   \* that write has begun to change the storage

vars == <<nv, staged, goal, changing>>

None == <<>>

Init ==
  /\ nv \in [Locs -> Bytes]
  /\ staged = None /\ goal = None /\ changing = FALSE

Begin ==
  /\ staged = None /\ goal = None
  /\ staged' = nv
  /\ UNCHANGED <<nv, goal, changing>>

Poke ==
  /\ staged # None /\ goal = None
  /\ \E l \in Locs, b \in Bytes : staged' = [staged EXCEPT ![l] = b]
  /\ UNCHANGED <<nv, goal, changing>>

Discard ==
  /\ goal = None
  /\ staged' = None
  /\ UNCHANGED <<nv, goal, changing>>

Commit ==
  /\ staged # None /\ goal = None
  /\ goal' = staged
  /\ UNCHANGED <<nv, staged, changing>>

\* One byte of a transaction that is opened for it.
CommitByte ==
  /\ staged = None /\ goal = None
  /\ \E l \in Locs, b \in Bytes : staged' = [nv EXCEPT ![l] = b]
  /\ goal' = staged'
  /\ UNCHANGED <<nv, changing>>

\* One byte of the window, the rest of the window kept.
WindowByte ==
  /\ staged = None /\ goal = None
  /\ \E l \in Window, b \in Bytes :
       goal' = [w \in Window |-> IF w = l THEN b ELSE nv[w]]
  /\ UNCHANGED <<nv, staged, changing>>

Fail ==
  /\ goal # None /\ ~changing
  /\ goal' = None
  /\ UNCHANGED <<nv, staged, changing>>

Change ==
  /\ goal # None
  /\ nv' \in [Locs -> Bytes]
  /\ changing' = TRUE
  /\ UNCHANGED <<staged, goal>>

Finish ==
  /\ goal # None /\ changing
  /\ nv' \in [Locs -> Bytes]
  /\ \A l \in DOMAIN goal : nv'[l] = goal[l]
  /\ staged' = None /\ goal' = None /\ changing' = FALSE

PowerLoss ==
  /\ staged' = None /\ goal' = None /\ changing' = FALSE
  /\ UNCHANGED nv

Next ==
  \/ Begin \/ Poke \/ Discard \/ Commit \/ CommitByte \/ WindowByte
  \/ Fail \/ Change \/ Finish \/ PowerLoss

Spec == Init /\ [][Next]_vars
=============================================================================
