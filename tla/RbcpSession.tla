---------------------------- MODULE RbcpSession ----------------------------
(***************************************************************************)
(* The host-control plugin one command at a time: what command-response    *)
(* mode, the back-channel in the served image, the Modify commands and NV  *)
(* transactions do to each other.                                          *)
(*                                                                         *)
(* RbcpHandshake looks inside a command; here run_command is one step,     *)
(* except that a command which must write flash is answered only when the  *)
(* write is done, and the device may lose power at any point of it.        *)
(*                                                                         *)
(* RAM is a row of slots of one size, addressed byte by byte.  The token   *)
(* and the last command of the response header are one byte (tok), its     *)
(* progress and response another (ans), and the data section a third.  A   *)
(* value is a host byte, the byte of a flash image, or a byte of the       *)
(* back-channel: Chan, or Pending in ans until the command is complete.    *)
(***************************************************************************)
EXTENDS Integers

CONSTANTS
  Total,        \* RAM slots the firmware reports
  MaxHostSlots, \* how many of them a host can name
  SlotSize,     \* bytes in a slot
  FlashSlots,   \* flash images of the size a RAM slot has
  Regions,      \* back-channel regions a host sets up: [tok, ans, data]
  NvSize,       \* bytes of NV storage
  PageSize,     \* bytes in its last flash page
  WindowSize,   \* bytes of that page a no-slot write may name
  Bytes,        \* what a host writes
  Erased,       \* what erased flash reads as
  HostKeepsOff  \* the host leaves the slot it lent alone

Preload  == 0          \* the slot the firmware boots into
Reserved == 170        \* 0xAA, which is never a slot
NoSlot   == 254        \* slot 0xFE of NV_POKE_COMMIT_BYTE
NoImage  == "no image" \* a flash slot absent, or of another size
NoTxn    == -1
Chan     == "chan"
Pending  == "pending"
Junk     == "junk"     \* a byte nobody wrote: stack, or RAM at power up

HostSlotCount == IF Total > MaxHostSlots THEN MaxHostSlots ELSE Total

Slots   == 0 .. HostSlotCount - 1
BadSlot == HostSlotCount   \* the first index the host may not name
Offsets == 0 .. SlotSize - 1
Addrs   == 0 .. Total * SlotSize - 1
Locs    == 0 .. NvSize - 1
BadLoc  == NvSize
Page    == NvSize - PageSize .. NvSize - 1
Window  == NvSize - WindowSize .. NvSize - 1
Values  == Bytes \cup FlashSlots \cup {Erased, Chan, Pending, Junk}

ASSUME SlotsAssumption   == /\ Total \in 1 .. 255 /\ MaxHostSlots \in 1 .. Reserved
                            /\ SlotSize \in Nat \ {0} /\ FlashSlots # {}
ASSUME NvAssumption      == /\ NvSize \in Nat /\ PageSize \in 1 .. NvSize
                            /\ WindowSize \in 1 .. PageSize
ASSUME RegionsAssumption ==
  /\ Regions # {} /\ Regions \subseteq [tok : Offsets, ans : Offsets, data : Offsets]
  /\ \A r \in Regions : r.tok # r.ans /\ r.tok # r.data /\ r.ans # r.data
ASSUME HostAssumption    == HostKeepsOff \in BOOLEAN

VARIABLES
  mem,      \* RAM, slot after slot
  served,   \* the slot the PIO serves
  nv,       \* NV storage
  active,   \* s_state.active
  slot,     \* s_state.active_slot
  region,   \* s_state.cfg: the back-channel region
  txn,      \* s_nv_state: where the open transaction stages, or NoTxn
  defer,    \* s_nv_deferred, and how far the flash write it asks for is
  last      \* the NV_POKE_COMMIT_BYTE just asked for, unless it was refused

rom  == <<mem, served>>
mode == <<active, slot, region>>
vars == <<mem, served, nv, active, slot, region, txn, defer, last>>

Nothing == [kind |-> "none", erased |-> FALSE]
NoCommit == [loc |-> BadLoc, byte |-> Erased, answer |-> "none"]

NoRegion == CHOOSE r \in Regions : TRUE
BootImage == CHOOSE f \in FlashSlots : TRUE

\* A byte of a slot, the slot's bytes, and what they hold.
At(s, o) == s * SlotSize + o
SlotAddrs(s) == At(s, 0) .. At(s, SlotSize - 1)
Image(m, s) == [o \in Offsets |-> m[At(s, o)]]

\* A slot with one value all over it.
Fill(m, s, v) == [a \in Addrs |-> IF a \in SlotAddrs(s) THEN v ELSE m[a]]
Plain(f) == [o \in Offsets |-> f]

\* Power up: the first image is preloaded and everything else in RAM is what
\* it happened to be; the plugin clears its own state.
BootMem == Fill([a \in Addrs |-> Junk], Preload, BootImage)

Init ==
  /\ mem = BootMem /\ served = Preload
  /\ nv = [l \in Locs |-> Erased]
  /\ active = FALSE /\ slot = Preload /\ region = NoRegion
  /\ txn = NoTxn /\ defer = Nothing /\ last = NoCommit

----------------------------------------------------------------------------
(* run_command.                                                            *)

Silent_NoLoadExit == {"silent", "switch_exit", "restore", "reset"}
Silent == {"silent", "switch_exit", "load_exit", "restore", "reset"}

\* cmd_begin and cmd_end, in the header of region r in slot s.
CmdBegin(m, s, r) == [m EXCEPT ![At(s, r.ans)] = Pending, ![At(s, r.tok)] = Chan]
CmdEnd(m, s, r)   == [m EXCEPT ![At(s, r.ans)] = Chan]

\* Before the handler.
Begun(k) == IF active /\ k \notin Silent THEN CmdBegin(mem, slot, region) ELSE mem

\* After it, in slot s and on the memory the handler leaves.
EndedIn(s, k, m) == IF active /\ k \notin Silent THEN CmdEnd(m, s, region) ELSE m
Ended(k, m) == EndedIn(slot, k, m)

\* What an exit leaves of the transaction, if it leaves a session.
Closing_Kept(t) == t
Closing(t) == IF active THEN NoTxn ELSE t

Ready == defer.kind = "none"

\* Commands that leave the mode and the transaction as they are.
Stay == UNCHANGED <<mode, txn, nv, defer>> /\ last' = NoCommit

\* Where a transaction may stage, a careful host writes nothing else.
Lent == IF HostKeepsOff THEN {s \in Slots : At(s, 0) = txn} ELSE {}
Named == (Slots \ Lent) \cup {BadSlot}

\* host_slot_valid.
Nameable(s) == s \in Slots

----------------------------------------------------------------------------
(* Control group.                                                          *)

\* exec_enter_cmd_resp: "good"; "oversize", which answers in the header and
\* stays out of the mode; anything else is discarded.
EnterCmdResp ==
  /\ Ready /\ ~active
  /\ \E r \in Regions, size \in {"good", "oversize"} :
       /\ mem' = CmdEnd(CmdBegin(mem, served, r), served, r)
       /\ active' = (size = "good")
       /\ IF size = "good" THEN slot' = served ELSE UNCHANGED slot
       /\ region' = r
  /\ last' = NoCommit
  /\ UNCHANGED <<served, nv, txn, defer>>

\* Within a session the command is refused, and so are the others that need
\* no argument and change nothing: NOP and what the plugin does not know.
Refused ==
  /\ Ready
  /\ mem' = Ended("nop", Begun("nop"))
  /\ UNCHANGED served /\ Stay

Exit(k) ==
  /\ Ready
  /\ active' = FALSE /\ UNCHANGED <<slot, region>>
  /\ mem' = Ended(k, Begun(k))
  /\ txn' = Closing(txn)
  /\ last' = NoCommit
  /\ UNCHANGED <<served, nv, defer>>

\* SWITCH_AND_EXIT leaves s_state.active_slot alone.
SwitchAndExit(s) ==
  /\ Ready
  /\ served' = IF Nameable(s) THEN s ELSE served
  /\ active' = FALSE /\ UNCHANGED <<slot, region>>
  /\ mem' = Ended("switch_exit", Begun("switch_exit"))
  /\ txn' = Closing(txn)
  /\ last' = NoCommit
  /\ UNCHANGED <<nv, defer>>

Loaded(m, s, f) == IF Nameable(s) /\ f \in FlashSlots THEN Fill(m, s, f) ELSE m

LoadAndExit(s, f) ==
  /\ Ready
  /\ active' = FALSE /\ UNCHANGED <<slot, region>>
  /\ mem' = Ended("load_exit", Loaded(Begun("load_exit"), s, f))
  /\ txn' = Closing(txn)
  /\ last' = NoCommit
  /\ UNCHANGED <<served, nv, defer>>

\* EXIT_CMD_RESP_RESTORE: the host's own bytes go back over the first n parts
\* of the header; a count that is out of range restores none.
Restored(m, v, w, n) ==
  [m EXCEPT ![At(slot, region.tok)] = IF n > 0 THEN v ELSE @,
            ![At(slot, region.ans)] = IF n > 1 THEN w ELSE @]

Restore(v, w, n) ==
  /\ Ready /\ active
  /\ active' = FALSE /\ UNCHANGED <<slot, region>>
  /\ mem' = Ended("restore", Restored(Begun("restore"), v, w, n))
  /\ txn' = Closing(txn)
  /\ last' = NoCommit
  /\ UNCHANGED <<served, nv, defer>>

\* RBCP_RESET: init_rbcp.
Reset ==
  /\ Ready
  /\ active' = FALSE /\ slot' = Preload /\ region' = NoRegion
  /\ mem' = Ended("reset", Begun("reset"))
  /\ txn' = NoTxn
  /\ last' = NoCommit
  /\ UNCHANGED <<served, nv, defer>>

----------------------------------------------------------------------------
(* Read and Modify groups.                                                 *)

\* A command that answers in the data section, or fails and does not; NV_PEEK
\* and GET_NV_CAPABILITY are such commands too.
Read(ok) ==
  /\ Ready /\ active
  /\ LET m == Begun("read") IN
     mem' = Ended("read", IF ok THEN [m EXCEPT ![At(slot, region.data)] = Chan] ELSE m)
  /\ UNCHANGED served /\ Stay

SlotPoke(s, o, v) ==
  /\ Ready
  /\ LET m == Begun("poke") IN
     mem' = Ended("poke", IF Nameable(s) THEN [m EXCEPT ![At(s, o)] = v] ELSE m)
  /\ UNCHANGED served /\ Stay

SlotPokeAll(s, v) ==
  /\ Ready
  /\ LET m == Begun("poke_all") IN
     mem' = Ended("poke_all", IF Nameable(s) THEN Fill(m, s, v) ELSE m)
  /\ UNCHANGED served /\ Stay

LoadSlot(s, f) ==
  /\ Ready
  /\ mem' = Ended("load", Loaded(Begun("load"), s, f))
  /\ UNCHANGED served /\ Stay

\* SWITCH_SLOT moves the back-channel with the image.
CacheAfter_Stale(s) == slot
CacheAfter(s) == IF Nameable(s) THEN s ELSE slot

SwitchSlot(s) ==
  /\ Ready
  /\ served' = IF Nameable(s) THEN s ELSE served
  /\ slot' = CacheAfter(s)
  /\ mem' = EndedIn(slot', "switch", Begun("switch"))
  /\ last' = NoCommit
  /\ UNCHANGED <<active, region, nv, txn, defer>>

----------------------------------------------------------------------------
(* NV storage group, valid in a session only.                              *)

NvCommand == Ready /\ active /\ UNCHANGED <<mode, served>>

\* nv_private_staging: the plugin's own slots are those above the host's, and
\* it takes as many as NV storage needs, the highest ones.
SlotsNeeded == (NvSize + SlotSize - 1) \div SlotSize
HasOwn == Total > HostSlotCount /\ SlotsNeeded <= Total - HostSlotCount
FirstOwn_TooLow == Total - SlotsNeeded - 1
FirstOwn == Total - SlotsNeeded

\* Otherwise the slot the host lent, if it is large enough.
AreaFor(s) == CASE HasOwn                          -> At(FirstOwn, 0)
                [] ~HasOwn /\ SlotSize >= NvSize -> At(s, 0)
                [] OTHER                           -> NoTxn

\* nv_poke_begin_impl's checks; the slot lent must be neither out of range
\* nor the one being served, even where it is not needed.
CanBegin(s) == /\ txn = NoTxn
               /\ Nameable(s) /\ s # slot
               /\ AreaFor(s) # NoTxn

\* Memory with NV storage copied to base.
CopyIn(m, base) == [a \in Addrs |-> IF a - base \in Locs THEN nv[a - base] ELSE m[a]]

Staged == [l \in Locs |-> mem[txn + l]]

NvPokeBegin(s) ==
  /\ NvCommand
  /\ IF CanBegin(s)
     THEN /\ txn' = AreaFor(s)
          /\ mem' = Ended("begin", CopyIn(Begun("begin"), AreaFor(s)))
     ELSE /\ mem' = Ended("begin", Begun("begin"))
          /\ UNCHANGED txn
  /\ last' = NoCommit
  /\ UNCHANGED <<nv, defer>>

NvPoke(l, b) ==
  /\ NvCommand
  /\ LET m == Begun("nv_poke") IN
     mem' = Ended("nv_poke", IF txn # NoTxn /\ l \in Locs THEN [m EXCEPT ![txn + l] = b] ELSE m)
  /\ last' = NoCommit
  /\ UNCHANGED <<nv, txn, defer>>

NvPokeDiscard ==
  /\ NvCommand
  /\ mem' = Ended("discard", Begun("discard"))
  /\ txn' = NoTxn
  /\ last' = NoCommit
  /\ UNCHANGED <<nv, defer>>

\* exec_nv_poke_commit only asks for the write; nothing is answered yet.
NvPokeCommit ==
  /\ NvCommand
  /\ IF txn # NoTxn
     THEN /\ mem' = Begun("commit")
          /\ defer' = [kind |-> "sector", erased |-> FALSE]
     ELSE /\ mem' = Ended("commit", Begun("commit"))
          /\ UNCHANGED defer
  /\ last' = NoCommit
  /\ UNCHANGED <<nv, txn>>

\* exec_nv_poke_commit_byte, in the order of its checks.
Rejected_TxnAllowed(l, s) == s = Reserved \/ (s = NoSlot /\ l \notin Window)
Rejected(l, s) == s = Reserved \/ (s = NoSlot /\ (l \notin Window \/ txn # NoTxn))

Unchanged_NoCheck(l, b) == l \in Locs
Unchanged(l, b) == l \in Locs /\ nv[l] = b

NvPokeCommitByte(l, b, s) ==
  /\ NvCommand
  /\ LET m == Begun("commit_byte")
         Answer(a) == last' = IF a = "failed" THEN NoCommit
                                          ELSE [loc |-> l, byte |-> b, answer |-> a]
         Done(n, a) == mem' = Ended("commit_byte", n) /\ Answer(a) /\ UNCHANGED <<txn, defer>>
     IN \/ Rejected(l, s) /\ Done(m, "failed")
        \/ ~Rejected(l, s) /\ Unchanged(l, b) /\ Done(m, "ok")
        \/ /\ ~Rejected(l, s) /\ ~Unchanged(l, b)
           /\ \/ /\ s = NoSlot
                 /\ mem' = m
                 /\ defer' = [kind |-> "window", erased |-> FALSE,
                              buf |-> [w \in Window |-> IF w = l THEN b ELSE nv[w]]]
                 /\ UNCHANGED txn /\ Answer("none")
              \/ s # NoSlot /\ ~CanBegin(s) /\ Done(m, "failed")
              \/ s # NoSlot /\ CanBegin(s) /\ l \notin Locs /\ Done(CopyIn(m, AreaFor(s)), "failed")
              \/ /\ s # NoSlot /\ CanBegin(s) /\ l \in Locs
                 /\ mem' = [CopyIn(m, AreaFor(s)) EXCEPT ![AreaFor(s) + l] = b]
                 /\ txn' = AreaFor(s)
                 /\ defer' = [kind |-> "sector", erased |-> FALSE]
                 /\ Answer("none")
  /\ UNCHANGED nv

----------------------------------------------------------------------------
(* nv_deferred_run: the flash write, after dispatch and before cmd_end.    *)

\* A boot ROM function is missing, or exclusive mode is refused.
AfterFailure_Closed == NoTxn
AfterFailure == txn

WriteFails ==
  /\ ~Ready /\ ~defer.erased
  /\ defer' = Nothing
  /\ txn' = AfterFailure
  /\ mem' = Ended("commit", mem)
  /\ last' = NoCommit
  /\ UNCHANGED <<mode, served, nv>>

Erase ==
  /\ ~Ready /\ ~defer.erased
  /\ nv' = [l \in Locs |-> Erased]
  /\ defer' = [defer EXCEPT !.erased = TRUE]
  /\ UNCHANGED <<rom, mode, txn, last>>

\* One byte written without a slot programs a page of which only the window
\* was filled in, and the rest of the sector stays erased.
Programmed(l, junk) ==
  IF defer.kind = "sector" THEN Staged[l]
  ELSE CASE l \in Window        -> defer.buf[l]
         [] l \in Page \ Window -> junk
         [] OTHER              -> nv[l]

Program(junk) ==
  /\ ~Ready /\ defer.erased
  /\ nv' = [l \in Locs |-> Programmed(l, junk)]
  /\ defer' = Nothing
  /\ txn' = NoTxn
  /\ mem' = Ended("commit", mem)
  /\ last' = IF last = NoCommit THEN last ELSE [last EXCEPT !.answer = "ok"]
  /\ UNCHANGED <<mode, served>>

\* The supply goes: RAM and state are lost, flash is as the write left it.
PowerCycle ==
  /\ mem' = BootMem /\ served' = Preload
  /\ active' = FALSE /\ slot' = Preload /\ region' = NoRegion
  /\ txn' = NoTxn /\ defer' = Nothing /\ last' = NoCommit
  /\ UNCHANGED nv

----------------------------------------------------------------------------
SlotCommand ==
  \/ \E s \in Named : SwitchSlot(s)
  \/ \E s \in Named, f \in FlashSlots \cup {NoImage} : LoadSlot(s, f)
  \/ \E s \in Named, o \in Offsets, v \in Bytes : SlotPoke(s, o, v)
  \/ \E s \in Named, v \in Bytes : SlotPokeAll(s, v)

SessionCommand ==
  \/ EnterCmdResp \/ Refused \/ Reset \/ Exit("ack") \/ Exit("silent")
  \/ \E s \in Slots \cup {BadSlot} :
       \/ SwitchAndExit(s)
       \/ \E f \in FlashSlots \cup {NoImage} : LoadAndExit(s, f)
  \/ \E v, w \in Bytes \cup FlashSlots, n \in 0 .. 2 : Restore(v, w, n)
  \/ \E ok \in BOOLEAN : Read(ok)

StorageCommand ==
  \/ \E s \in Slots \cup {BadSlot} : NvPokeBegin(s)
  \/ \E l \in Locs \cup {BadLoc}, b \in Bytes :
       \/ NvPoke(l, b)
       \/ \E s \in Slots \cup {BadSlot, Reserved, NoSlot} : NvPokeCommitByte(l, b, s)
  \/ NvPokeDiscard \/ NvPokeCommit

FlashWrite == WriteFails \/ Erase \/ \E junk \in Bytes \cup {Junk} : Program(junk)

Next == SlotCommand \/ SessionCommand \/ StorageCommand \/ FlashWrite \/ PowerCycle

Spec == Init /\ [][Next]_vars

----------------------------------------------------------------------------
(* Properties.                                                             *)

Defers == {Nothing} \cup [kind : {"sector"}, erased : BOOLEAN]
            \cup [kind : {"window"}, erased : BOOLEAN, buf : [Window -> Values]]

\* What the write in progress must leave in storage.
StoreGoal == CASE defer.kind = "sector" -> Staged
               [] defer.kind = "window" -> defer.buf
               [] OTHER                 -> <<>>

\* Where a transaction may stage.
Areas == {AreaFor(s) : s \in Slots} \ {NoTxn}

\* Every variable holds a value of its kind.
TypeOK ==
  /\ mem \in [Addrs -> Values]
  /\ served \in Slots /\ slot \in Slots
  /\ nv \in [Locs -> Values]
  /\ active \in BOOLEAN /\ region \in Regions
  /\ txn \in Areas \cup {NoTxn}
  /\ defer \in Defers
  /\ last \in [loc : Locs \cup {BadLoc}, byte : Bytes \cup {Erased},
               answer : {"none", "ok"}]

\* In a session the cached slot is the one being served, and progress and
\* response are in it: whatever image was loaded, poked or switched to, the
\* command that did it is answered where the host looks (cmd_end), and one
\* whose flash write is not done reads as pending, with its token.
AnswerServed ==
  active =>
    /\ slot = served
    /\ IF Ready THEN mem[At(served, region.ans)] = Chan
       ELSE mem[At(served, region.ans)] = Pending /\ mem[At(served, region.tok)] = Chan

\* The commands that write over the token, or leave it in another slot, after
\* cmd_begin has written it; NV_POKE among them, where the host has switched to
\* the very slot it lent.
Displaces ==
  \/ served' # served
  \/ \E f \in FlashSlots : LoadSlot(served, f)
  \/ \E v \in Bytes : SlotPoke(served, region.tok, v) \/ SlotPokeAll(served, v)
  \/ \E l \in Locs, b \in Bytes : NvPoke(l, b) /\ txn + l = At(served, region.tok)

\* Every step of a session leaves progress and response where the host looks;
\* and the token and the last command too, unless it is one that displaces
\* them: then they are image bytes, the new slot's own after SWITCH_SLOT, until
\* the next command writes them again.
ChannelServed ==
  [][/\ AnswerServed'
     /\ active' /\ mem'[At(served', region'.tok)] # Chan => Displaces]_vars

\* No transaction outlives the session it was opened in (run_command's
\* nv_discard_impl; nv_storage.rs: "by every route"), and a write is only
\* ever asked for within one.
TxnInSession == txn # NoTxn \/ ~Ready => active

\* The bytes being staged are never those of the image being served, and a
\* sector write has a transaction to write (nv_poke_begin_impl).
StagingApart ==
  /\ txn = At(slot, 0) => ~HostKeepsOff
  /\ defer.kind = "sector" => txn # NoTxn
  /\ defer.kind = "window" => txn = NoTxn

\* A write under way for NV_POKE_COMMIT_BYTE holds the byte that was asked for.
WritesWhatWasAsked ==
  /\ last.answer = "ok" => Ready
  /\ ~Ready /\ last # NoCommit =>
       /\ last.loc \in DOMAIN StoreGoal
       /\ StoreGoal[last.loc] = last.byte

\* A host told that its byte was committed finds it in storage, until it asks
\* for something else (NV_POKE_COMMIT_BYTE's short cut included).
OkMeansWritten == last.answer = "ok" => last.loc \in Locs /\ nv[last.loc] = last.byte

\* A commit that fails leaves the transaction in place with the bytes it had,
\* for the host to retry or discard (nv_deferred_run).
FailureKeepsStaged ==
  [][defer.kind = "sector" /\ ~defer.erased /\ Ready' /\ active' =>
       txn' = txn /\ Staged' = Staged /\ nv' = nv]_vars

\* Where the plugin has slots of its own, no NV command changes a slot the
\* host may name, but for the answer in the served one (nv_private_staging).
HostSlotsUntouched ==
  [][StorageCommand \/ FlashWrite => \A s \in Slots \ {served} : Image(mem', s) = Image(mem, s)]_vars

\* The two exits that put the image back leave it as the host means it to be:
\* LOAD_AND_EXIT the whole image, EXIT_CMD_RESP_RESTORE the host's bytes over
\* as much of the header as it gave and nothing else (cmd_is_silent:
\* "byte-perfect").
ImageRestored ==
  [][/\ \A f \in FlashSlots : LoadAndExit(served, f) => Image(mem', served') = Plain(f)
     /\ \A v, w \in Bytes \cup FlashSlots :
          /\ Restore(v, w, 1) => Image(mem', served') =
               [Image(mem, served) EXCEPT ![region.tok] = v]
          /\ Restore(v, w, 2) => Image(mem', served') =
               [Image(mem, served) EXCEPT ![region.tok] = v, ![region.ans] = w]]_vars

\* NV_POKE_COMMIT_BYTE that succeeds leaves no transaction open, and fails if
\* one is already in progress (nv_storage.rs).
CommitByteCloses == last.answer = "ok" => txn = NoTxn

\* The storage a host sees is that of the abstract store: what it stages is
\* what it poked, storage changes only by a commit or a committed byte, a
\* committed byte leaves the rest of the window alone, and no write starts
\* from bytes that something else has written over.
Store == INSTANCE NvStore WITH
  Bytes    <- Values,
  staged   <- IF txn = NoTxn THEN <<>> ELSE Staged,
  goal     <- StoreGoal,
  changing <- defer.erased
StoreSpec == Store!Spec

IInv == /\ TypeOK /\ AnswerServed /\ TxnInSession /\ StagingApart
        /\ WritesWhatWasAsked /\ OkMeansWritten
=============================================================================
