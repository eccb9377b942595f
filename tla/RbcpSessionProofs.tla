------------------------- MODULE RbcpSessionProofs -------------------------
(***************************************************************************)
(* Proofs about RbcpSession, for every number and size of slots, every set *)
(* of images and back-channel regions, every size of NV storage, wherever  *)
(* a transaction stages and whatever the host does.                        *)
(*                                                                         *)
(* Most commands have one of two forms: they change images and leave the   *)
(* session and its transaction as they are, or they end the session.  Each *)
(* form preserves the invariant, and each command is shown to have its     *)
(* form; the NV commands and the flash write are taken one by one.         *)
(*                                                                         *)
(* The second part proves that RbcpSession implements NvStore.             *)
(***************************************************************************)
EXTENDS RbcpSession, TLAPS

Memories == [Addrs -> Values]

\* What m and n agree on: all of RAM but A.
SameBut(A, m, n) == \A a \in Addrs \ A : n[a] = m[a]

Answers == [loc : Locs \cup {BadLoc}, byte : Bytes \cup {Erased}, answer : {"none", "ok"}]

\* What is assumed of the constants, in the form the steps use.
LEMMA ConstantFacts ==
  /\ Preload \in Slots /\ BootImage \in FlashSlots /\ NoRegion \in Regions
  /\ BadLoc \notin Locs /\ Window \subseteq Locs
  /\ BadSlot \notin Slots /\ Reserved \notin Slots
  /\ \A r \in Regions :
       /\ r.tok \in Offsets /\ r.ans \in Offsets /\ r.data \in Offsets
       /\ r.tok # r.ans /\ r.tok # r.data /\ r.ans # r.data
  /\ Chan \in Values /\ Pending \in Values /\ Junk \in Values /\ Erased \in Values
  /\ Bytes \subseteq Values /\ FlashSlots \subseteq Values
  /\ NoCommit \in Answers
  <1>1. BootImage \in FlashSlots
    BY SlotsAssumption DEF BootImage
  <1>2. NoRegion \in Regions
    BY RegionsAssumption DEF NoRegion
  <1>3. Preload \in Slots /\ BadSlot \notin Slots /\ Reserved \notin Slots
    BY SlotsAssumption DEF Slots, Preload, BadSlot, HostSlotCount, Reserved
  <1>4. BadLoc \notin Locs /\ Window \subseteq Locs
    BY NvAssumption DEF BadLoc, Locs, Window
  <1>5. \A r \in Regions :
          /\ r.tok \in Offsets /\ r.ans \in Offsets /\ r.data \in Offsets
          /\ r.tok # r.ans /\ r.tok # r.data /\ r.ans # r.data
    BY RegionsAssumption
  <1>6. NoCommit \in Answers
    BY DEF NoCommit, Answers
  <1> QED
    BY <1>1, <1>2, <1>3, <1>4, <1>5, <1>6 DEF Values

----------------------------------------------------------------------------
(* Addresses.                                                              *)

\* Slots of one size lie in the order of their numbers.
LEMMA SlotOrder ==
  ASSUME NEW s \in Int, NEW t \in Int, s <= t
  PROVE  /\ s * SlotSize \in Int /\ t * SlotSize \in Int
         /\ s * SlotSize <= t * SlotSize
  <1>1. t - s \in Nat /\ SlotSize \in Nat
    BY SlotsAssumption
  <1>2. (t - s) * SlotSize >= 0
    BY <1>1
  <1>3. t * SlotSize = s * SlotSize + (t - s) * SlotSize
    BY SlotsAssumption
  <1>4. s * SlotSize \in Int /\ t * SlotSize \in Int /\ (t - s) * SlotSize \in Int
    BY SlotsAssumption
  <1> QED
    BY <1>2, <1>3, <1>4

\* A slot ends where the next one begins.
LEMMA NextSlot ==
  ASSUME NEW s \in Int, NEW t \in Int, s < t
  PROVE  s * SlotSize + SlotSize <= t * SlotSize
  <1>1. (s + 1) * SlotSize <= t * SlotSize
    BY SlotOrder
  <1>2. (s + 1) * SlotSize = s * SlotSize + SlotSize
    BY SlotsAssumption
  <1> QED
    BY <1>1, <1>2

\* The host's slots are among those there are.
LEMMA HostSlotFacts ==
  /\ HostSlotCount \in 1 .. Total
  /\ \A s \in Slots : s \in Nat /\ s < HostSlotCount /\ s < Total
  BY SlotsAssumption DEF HostSlotCount, Slots

\* A byte of a slot lies in RAM and in that slot.
LEMMA AtFacts ==
  ASSUME NEW s \in Slots, NEW o \in Offsets
  PROVE  At(s, o) \in Addrs /\ At(s, o) \in SlotAddrs(s)
  <1>1. s \in Nat /\ s < Total /\ o \in Nat /\ o < SlotSize /\ SlotSize \in Nat
    BY HostSlotFacts, SlotsAssumption DEF Offsets
  <1>2. s * SlotSize + SlotSize <= Total * SlotSize
    BY <1>1, NextSlot, SlotsAssumption
  <1>3. s * SlotSize \in Nat /\ Total * SlotSize \in Nat
    BY <1>1, SlotsAssumption
  <1> QED
    BY <1>1, <1>2, <1>3 DEF At, SlotAddrs, Addrs

\* A slot's bytes are its own, and differ.
LEMMA SlotsApart ==
  ASSUME NEW s \in Slots, NEW t \in Slots
  PROVE  /\ SlotAddrs(s) \subseteq Addrs
         /\ s # t => SlotAddrs(s) \cap SlotAddrs(t) = {}
         /\ s # t => \A o \in Offsets : At(s, o) \notin SlotAddrs(t)
         /\ \A o, p \in Offsets : At(s, o) = At(s, p) => o = p
         /\ s # t => At(s, 0) # At(t, 0)
  <1>1. /\ s \in Nat /\ t \in Nat /\ s < Total /\ SlotSize \in Nat /\ SlotSize > 0
        /\ s * SlotSize \in Nat /\ t * SlotSize \in Nat /\ Total * SlotSize \in Nat
    BY HostSlotFacts, SlotsAssumption
  <1>2. s * SlotSize + SlotSize <= Total * SlotSize
    BY <1>1, NextSlot, SlotsAssumption
  <1>3. SlotAddrs(s) \subseteq Addrs
    BY <1>1, <1>2 DEF SlotAddrs, At, Addrs
  <1>4. ASSUME s # t
        PROVE  /\ SlotAddrs(s) \cap SlotAddrs(t) = {}
               /\ At(s, 0) # At(t, 0)
    <2>1. s * SlotSize + SlotSize <= t * SlotSize \/ t * SlotSize + SlotSize <= s * SlotSize
      BY <1>1, <1>4, NextSlot
    <2> QED
      BY <1>1, <2>1 DEF SlotAddrs, At
  <1>5. \A o, p \in Offsets : At(s, o) = At(s, p) => o = p
    BY <1>1 DEF At, Offsets
  <1> QED
    BY <1>3, <1>4, <1>5, AtFacts

\* Where no slot is ever lent: the plugin has slots of its own, or none is
\* large enough.
NeverLent == HasOwn \/ SlotSize < NvSize

\* The plugin's own slots hold NV storage, above every slot of the host's.
LEMMA OwnFacts ==
  ASSUME HasOwn
  PROVE  /\ At(FirstOwn, 0) \in Nat
         /\ At(FirstOwn, 0) + NvSize <= Total * SlotSize
         /\ \A s \in Slots : At(s, SlotSize - 1) < At(FirstOwn, 0)
  <1>1. /\ NvSize \in Nat /\ NvSize > 0 /\ SlotSize \in Nat /\ SlotSize > 0
        /\ Total \in Nat /\ HostSlotCount \in 1 .. Total
    BY NvAssumption, SlotsAssumption, HostSlotFacts
  <1> DEFINE x == NvSize + SlotSize - 1
  <1>2. /\ x \div SlotSize \in Nat /\ x % SlotSize \in 0 .. SlotSize - 1
        /\ x = SlotSize * (x \div SlotSize) + (x % SlotSize)
    BY <1>1
  <1>3. SlotsNeeded \in Nat /\ SlotsNeeded * SlotSize >= NvSize
    BY <1>1, <1>2 DEF SlotsNeeded
  <1>4. FirstOwn \in Nat /\ FirstOwn >= HostSlotCount
    BY <1>1, <1>3 DEF HasOwn, FirstOwn
  <1>5. Total * SlotSize = FirstOwn * SlotSize + SlotsNeeded * SlotSize
    BY <1>1, <1>3 DEF FirstOwn
  <1>6. FirstOwn * SlotSize \in Nat /\ SlotsNeeded * SlotSize \in Nat
    BY <1>1, <1>3, <1>4
  <1>7. At(FirstOwn, 0) = FirstOwn * SlotSize
    BY <1>6 DEF At
  <1>8. ASSUME NEW s \in Slots PROVE At(s, SlotSize - 1) < At(FirstOwn, 0)
    <2>1. s \in Nat /\ s < FirstOwn /\ s * SlotSize \in Nat
      BY <1>1, <1>4, HostSlotFacts
    <2>2. s * SlotSize + SlotSize <= FirstOwn * SlotSize
      BY <1>4, <2>1, NextSlot
    <2> QED
      BY <1>1, <1>6, <1>7, <2>1, <2>2 DEF At
  <1> QED
    BY <1>3, <1>5, <1>6, <1>7, <1>8, <1>1

\* Where a transaction stages there is room for it; its bytes are in no slot
\* the host may name but one that was lent.
LEMMA AreaFacts ==
  ASSUME NEW base \in Areas
  PROVE  /\ base \in Nat /\ base # NoTxn
         /\ \A l \in Locs : base + l \in Addrs
         /\ \A t \in Slots : base # At(t, 0) => \A l \in Locs : base + l \notin SlotAddrs(t)
         /\ NeverLent => \A t \in Slots : base # At(t, 0)
  <1>1. /\ NvSize \in Nat /\ SlotSize \in Nat /\ SlotSize > 0 /\ Total * SlotSize \in Nat
        /\ \A l \in Locs : l \in Nat /\ l < NvSize
    BY NvAssumption, SlotsAssumption DEF Locs
  <1>2. PICK s \in Slots : base = AreaFor(s) /\ base # NoTxn
    BY DEF Areas
  <1>3. CASE HasOwn
    <2>1. base = At(FirstOwn, 0)
      BY <1>2, <1>3 DEF AreaFor
    <2>2. /\ base \in Nat /\ base + NvSize <= Total * SlotSize
          /\ \A t \in Slots : At(t, SlotSize - 1) < base
      BY <1>3, <2>1, OwnFacts
    <2>3. \A t \in Slots : \A a \in SlotAddrs(t) : a < base
      BY <1>1, <2>2, HostSlotFacts DEF SlotAddrs, At
    <2>4. \A t \in Slots : base # At(t, 0)
      <3>1. \A t \in Slots : At(t, 0) \in SlotAddrs(t)
        BY <1>1, AtFacts DEF Offsets
      <3> QED
        BY <2>2, <2>3, <3>1
    <2>5. \A l \in Locs : base + l \in Addrs /\ base + l >= base
      BY <1>1, <2>2 DEF Addrs
    <2>6. \A t \in Slots, l \in Locs : base + l \notin SlotAddrs(t)
      <3>1. ASSUME NEW t \in Slots, NEW l \in Locs, base + l \in SlotAddrs(t) PROVE FALSE
        <4>1. base + l < base
          BY <2>3, <3>1
        <4> QED
          BY <1>1, <2>2, <4>1
      <3> QED
        BY <3>1
    <2> QED
      BY <1>2, <2>2, <2>4, <2>5, <2>6
  <1>4. CASE ~HasOwn
    <2>1. base = At(s, 0) /\ SlotSize >= NvSize
      BY <1>2, <1>4 DEF AreaFor
    <2>2. \A l \in Locs : l \in Offsets /\ base + l = At(s, l)
      <3>1. s * SlotSize \in Nat
        BY <1>1, HostSlotFacts
      <3> QED
        BY <1>1, <2>1, <3>1 DEF Offsets, At
    <2>3. \A l \in Locs : base + l \in Addrs /\ base + l \in SlotAddrs(s)
      BY <2>2, AtFacts
    <2>4. base \in Nat
      BY <1>1, <2>1, HostSlotFacts DEF At
    <2>5. \A t \in Slots : base # At(t, 0) => \A l \in Locs : base + l \notin SlotAddrs(t)
      BY <2>1, <2>3, SlotsApart
    <2>6. ~NeverLent
      BY <1>1, <1>4, <2>1 DEF NeverLent
    <2> QED
      BY <1>2, <2>3, <2>4, <2>5, <2>6
  <1> QED
    BY <1>3, <1>4

----------------------------------------------------------------------------
(* Memory.                                                                 *)

\* One byte written.
LEMMA WriteFacts ==
  ASSUME NEW m \in Memories, NEW a \in Addrs, NEW v \in Values
  PROVE  /\ [m EXCEPT ![a] = v] \in Memories
         /\ [m EXCEPT ![a] = v][a] = v
         /\ SameBut({a}, m, [m EXCEPT ![a] = v])
  BY DEF Memories, SameBut

\* A slot written all over.
LEMMA FillFacts ==
  ASSUME NEW m \in Memories, NEW s \in Slots, NEW v \in Values
  PROVE  /\ Fill(m, s, v) \in Memories
         /\ Image(Fill(m, s, v), s) = Plain(v)
         /\ SameBut(SlotAddrs(s), m, Fill(m, s, v))
  <1>1. \A a \in Addrs : (IF a \in SlotAddrs(s) THEN v ELSE m[a]) \in Values
    BY DEF Memories
  <1>2. Fill(m, s, v) \in Memories
    BY <1>1 DEF Fill, Memories
  <1>3. \A o \in Offsets : Fill(m, s, v)[At(s, o)] = v
    BY AtFacts DEF Fill
  <1> QED
    BY <1>2, <1>3 DEF Fill, Image, Plain, SameBut

\* The two header writes, each in its slot.
LEMMA HeaderFacts ==
  ASSUME NEW m \in Memories, NEW s \in Slots, NEW r \in Regions
  PROVE  /\ CmdBegin(m, s, r) \in Memories
         /\ CmdBegin(m, s, r)[At(s, r.ans)] = Pending
         /\ CmdBegin(m, s, r)[At(s, r.tok)] = Chan
         /\ SameBut({At(s, r.ans), At(s, r.tok)}, m, CmdBegin(m, s, r))
         /\ CmdEnd(m, s, r) \in Memories
         /\ CmdEnd(m, s, r)[At(s, r.ans)] = Chan
         /\ SameBut({At(s, r.ans)}, m, CmdEnd(m, s, r))
         /\ At(s, r.tok) # At(s, r.ans) /\ At(s, r.tok) \in Addrs /\ At(s, r.ans) \in Addrs
         /\ {At(s, r.ans), At(s, r.tok)} \subseteq SlotAddrs(s)
  <1>1. r.tok \in Offsets /\ r.ans \in Offsets /\ r.tok # r.ans
    BY ConstantFacts
  <1>2. /\ At(s, r.tok) \in Addrs /\ At(s, r.ans) \in Addrs /\ At(s, r.tok) # At(s, r.ans)
        /\ At(s, r.tok) \in SlotAddrs(s) /\ At(s, r.ans) \in SlotAddrs(s)
    BY <1>1, AtFacts, SlotsApart
  <1>3. Pending \in Values /\ Chan \in Values
    BY ConstantFacts
  <1> QED
    BY <1>2, <1>3 DEF CmdBegin, CmdEnd, Memories, SameBut

\* cmd_begin and cmd_end keep memory what it is and stay in their slot.
LEMMA FrameFacts ==
  ASSUME TypeOK, NEW k, NEW m \in Memories, NEW s \in Slots
  PROVE  /\ mem \in Memories /\ slot \in Slots /\ served \in Slots /\ region \in Regions
         /\ Begun(k) \in Memories /\ EndedIn(s, k, m) \in Memories
         /\ SameBut(SlotAddrs(slot), mem, Begun(k))
         /\ SameBut(SlotAddrs(s), m, EndedIn(s, k, m))
         /\ SameBut({At(s, region.ans)}, m, EndedIn(s, k, m))
  <1>1. mem \in Memories /\ slot \in Slots /\ served \in Slots /\ region \in Regions
    BY DEF TypeOK, Memories
  <1>2. Begun(k) \in Memories /\ SameBut(SlotAddrs(slot), mem, Begun(k))
    <2>1. CASE Begun(k) = mem
      BY <1>1, <2>1 DEF SameBut
    <2>2. CASE Begun(k) = CmdBegin(mem, slot, region)
      <3>1. /\ CmdBegin(mem, slot, region) \in Memories
            /\ SameBut({At(slot, region.ans), At(slot, region.tok)}, mem,
                       CmdBegin(mem, slot, region))
            /\ {At(slot, region.ans), At(slot, region.tok)} \subseteq SlotAddrs(slot)
        BY <1>1, HeaderFacts
      <3> QED
        BY <2>2, <3>1 DEF SameBut
    <2> QED
      BY <2>1, <2>2 DEF Begun
  <1>3. /\ EndedIn(s, k, m) \in Memories
        /\ SameBut(SlotAddrs(s), m, EndedIn(s, k, m))
        /\ SameBut({At(s, region.ans)}, m, EndedIn(s, k, m))
    <2>1. CASE EndedIn(s, k, m) = m
      BY <2>1 DEF SameBut
    <2>2. CASE EndedIn(s, k, m) = CmdEnd(m, s, region)
      <3>1. /\ CmdEnd(m, s, region) \in Memories
            /\ SameBut({At(s, region.ans)}, m, CmdEnd(m, s, region))
            /\ At(s, region.ans) \in SlotAddrs(s)
        BY <1>1, HeaderFacts
      <3> QED
        BY <2>2, <3>1 DEF SameBut
    <2> QED
      BY <2>1, <2>2 DEF EndedIn
  <1> QED
    BY <1>1, <1>2, <1>3

\* In a session, what they leave in the header of a command that is not silent.
LEMMA HeaderWritten ==
  ASSUME TypeOK, active, NEW k, k \notin Silent
  PROVE  /\ Begun(k)[At(slot, region.ans)] = Pending
         /\ Begun(k)[At(slot, region.tok)] = Chan
         /\ \A m \in Memories, s \in Slots : EndedIn(s, k, m)[At(s, region.ans)] = Chan
  <1>1. mem \in Memories /\ slot \in Slots /\ region \in Regions
    BY DEF TypeOK, Memories
  <1>2. Begun(k) = CmdBegin(mem, slot, region)
    BY DEF Begun
  <1>3. /\ CmdBegin(mem, slot, region)[At(slot, region.ans)] = Pending
        /\ CmdBegin(mem, slot, region)[At(slot, region.tok)] = Chan
    BY <1>1, HeaderFacts
  <1>4. ASSUME NEW m \in Memories, NEW s \in Slots
        PROVE  EndedIn(s, k, m)[At(s, region.ans)] = Chan
    <2>1. EndedIn(s, k, m) = CmdEnd(m, s, region)
      BY DEF EndedIn
    <2>2. CmdEnd(m, s, region)[At(s, region.ans)] = Chan
      BY <1>1, HeaderFacts
    <2> QED
      BY <2>1, <2>2
  <1> QED
    BY <1>2, <1>3, <1>4

\* A command that writes to a slot the host named, or to none.
LEMMA LoadedFacts ==
  ASSUME NEW m \in Memories, NEW s, NEW f
  PROVE  /\ Loaded(m, s, f) \in Memories
         /\ s \notin Slots => Loaded(m, s, f) = m
         /\ s \in Slots => SameBut(SlotAddrs(s), m, Loaded(m, s, f))
  <1>1. CASE s \in Slots /\ f \in FlashSlots
    BY <1>1, FillFacts, ConstantFacts DEF Loaded, Nameable
  <1>2. CASE ~(s \in Slots /\ f \in FlashSlots)
    BY <1>2 DEF Loaded, Nameable, SameBut
  <1> QED
    BY <1>1, <1>2

\* The bytes of an area, and what a memory has in them.
Span(base) == {base + l : l \in Locs}
In(m, base) == [l \in Locs |-> m[base + l]]

\* Copying NV storage into an area leaves the rest of RAM alone.
LEMMA CopyFacts ==
  ASSUME TypeOK, NEW m \in Memories, NEW base \in Areas
  PROVE  /\ CopyIn(m, base) \in Memories
         /\ In(CopyIn(m, base), base) = nv
         /\ SameBut(Span(base), m, CopyIn(m, base))
  <1>1. base \in Nat /\ nv \in [Locs -> Values] /\ \A l \in Locs : base + l \in Addrs
    BY AreaFacts DEF TypeOK
  <1>2. \A a \in Addrs : (IF a - base \in Locs THEN nv[a - base] ELSE m[a]) \in Values
    BY <1>1 DEF Memories
  <1>3. CopyIn(m, base) \in Memories
    BY <1>2 DEF CopyIn, Memories
  <1>4. \A l \in Locs : l \in Int /\ (base + l) - base = l
    BY <1>1, NvAssumption DEF Locs
  <1>5. \A l \in Locs : CopyIn(m, base)[base + l] = nv[l]
    BY <1>1, <1>4 DEF CopyIn
  <1>6. \A a \in Addrs : a \in Int /\ a = base + (a - base)
    BY <1>1, SlotsAssumption DEF Addrs
  <1>7. SameBut(Span(base), m, CopyIn(m, base))
    BY <1>6 DEF SameBut, CopyIn, Span
  <1>8. In(CopyIn(m, base), base) = nv
    BY <1>1, <1>5 DEF In
  <1> QED
    BY <1>3, <1>7, <1>8

\* Where a transaction opens it never stages in the slot being served.
LEMMA AreaApart ==
  ASSUME TypeOK, NEW s, CanBegin(s)
  PROVE  /\ AreaFor(s) \in Areas /\ AreaFor(s) # At(slot, 0) /\ AreaFor(s) # NoTxn
         /\ txn = NoTxn
         /\ \A l \in Locs : AreaFor(s) + l \notin SlotAddrs(slot)
  <1>1. s \in Slots /\ s # slot /\ AreaFor(s) # NoTxn /\ txn = NoTxn /\ slot \in Slots
    BY DEF CanBegin, Nameable, TypeOK
  <1>2. AreaFor(s) \in Areas
    BY <1>1 DEF Areas
  <1>3. AreaFor(s) # At(slot, 0)
    <2>1. CASE HasOwn
      BY <1>1, <1>2, <2>1, AreaFacts DEF NeverLent
    <2>2. CASE ~HasOwn
      BY <1>1, <2>2, SlotsApart DEF AreaFor
    <2> QED
      BY <2>1, <2>2
  <1> QED
    BY <1>1, <1>2, <1>3, AreaFacts

----------------------------------------------------------------------------
(* The two common forms.                                                   *)

\* A command that changes images only.
ImageForm ==
  /\ Ready
  /\ UNCHANGED <<served, active, slot, region, txn, nv, defer>>
  /\ last' = NoCommit
  /\ mem' \in Memories
  /\ active => mem'[At(slot, region.ans)] = Chan

\* A command that ends the session, if there is one.
ExitForm ==
  /\ Ready
  /\ active' = FALSE /\ slot' \in Slots /\ region' \in Regions /\ served' \in Slots
  /\ txn' = NoTxn
  /\ UNCHANGED <<nv, defer>>
  /\ last' = NoCommit
  /\ mem' \in Memories

\* No transaction is open in a slot the session is in.
LEMMA NoTxnApart == \A s \in Slots : NoTxn # At(s, 0)
  <1>1. ASSUME NEW s \in Slots PROVE NoTxn # At(s, 0)
    <2>1. s * SlotSize \in Nat
      BY HostSlotFacts, SlotsAssumption
    <2> QED
      BY <2>1 DEF At, NoTxn
  <1> QED
    BY <1>1

\* A command that changes only images preserves the invariant.
LEMMA ImageStep == IInv /\ ImageForm => IInv'
  <1> SUFFICES ASSUME IInv, ImageForm PROVE IInv'
    OBVIOUS
  <1>1. TypeOK'
    BY ConstantFacts DEF IInv, TypeOK, ImageForm, Memories, Answers
  <1>2. AnswerServed'
    BY DEF IInv, ImageForm, AnswerServed, Ready
  <1>3. TxnInSession' /\ StagingApart'
    BY DEF IInv, ImageForm, TxnInSession, StagingApart, Ready
  <1>4. WritesWhatWasAsked' /\ OkMeansWritten'
    BY DEF IInv, ImageForm, WritesWhatWasAsked, OkMeansWritten, Ready, NoCommit
  <1> QED
    BY <1>1, <1>2, <1>3, <1>4 DEF IInv

\* Leaving the session preserves the invariant.
LEMMA ExitStep == IInv /\ ExitForm => IInv'
  <1> SUFFICES ASSUME IInv, ExitForm PROVE IInv'
    OBVIOUS
  <1>1. TypeOK'
    BY ConstantFacts DEF IInv, TypeOK, ExitForm, Memories, Answers
  <1>2. AnswerServed'
    BY DEF ExitForm, AnswerServed
  <1>3. txn' # At(slot', 0)
    BY NoTxnApart DEF ExitForm
  <1>4. TxnInSession' /\ StagingApart'
    BY <1>3 DEF IInv, ExitForm, TxnInSession, StagingApart, Ready
  <1>5. WritesWhatWasAsked' /\ OkMeansWritten'
    BY DEF IInv, ExitForm, WritesWhatWasAsked, OkMeansWritten, Ready, NoCommit
  <1> QED
    BY <1>1, <1>2, <1>4, <1>5 DEF IInv

\* What each image command does, in its frame: it writes into the served slot,
\* or into the slot it names.
ImageCommand(k, n) ==
  \/ k = "nop" /\ n = Begun(k)
  \/ /\ k = "read" /\ active
     /\ n \in {Begun(k), [Begun(k) EXCEPT ![At(slot, region.data)] = Chan]}
  \/ /\ k \in {"load", "poke", "poke_all"}
     /\ \E s \in Named :
          \/ n = Begun(k)
          \/ \E f \in FlashSlots \cup {NoImage} : k = "load" /\ n = Loaded(Begun(k), s, f)
          \/ /\ k = "poke" /\ Nameable(s)
             /\ \E o \in Offsets, v \in Bytes : n = [Begun(k) EXCEPT ![At(s, o)] = v]
          \/ k = "poke_all" /\ Nameable(s) /\ \E v \in Bytes : n = Fill(Begun(k), s, v)

ImageCommands ==
  \/ Refused
  \/ \E ok \in BOOLEAN : Read(ok)
  \/ \E s \in Named, f \in FlashSlots \cup {NoImage} : LoadSlot(s, f)
  \/ \E s \in Named, o \in Offsets, v \in Bytes : SlotPoke(s, o, v)
  \/ \E s \in Named, v \in Bytes : SlotPokeAll(s, v)

\* Every image command runs in its frame.
LEMMA ImageFrame ==
  ASSUME ImageCommands
  PROVE  /\ \E k, n : ImageCommand(k, n) /\ mem' = Ended(k, n)
         /\ Ready /\ UNCHANGED <<served, active, slot, region, txn, nv, defer>>
         /\ last' = NoCommit
  <1>1. CASE Refused
    BY <1>1 DEF Refused, ImageCommand, Stay, mode
  <1>2. ASSUME NEW ok \in BOOLEAN, Read(ok) PROVE \E k, n : ImageCommand(k, n) /\ mem' = Ended(k, n)
    BY <1>2 DEF Read, ImageCommand
  <1>3. ASSUME NEW s \in Named, NEW f \in FlashSlots \cup {NoImage}, LoadSlot(s, f)
        PROVE  \E k, n : ImageCommand(k, n) /\ mem' = Ended(k, n)
    BY <1>3 DEF LoadSlot, ImageCommand
  <1>4. ASSUME NEW s \in Named, NEW o \in Offsets, NEW v \in Bytes, SlotPoke(s, o, v)
        PROVE  \E k, n : ImageCommand(k, n) /\ mem' = Ended(k, n)
    BY <1>4 DEF SlotPoke, ImageCommand
  <1>5. ASSUME NEW s \in Named, NEW v \in Bytes, SlotPokeAll(s, v)
        PROVE  \E k, n : ImageCommand(k, n) /\ mem' = Ended(k, n)
    BY <1>5 DEF SlotPokeAll, ImageCommand
  <1>6. /\ Ready /\ UNCHANGED <<served, active, slot, region, txn, nv, defer>>
        /\ last' = NoCommit
    BY DEF ImageCommands, Refused, Read, LoadSlot, SlotPoke, SlotPokeAll, Stay, mode
  <1> QED
    BY <1>1, <1>2, <1>3, <1>4, <1>5, <1>6 DEF ImageCommands

\* What it writes is in the served slot, or in one slot the host named.
LEMMA ImageWrites ==
  ASSUME TypeOK, NEW k, NEW n, ImageCommand(k, n)
  PROVE  /\ n \in Memories /\ k \notin Silent
         /\ \/ SameBut(SlotAddrs(slot), mem, n)
            \/ \E s \in Named \cap Slots : SameBut(SlotAddrs(slot) \cup SlotAddrs(s), mem, n)
  <1>1. /\ Begun(k) \in Memories /\ SameBut(SlotAddrs(slot), mem, Begun(k))
        /\ slot \in Slots /\ region \in Regions
    <2>1. mem \in Memories /\ slot \in Slots
      BY DEF TypeOK, Memories
    <2> QED
      BY <2>1, FrameFacts
  <1>2. k \notin Silent
    BY DEF ImageCommand, Silent
  <1>3. CASE n = Begun(k)
    BY <1>1, <1>2, <1>3
  <1>4. CASE n = [Begun(k) EXCEPT ![At(slot, region.data)] = Chan]
    <2>1. /\ At(slot, region.data) \in Addrs /\ At(slot, region.data) \in SlotAddrs(slot)
          /\ Chan \in Values
      BY <1>1, AtFacts, ConstantFacts
    <2>2. n \in Memories /\ SameBut({At(slot, region.data)}, Begun(k), n)
      BY <1>1, <1>4, <2>1, WriteFacts
    <2> QED
      BY <1>1, <1>2, <2>1, <2>2 DEF SameBut
  <1>5. ASSUME NEW s \in Named \cap Slots, n \in Memories, SameBut(SlotAddrs(s), Begun(k), n)
        PROVE  SameBut(SlotAddrs(slot) \cup SlotAddrs(s), mem, n)
    BY <1>1, <1>5 DEF SameBut
  <1>6. ASSUME NEW s \in Named, NEW f, n = Loaded(Begun(k), s, f)
        PROVE  n \in Memories /\ (n = Begun(k) \/ (s \in Slots /\ SameBut(SlotAddrs(s), Begun(k), n)))
    BY <1>1, <1>6, LoadedFacts
  <1>7. ASSUME NEW s \in Named, Nameable(s), NEW o \in Offsets, NEW v \in Bytes,
               n = [Begun(k) EXCEPT ![At(s, o)] = v]
        PROVE  n \in Memories /\ s \in Slots /\ SameBut(SlotAddrs(s), Begun(k), n)
    <2>1. s \in Slots /\ v \in Values
      BY <1>7, ConstantFacts DEF Nameable
    <2>2. At(s, o) \in Addrs /\ At(s, o) \in SlotAddrs(s)
      BY <2>1, AtFacts
    <2>3. n \in Memories /\ SameBut({At(s, o)}, Begun(k), n)
      BY <1>1, <1>7, <2>1, <2>2, WriteFacts
    <2> QED
      BY <2>1, <2>2, <2>3 DEF SameBut
  <1>8. ASSUME NEW s \in Named, Nameable(s), NEW v \in Bytes, n = Fill(Begun(k), s, v)
        PROVE  n \in Memories /\ s \in Slots /\ SameBut(SlotAddrs(s), Begun(k), n)
    <2>1. s \in Slots /\ v \in Values
      BY <1>8, ConstantFacts DEF Nameable
    <2> QED
      BY <1>1, <1>8, <2>1, FillFacts
  <1>9. \/ n = Begun(k) \/ n = [Begun(k) EXCEPT ![At(slot, region.data)] = Chan]
        \/ \E s \in Named \cap Slots : n \in Memories /\ SameBut(SlotAddrs(s), Begun(k), n)
    BY <1>6, <1>7, <1>8 DEF ImageCommand
  <1> QED
    BY <1>2, <1>3, <1>4, <1>5, <1>9

\* Every image command has the image form.
LEMMA ImageCommandsForm ==
  ASSUME IInv, ImageCommands
  PROVE  ImageForm
  <1>1. TypeOK /\ slot \in Slots
    BY DEF IInv, TypeOK
  <1>2. PICK k, n : ImageCommand(k, n) /\ mem' = Ended(k, n)
    BY ImageFrame
  <1>3. n \in Memories /\ k \notin Silent
    BY <1>1, <1>2, ImageWrites
  <1>4. mem' \in Memories /\ (active => mem'[At(slot, region.ans)] = Chan)
    BY <1>1, <1>2, <1>3, FrameFacts, HeaderWritten DEF Ended
  <1> QED
    BY <1>4, ImageFrame DEF ImageForm

\* Every exit has the exit form.
LEMMA ExitCommands ==
  ASSUME IInv,
         \/ Reset \/ Exit("ack") \/ Exit("silent")
         \/ \E s \in Slots \cup {BadSlot} :
              \/ SwitchAndExit(s)
              \/ \E f \in FlashSlots \cup {NoImage} : LoadAndExit(s, f)
         \/ \E v, w \in Bytes \cup FlashSlots, n \in 0 .. 2 : Restore(v, w, n)
  PROVE  ExitForm
  <1>1. /\ TypeOK /\ mem \in Memories /\ slot \in Slots /\ region \in Regions
        /\ served \in Slots
    BY DEF IInv, TypeOK, Memories
  <1>2. \A k : Begun(k) \in Memories
    BY <1>1, FrameFacts
  <1>3. \A m \in Memories : \A k : Ended(k, m) \in Memories
    BY <1>1, FrameFacts DEF Ended
  <1>4. Closing(txn) = NoTxn
    BY DEF Closing, TxnInSession, IInv
  <1>5. CASE Reset
    <2>1. Preload \in Slots /\ NoRegion \in Regions
      BY ConstantFacts
    <2> QED
      BY <1>1, <1>2, <1>3, <1>5, <2>1 DEF Reset, ExitForm
  <1>6. ASSUME NEW k \in {"ack", "silent"}, Exit(k) PROVE ExitForm
    BY <1>1, <1>2, <1>3, <1>4, <1>6 DEF Exit, ExitForm
  <1>7. ASSUME NEW s \in Slots \cup {BadSlot}, SwitchAndExit(s) PROVE ExitForm
    BY <1>1, <1>2, <1>3, <1>4, <1>7 DEF SwitchAndExit, ExitForm, Nameable
  <1>8. ASSUME NEW s \in Slots \cup {BadSlot}, NEW f \in FlashSlots \cup {NoImage},
               LoadAndExit(s, f)
        PROVE  ExitForm
    <2>1. Loaded(Begun("load_exit"), s, f) \in Memories
      BY <1>2, LoadedFacts
    <2> QED
      BY <1>1, <1>3, <1>4, <1>8, <2>1 DEF LoadAndExit, ExitForm
  <1>9. ASSUME NEW v \in Bytes \cup FlashSlots, NEW w \in Bytes \cup FlashSlots,
               NEW n \in 0 .. 2, Restore(v, w, n)
        PROVE  ExitForm
    <2> DEFINE m == Begun("restore")
               t == At(slot, region.tok)
               a == At(slot, region.ans)
    <2>1. m \in Memories /\ v \in Values /\ w \in Values /\ t \in Addrs /\ a \in Addrs
      BY <1>1, <1>2, ConstantFacts, AtFacts
    <2> HIDE DEF m, t, a
    <2>2. [m EXCEPT ![t] = IF n > 0 THEN v ELSE @, ![a] = IF n > 1 THEN w ELSE @] \in Memories
      BY <2>1 DEF Memories
    <2>3. Restored(m, v, w, n) \in Memories
      BY <2>2 DEF Restored, t, a
    <2> QED
      BY <1>1, <1>3, <1>4, <1>9, <2>3 DEF Restore, ExitForm, m
  <1> QED
    BY <1>5, <1>6, <1>7, <1>8, <1>9

----------------------------------------------------------------------------
(* Starting, entering a session, moving it, losing power.                  *)

\* What RAM holds at power up.
LEMMA BootFacts == BootMem \in Memories
  <1>1. [a \in Addrs |-> Junk] \in Memories
    BY ConstantFacts DEF Memories
  <1>2. Preload \in Slots /\ BootImage \in Values
    BY ConstantFacts
  <1> QED
    BY <1>1, <1>2, FillFacts DEF BootMem

\* A device without a session, a transaction, a write or an answer.
Fresh ==
  /\ mem \in Memories /\ served \in Slots /\ nv \in [Locs -> Values]
  /\ active = FALSE /\ slot \in Slots /\ region \in Regions
  /\ txn = NoTxn /\ defer = Nothing /\ last = NoCommit

\* Such a device satisfies the invariant.
LEMMA FreshInv == Fresh => IInv
  <1> SUFFICES ASSUME Fresh PROVE IInv
    OBVIOUS
  <1>1. txn # At(slot, 0)
    BY NoTxnApart DEF Fresh
  <1>2. TypeOK
    BY ConstantFacts DEF Fresh, TypeOK, Memories, Defers, Answers
  <1>3. AnswerServed /\ TxnInSession /\ StagingApart
    BY <1>1 DEF Fresh, AnswerServed, TxnInSession, StagingApart, Nothing, Ready
  <1>4. WritesWhatWasAsked /\ OkMeansWritten
    BY DEF Fresh, WritesWhatWasAsked, OkMeansWritten, NoCommit
  <1> QED
    BY <1>2, <1>3, <1>4 DEF IInv

\* A device at power up is such a device.
LEMMA InitInv == Init => IInv
  <1> SUFFICES ASSUME Init PROVE Fresh
    BY FreshInv
  <1>1. nv \in [Locs -> Values]
    BY ConstantFacts DEF Init
  <1> QED
    BY <1>1, ConstantFacts, BootFacts DEF Init, Fresh

\* Power may go at any point of any command, a flash write included.
LEMMA PowerStep == IInv /\ PowerCycle => IInv'
  <1> SUFFICES ASSUME IInv, PowerCycle PROVE IInv'
    OBVIOUS
  <1>1. Fresh'
    BY ConstantFacts, BootFacts DEF IInv, TypeOK, PowerCycle, Fresh, Memories
  <1>2. Fresh' => IInv'
    BY FreshInv, PTL
  <1> QED
    BY <1>1, <1>2

\* What entering writes, whether or not it is accepted.
LEMMA EnterFacts ==
  ASSUME TypeOK, NEW r \in Regions
  PROVE  LET m == CmdEnd(CmdBegin(mem, served, r), served, r) IN
         /\ m \in Memories
         /\ m[At(served, r.ans)] = Chan /\ m[At(served, r.tok)] = Chan
  <1> DEFINE n == CmdBegin(mem, served, r)
  <1>1. mem \in Memories /\ served \in Slots
    BY DEF TypeOK, Memories
  <1>2. n \in Memories /\ n[At(served, r.tok)] = Chan
    BY <1>1, HeaderFacts
  <1> HIDE DEF n
  <1>3. /\ CmdEnd(n, served, r) \in Memories
        /\ CmdEnd(n, served, r)[At(served, r.ans)] = Chan
        /\ SameBut({At(served, r.ans)}, n, CmdEnd(n, served, r))
        /\ At(served, r.tok) # At(served, r.ans) /\ At(served, r.tok) \in Addrs
    BY <1>1, <1>2, HeaderFacts
  <1> QED
    BY <1>2, <1>3 DEF SameBut, n

\* A session opens in the slot the PIO serves.
LEMMA EnterStep == IInv /\ EnterCmdResp => IInv'
  <1> SUFFICES ASSUME IInv, EnterCmdResp PROVE IInv'
    OBVIOUS
  <1>1. TypeOK /\ served \in Slots /\ txn = NoTxn /\ Ready
    BY DEF IInv, TypeOK, TxnInSession, EnterCmdResp
  <1>2. PICK r \in Regions, size \in {"good", "oversize"} :
          /\ mem' = CmdEnd(CmdBegin(mem, served, r), served, r)
          /\ active' = (size = "good")
          /\ IF size = "good" THEN slot' = served ELSE UNCHANGED slot
          /\ region' = r
    BY DEF EnterCmdResp
  <1>3. mem' \in Memories /\ mem'[At(served, r.ans)] = Chan
    BY <1>1, <1>2, EnterFacts
  <1>4. /\ UNCHANGED <<served, nv, txn, defer>> /\ last' = NoCommit
        /\ slot' \in Slots
    BY <1>1, <1>2 DEF EnterCmdResp, IInv, TypeOK
  <1>5. txn' # At(slot', 0)
    BY <1>1, <1>4, NoTxnApart
  <1>6. TypeOK'
    <2>1. active' \in BOOLEAN /\ region' \in Regions
      BY <1>2
    <2> QED
      BY <2>1, <1>3, <1>4, ConstantFacts DEF IInv, TypeOK, Memories, Answers
  <1>7. AnswerServed'
    BY <1>1, <1>2, <1>3, <1>4 DEF AnswerServed, Ready
  <1>8. TxnInSession' /\ StagingApart'
    BY <1>1, <1>4, <1>5 DEF TxnInSession, StagingApart, Ready
  <1>9. WritesWhatWasAsked' /\ OkMeansWritten'
    BY <1>4 DEF WritesWhatWasAsked, OkMeansWritten, NoCommit
  <1> QED
    BY <1>6, <1>7, <1>8, <1>9 DEF IInv

\* A careful host names no slot in which a transaction stages.
LEMMA NamedClear ==
  ASSUME HostKeepsOff, NEW s \in Named, s \in Slots
  PROVE  txn # At(s, 0)
  BY ConstantFacts DEF Named, Lent

\* A session moves with the image; a careful host never moves it into the
\* slot a transaction stages in.
LEMMA SwitchStep == ASSUME NEW s \in Named, IInv, SwitchSlot(s) PROVE IInv'
  <1>1. TypeOK /\ slot' \in Slots /\ served' \in Slots /\ region \in Regions
    BY DEF SwitchSlot, IInv, TypeOK, CacheAfter, Nameable
  <1>2. Begun("switch") \in Memories
    BY <1>1, FrameFacts DEF TypeOK, Memories
  <1>3. mem' \in Memories /\ (active => mem'[At(slot', region.ans)] = Chan)
    <2>1. mem' = EndedIn(slot', "switch", Begun("switch")) /\ "switch" \notin Silent
      BY DEF SwitchSlot, Silent
    <2> QED
      BY <1>1, <1>2, <2>1, FrameFacts, HeaderWritten
  <1>4. /\ Ready /\ last' = NoCommit
        /\ UNCHANGED <<active, region, nv, txn, defer>>
    BY DEF SwitchSlot
  <1>5. TypeOK'
    BY <1>1, <1>3, <1>4, ConstantFacts DEF TypeOK, Memories, Answers
  <1>6. AnswerServed'
    <2>1. active => slot' = served'
      BY DEF SwitchSlot, CacheAfter, IInv, AnswerServed
    <2> QED
      BY <2>1, <1>3, <1>4 DEF AnswerServed, Ready
  <1>7. TxnInSession' /\ StagingApart'
    <2>1. ASSUME HostKeepsOff PROVE txn # At(slot', 0)
      <3>1. CASE s \in Slots
        BY <2>1, <3>1, NamedClear DEF SwitchSlot, CacheAfter, Nameable
      <3>2. CASE s \notin Slots
        BY <2>1, <3>2 DEF SwitchSlot, CacheAfter, Nameable, IInv, StagingApart
      <3> QED
        BY <3>1, <3>2
    <2> QED
      BY <1>4, <2>1 DEF IInv, TxnInSession, StagingApart, Ready
  <1>8. WritesWhatWasAsked' /\ OkMeansWritten'
    BY <1>4 DEF WritesWhatWasAsked, OkMeansWritten, NoCommit
  <1> QED
    BY <1>5, <1>6, <1>7, <1>8 DEF IInv

----------------------------------------------------------------------------
(* The NV commands.                                                        *)

\* What every NV command does: it stays in its session, and the answer the
\* host polls for is there, or pending when a write has been asked for.
NvForm ==
  /\ Ready /\ active
  /\ UNCHANGED <<served, active, slot, region, nv>>
  /\ mem' \in Memories
  /\ IF Ready' THEN mem'[At(slot, region.ans)] = Chan
     ELSE mem'[At(slot, region.ans)] = Pending /\ mem'[At(slot, region.tok)] = Chan

\* What is then left to show of a command.
LEMMA NvStep ==
  ASSUME IInv, NvForm,
         txn' \in Areas \cup {NoTxn}, defer' \in Defers, last' \in Answers,
         StagingApart', WritesWhatWasAsked', OkMeansWritten'
  PROVE  IInv'
  <1>1. TypeOK'
    BY DEF IInv, TypeOK, NvForm, Memories, Answers
  <1>2. AnswerServed'
    BY DEF IInv, NvForm, AnswerServed
  <1>3. TxnInSession'
    BY DEF NvForm, TxnInSession
  <1> QED
    BY <1>1, <1>2, <1>3 DEF IInv

NvKinds == {"begin", "nv_poke", "discard", "commit", "commit_byte"}

\* A command that is answered at once ends with its answer in place, and one
\* that is not has begun with its token in place.
LEMMA NvFrame ==
  ASSUME IInv, active, NEW k \in NvKinds
  PROVE  /\ Begun(k) \in Memories
         /\ Begun(k)[At(slot, region.ans)] = Pending
         /\ Begun(k)[At(slot, region.tok)] = Chan
         /\ SameBut(SlotAddrs(slot), mem, Begun(k))
         /\ \A m \in Memories : /\ Ended(k, m) \in Memories
                                /\ Ended(k, m)[At(slot, region.ans)] = Chan
  <1>1. /\ mem \in Memories /\ slot \in Slots /\ TypeOK
        /\ active /\ k \notin Silent
    BY DEF IInv, TypeOK, Memories, Silent, NvKinds
  <1>2. /\ Begun(k) \in Memories /\ SameBut(SlotAddrs(slot), mem, Begun(k))
        /\ \A m \in Memories : EndedIn(slot, k, m) \in Memories
    BY <1>1, FrameFacts
  <1>3. /\ Begun(k)[At(slot, region.ans)] = Pending
        /\ Begun(k)[At(slot, region.tok)] = Chan
        /\ \A m \in Memories : EndedIn(slot, k, m)[At(slot, region.ans)] = Chan
    BY <1>1, HeaderWritten
  <1> QED
    BY <1>2, <1>3 DEF Ended

\* An answer that does not report a committed byte, and no write under way.
LEMMA QuietAnswer ==
  ASSUME last' = NoCommit
  PROVE  WritesWhatWasAsked' /\ OkMeansWritten' /\ last' \in Answers
  BY ConstantFacts DEF WritesWhatWasAsked, OkMeansWritten, NoCommit

\* A transaction is opened apart from the served slot, or refused.
LEMMA BeginStep ==
  ASSUME NEW s \in Slots \cup {BadSlot}, IInv, NvPokeBegin(s) PROVE IInv'
  <1>1. Ready /\ active /\ UNCHANGED <<served, active, slot, region, nv, defer>>
        /\ last' = NoCommit /\ Ready'
    BY DEF NvPokeBegin, NvCommand, mode, Ready
  <1>2. /\ TypeOK /\ defer \in Defers
        /\ mem' \in Memories /\ mem'[At(slot, region.ans)] = Chan
        /\ txn' \in Areas \cup {NoTxn}
        /\ txn' = txn \/ (txn' # At(slot, 0) /\ txn = NoTxn)
    <2>1. TypeOK /\ defer \in Defers /\ txn \in Areas \cup {NoTxn}
      BY DEF IInv, TypeOK
    <2>2. Begun("begin") \in Memories
          /\ \A m \in Memories : /\ Ended("begin", m) \in Memories
                                 /\ Ended("begin", m)[At(slot, region.ans)] = Chan
      BY <1>1, NvFrame DEF NvKinds
    <2>3. CASE CanBegin(s)
      <3>1. AreaFor(s) \in Areas /\ AreaFor(s) # At(slot, 0) /\ txn = NoTxn
        BY <2>1, <2>3, AreaApart
      <3>2. CopyIn(Begun("begin"), AreaFor(s)) \in Memories
        BY <2>1, <2>2, <3>1, CopyFacts
      <3>3. txn' = AreaFor(s) /\ mem' = Ended("begin", CopyIn(Begun("begin"), AreaFor(s)))
        BY <2>3 DEF NvPokeBegin
      <3> QED
        BY <2>1, <2>2, <3>1, <3>2, <3>3
    <2>4. CASE ~CanBegin(s)
      <3>1. txn' = txn /\ mem' = Ended("begin", Begun("begin"))
        BY <2>4 DEF NvPokeBegin
      <3> QED
        BY <2>1, <2>2, <3>1
    <2> QED
      BY <2>3, <2>4
  <1>3. StagingApart'
    BY <1>1, <1>2 DEF IInv, StagingApart, Ready
  <1> QED
    BY <1>1, <1>2, <1>3, NvStep, QuietAnswer DEF NvForm

\* A byte is staged: only images change.
LEMMA PokeStep ==
  ASSUME NEW l \in Locs \cup {BadLoc}, NEW b \in Bytes, IInv, NvPoke(l, b) PROVE IInv'
  <1>1. /\ Ready /\ active /\ last' = NoCommit
        /\ UNCHANGED <<served, active, slot, region, txn, nv, defer>>
    BY DEF NvPoke, NvCommand, mode
  <1>2. Begun("nv_poke") \in Memories
        /\ \A m \in Memories : /\ Ended("nv_poke", m) \in Memories
                               /\ Ended("nv_poke", m)[At(slot, region.ans)] = Chan
    BY <1>1, NvFrame DEF NvKinds
  <1>3. txn # NoTxn /\ l \in Locs => [Begun("nv_poke") EXCEPT ![txn + l] = b] \in Memories
    <2>1. ASSUME txn # NoTxn, l \in Locs PROVE txn + l \in Addrs /\ b \in Values
      BY <2>1, ConstantFacts, AreaFacts DEF IInv, TypeOK
    <2> QED
      BY <1>2, <2>1, WriteFacts
  <1>4. PICK m \in Memories : mem' = Ended("nv_poke", m)
    BY <1>2, <1>3 DEF NvPoke
  <1> QED
    BY <1>1, <1>2, <1>4, ImageStep DEF ImageForm

\* A transaction is dropped.
LEMMA DiscardStep == IInv /\ NvPokeDiscard => IInv'
  <1> SUFFICES ASSUME IInv, NvPokeDiscard PROVE IInv'
    OBVIOUS
  <1>1. /\ Ready /\ active /\ last' = NoCommit /\ txn' = NoTxn /\ Ready'
        /\ UNCHANGED <<served, active, slot, region, nv, defer>>
        /\ mem' = Ended("discard", Begun("discard"))
    BY DEF NvPokeDiscard, NvCommand, mode, Ready
  <1>2. txn' # At(slot', 0) /\ defer \in Defers
    BY <1>1, NoTxnApart DEF IInv, TypeOK
  <1>3. StagingApart'
    BY <1>1, <1>2 DEF StagingApart, Ready
  <1>4. mem' \in Memories /\ mem'[At(slot, region.ans)] = Chan
    BY <1>1, NvFrame DEF NvKinds
  <1> QED
    BY <1>1, <1>2, <1>3, <1>4, NvStep, QuietAnswer DEF NvForm

\* A commit asks for the write of what is staged, or is refused.
LEMMA CommitStep == IInv /\ NvPokeCommit => IInv'
  <1> SUFFICES ASSUME IInv, NvPokeCommit PROVE IInv'
    OBVIOUS
  <1>1. /\ Ready /\ active /\ last' = NoCommit
        /\ UNCHANGED <<served, active, slot, region, txn, nv>>
        /\ txn \in Areas \cup {NoTxn} /\ defer \in Defers
    BY DEF NvPokeCommit, NvCommand, mode, IInv, TypeOK
  <1>2. /\ Begun("commit") \in Memories
        /\ Begun("commit")[At(slot, region.ans)] = Pending
        /\ Begun("commit")[At(slot, region.tok)] = Chan
        /\ \A m \in Memories : /\ Ended("commit", m) \in Memories
                               /\ Ended("commit", m)[At(slot, region.ans)] = Chan
    BY <1>1, NvFrame DEF NvKinds
  <1>3. \/ defer' = defer /\ mem' = Ended("commit", Begun("commit"))
        \/ /\ txn # NoTxn /\ defer' = [kind |-> "sector", erased |-> FALSE]
           /\ mem' = Begun("commit")
    BY DEF NvPokeCommit
  <1>4. defer' \in Defers
    <2>1. [kind |-> "sector", erased |-> FALSE] \in Defers
      BY DEF Defers
    <2> QED
      BY <1>1, <1>3, <2>1
  <1>5. StagingApart'
    BY <1>1, <1>3 DEF IInv, StagingApart
  <1>6. NvForm
    BY <1>1, <1>2, <1>3 DEF NvForm, Ready
  <1> QED
    BY <1>1, <1>4, <1>5, <1>6, NvStep, QuietAnswer

\* The window as it is to be written, with the byte asked for in it.
LEMMA WindowFacts ==
  ASSUME TypeOK, NEW l \in Window, NEW b \in Bytes,
         NEW buf, buf = [w \in Window |-> IF w = l THEN b ELSE nv[w]]
  PROVE  /\ buf \in [Window -> Values] /\ buf[l] = b
         /\ [kind |-> "window", erased |-> FALSE, buf |-> buf] \in Defers
  <1>1. \A w \in Window : (IF w = l THEN b ELSE nv[w]) \in Values
    BY ConstantFacts DEF TypeOK
  <1>2. buf \in [Window -> Values] /\ buf[l] = b
    BY <1>1
  <1> QED
    BY <1>2 DEF Defers

\* One byte of an area written, in a memory that had its bytes.
LEMMA StagedByte ==
  ASSUME NEW m \in Memories, NEW a \in Areas, NEW l \in Locs, NEW b \in Values
  PROVE  /\ [m EXCEPT ![a + l] = b] \in Memories
         /\ SameBut(Span(a), m, [m EXCEPT ![a + l] = b])
         /\ In([m EXCEPT ![a + l] = b], a) = [In(m, a) EXCEPT ![l] = b]
  <1>1. a \in Nat /\ \A k \in Locs : a + k \in Addrs
    BY AreaFacts
  <1>2. \A k \in Locs : k \in Int
    BY NvAssumption DEF Locs
  <1>3. \A k \in Locs : (a + k = a + l) => (k = l)
    <2> SUFFICES ASSUME NEW k \in Locs, a + k = a + l PROVE k = l
      OBVIOUS
    <2>1. a \in Int /\ k \in Int /\ l \in Int
      BY <1>1, <1>2
    <2> QED
      BY <2>1
  <1>4. [m EXCEPT ![a + l] = b] \in Memories /\ SameBut({a + l}, m, [m EXCEPT ![a + l] = b])
    BY <1>1, WriteFacts
  <1>5. \A k \in Locs : [m EXCEPT ![a + l] = b][a + k] = IF k = l THEN b ELSE m[a + k]
    BY <1>1, <1>3 DEF Memories
  <1>6. In([m EXCEPT ![a + l] = b], a) = [In(m, a) EXCEPT ![l] = b]
    BY <1>5 DEF In
  <1>7. SameBut(Span(a), m, [m EXCEPT ![a + l] = b])
    BY <1>4 DEF SameBut, Span
  <1> QED
    BY <1>4, <1>6, <1>7

\* One byte committed: at once when it is already there, refused, or asked
\* for, in the window or in a transaction opened for it.
LEMMA CommitByteStep ==
  ASSUME NEW l \in Locs \cup {BadLoc}, NEW b \in Bytes,
         NEW s \in Slots \cup {BadSlot, Reserved, NoSlot},
         IInv, NvPokeCommitByte(l, b, s)
  PROVE  IInv'
  <1> DEFINE m == Begun("commit_byte")
             Failed(n) == mem' = Ended("commit_byte", n) /\ last' = NoCommit
                          /\ UNCHANGED <<txn, defer>>
             Answered(a) == last' = [loc |-> l, byte |-> b, answer |-> a]
  <1>1. /\ Ready /\ active /\ TypeOK
        /\ UNCHANGED <<served, active, slot, region, nv>>
        /\ txn \in Areas \cup {NoTxn} /\ defer \in Defers
        /\ nv \in [Locs -> Values] /\ slot \in Slots /\ region \in Regions
    BY DEF NvPokeCommitByte, NvCommand, mode, IInv, TypeOK
  <1>2. /\ m \in Memories
        /\ m[At(slot, region.ans)] = Pending /\ m[At(slot, region.tok)] = Chan
        /\ \A n \in Memories : /\ Ended("commit_byte", n) \in Memories
                               /\ Ended("commit_byte", n)[At(slot, region.ans)] = Chan
    BY <1>1, NvFrame DEF NvKinds
  <1>3. \A a \in {"none", "ok"} : [loc |-> l, byte |-> b, answer |-> a] \in Answers
    BY DEF Answers
  <1>4. ASSUME NEW n \in Memories, Failed(n) PROVE IInv'
    BY <1>1, <1>2, <1>4, ImageStep DEF ImageForm
  <1>5. CASE Unchanged(l, b) /\ mem' = Ended("commit_byte", m) /\ Answered("ok")
             /\ UNCHANGED <<txn, defer>>
    <2>1. mem' \in Memories /\ mem'[At(slot, region.ans)] = Chan
      BY <1>2, <1>5
    <2>2. StagingApart'
      BY <1>1, <1>5 DEF IInv, StagingApart
    <2>3. Ready' /\ last'.loc = l /\ last'.byte = b
      BY <1>1, <1>5 DEF Ready
    <2>4. WritesWhatWasAsked' /\ OkMeansWritten'
      BY <1>1, <1>5, <2>3 DEF WritesWhatWasAsked, OkMeansWritten, Unchanged
    <2>5. last' \in Answers /\ defer' \in Defers /\ txn' \in Areas \cup {NoTxn}
      BY <1>1, <1>3, <1>5
    <2> QED
      BY <1>1, <2>1, <2>2, <2>3, <2>4, <2>5, NvStep DEF NvForm
  <1>6. ASSUME ~Rejected(l, s), s = NoSlot, mem' = m,
               defer' = [kind |-> "window", erased |-> FALSE,
                         buf |-> [w \in Window |-> IF w = l THEN b ELSE nv[w]]],
               UNCHANGED txn, Answered("none")
        PROVE  IInv'
    <2>1. l \in Window /\ txn = NoTxn /\ l \in Locs
      BY <1>6, ConstantFacts DEF Rejected
    <2>2. PICK buf : buf = [w \in Window |-> IF w = l THEN b ELSE nv[w]]
      OBVIOUS
    <2>3. defer' = [kind |-> "window", erased |-> FALSE, buf |-> buf]
      BY <1>6, <2>2
    <2>4. buf \in [Window -> Values] /\ buf[l] = b /\ defer' \in Defers
      BY <1>1, <2>1, <2>2, <2>3, WindowFacts
    <2>5. last'.loc = l /\ last'.byte = b /\ last'.answer = "none"
      BY <1>6
    <2>6. StoreGoal' = buf /\ ~Ready'
      BY <2>3 DEF StoreGoal, Ready
    <2>7. WritesWhatWasAsked' /\ OkMeansWritten'
      BY <2>1, <2>4, <2>5, <2>6 DEF WritesWhatWasAsked, OkMeansWritten
    <2>8. txn' # At(slot', 0)
      BY <1>1, <1>6, <2>1, NoTxnApart
    <2>9. StagingApart'
      BY <1>6, <2>1, <2>3, <2>8 DEF StagingApart
    <2>10. last' \in Answers
      BY <1>3, <1>6
    <2>11. NvForm
      BY <1>1, <1>2, <1>6, <2>6 DEF NvForm
    <2> QED
      BY <1>1, <1>6, <2>4, <2>7, <2>9, <2>10, <2>11, NvStep
  <1>7. ASSUME CanBegin(s), l \in Locs,
               mem' = [CopyIn(m, AreaFor(s)) EXCEPT ![AreaFor(s) + l] = b],
               txn' = AreaFor(s),
               defer' = [kind |-> "sector", erased |-> FALSE],
               Answered("none")
        PROVE  IInv'
    <2> DEFINE a == AreaFor(s)
               c == CopyIn(m, a)
    <2>1. /\ a \in Areas /\ a # At(slot, 0) /\ a # NoTxn
          /\ \A k \in Locs : a + k \notin SlotAddrs(slot)
      BY <1>1, <1>7, AreaApart
    <2>2. c \in Memories /\ SameBut(Span(a), m, c)
      BY <1>1, <1>2, <2>1, CopyFacts
    <2>3. b \in Values /\ l \in Locs
      BY <1>7, ConstantFacts
    <2>4. /\ At(slot, region.ans) \in Addrs \ Span(a)
          /\ At(slot, region.tok) \in Addrs \ Span(a)
      BY <1>1, <2>1, AtFacts, ConstantFacts DEF Span
    <2> HIDE DEF a, c, m
    <2>5. mem' = [c EXCEPT ![a + l] = b]
      BY <1>7 DEF a, c
    <2>6. mem' \in Memories /\ SameBut(Span(a), c, mem') /\ In(mem', a) = [In(c, a) EXCEPT ![l] = b]
      <3>1. a \in Areas /\ c \in Memories /\ l \in Locs /\ b \in Values
        BY <2>1, <2>2, <2>3
      <3>2. /\ [c EXCEPT ![a + l] = b] \in Memories
            /\ SameBut(Span(a), c, [c EXCEPT ![a + l] = b])
            /\ In([c EXCEPT ![a + l] = b], a) = [In(c, a) EXCEPT ![l] = b]
        BY <3>1, StagedByte
      <3> QED
        BY <2>5, <3>2
    <2>7. mem'[At(slot, region.ans)] = Pending /\ mem'[At(slot, region.tok)] = Chan
      BY <1>2, <2>2, <2>4, <2>6 DEF SameBut
    <2>8. txn' = a /\ defer'.kind = "sector" /\ defer' \in Defers /\ ~Ready'
      BY <1>7 DEF a, Defers, Ready
    <2>9. last'.loc = l /\ last'.byte = b /\ last'.answer = "none"
      BY <1>7
    <2>10. l \in DOMAIN StoreGoal' /\ StoreGoal'[l] = b
      <3>1. StoreGoal' = In(mem', a)
        BY <2>8 DEF StoreGoal, Staged, In
      <3>2. l \in DOMAIN In(c, a)
        BY <2>3 DEF In
      <3> QED
        BY <2>3, <2>6, <3>1, <3>2
    <2>11. WritesWhatWasAsked' /\ OkMeansWritten'
      BY <2>9, <2>10 DEF WritesWhatWasAsked, OkMeansWritten
    <2>12. StagingApart'
      BY <1>1, <2>1, <2>8 DEF StagingApart
    <2>13. last' \in Answers
      BY <1>3, <1>7
    <2>14. NvForm
      BY <1>1, <2>6, <2>7, <2>8 DEF NvForm
    <2> QED
      BY <2>1, <2>8, <2>11, <2>12, <2>13, <2>14, NvStep
  <1>8. CanBegin(s) => CopyIn(m, AreaFor(s)) \in Memories
    BY <1>1, <1>2, AreaApart, CopyFacts
  <1> QED
    <2>1. CASE \/ Failed(m)
               \/ CanBegin(s) /\ Failed(CopyIn(m, AreaFor(s)))
      <3> HIDE DEF m, Failed
      <3> QED
        BY <1>2, <1>4, <1>8, <2>1
    <2>2. CASE ~\/ Failed(m)
                \/ CanBegin(s) /\ Failed(CopyIn(m, AreaFor(s)))
      BY <1>5, <1>6, <1>7, <2>2 DEF NvPokeCommitByte
    <2> QED
      BY <2>1, <2>2

----------------------------------------------------------------------------
(* The flash write.                                                        *)

\* A write under way belongs to a session, and is one of the two kinds.
LEMMA WriteUnderWay ==
  ASSUME IInv, ~Ready
  PROVE  /\ active /\ TypeOK
         /\ \/ /\ defer.kind = "sector" /\ txn \in Areas
               /\ StoreGoal = Staged /\ defer \in [kind : {"sector"}, erased : BOOLEAN]
            \/ /\ defer.kind = "window" /\ txn = NoTxn
               /\ StoreGoal = defer.buf /\ defer.buf \in [Window -> Values]
               /\ defer \in [kind : {"window"}, erased : BOOLEAN, buf : [Window -> Values]]
  <1>1. TypeOK /\ active
    BY DEF IInv, TxnInSession
  <1>2. defer # Nothing
    BY DEF Ready, Nothing
  <1>3. \/ defer \in [kind : {"sector"}, erased : BOOLEAN]
        \/ defer \in [kind : {"window"}, erased : BOOLEAN, buf : [Window -> Values]]
    BY <1>1, <1>2 DEF TypeOK, Defers
  <1>4. txn \in Areas \cup {NoTxn}
    BY <1>1 DEF TypeOK
  <1> QED
    BY <1>1, <1>3, <1>4 DEF StoreGoal, IInv, StagingApart

\* When a write is answered the answer is there, and so is its token.
LEMMA WriteFrame ==
  ASSUME IInv, ~Ready
  PROVE  /\ active /\ mem \in Memories /\ slot \in Slots /\ region \in Regions
         /\ Ended("commit", mem) \in Memories
         /\ Ended("commit", mem)[At(slot, region.ans)] = Chan
         /\ Ended("commit", mem)[At(slot, region.tok)] = Chan
  <1>1. mem \in Memories /\ slot \in Slots /\ region \in Regions /\ active /\ TypeOK
    BY WriteUnderWay DEF TypeOK, Memories
  <1>2. Ended("commit", mem) \in Memories /\ Ended("commit", mem)[At(slot, region.ans)] = Chan
    BY <1>1, NvFrame DEF NvKinds
  <1>3. SameBut({At(slot, region.ans)}, mem, Ended("commit", mem))
    BY <1>1, FrameFacts DEF Ended
  <1>4. mem[At(slot, region.tok)] = Chan
    BY <1>1 DEF IInv, AnswerServed
  <1>5. At(slot, region.tok) \in Addrs /\ At(slot, region.tok) # At(slot, region.ans)
    BY <1>1, HeaderFacts
  <1> QED
    BY <1>1, <1>2, <1>3, <1>4, <1>5 DEF SameBut

\* A write that fails leaves its transaction open.
LEMMA FailStep == IInv /\ WriteFails => IInv'
  <1> SUFFICES ASSUME IInv, WriteFails PROVE IInv'
    OBVIOUS
  <1>1. /\ ~Ready /\ UNCHANGED <<served, active, slot, region, nv, txn>>
        /\ defer' = Nothing /\ last' = NoCommit /\ mem' = Ended("commit", mem)
    BY DEF WriteFails, AfterFailure, mode
  <1>2. active /\ TypeOK
    BY <1>1, WriteUnderWay
  <1>3. mem' \in Memories /\ mem'[At(slot, region.ans)] = Chan
    BY <1>1, WriteFrame
  <1>4. TypeOK'
    <2>1. defer' \in Defers
      BY <1>1 DEF Defers
    <2> QED
      BY <1>1, <1>2, <1>3, <2>1, QuietAnswer DEF TypeOK, Memories, Answers
  <1>5. AnswerServed' /\ TxnInSession'
    BY <1>1, <1>2, <1>3 DEF IInv, AnswerServed, TxnInSession, Ready, Nothing
  <1>6. StagingApart'
    BY <1>1 DEF IInv, StagingApart, Nothing
  <1> QED
    BY <1>1, <1>4, <1>5, <1>6, QuietAnswer DEF IInv

\* Erasing changes storage, and neither what is to be written nor for whom.
LEMMA EraseStep == IInv /\ Erase => IInv'
  <1> SUFFICES ASSUME IInv, Erase PROVE IInv'
    OBVIOUS
  <1>1. /\ ~Ready /\ UNCHANGED <<mem, served, active, slot, region, txn, last>>
        /\ nv' = [l \in Locs |-> Erased]
        /\ defer' = [defer EXCEPT !.erased = TRUE]
    BY DEF Erase, rom, mode
  <1>2. active /\ TypeOK
    BY <1>1, WriteUnderWay
  <1>3. defer' \in Defers /\ defer'.kind = defer.kind /\ StoreGoal' = StoreGoal
    <2>1. CASE defer.kind = "sector"
      <3>1. defer \in [kind : {"sector"}, erased : BOOLEAN]
        BY <1>1, <2>1, WriteUnderWay
      <3>2. defer' \in [kind : {"sector"}, erased : BOOLEAN]
        BY <1>1, <3>1
      <3> QED
        BY <1>1, <3>1, <3>2 DEF Defers, StoreGoal, Staged
    <2>2. CASE defer.kind = "window"
      <3>1. defer \in [kind : {"window"}, erased : BOOLEAN, buf : [Window -> Values]]
        BY <1>1, <2>2, WriteUnderWay
      <3>2. /\ defer' \in [kind : {"window"}, erased : BOOLEAN, buf : [Window -> Values]]
            /\ defer'.buf = defer.buf /\ defer'.kind = "window"
        BY <1>1, <3>1
      <3> QED
        BY <1>1, <2>2, <3>2 DEF Defers, StoreGoal
    <2> QED
      BY <1>1, <2>1, <2>2, WriteUnderWay
  <1>4. nv' \in [Locs -> Values]
    BY <1>1, ConstantFacts
  <1>5. TypeOK'
    BY <1>1, <1>2, <1>3, <1>4 DEF TypeOK
  <1>6. AnswerServed' /\ TxnInSession'
    BY <1>1, <1>2, <1>3 DEF IInv, AnswerServed, TxnInSession, Ready
  <1>7. StagingApart'
    BY <1>1, <1>3 DEF IInv, StagingApart
  <1>8. last.answer # "ok"
    BY <1>1 DEF IInv, WritesWhatWasAsked
  <1>9. WritesWhatWasAsked' /\ OkMeansWritten'
    BY <1>1, <1>3, <1>8 DEF IInv, WritesWhatWasAsked, OkMeansWritten
  <1> QED
    BY <1>5, <1>6, <1>7, <1>9 DEF IInv

\* Programming leaves what was asked for, and answers that it did.
LEMMA ProgramStep ==
  ASSUME NEW junk \in Bytes \cup {Junk}, IInv, Program(junk) PROVE IInv'
  <1>1. /\ ~Ready /\ UNCHANGED <<served, active, slot, region>>
        /\ nv' = [l \in Locs |-> Programmed(l, junk)]
        /\ defer' = Nothing /\ txn' = NoTxn /\ mem' = Ended("commit", mem)
        /\ last' = IF last = NoCommit THEN last ELSE [last EXCEPT !.answer = "ok"]
    BY DEF Program, mode
  <1>2. active /\ TypeOK
    BY <1>1, WriteUnderWay
  <1>3. mem' \in Memories /\ mem'[At(slot, region.ans)] = Chan
    BY <1>1, WriteFrame
  <1>4. \A l \in Locs : Programmed(l, junk) \in Values
    <2>1. TAKE l \in Locs
    <2>2. junk \in Values /\ nv[l] \in Values
      BY <1>2, ConstantFacts DEF TypeOK
    <2>3. CASE defer.kind = "sector"
      <3>1. txn \in Areas
        BY <1>1, <2>3, WriteUnderWay
      <3>2. txn + l \in Addrs
        BY <3>1, AreaFacts
      <3>3. Staged[l] = mem[txn + l] /\ mem[txn + l] \in Values
        BY <1>2, <3>2 DEF Staged, TypeOK
      <3> QED
        BY <2>3, <3>3 DEF Programmed
    <2>4. CASE defer.kind # "sector"
      <3>1. defer.buf \in [Window -> Values]
        BY <1>1, <2>4, WriteUnderWay
      <3> QED
        BY <2>2, <2>4, <3>1 DEF Programmed
    <2> QED
      BY <2>3, <2>4
  <1>5. \A l \in Locs : l \in DOMAIN StoreGoal => nv'[l] = StoreGoal[l]
    <2> SUFFICES ASSUME NEW l \in Locs, l \in DOMAIN StoreGoal
                 PROVE  Programmed(l, junk) = StoreGoal[l]
      BY <1>1
    <2>1. CASE defer.kind = "sector"
      <3>1. StoreGoal = Staged
        BY <1>1, <2>1, WriteUnderWay
      <3>2. Programmed(l, junk) = Staged[l]
        BY <2>1 DEF Programmed
      <3> QED
        BY <3>1, <3>2
    <2>2. CASE defer.kind = "window"
      <3>1. StoreGoal = defer.buf /\ DOMAIN defer.buf = Window
        BY <1>1, <2>2, WriteUnderWay
      <3>2. l \in Window
        BY <3>1
      <3>3. Programmed(l, junk) = defer.buf[l]
        BY <2>2, <3>2 DEF Programmed
      <3> QED
        BY <3>1, <3>3
    <2> QED
      BY <1>1, <2>1, <2>2, WriteUnderWay
  <1>6. DOMAIN StoreGoal \subseteq Locs
    BY <1>1, WriteUnderWay, ConstantFacts DEF Staged
  <1>7. /\ last' \in Answers
        /\ last'.loc = last.loc /\ last'.byte = last.byte
        /\ last'.answer = "ok" => last # NoCommit
    <2>1. last \in Answers
      BY <1>2 DEF TypeOK, Answers
    <2> QED
      BY <1>1, <2>1 DEF NoCommit, Answers
  <1>8. TypeOK'
    <2>1. defer' \in Defers /\ nv' \in [Locs -> Values]
      BY <1>1, <1>4 DEF Defers
    <2> QED
      BY <1>1, <1>2, <1>3, <1>7, <2>1 DEF TypeOK, Memories, Answers
  <1>9. AnswerServed' /\ TxnInSession'
    BY <1>1, <1>2, <1>3 DEF IInv, AnswerServed, TxnInSession, Ready, Nothing
  <1>10. txn' # At(slot', 0)
    BY <1>1, <1>2, NoTxnApart DEF TypeOK
  <1>11. StagingApart' /\ Ready'
    BY <1>1, <1>10 DEF StagingApart, Nothing, Ready
  <1>12. WritesWhatWasAsked'
    BY <1>11 DEF WritesWhatWasAsked
  <1>13. OkMeansWritten'
    <2> SUFFICES ASSUME last'.answer = "ok"
                 PROVE  last.loc \in Locs /\ nv'[last.loc] = last.byte
      BY <1>7 DEF OkMeansWritten
    <2>1. last.loc \in DOMAIN StoreGoal /\ StoreGoal[last.loc] = last.byte
      BY <1>1, <1>7 DEF IInv, WritesWhatWasAsked
    <2> QED
      BY <1>5, <1>6, <2>1
  <1> QED
    BY <1>8, <1>9, <1>11, <1>12, <1>13 DEF IInv

----------------------------------------------------------------------------
(* The theorems.                                                           *)

\* A step that changes nothing preserves the invariant.
LEMMA StutterStep == IInv /\ UNCHANGED vars => IInv'
  <1> SUFFICES ASSUME IInv, UNCHANGED vars PROVE IInv'
    OBVIOUS
  <1>1. UNCHANGED <<mem, served, nv, active, slot, region, txn, defer, last>>
    BY DEF vars
  <1>2. TypeOK' /\ AnswerServed' /\ TxnInSession' /\ StagingApart'
    BY <1>1 DEF IInv, TypeOK, AnswerServed, TxnInSession, StagingApart, Ready
  <1>3. WritesWhatWasAsked' /\ OkMeansWritten'
    BY <1>1 DEF IInv, WritesWhatWasAsked, OkMeansWritten, StoreGoal, Staged, Ready
  <1> QED
    BY <1>2, <1>3 DEF IInv

\* Every command, every step of a flash write and every power cycle preserves
\* the invariant.
LEMMA NextInv == IInv /\ [Next]_vars => IInv'
  <1> SUFFICES ASSUME IInv, [Next]_vars PROVE IInv'
    OBVIOUS
  <1>1. CASE SlotCommand
    BY <1>1, SwitchStep, ImageCommandsForm, ImageStep DEF SlotCommand, ImageCommands
  <1>2. CASE SessionCommand
    BY <1>2, EnterStep, ImageCommandsForm, ImageStep, ExitCommands, ExitStep
       DEF SessionCommand, ImageCommands
  <1>3. CASE StorageCommand
    BY <1>3, BeginStep, PokeStep, CommitByteStep, DiscardStep, CommitStep DEF StorageCommand
  <1>4. CASE FlashWrite
    BY <1>4, FailStep, EraseStep, ProgramStep DEF FlashWrite
  <1>5. CASE PowerCycle
    BY <1>5, PowerStep
  <1>6. CASE UNCHANGED vars
    BY <1>6, StutterStep
  <1> QED
    BY <1>1, <1>2, <1>3, <1>4, <1>5, <1>6 DEF Next

\* The inductive invariant of the plugin, whatever the host sends.
THEOREM Invariance == Spec => []IInv
  <1>1. Init => IInv
    BY InitInv
  <1>2. IInv /\ [Next]_vars => IInv'
    BY NextInv
  <1> QED
    BY <1>1, <1>2, PTL DEF Spec

\* Every variable keeps its type.
THEOREM TypeCorrect == Spec => []TypeOK
  <1>1. IInv => TypeOK
    BY DEF IInv
  <1> QED
    BY <1>1, Invariance, PTL

\* No transaction and no flash write outlives the session it belongs to
\* (nv_discard_impl in run_command).
THEOREM TxnEnds == Spec => []TxnInSession
  <1>1. IInv => TxnInSession
    BY DEF IInv
  <1> QED
    BY <1>1, Invariance, PTL

\* Where the host keeps off the slot it lent, no transaction stages in the
\* slot being served (nv_poke_begin_impl, exec_switch_slot).
THEOREM Apart == Spec => []StagingApart
  <1>1. IInv => StagingApart
    BY DEF IInv
  <1> QED
    BY <1>1, Invariance, PTL

\* A host told that a byte was committed finds it in NV storage, whichever of
\* its three ways NV_POKE_COMMIT_BYTE took (exec_nv_poke_commit_byte,
\* nv_deferred_run).
THEOREM Ok == Spec => []OkMeansWritten
  <1>1. IInv => OkMeansWritten
    BY DEF IInv
  <1> QED
    BY <1>1, Invariance, PTL

----------------------------------------------------------------------------
(* The response channel.                                                   *)

\* The token is where the host polls for it, or the step displaces it.
TokenServed == mem'[At(served', region'.tok)] = Chan \/ Displaces

\* A command that ends on a memory with the token in it leaves it there.
LEMMA TokenEnds ==
  ASSUME TypeOK, NEW k, NEW m \in Memories, m[At(slot, region.tok)] = Chan
  PROVE  Ended(k, m)[At(slot, region.tok)] = Chan
  <1>1. /\ slot \in Slots /\ region \in Regions
        /\ SameBut({At(slot, region.ans)}, m, EndedIn(slot, k, m))
    BY FrameFacts DEF TypeOK
  <1>2. At(slot, region.tok) \in Addrs /\ At(slot, region.tok) # At(slot, region.ans)
    BY <1>1, HeaderFacts
  <1> QED
    BY <1>1, <1>2 DEF Ended, SameBut

\* And one that writes elsewhere, on the memory it began with.
LEMMA TokenKept ==
  ASSUME TypeOK, active, NEW k, k \notin Silent, NEW A, NEW m \in Memories,
         SameBut(A, Begun(k), m), At(slot, region.tok) \notin A
  PROVE  Ended(k, m)[At(slot, region.tok)] = Chan
  <1>1. /\ slot \in Slots /\ region \in Regions
        /\ Begun(k)[At(slot, region.tok)] = Chan
    BY HeaderWritten DEF TypeOK
  <1>2. At(slot, region.tok) \in Addrs
    BY <1>1, HeaderFacts
  <1>3. m[At(slot, region.tok)] = Chan
    BY <1>1, <1>2 DEF SameBut
  <1> QED
    BY <1>3, TokenEnds

\* Commands about images displace the token only where they say so.
LEMMA ImagesToken ==
  ASSUME IInv, ImageCommands, active
  PROVE  TokenServed
  <1> DEFINE t == At(slot, region.tok)
  <1>1. /\ TypeOK /\ slot \in Slots /\ served = slot /\ region \in Regions /\ mem \in Memories
        /\ served' = slot /\ region' = region
    BY ImageFrame DEF IInv, TypeOK, AnswerServed, Memories
  <1>2. \A k : Begun(k) \in Memories
    BY <1>1, FrameFacts
  <1>3. t \in Addrs /\ \A s \in Slots : s # slot => t \notin SlotAddrs(s)
    BY <1>1, HeaderFacts, SlotsApart, ConstantFacts
  <1> SUFFICES ASSUME ~Displaces PROVE mem'[t] = Chan
    BY <1>1 DEF TokenServed
  <1>4. \A k : k \notin Silent => Ended(k, Begun(k))[t] = Chan
    <2> SUFFICES ASSUME NEW k, k \notin Silent PROVE Ended(k, Begun(k))[t] = Chan
      OBVIOUS
    <2>1. SameBut({}, Begun(k), Begun(k))
      BY DEF SameBut
    <2> QED
      BY <1>1, <1>2, <2>1, TokenKept
  <1>5. ASSUME NEW s \in Slots, s # slot, NEW k, k \notin Silent, NEW m \in Memories,
               SameBut(SlotAddrs(s), Begun(k), m)
        PROVE  Ended(k, m)[t] = Chan
    <2>1. t \notin SlotAddrs(s)
      BY <1>3, <1>5
    <2> QED
      BY <1>1, <1>5, <2>1, TokenKept
  <1>6. CASE Refused
    BY <1>4, <1>6 DEF Refused, Silent
  <1>7. ASSUME NEW ok \in BOOLEAN, Read(ok) PROVE mem'[t] = Chan
    <2> DEFINE d == At(slot, region.data)
               n == [Begun("read") EXCEPT ![d] = Chan]
    <2>1. d \in Addrs /\ Chan \in Values /\ t # d
      BY <1>1, AtFacts, SlotsApart, ConstantFacts
    <2>2. n \in Memories /\ SameBut({d}, Begun("read"), n)
      BY <1>2, <2>1, WriteFacts
    <2>3. Ended("read", n)[t] = Chan
      <3>1. "read" \notin Silent /\ t \notin {d}
        BY <2>1 DEF Silent
      <3> HIDE DEF n, d
      <3> QED
        BY <1>1, <2>2, <3>1, TokenKept
    <2>4. Ended("read", Begun("read"))[t] = Chan
      BY <1>4 DEF Silent
    <2> QED
      BY <1>7, <2>3, <2>4 DEF Read
  <1>8. ASSUME NEW s \in Named, NEW f \in FlashSlots \cup {NoImage}, LoadSlot(s, f)
        PROVE  mem'[t] = Chan
    <2>1. mem' = Ended("load", Loaded(Begun("load"), s, f)) /\ "load" \notin Silent
      BY <1>8 DEF LoadSlot, Silent
    <2>2. CASE f \notin FlashSlots \/ s \notin Slots
      BY <1>4, <2>1, <2>2 DEF Loaded, Nameable
    <2>3. CASE f \in FlashSlots /\ s \in Slots
      <3>1. s # slot
        BY <1>1, <1>8, <2>3 DEF Displaces
      <3>2. /\ Loaded(Begun("load"), s, f) \in Memories
            /\ SameBut(SlotAddrs(s), Begun("load"), Loaded(Begun("load"), s, f))
        BY <1>2, <2>3, LoadedFacts
      <3> QED
        BY <1>5, <2>1, <2>3, <3>1, <3>2
    <2> QED
      BY <2>2, <2>3
  <1>9. ASSUME NEW s \in Named, NEW o \in Offsets, NEW v \in Bytes, SlotPoke(s, o, v)
        PROVE  mem'[t] = Chan
    <2>1. "poke" \notin Silent
      BY DEF Silent
    <2>2. CASE s \notin Slots
      BY <1>4, <1>9, <2>1, <2>2 DEF SlotPoke, Nameable
    <2>3. CASE s \in Slots
      <3> DEFINE n == [Begun("poke") EXCEPT ![At(s, o)] = v]
      <3>1. mem' = Ended("poke", n)
        BY <1>9, <2>3 DEF SlotPoke, Nameable
      <3>2. At(s, o) \in Addrs /\ At(s, o) \in SlotAddrs(s) /\ v \in Values
        BY <2>3, AtFacts, ConstantFacts
      <3>3. n \in Memories /\ SameBut({At(s, o)}, Begun("poke"), n)
        BY <1>2, <3>2, WriteFacts
      <3>4. t # At(s, o)
        <4>1. s # slot \/ o # region.tok
          BY <1>1, <1>9 DEF Displaces
        <4> QED
          BY <1>1, <1>3, <2>3, <3>2, <4>1, SlotsApart, ConstantFacts
      <3> HIDE DEF n
      <3> QED
        BY <1>1, <2>1, <3>1, <3>3, <3>4, TokenKept
    <2> QED
      BY <2>2, <2>3
  <1>10. ASSUME NEW s \in Named, NEW v \in Bytes, SlotPokeAll(s, v)
         PROVE  mem'[t] = Chan
    <2>1. "poke_all" \notin Silent /\ v \in Values
      BY ConstantFacts DEF Silent
    <2>2. CASE s \notin Slots
      BY <1>4, <1>10, <2>1, <2>2 DEF SlotPokeAll, Nameable
    <2>3. CASE s \in Slots
      <3>1. mem' = Ended("poke_all", Fill(Begun("poke_all"), s, v))
        BY <1>10, <2>3 DEF SlotPokeAll, Nameable
      <3>2. s # slot
        BY <1>1, <1>10 DEF Displaces
      <3>3. /\ Fill(Begun("poke_all"), s, v) \in Memories
            /\ SameBut(SlotAddrs(s), Begun("poke_all"), Fill(Begun("poke_all"), s, v))
        BY <1>2, <2>1, <2>3, FillFacts
      <3> QED
        BY <1>5, <2>1, <2>3, <3>1, <3>2, <3>3
    <2> QED
      BY <2>2, <2>3
  <1> QED
    BY <1>6, <1>7, <1>8, <1>9, <1>10 DEF ImageCommands

\* A storage command leaves the token alone, but for a byte poked on top of it
\* by a host that switched to the slot it lent.
LEMMA StorageToken ==
  ASSUME IInv, StorageCommand
  PROVE  TokenServed
  <1> DEFINE t == At(slot, region.tok)
  <1>1. active /\ Ready /\ UNCHANGED <<active, slot, region, served>>
    BY DEF StorageCommand, NvPokeBegin, NvPoke, NvPokeDiscard, NvPokeCommit, NvPokeCommitByte,
           NvCommand, mode
  <1>2. /\ TypeOK /\ slot \in Slots /\ served = slot /\ region \in Regions
        /\ txn \in Areas \cup {NoTxn}
    BY <1>1 DEF IInv, TypeOK, AnswerServed
  <1>3. /\ t \in Addrs /\ t \in SlotAddrs(slot)
        /\ \A k \in NvKinds : /\ k \notin Silent /\ Begun(k) \in Memories
                              /\ Begun(k)[t] = Chan
    BY <1>1, <1>2, NvFrame, AtFacts, ConstantFacts DEF NvKinds, Silent
  <1>4. ASSUME NEW k \in NvKinds PROVE Ended(k, Begun(k))[t] = Chan
    BY <1>2, <1>3, TokenEnds
  <1>5. ASSUME NEW k \in NvKinds, NEW s, CanBegin(s)
        PROVE  /\ AreaFor(s) \in Areas /\ CopyIn(Begun(k), AreaFor(s)) \in Memories
               /\ t \notin Span(AreaFor(s))
               /\ CopyIn(Begun(k), AreaFor(s))[t] = Chan
               /\ Ended(k, CopyIn(Begun(k), AreaFor(s)))[t] = Chan
    <2> DEFINE a == AreaFor(s)
               c == CopyIn(Begun(k), a)
    <2>1. a \in Areas /\ \A l \in Locs : a + l \notin SlotAddrs(slot)
      BY <1>2, <1>5, AreaApart
    <2>2. t \notin Span(a)
      BY <1>3, <2>1 DEF Span
    <2>3. c \in Memories /\ SameBut(Span(a), Begun(k), c)
      BY <1>2, <1>3, <2>1, CopyFacts
    <2>4. c[t] = Chan
      BY <1>3, <2>2, <2>3 DEF SameBut
    <2> HIDE DEF a, c
    <2>5. Ended(k, c)[t] = Chan
      BY <1>2, <2>3, <2>4, TokenEnds
    <2> QED
      BY <2>1, <2>2, <2>3, <2>4, <2>5 DEF a, c
  <1> SUFFICES ASSUME ~Displaces PROVE mem'[t] = Chan
    BY <1>1, <1>2 DEF TokenServed
  <1>6. ASSUME NEW s \in Slots \cup {BadSlot}, NvPokeBegin(s) PROVE mem'[t] = Chan
    BY <1>4, <1>5, <1>6 DEF NvPokeBegin, NvKinds
  <1>7. ASSUME NEW l \in Locs \cup {BadLoc}, NEW b \in Bytes, NvPoke(l, b)
        PROVE  mem'[t] = Chan
    <2>1. CASE txn # NoTxn /\ l \in Locs
      <3> DEFINE n == [Begun("nv_poke") EXCEPT ![txn + l] = b]
      <3>1. txn + l \in Addrs /\ b \in Values
        BY <1>2, <2>1, AreaFacts, ConstantFacts
      <3>2. n \in Memories /\ SameBut({txn + l}, Begun("nv_poke"), n)
        BY <1>3, <3>1, WriteFacts DEF NvKinds
      <3>3. t # txn + l
        BY <1>2, <1>7, <2>1 DEF Displaces
      <3>4. mem' = Ended("nv_poke", n)
        BY <1>7, <2>1 DEF NvPoke
      <3>5. "nv_poke" \notin Silent
        BY DEF Silent
      <3> HIDE DEF n
      <3> QED
        BY <1>1, <1>2, <3>2, <3>3, <3>4, <3>5, TokenKept
    <2>2. CASE ~(txn # NoTxn /\ l \in Locs)
      BY <1>4, <1>7, <2>2 DEF NvPoke, NvKinds
    <2> QED
      BY <2>1, <2>2
  <1>8. CASE NvPokeDiscard
    BY <1>4, <1>8 DEF NvPokeDiscard, NvKinds
  <1>9. CASE NvPokeCommit
    BY <1>3, <1>4, <1>9 DEF NvPokeCommit, NvKinds
  <1>10. ASSUME NEW l \in Locs \cup {BadLoc}, NEW b \in Bytes, NEW s,
                NvPokeCommitByte(l, b, s)
         PROVE  mem'[t] = Chan
    <2> DEFINE k == "commit_byte"
               c == CopyIn(Begun(k), AreaFor(s))
               n == [c EXCEPT ![AreaFor(s) + l] = b]
    <2>1. \/ mem' = Ended(k, Begun(k)) \/ mem' = Begun(k)
          \/ CanBegin(s) /\ mem' = Ended(k, c)
          \/ CanBegin(s) /\ l \in Locs /\ mem' = n
      BY <1>10 DEF NvPokeCommitByte
    <2>2. k \in NvKinds
      BY DEF NvKinds
    <2>3. CanBegin(s) => Ended(k, c)[t] = Chan
      BY <1>5, <2>2
    <2>4. CanBegin(s) /\ l \in Locs => n[t] = Chan
      <3> SUFFICES ASSUME CanBegin(s), l \in Locs PROVE n[t] = Chan
        OBVIOUS
      <3>1. c \in Memories /\ c[t] = Chan /\ t \notin Span(AreaFor(s))
        BY <1>5, <2>2
      <3>2. t # AreaFor(s) + l
        BY <3>1 DEF Span
      <3> HIDE DEF c
      <3> QED
        BY <1>3, <3>1, <3>2 DEF Memories
    <2> HIDE DEF n, c
    <2> QED
      BY <1>3, <1>4, <2>1, <2>2, <2>3, <2>4
  <1> QED
    BY <1>6, <1>7, <1>8, <1>9, <1>10 DEF StorageCommand

\* Every step of a session that goes on leaves the token served, or displaces
\* it.
LEMMA TokenStep == IInv /\ Next /\ active' => TokenServed
  <1> SUFFICES ASSUME IInv, Next, active' PROVE TokenServed
    OBVIOUS
  <1>1. TypeOK /\ mem \in Memories /\ (active => slot = served)
    BY DEF IInv, TypeOK, AnswerServed, Memories
  <1>2. ASSUME NEW s \in Named, SwitchSlot(s) PROVE TokenServed
    <2>1. CASE served' # served
      BY <2>1 DEF TokenServed, Displaces
    <2>2. CASE served' = served
      <3>1. active /\ slot' = slot /\ region' = region /\ served = slot
        BY <1>1, <1>2, <2>2 DEF SwitchSlot, CacheAfter
      <3>2. mem' = Ended("switch", Begun("switch")) /\ "switch" \notin Silent
        BY <1>2, <3>1 DEF SwitchSlot, Ended, Silent
      <3>3. Begun("switch") \in Memories /\ Begun("switch")[At(slot, region.tok)] = Chan
        <4>1. slot \in Slots /\ "switch" \notin Silent
          BY <1>1, <3>2 DEF TypeOK
        <4>2. Begun("switch") \in Memories
          BY <1>1, <4>1, FrameFacts
        <4>3. Begun("switch")[At(slot, region.tok)] = Chan
          BY <1>1, <3>1, <4>1, HeaderWritten
        <4> QED
          BY <4>2, <4>3
      <3>4. mem'[At(slot, region.tok)] = Chan
        BY <1>1, <3>2, <3>3, TokenEnds
      <3> QED
        BY <2>2, <3>1, <3>4 DEF TokenServed
    <2> QED
      BY <2>1, <2>2
  <1>3. CASE ImageCommands
    BY <1>3, ImagesToken, ImageFrame
  <1>4. CASE EnterCmdResp
    <2>1. PICK r \in Regions : /\ mem' = CmdEnd(CmdBegin(mem, served, r), served, r)
                               /\ region' = r /\ served' = served
      BY <1>4 DEF EnterCmdResp
    <2>2. mem'[At(served, r.tok)] = Chan
      BY <1>1, <2>1, EnterFacts
    <2> QED
      BY <2>1, <2>2 DEF TokenServed
  <1>5. CASE StorageCommand
    BY <1>5, StorageToken
  <1>6. CASE FlashWrite
    <2>1. ~Ready /\ UNCHANGED <<active, slot, region, served>>
          /\ (mem' = mem \/ mem' = Ended("commit", mem))
      BY <1>6 DEF FlashWrite, WriteFails, Erase, Program, rom, mode
    <2>2. /\ active /\ slot = served /\ mem[At(slot, region.tok)] = Chan
          /\ Ended("commit", mem)[At(slot, region.tok)] = Chan
      BY <2>1, WriteFrame DEF IInv, AnswerServed
    <2> QED
      BY <2>1, <2>2 DEF TokenServed
  <1>7. ExitForm => FALSE
    BY DEF ExitForm
  <1>8. CASE SlotCommand
    BY <1>2, <1>3, <1>8 DEF SlotCommand, ImageCommands
  <1>9. CASE SessionCommand
    BY <1>3, <1>4, <1>7, <1>9, ExitCommands DEF SessionCommand, ImageCommands
  <1>10. ~PowerCycle
    BY DEF PowerCycle
  <1> QED
    BY <1>5, <1>6, <1>8, <1>9, <1>10 DEF Next

\* In a session progress and response are in the slot the host is served,
\* whatever it loaded, poked or switched to, and so is the token, until a
\* command of a few that are named displaces it (s_state.active_slot,
\* cmd_begin, cmd_end).
THEOREM Channel == Spec => ChannelServed
  <1>1. IInv => AnswerServed
    BY DEF IInv
  <1>2. IInv /\ [Next]_vars =>
          [active' /\ mem'[At(served', region'.tok)] # Chan => Displaces]_vars
    BY TokenStep DEF TokenServed
  <1> QED
    BY <1>1, <1>2, Invariance, PTL DEF Spec, ChannelServed

----------------------------------------------------------------------------
(* The plugin implements the NV store it promises (NvStore), for every set *)
(* of slots, images and locations: where it has slots of its own, or none  *)
(* is large enough, whatever the host does, and where it must borrow one,  *)
(* if the host keeps off the slot it lent.                                 *)
(*                                                                         *)
(* What makes it true is that a transaction never stages in the served     *)
(* slot, so that neither the response header nor the data section nor a    *)
(* command about some slot ever lands on staged bytes.                     *)

Careful == NeverLent \/ HostKeepsOff

\* What Store sees of the transaction.
StagedView == IF txn = NoTxn THEN <<>> ELSE Staged
StoreVars == <<nv, StagedView, StoreGoal, defer.erased>>

\* What is staged is in no slot a command writes to: not in the served one,
\* nor in one the host names.
LEMMA Clear ==
  ASSUME Careful, IInv, txn # NoTxn
  PROVE  /\ txn \in Areas /\ slot \in Slots
         /\ \A l \in Locs : txn + l \in Addrs /\ txn + l \notin SlotAddrs(slot)
         /\ \A s \in Named \cap Slots : \A l \in Locs : txn + l \notin SlotAddrs(s)
  <1>1. txn \in Areas /\ slot \in Slots
    BY DEF IInv, TypeOK
  <1>2. txn # At(slot, 0)
    BY <1>1, AreaFacts DEF Careful, IInv, StagingApart
  <1>3. \A s \in Named \cap Slots : txn # At(s, 0)
    BY <1>1, AreaFacts, NamedClear DEF Careful
  <1> QED
    BY <1>1, <1>2, <1>3, AreaFacts

\* Something staged or asked for is not nothing.
LEMMA NotNone ==
  /\ \A f : DOMAIN f = Locs => f # <<>>
  /\ \A f : DOMAIN f = Window => f # <<>>
  <1>1. DOMAIN <<>> = {}
    OBVIOUS
  <1>2. NvSize - 1 \in Locs /\ NvSize - 1 \in Window
    BY NvAssumption DEF Locs, Window
  <1> QED
    BY <1>1, <1>2

\* While no write is asked for there is none.
LEMMA ReadyFacts ==
  ASSUME TypeOK, Ready
  PROVE  defer = Nothing /\ StoreGoal = <<>> /\ defer.erased = FALSE
  <1>1. defer = Nothing
    BY DEF TypeOK, Defers, Ready
  <1> QED
    BY <1>1 DEF Nothing, StoreGoal

\* What a host without a write under way sees of the store.
LEMMA ViewFacts ==
  /\ txn = NoTxn => StagedView = <<>>
  /\ txn # NoTxn => StagedView = Staged /\ StagedView # <<>>
  <1>1. DOMAIN Staged = Locs
    BY DEF Staged
  <1> QED
    BY <1>1, NotNone DEF StagedView

\* A step that touches neither transaction, storage nor write is no step of
\* the store.
LEMMA StoreStutter ==
  ASSUME IInv, UNCHANGED <<nv, txn, defer>>, txn # NoTxn => Staged' = Staged
  PROVE  UNCHANGED StoreVars
  <1>1. StagedView' = StagedView
    BY DEF StagedView
  <1>2. defer.kind = "sector" => txn # NoTxn
    BY DEF IInv, StagingApart
  <1>3. StoreGoal' = StoreGoal
    BY <1>2 DEF StoreGoal
  <1> QED
    BY <1>1, <1>3 DEF StoreVars

\* Memory that differs only where nothing is staged has the same bytes staged.
LEMMA SameStaged ==
  ASSUME NEW A, NEW m, NEW n, NEW base, SameBut(A, m, n),
         \A l \in Locs : base + l \in Addrs /\ base + l \notin A
  PROVE  In(n, base) = In(m, base)
  BY DEF SameBut, In

\* The response header is never among the staged bytes.
LEMMA Keep ==
  ASSUME Careful, IInv, txn # NoTxn, NEW k, NEW m \in Memories
  PROVE  /\ Begun(k) \in Memories /\ In(Begun(k), txn) = Staged
         /\ In(Ended(k, m), txn) = In(m, txn)
  <1>1. /\ TypeOK /\ slot \in Slots
        /\ \A l \in Locs : txn + l \in Addrs /\ txn + l \notin SlotAddrs(slot)
    BY Clear DEF IInv
  <1>2. Begun(k) \in Memories /\ SameBut(SlotAddrs(slot), mem, Begun(k))
        /\ SameBut(SlotAddrs(slot), m, Ended(k, m))
    BY <1>1, FrameFacts DEF Ended
  <1>3. In(Begun(k), txn) = In(mem, txn) /\ In(Ended(k, m), txn) = In(m, txn)
    BY <1>1, <1>2, SameStaged
  <1> QED
    BY <1>2, <1>3 DEF In, Staged

\* The memory a step leaves, and what is then staged.
LEMMA StagedNext ==
  ASSUME UNCHANGED txn, In(mem', txn) = Staged
  PROVE  Staged' = Staged
  BY DEF In, Staged

----------------------------------------------------------------------------
(* Each command is a step of the store, or none.                           *)

\* Commands about images touch nothing that is staged.
LEMMA ImagesStutter ==
  ASSUME Careful, IInv, ImageCommands
  PROVE  UNCHANGED StoreVars
  <1>1. PICK k, n : ImageCommand(k, n) /\ mem' = Ended(k, n)
    BY ImageFrame
  <1>2. UNCHANGED <<nv, txn, defer>> /\ TypeOK
    BY ImageFrame DEF IInv
  <1>3. n \in Memories
    BY <1>1, <1>2, ImageWrites
  <1>4. ASSUME txn # NoTxn PROVE Staged' = Staged
    <2>1. In(mem', txn) = In(n, txn)
      BY <1>1, <1>3, <1>4, Keep
    <2>2. PICK A : /\ SameBut(A, mem, n)
                   /\ \A l \in Locs : txn + l \in Addrs /\ txn + l \notin A
      <3>1. CASE SameBut(SlotAddrs(slot), mem, n)
        BY <1>4, <3>1, Clear
      <3>2. ASSUME NEW s \in Named \cap Slots, SameBut(SlotAddrs(slot) \cup SlotAddrs(s), mem, n)
            PROVE  \E A : /\ SameBut(A, mem, n)
                          /\ \A l \in Locs : txn + l \in Addrs /\ txn + l \notin A
        <4>1. \A l \in Locs : /\ txn + l \in Addrs
                              /\ txn + l \notin SlotAddrs(slot) \cup SlotAddrs(s)
          BY <1>4, Clear
        <4> QED
          BY <3>2, <4>1
      <3> QED
        BY <1>1, <1>2, <3>1, <3>2, ImageWrites
    <2>3. In(n, txn) = In(mem, txn)
      BY <2>2, SameStaged
    <2>4. In(mem', txn) = Staged
      BY <2>1, <2>3 DEF In, Staged
    <2> QED
      BY <1>2, <2>4, StagedNext
  <1> QED
    BY <1>2, <1>4, StoreStutter

\* Nor does moving the session.
LEMMA SwitchStutter ==
  ASSUME Careful, IInv, NEW s \in Named, SwitchSlot(s)
  PROVE  UNCHANGED StoreVars
  <1>1. UNCHANGED <<nv, txn, defer>> /\ TypeOK /\ mem \in Memories
    BY DEF IInv, TypeOK, Memories, SwitchSlot
  <1>2. ASSUME txn # NoTxn PROVE Staged' = Staged
    <2>1. Begun("switch") \in Memories /\ In(Begun("switch"), txn) = Staged
      BY <1>1, <1>2, Keep
    <2>2. /\ slot' \in Slots
          /\ \A l \in Locs : txn + l \in Addrs /\ txn + l \notin SlotAddrs(slot')
      BY <1>1, <1>2, Clear DEF SwitchSlot, CacheAfter, Nameable
    <2>3. mem' = EndedIn(slot', "switch", Begun("switch"))
      BY DEF SwitchSlot
    <2>4. SameBut(SlotAddrs(slot'), Begun("switch"), mem')
      BY <1>1, <2>1, <2>2, <2>3, FrameFacts
    <2>5. In(mem', txn) = Staged
      BY <2>1, <2>2, <2>4, SameStaged
    <2> QED
      BY <1>1, <2>5, StagedNext
  <1> QED
    BY <1>1, <1>2, StoreStutter

\* Whatever ends a transaction without a write discards it.
LEMMA Discards ==
  ASSUME TypeOK, Ready, txn' = NoTxn, UNCHANGED <<nv, defer>>
  PROVE  Store!Discard
  <1>1. StoreGoal = <<>>
    BY ReadyFacts
  <1>2. defer' = Nothing
    BY ReadyFacts
  <1>3. StoreGoal' = <<>> /\ UNCHANGED defer.erased
    BY <1>2, ReadyFacts DEF StoreGoal, Nothing
  <1> QED
    BY <1>1, <1>3 DEF Store!Discard, Store!None

\* Entering a session: there is no transaction, and no step of the store.
LEMMA EnterStutter ==
  ASSUME IInv, EnterCmdResp
  PROVE  UNCHANGED StoreVars
  <1>1. txn = NoTxn /\ UNCHANGED <<nv, txn, defer>>
    BY DEF EnterCmdResp, IInv, TxnInSession
  <1> QED
    BY <1>1, StoreStutter

\* A transaction starts from what storage holds.
LEMMA Begins ==
  ASSUME Careful, IInv, NEW s \in Slots \cup {BadSlot}, NvPokeBegin(s)
  PROVE  Store!Begin \/ UNCHANGED StoreVars
  <1>1. /\ TypeOK /\ active /\ Ready /\ UNCHANGED <<nv, defer>>
        /\ mem \in Memories /\ slot \in Slots /\ nv \in [Locs -> Values]
    BY DEF NvPokeBegin, NvCommand, IInv, TypeOK, Memories
  <1>2. ASSUME CanBegin(s) PROVE Store!Begin
    <2> DEFINE a == AreaFor(s)
               n == CopyIn(Begun("begin"), a)
    <2>1. /\ a \in Areas /\ a # NoTxn /\ txn = NoTxn
          /\ \A l \in Locs : a + l \in Addrs /\ a + l \notin SlotAddrs(slot)
      BY <1>1, <1>2, AreaApart, AreaFacts
    <2>2. n \in Memories /\ In(n, a) = nv
      BY <1>1, <2>1, NvFrame, CopyFacts DEF NvKinds
    <2>3. txn' = a /\ mem' = Ended("begin", n)
      BY <1>2 DEF NvPokeBegin
    <2> HIDE DEF a, n
    <2>4. SameBut(SlotAddrs(slot), n, mem')
      BY <1>1, <2>2, <2>3, FrameFacts DEF Ended
    <2>5. In(mem', a) = nv
      BY <2>1, <2>2, <2>4, SameStaged
    <2>6. Staged' = nv
      BY <2>3, <2>5 DEF Staged, In
    <2>7. StagedView = <<>> /\ StagedView' = nv
      BY <2>1, <2>3, <2>6 DEF StagedView
    <2>8. StoreGoal = <<>> /\ StoreGoal' = StoreGoal
      BY <1>1, ReadyFacts DEF StoreGoal, Nothing
    <2> QED
      BY <1>1, <2>7, <2>8 DEF Store!Begin, Store!None, StagedView
  <1>3. ASSUME ~CanBegin(s) PROVE UNCHANGED StoreVars
    <2>1. txn' = txn /\ mem' = Ended("begin", Begun("begin"))
      BY <1>3 DEF NvPokeBegin
    <2>2. txn # NoTxn => Staged' = Staged
      BY <1>1, <2>1, Keep, StagedNext
    <2> QED
      BY <1>1, <2>1, <2>2, StoreStutter
  <1> QED
    BY <1>2, <1>3

\* A poked byte reaches the transaction.
LEMMA Pokes ==
  ASSUME Careful, IInv, NEW l \in Locs \cup {BadLoc}, NEW b \in Bytes, NvPoke(l, b)
  PROVE  Store!Poke \/ UNCHANGED StoreVars
  <1>1. /\ TypeOK /\ active /\ Ready /\ UNCHANGED <<nv, txn, defer>>
        /\ mem \in Memories /\ b \in Values
    BY ConstantFacts DEF NvPoke, NvCommand, IInv, TypeOK, Memories
  <1>2. ASSUME txn # NoTxn, l \in Locs PROVE Store!Poke
    <2> DEFINE m == Begun("nv_poke")
               n == [m EXCEPT ![txn + l] = b]
    <2>1. txn \in Areas
      BY <1>2, Clear
    <2>2. m \in Memories /\ In(m, txn) = Staged
      BY <1>1, <1>2, Keep
    <2>3. mem' = Ended("nv_poke", n)
      BY <1>2 DEF NvPoke
    <2> HIDE DEF m
    <2>4. n \in Memories /\ In(n, txn) = [In(m, txn) EXCEPT ![l] = b]
      BY <1>1, <1>2, <2>1, <2>2, StagedByte
    <2> HIDE DEF n
    <2>5. In(mem', txn) = In(n, txn)
      BY <1>2, <2>3, <2>4, Keep
    <2>6. Staged' = [Staged EXCEPT ![l] = b]
      <3>1. Staged' = In(mem', txn)
        BY <1>1 DEF Staged, In
      <3> QED
        BY <2>2, <2>4, <2>5, <3>1
    <2>7. StagedView = Staged /\ StagedView # <<>> /\ StagedView' = Staged'
      BY <1>1, <1>2, ViewFacts DEF StagedView
    <2>8. StoreGoal = <<>> /\ StoreGoal' = StoreGoal
      BY <1>1, ReadyFacts DEF StoreGoal, Nothing
    <2>9. \E k \in Locs, c \in Values : StagedView' = [StagedView EXCEPT ![k] = c]
      BY <1>1, <1>2, <2>6, <2>7
    <2> QED
      BY <1>1, <2>7, <2>8, <2>9 DEF Store!Poke, Store!None, StagedView
  <1>3. ASSUME txn = NoTxn \/ l \notin Locs PROVE UNCHANGED StoreVars
    <2>1. mem' = Ended("nv_poke", Begun("nv_poke"))
      BY <1>3 DEF NvPoke
    <2>2. txn # NoTxn => Staged' = Staged
      BY <1>1, <2>1, Keep, StagedNext
    <2> QED
      BY <1>1, <2>2, StoreStutter
  <1> QED
    BY <1>2, <1>3

\* A commit asks for the write of what is staged.
LEMMA Commits ==
  ASSUME Careful, IInv, NvPokeCommit
  PROVE  Store!Commit \/ UNCHANGED StoreVars
  <1>1. /\ TypeOK /\ active /\ Ready /\ UNCHANGED <<nv, txn>>
        /\ mem \in Memories
    BY DEF NvPokeCommit, NvCommand, IInv, TypeOK, Memories
  <1>2. ASSUME txn # NoTxn PROVE Store!Commit
    <2>1. mem' = Begun("commit") /\ defer' = [kind |-> "sector", erased |-> FALSE]
      BY <1>2 DEF NvPokeCommit
    <2>2. Staged' = Staged
      BY <1>1, <1>2, <2>1, Keep, StagedNext
    <2>3. StagedView = Staged /\ StagedView # <<>> /\ StagedView' = StagedView
      BY <1>1, <1>2, <2>2, ViewFacts DEF StagedView
    <2>4. StoreGoal = <<>> /\ StoreGoal' = Staged /\ UNCHANGED defer.erased
      BY <1>1, <2>1, <2>2, ReadyFacts DEF StoreGoal
    <2> QED
      BY <1>1, <2>3, <2>4 DEF Store!Commit, Store!None, StagedView
  <1>3. ASSUME txn = NoTxn PROVE UNCHANGED StoreVars
    BY <1>1, <1>3, StoreStutter DEF NvPokeCommit
  <1> QED
    BY <1>2, <1>3

\* A byte committed without a slot keeps the rest of the window, one committed
\* with a slot the rest of storage.
LEMMA CommitsByte ==
  ASSUME Careful, IInv, NEW l \in Locs \cup {BadLoc}, NEW b \in Bytes,
         NEW s \in Slots \cup {BadSlot, Reserved, NoSlot}, NvPokeCommitByte(l, b, s)
  PROVE  Store!CommitByte \/ Store!WindowByte \/ UNCHANGED StoreVars
  <1> DEFINE m == Begun("commit_byte")
  <1>1. /\ TypeOK /\ active /\ Ready /\ UNCHANGED nv
        /\ mem \in Memories /\ slot \in Slots /\ nv \in [Locs -> Values] /\ b \in Values
    BY ConstantFacts DEF NvPokeCommitByte, NvCommand, IInv, TypeOK, Memories
  <1>2. StoreGoal = <<>> /\ defer.erased = FALSE
    BY <1>1, ReadyFacts
  <1>3. m \in Memories
    BY <1>1, NvFrame DEF NvKinds
  <1>4. ASSUME mem' = Ended("commit_byte", m), UNCHANGED <<txn, defer>>
        PROVE  UNCHANGED StoreVars
    <2>1. txn # NoTxn => Staged' = Staged
      BY <1>3, <1>4, Keep, StagedNext
    <2> QED
      BY <1>1, <1>4, <2>1, StoreStutter
  <1>5. ASSUME CanBegin(s), UNCHANGED <<txn, defer>>
        PROVE  UNCHANGED StoreVars
    <2>1. txn = NoTxn
      BY <1>5 DEF CanBegin
    <2> QED
      BY <1>1, <1>5, <2>1, StoreStutter
  <1>6. ASSUME ~Rejected(l, s), s = NoSlot, UNCHANGED txn,
               defer' = [kind |-> "window", erased |-> FALSE,
                         buf |-> [w \in Window |-> IF w = l THEN b ELSE nv[w]]]
        PROVE  Store!WindowByte
    <2>1. l \in Window /\ txn = NoTxn
      BY <1>6 DEF Rejected
    <2>2. StagedView = <<>> /\ StagedView' = <<>>
      BY <1>6, <2>1 DEF StagedView
    <2>3. /\ StoreGoal' = [w \in Window |-> IF w = l THEN b ELSE nv[w]]
          /\ defer.erased' = FALSE
      BY <1>6 DEF StoreGoal
    <2>4. \E k \in Window, c \in Values :
            StoreGoal' = [w \in Window |-> IF w = k THEN c ELSE nv[w]]
      BY <1>1, <2>1, <2>3
    <2> QED
      BY <1>1, <1>2, <2>2, <2>3, <2>4 DEF Store!WindowByte, Store!None, StagedView
  <1>7. ASSUME CanBegin(s), l \in Locs, txn' = AreaFor(s),
               mem' = [CopyIn(m, AreaFor(s)) EXCEPT ![AreaFor(s) + l] = b],
               defer' = [kind |-> "sector", erased |-> FALSE]
        PROVE  Store!CommitByte
    <2> DEFINE a == AreaFor(s)
               c == CopyIn(m, a)
    <2>1. a \in Areas /\ a # NoTxn /\ txn = NoTxn
      BY <1>1, <1>7, AreaApart
    <2>2. c \in Memories /\ In(c, a) = nv
      BY <1>1, <1>3, <2>1, CopyFacts
    <2> HIDE DEF a, c, m
    <2>3. txn' = a /\ mem' = [c EXCEPT ![a + l] = b]
      BY <1>7 DEF a, c
    <2>4. In([c EXCEPT ![a + l] = b], a) = [In(c, a) EXCEPT ![l] = b]
      <3>1. a \in Areas /\ c \in Memories /\ l \in Locs /\ b \in Values
        BY <1>1, <1>7, <2>1, <2>2
      <3> QED
        BY <3>1, StagedByte
    <2>5. Staged' = [nv EXCEPT ![l] = b]
      <3>1. Staged' = In([c EXCEPT ![a + l] = b], a)
        BY <2>3 DEF Staged, In
      <3> QED
        BY <2>2, <2>4, <3>1
    <2>6. StagedView = <<>> /\ StagedView' = Staged'
      BY <2>1, <2>3 DEF StagedView
    <2>7. StoreGoal' = Staged' /\ defer.erased' = FALSE
      BY <1>7 DEF StoreGoal
    <2>8. \E k \in Locs, d \in Values : StagedView' = [nv EXCEPT ![k] = d]
      BY <1>1, <1>7, <2>5, <2>6
    <2> QED
      BY <1>1, <1>2, <2>6, <2>7, <2>8 DEF Store!CommitByte, Store!None, StagedView
  <1> QED
    <2>1. CASE mem' = Ended("commit_byte", m) /\ UNCHANGED <<txn, defer>>
      BY <1>4, <2>1
    <2>2. CASE CanBegin(s) /\ UNCHANGED <<txn, defer>>
      BY <1>5, <2>2
    <2>3. CASE /\ ~(mem' = Ended("commit_byte", m) /\ UNCHANGED <<txn, defer>>)
               /\ ~(CanBegin(s) /\ UNCHANGED <<txn, defer>>)
      <3> HIDE DEF m
      <3>1. \/ /\ ~Rejected(l, s) /\ s = NoSlot /\ UNCHANGED txn
               /\ defer' = [kind |-> "window", erased |-> FALSE,
                            buf |-> [w \in Window |-> IF w = l THEN b ELSE nv[w]]]
            \/ /\ CanBegin(s) /\ l \in Locs /\ txn' = AreaFor(s)
               /\ mem' = [CopyIn(m, AreaFor(s)) EXCEPT ![AreaFor(s) + l] = b]
               /\ defer' = [kind |-> "sector", erased |-> FALSE]
        BY <2>3 DEF NvPokeCommitByte, m
      <3> QED
        BY <3>1, <1>6, <1>7
    <2> QED
      BY <2>1, <2>2, <2>3

----------------------------------------------------------------------------
(* The flash write.                                                        *)

\* A write under way is one the store knows of.
LEMMA GoalFacts ==
  ASSUME IInv, ~Ready
  PROVE  StoreGoal # <<>> /\ DOMAIN StoreGoal \subseteq Locs
  <1>1. DOMAIN StoreGoal = Locs \/ DOMAIN StoreGoal = Window
    BY WriteUnderWay DEF Staged
  <1> QED
    BY <1>1, NotNone, ConstantFacts

\* The answer of a write that fails does not land on what is staged.
LEMMA FailsApart ==
  ASSUME Careful, IInv, WriteFails, txn # NoTxn
  PROVE  Staged' = Staged
  <1>1. mem' = Ended("commit", mem) /\ UNCHANGED txn /\ mem \in Memories
    BY DEF WriteFails, AfterFailure, IInv, TypeOK, Memories
  <1>2. In(mem', txn) = In(mem, txn)
    BY <1>1, Keep
  <1> QED
    BY <1>1, <1>2, StagedNext DEF In, Staged

\* A write that fails leaves storage and transaction alone.
LEMMA Fails ==
  ASSUME Careful, IInv, WriteFails
  PROVE  Store!Fail
  <1>1. ~Ready /\ ~defer.erased /\ UNCHANGED <<nv, txn>> /\ defer' = Nothing
    BY DEF WriteFails, AfterFailure
  <1>2. StagedView' = StagedView
    BY <1>1, FailsApart DEF StagedView
  <1>3. StoreGoal # <<>> /\ StoreGoal' = <<>>
    BY <1>1, GoalFacts DEF StoreGoal, Nothing
  <1>4. defer.erased = FALSE /\ defer.erased' = FALSE
    <2>1. defer.erased \in BOOLEAN
      BY <1>1, WriteUnderWay
    <2> QED
      BY <1>1, <2>1 DEF Nothing
  <1> QED
    BY <1>1, <1>2, <1>3, <1>4 DEF Store!Fail, Store!None, StagedView

\* Erasing begins to change storage, towards the same end.
LEMMA Changes ==
  ASSUME IInv, Erase
  PROVE  Store!Change
  <1>1. /\ ~Ready /\ UNCHANGED <<mem, txn>>
        /\ nv' = [l \in Locs |-> Erased] /\ defer' = [defer EXCEPT !.erased = TRUE]
    BY DEF Erase, rom
  <1>2. StoreGoal # <<>> /\ StoreGoal' = StoreGoal /\ defer.erased' = TRUE
    <2>1. StoreGoal # <<>>
      BY <1>1, GoalFacts
    <2>2. CASE defer.kind = "sector"
      <3>1. defer \in [kind : {"sector"}, erased : BOOLEAN]
        BY <1>1, <2>2, WriteUnderWay
      <3>2. defer'.kind = "sector" /\ defer'.erased = TRUE
        BY <1>1, <3>1
      <3> QED
        BY <1>1, <2>1, <2>2, <3>2 DEF StoreGoal, Staged
    <2>3. CASE defer.kind = "window"
      <3>1. defer \in [kind : {"window"}, erased : BOOLEAN, buf : [Window -> Values]]
        BY <1>1, <2>3, WriteUnderWay
      <3>2. defer'.kind = "window" /\ defer'.erased = TRUE /\ defer'.buf = defer.buf
        BY <1>1, <3>1
      <3> QED
        BY <1>1, <2>1, <2>3, <3>2 DEF StoreGoal
    <2> QED
      BY <1>1, <2>2, <2>3, WriteUnderWay
  <1>3. StagedView' = StagedView
    BY <1>1 DEF StagedView, Staged
  <1>4. nv' \in [Locs -> Values]
    BY <1>1, ConstantFacts
  <1> QED
    BY <1>2, <1>3, <1>4 DEF Store!Change, Store!None, StagedView

\* Programming finishes the write.
LEMMA Finishes ==
  ASSUME IInv, NEW junk \in Bytes \cup {Junk}, Program(junk)
  PROVE  Store!Finish
  <1>1. ~Ready /\ defer.erased /\ defer' = Nothing /\ txn' = NoTxn
    BY DEF Program
  <1>2. nv' \in [Locs -> Values]
    <2>1. IInv'
      BY <1>1, ProgramStep
    <2> QED
      BY <2>1 DEF IInv, TypeOK
  <1>3. \A l \in DOMAIN StoreGoal : nv'[l] = StoreGoal[l]
    <2>1. TAKE l \in DOMAIN StoreGoal
    <2>2. l \in Locs
      BY <1>1, GoalFacts
    <2>3. nv'[l] = Programmed(l, junk)
      BY <2>2 DEF Program
    <2>4. CASE defer.kind = "sector"
      <3>1. StoreGoal = Staged
        BY <1>1, <2>4, WriteUnderWay
      <3> QED
        BY <2>3, <2>4, <3>1 DEF Programmed
    <2>5. CASE defer.kind = "window"
      <3>1. StoreGoal = defer.buf /\ DOMAIN defer.buf = Window
        BY <1>1, <2>5, WriteUnderWay
      <3>2. l \in Window
        BY <3>1
      <3>3. Programmed(l, junk) = defer.buf[l]
        BY <2>5, <3>2 DEF Programmed
      <3> QED
        BY <2>3, <3>1, <3>3
    <2> QED
      BY <1>1, <2>4, <2>5, WriteUnderWay
  <1>4. StoreGoal # <<>> /\ StoreGoal' = <<>> /\ StagedView' = <<>> /\ defer.erased' = FALSE
    BY <1>1, GoalFacts DEF StoreGoal, Nothing, StagedView
  <1>5. defer.erased = TRUE
    BY <1>1, WriteUnderWay
  <1> QED
    BY <1>2, <1>3, <1>4, <1>5 DEF Store!Finish, Store!None, StagedView

----------------------------------------------------------------------------
(* The theorem.                                                            *)

\* Every step of the plugin is a step of the store, or none.
LEMMA StoreStep ==
  ASSUME Careful, IInv, [Next]_vars
  PROVE  [Store!Next]_(Store!vars)
  <1>1. UNCHANGED StoreVars => UNCHANGED Store!vars
    BY DEF StoreVars, Store!vars, StagedView
  <1>2. IInv /\ TypeOK
    BY DEF IInv
  <1>3. CASE SlotCommand
    BY <1>1, <1>3, ImagesStutter, SwitchStutter DEF SlotCommand, ImageCommands
  <1>4. CASE SessionCommand
    <2>1. ExitForm => Store!Discard
      BY <1>2, Discards DEF ExitForm
    <2> QED
      BY <1>1, <1>2, <1>4, <2>1, EnterStutter, ImagesStutter, ExitCommands
         DEF SessionCommand, ImageCommands, Store!Next
  <1>5. CASE StorageCommand
    <2>1. NvPokeDiscard => Store!Discard
      BY <1>2, Discards DEF NvPokeDiscard, NvCommand
    <2> QED
      BY <1>1, <1>5, <2>1, Begins, Pokes, Commits, CommitsByte
         DEF StorageCommand, Store!Next
  <1>6. CASE FlashWrite
    BY <1>6, Fails, Changes, Finishes DEF FlashWrite, Store!Next
  <1>7. CASE PowerCycle
    <2>1. StagedView' = <<>> /\ StoreGoal' = <<>> /\ defer.erased' = FALSE /\ nv' = nv
      BY <1>7 DEF PowerCycle, StagedView, StoreGoal, Nothing
    <2> QED
      BY <2>1 DEF Store!Next, Store!PowerLoss, Store!None, StagedView
  <1>8. CASE UNCHANGED vars
    <2>1. UNCHANGED <<nv, txn, defer>> /\ Staged' = Staged
      BY <1>8 DEF vars, Staged
    <2>2. UNCHANGED StoreVars
      BY <1>2, <2>1, StoreStutter
    <2> QED
      BY <1>1, <2>2
  <1> QED
    BY <1>3, <1>4, <1>5, <1>6, <1>7, <1>8 DEF Next

\* The plugin implements the store a host of it relies on: storage changes
\* only by a commit or a committed byte, and to what was staged for it
\* (exec_nv_poke_begin to nv_deferred_run).
THEOREM Refinement == ASSUME Careful PROVE Spec => StoreSpec
  <1>1. Init => Store!Init
    <2>1. Init => nv \in [Locs -> Values]
      BY ConstantFacts DEF Init
    <2> QED
      BY <2>1 DEF Init, Store!Init, Store!None, StoreGoal, Nothing
  <1>2. IInv /\ [Next]_vars => [Store!Next]_(Store!vars)
    BY StoreStep
  <1> QED
    BY <1>1, <1>2, Invariance, PTL DEF Spec, StoreSpec, Store!Spec

----------------------------------------------------------------------------
(* What a step may never do.                                               *)

\* A memory that has the bytes of the host's slots, but for the one served.
OnlyOwn(m) == \A s \in Slots \ {slot} : Image(m, s) = Image(mem, s)

\* Writing where no such slot has bytes leaves them.
LEMMA OwnWrite ==
  ASSUME NEW A, NEW m, NEW n, OnlyOwn(m), SameBut(A, m, n),
         \A s \in Slots \ {slot} : SlotAddrs(s) \cap A = {}
  PROVE  OnlyOwn(n)
  <1>1. \A s \in Slots \ {slot} : \A o \in Offsets : n[At(s, o)] = m[At(s, o)]
    BY AtFacts DEF SameBut
  <1> QED
    BY <1>1 DEF OnlyOwn, Image

\* What a command writes of the channel is in the session's slot.
LEMMA OwnFrame ==
  ASSUME TypeOK, NEW k, NEW m \in Memories, OnlyOwn(m)
  PROVE  OnlyOwn(Begun(k)) /\ OnlyOwn(Ended(k, m))
  <1>1. slot \in Slots /\ mem \in Memories /\ OnlyOwn(mem)
    BY DEF TypeOK, Memories, OnlyOwn
  <1>2. \A s \in Slots \ {slot} : SlotAddrs(s) \cap SlotAddrs(slot) = {}
    BY <1>1, SlotsApart
  <1>3. /\ SameBut(SlotAddrs(slot), mem, Begun(k))
        /\ SameBut(SlotAddrs(slot), m, Ended(k, m))
    BY <1>1, FrameFacts DEF Ended
  <1> QED
    BY <1>1, <1>2, <1>3, OwnWrite

\* Where no slot is lent, what an area holds is none of the host's.
LEMMA OwnSpan ==
  ASSUME NeverLent, NEW base \in Areas
  PROVE  \A s \in Slots : SlotAddrs(s) \cap Span(base) = {}
  BY AreaFacts DEF Span

\* Opening a transaction there leaves the host's slots alone.
LEMMA OwnCopy ==
  ASSUME TypeOK, NeverLent, NEW s, CanBegin(s), NEW m \in Memories, OnlyOwn(m)
  PROVE  /\ AreaFor(s) \in Areas /\ CopyIn(m, AreaFor(s)) \in Memories
         /\ OnlyOwn(CopyIn(m, AreaFor(s)))
  <1>1. AreaFor(s) \in Areas
    BY AreaApart
  <1>2. /\ CopyIn(m, AreaFor(s)) \in Memories
        /\ SameBut(Span(AreaFor(s)), m, CopyIn(m, AreaFor(s)))
    BY <1>1, CopyFacts
  <1>3. \A t \in Slots : SlotAddrs(t) \cap Span(AreaFor(s)) = {}
    BY <1>1, OwnSpan
  <1> QED
    BY <1>1, <1>2, <1>3, OwnWrite

\* Nor does one byte written there touch them.
LEMMA OwnByte ==
  ASSUME NeverLent, NEW base \in Areas, NEW l \in Locs, NEW b \in Values,
         NEW m \in Memories, OnlyOwn(m)
  PROVE  [m EXCEPT ![base + l] = b] \in Memories /\ OnlyOwn([m EXCEPT ![base + l] = b])
  <1> DEFINE n == [m EXCEPT ![base + l] = b]
  <1>1. n \in Memories /\ SameBut(Span(base), m, n)
    BY StagedByte
  <1>2. \A t \in Slots : SlotAddrs(t) \cap Span(base) = {}
    BY OwnSpan
  <1> HIDE DEF n
  <1>3. n \in Memories /\ OnlyOwn(n)
    BY <1>1, <1>2, OwnWrite
  <1> QED
    BY <1>3 DEF n

\* Each storage command and each step of the flash write.
LEMMA OwnStep ==
  ASSUME IInv, NeverLent, active, StorageCommand \/ FlashWrite
  PROVE  OnlyOwn(mem')
  <1>1. TypeOK /\ mem \in Memories /\ OnlyOwn(mem) /\ txn \in Areas \cup {NoTxn}
    BY DEF IInv, TypeOK, Memories, OnlyOwn
  <1>2. \A k \in NvKinds :
          Begun(k) \in Memories /\ OnlyOwn(Begun(k)) /\ OnlyOwn(Ended(k, Begun(k)))
    BY <1>1, NvFrame, OwnFrame
  <1>3. ASSUME NEW s \in Slots \cup {BadSlot}, NvPokeBegin(s) PROVE OnlyOwn(mem')
    <2>1. CASE CanBegin(s)
      <3>1. mem' = Ended("begin", CopyIn(Begun("begin"), AreaFor(s)))
        BY <1>3, <2>1 DEF NvPokeBegin
      <3>2. /\ CopyIn(Begun("begin"), AreaFor(s)) \in Memories
            /\ OnlyOwn(CopyIn(Begun("begin"), AreaFor(s)))
        BY <1>1, <1>2, <2>1, OwnCopy DEF NvKinds
      <3> QED
        BY <1>1, <3>1, <3>2, OwnFrame
    <2>2. CASE ~CanBegin(s)
      BY <1>2, <1>3, <2>2 DEF NvPokeBegin, NvKinds
    <2> QED
      BY <2>1, <2>2
  <1>4. ASSUME NEW l \in Locs \cup {BadLoc}, NEW b \in Bytes, NvPoke(l, b)
        PROVE  OnlyOwn(mem')
    <2>1. CASE txn # NoTxn /\ l \in Locs
      <3> DEFINE m == Begun("nv_poke")
                 n == [m EXCEPT ![txn + l] = b]
      <3>1. txn \in Areas /\ b \in Values /\ m \in Memories /\ OnlyOwn(m)
        BY <1>1, <1>2, <2>1, ConstantFacts DEF NvKinds
      <3>2. mem' = Ended("nv_poke", n)
        BY <1>4, <2>1 DEF NvPoke
      <3> HIDE DEF m
      <3>3. n \in Memories /\ OnlyOwn(n)
        BY <2>1, <3>1, OwnByte
      <3> HIDE DEF n
      <3> QED
        BY <1>1, <3>2, <3>3, OwnFrame
    <2>2. CASE ~(txn # NoTxn /\ l \in Locs)
      BY <1>2, <1>4, <2>2 DEF NvPoke, NvKinds
    <2> QED
      BY <2>1, <2>2
  <1>5. CASE NvPokeDiscard
    BY <1>2, <1>5 DEF NvPokeDiscard, NvKinds
  <1>6. CASE NvPokeCommit
    BY <1>2, <1>6 DEF NvPokeCommit, NvKinds
  <1>7. ASSUME NEW l \in Locs \cup {BadLoc}, NEW b \in Bytes, NEW s,
               NvPokeCommitByte(l, b, s)
        PROVE  OnlyOwn(mem')
    <2> DEFINE k == "commit_byte"
               c == CopyIn(Begun(k), AreaFor(s))
               n == [c EXCEPT ![AreaFor(s) + l] = b]
    <2>1. \/ mem' = Ended(k, Begun(k)) \/ mem' = Begun(k)
          \/ CanBegin(s) /\ mem' = Ended(k, c)
          \/ CanBegin(s) /\ l \in Locs /\ mem' = n
      BY <1>7 DEF NvPokeCommitByte
    <2>2. k \in NvKinds /\ b \in Values
      BY ConstantFacts DEF NvKinds
    <2>3. CanBegin(s) => AreaFor(s) \in Areas /\ c \in Memories /\ OnlyOwn(c)
      BY <1>1, <1>2, <2>2, OwnCopy
    <2> HIDE DEF c
    <2>4. CanBegin(s) => OnlyOwn(Ended(k, c))
      BY <1>1, <2>3, OwnFrame
    <2>5. CanBegin(s) /\ l \in Locs => OnlyOwn(n)
      BY <2>2, <2>3, OwnByte
    <2> HIDE DEF n
    <2> QED
      BY <1>2, <2>1, <2>2, <2>4, <2>5
  <1>8. CASE FlashWrite
    <2>1. OnlyOwn(Ended("commit", mem))
      BY <1>1, OwnFrame
    <2> QED
      BY <1>1, <1>8, <2>1 DEF FlashWrite, WriteFails, Erase, Program, rom
  <1> QED
    BY <1>3, <1>4, <1>5, <1>6, <1>7, <1>8 DEF StorageCommand

\* Where the plugin has slots of its own, or no slot is large enough to lend,
\* no NV command and no flash write changes a slot the host may name, but for
\* the answer in the served one (nv_private_staging).
THEOREM HostSlots == ASSUME NeverLent PROVE Spec => HostSlotsUntouched
  <1>1. IInv /\ [Next]_vars =>
          [StorageCommand \/ FlashWrite =>
             \A s \in Slots \ {served} : Image(mem', s) = Image(mem, s)]_vars
    <2> SUFFICES ASSUME IInv, StorageCommand \/ FlashWrite
                 PROVE  \A s \in Slots \ {served} : Image(mem', s) = Image(mem, s)
      OBVIOUS
    <2>1. active
      <3>1. StorageCommand => active
        BY DEF StorageCommand, NvPokeBegin, NvPoke, NvPokeDiscard, NvPokeCommit,
               NvPokeCommitByte, NvCommand
      <3>2. FlashWrite => active
        BY DEF FlashWrite, WriteFails, Erase, Program, IInv, TxnInSession
      <3> QED
        BY <3>1, <3>2
    <2>2. slot = served
      BY <2>1 DEF IInv, AnswerServed
    <2> QED
      BY <2>1, <2>2, OwnStep DEF OnlyOwn
  <1> QED
    BY <1>1, Invariance, PTL DEF Spec, HostSlotsUntouched

\* A commit that fails leaves the transaction open with the bytes it had, and
\* storage as it was: always where the plugin stages in its own slots, and in
\* a slot it was lent if the host keeps off it (nv_deferred_run).
THEOREM FailureKeeps == ASSUME Careful PROVE Spec => FailureKeepsStaged
  <1>1. IInv /\ [Next]_vars =>
          [defer.kind = "sector" /\ ~defer.erased /\ Ready' /\ active' =>
             txn' = txn /\ Staged' = Staged /\ nv' = nv]_vars
    <2> SUFFICES ASSUME IInv, Next, defer.kind = "sector", ~defer.erased, Ready', active'
                 PROVE  txn' = txn /\ Staged' = Staged /\ nv' = nv
      OBVIOUS
    <2>1. ~Ready
      BY DEF Ready
    <2>2. WriteFails
      <3>1. ~SlotCommand
        BY <2>1 DEF SlotCommand, SwitchSlot, LoadSlot, SlotPoke, SlotPokeAll
      <3>2. ~SessionCommand
        BY <2>1 DEF SessionCommand, EnterCmdResp, Refused, Reset, Exit, SwitchAndExit,
                    LoadAndExit, Restore, Read
      <3>3. ~StorageCommand
        BY <2>1 DEF StorageCommand, NvPokeBegin, NvPoke, NvPokeDiscard, NvPokeCommit,
                    NvPokeCommitByte, NvCommand
      <3>4. ~PowerCycle
        BY DEF PowerCycle
      <3>5. ~\E junk \in Bytes \cup {Junk} : Program(junk)
        BY DEF Program
      <3>6. ~Erase
        <4> SUFFICES ASSUME Erase PROVE FALSE
          OBVIOUS
        <4>1. defer' = [defer EXCEPT !.erased = TRUE] /\ defer \in Defers
          BY DEF Erase, IInv, TypeOK
        <4>2. defer'.kind = defer.kind
          BY <4>1 DEF Defers, Nothing
        <4> QED
          BY <4>2 DEF Ready
      <3> QED
        BY <3>1, <3>2, <3>3, <3>4, <3>5, <3>6 DEF Next, FlashWrite
    <2>3. txn' = txn /\ nv' = nv
      BY <2>2 DEF WriteFails, AfterFailure
    <2>4. txn # NoTxn
      BY DEF IInv, StagingApart
    <2> QED
      BY <2>2, <2>3, <2>4, FailsApart
  <1> QED
    BY <1>1, Invariance, PTL DEF Spec, FailureKeepsStaged

\* What EXIT_CMD_RESP_RESTORE leaves of the served image.
LEMMA RestoreImage ==
  ASSUME IInv, NEW v \in Values, NEW w \in Values, NEW n \in 1 .. 2, Restore(v, w, n)
  PROVE  /\ n = 1 => Image(mem', served') = [Image(mem, served) EXCEPT ![region.tok] = v]
         /\ n = 2 => Image(mem', served') =
                      [Image(mem, served) EXCEPT ![region.tok] = v, ![region.ans] = w]
  <1>1. /\ served' = served /\ slot = served /\ served \in Slots /\ mem \in Memories
        /\ region \in Regions
    BY DEF Restore, IInv, TypeOK, AnswerServed, Memories
  <1>2. mem' = Restored(mem, v, w, n)
    BY DEF Restore, Ended, EndedIn, Begun, Silent
  <1> DEFINE t == At(served, region.tok)
             a == At(served, region.ans)
  <1>3. t \in Addrs /\ a \in Addrs /\ t # a
    BY <1>1, HeaderFacts
  <1>4. region.tok \in Offsets /\ region.ans \in Offsets /\ region.tok # region.ans
    BY <1>1, ConstantFacts
  <1>5. \A o \in Offsets : /\ At(served, o) \in Addrs
                           /\ At(served, o) = t => o = region.tok
                           /\ At(served, o) = a => o = region.ans
    BY <1>1, <1>4, AtFacts, SlotsApart
  <1>6. mem' = [mem EXCEPT ![t] = IF n > 0 THEN v ELSE @, ![a] = IF n > 1 THEN w ELSE @]
    BY <1>1, <1>2 DEF Restored
  <1>7. n > 0
    OBVIOUS
  <1>8. \A o \in Offsets : mem'[At(served, o)] =
          CASE o = region.tok -> v
            [] o = region.ans -> (IF n > 1 THEN w ELSE mem[a])
            [] OTHER          -> mem[At(served, o)]
    <2> SUFFICES ASSUME NEW o \in Offsets
                 PROVE  mem'[At(served, o)] =
                          CASE o = region.tok -> v
                            [] o = region.ans -> (IF n > 1 THEN w ELSE mem[a])
                            [] OTHER          -> mem[At(served, o)]
      OBVIOUS
    <2> DEFINE p == At(served, o)
    <2>1. p \in Addrs /\ (p = t <=> o = region.tok) /\ (p = a <=> o = region.ans)
      BY <1>5
    <2> HIDE DEF t, a, p
    <2>2. mem'[p] = CASE p = t -> v
                      [] p = a -> (IF n > 1 THEN w ELSE mem[a])
                      [] OTHER -> mem[p]
      BY <1>1, <1>3, <1>6, <1>7, <2>1 DEF Memories
    <2> QED
      BY <1>3, <2>1, <2>2 DEF p
  <1> HIDE DEF t, a
  <1>9. ASSUME n = 1
        PROVE  Image(mem', served') = [Image(mem, served) EXCEPT ![region.tok] = v]
    <2>1. \A o \in Offsets : mem'[At(served, o)] = IF o = region.tok THEN v ELSE mem[At(served, o)]
      BY <1>4, <1>8, <1>9 DEF a
    <2> QED
      BY <1>1, <1>4, <2>1 DEF Image
  <1>10. ASSUME n = 2
         PROVE  Image(mem', served') =
                  [Image(mem, served) EXCEPT ![region.tok] = v, ![region.ans] = w]
    <2>1. \A o \in Offsets : mem'[At(served, o)] =
            IF o = region.ans THEN w ELSE IF o = region.tok THEN v ELSE mem[At(served, o)]
      BY <1>4, <1>8, <1>10
    <2> QED
      BY <1>1, <1>4, <2>1 DEF Image
  <1> QED
    BY <1>9, <1>10

\* The two exits that put the image back leave it as the host means it to be,
\* and no byte of the back-channel in it (cmd_is_silent, exec_load_and_exit,
\* exec_exit_cmd_resp_restore).
THEOREM Restores == Spec => ImageRestored
  <1>1. ASSUME IInv, NEW f \in FlashSlots, LoadAndExit(served, f)
        PROVE  Image(mem', served') = Plain(f)
    <2>1. served' = served /\ served \in Slots /\ mem \in Memories /\ f \in Values
      BY <1>1, ConstantFacts DEF LoadAndExit, IInv, TypeOK, Memories
    <2>2. mem' = Fill(mem, served, f)
      BY <1>1, <2>1 DEF LoadAndExit, Ended, EndedIn, Begun, Silent, Loaded, Nameable
    <2> QED
      BY <2>1, <2>2, FillFacts
  <1>2. ASSUME IInv, NEW v \in Bytes \cup FlashSlots, NEW w \in Bytes \cup FlashSlots
        PROVE  /\ Restore(v, w, 1) => Image(mem', served') =
                    [Image(mem, served) EXCEPT ![region.tok] = v]
               /\ Restore(v, w, 2) => Image(mem', served') =
                    [Image(mem, served) EXCEPT ![region.tok] = v, ![region.ans] = w]
    BY <1>2, ConstantFacts, RestoreImage
  <1>3. IInv =>
          [/\ \A f \in FlashSlots : LoadAndExit(served, f) => Image(mem', served') = Plain(f)
           /\ \A v, w \in Bytes \cup FlashSlots :
                /\ Restore(v, w, 1) => Image(mem', served') =
                     [Image(mem, served) EXCEPT ![region.tok] = v]
                /\ Restore(v, w, 2) => Image(mem', served') =
                     [Image(mem, served) EXCEPT ![region.tok] = v, ![region.ans] = w]]_vars
    BY <1>1, <1>2
  <1> QED
    BY <1>3, Invariance, PTL DEF Spec, ImageRestored
=============================================================================
