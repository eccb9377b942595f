------------------------- MODULE CommissioningProofs -------------------------
(***************************************************************************)
(* What holds of commissioning for every area, every set of boards and     *)
(* requests, any number of runs and faults.                                *)
(*                                                                         *)
(* A flag that cannot be cleared is never set ahead of what it enables.    *)
(* Within a run the rows still to write never lie behind a step already    *)
(* begun.  So a set flag leaves none of the rows it enables to be written, *)
(* and a step that is under way has set its flag already and needs no      *)
(* second look at them.                                                    *)
(*                                                                         *)
(* The chip never refuses a row of a plan.  prepare saw that each row to   *)
(* write is free and the lock of its page unwritten; the plan has no row   *)
(* twice, so writing one changes none of the others; and a lock written in *)
(* the run takes effect at the next reset, while the locks in effect are   *)
(* all written, so no row the chip takes is one of them.                   *)
(*                                                                         *)
(* Reading the area page by page gives what reading all of it gives.       *)
(*                                                                         *)
(* The area is a chain of instances, each of which ends, the next on the   *)
(* page after it; only the last, the front, may be short of rows.  It has  *)
(* its first rows as they are written, in the order of the plan, and every *)
(* row after it is blank.  The last row written is the key of its          *)
(* signature, so it is complete only as a whole, and by then recorded.  A  *)
(* new run finishes the front, where it fits and says the same so far, or  *)
(* starts the next: the area stays such a chain, whatever stops a run.  So *)
(* the current instance is one that was signed, no instance is complete    *)
(* before it is recorded, and a run that is done has left its own current. *)
(*                                                                         *)
(* What prepare accepted it accepts again after each row of the run: a row *)
(* changes nothing that it asks but to what the run was to write there,    *)
(* and of what is current to the run's own values.  So a run stopped with  *)
(* no row damaged can be run again and finishes its instance in place.     *)
(***************************************************************************)
EXTENDS Commissioning, SequenceTheorems, FiniteSetTheorems,
        WellFoundedInduction, TLAPS

Active == run.pc \in {"asked", "writing"}

OtpForm == otp = [r \in Rows |-> otp[r]]

\* The rows of each step: the flags are in the steps of their own, and the
\* rows they enable in steps before.
Planned(at, w) ==
    /\ at[1] \in Steps
    /\ w.row \in UsbRows  <=> at[1] = UsbBootFlags
    /\ w.row \in BootRows <=> at[1] = BootFlags0
    /\ w.row \in LabelRows => at[1] = WhiteLabel
    /\ w.row = Devinfo => at[1] = FlashDevinfo
    /\ w.row # SlotSize
    /\ at[1] \in {UsbBootFlags, BootFlags0} => w.want.value = Flag

LeftPlanned ==
    Active => /\ BoardOf(run.req) \in BoardIds
              /\ \A at \in run.left : Planned(at, WriteAt(at))

NoneBehind ==
    Active => /\ Enabled(otp, UsbRows) => \A at \in run.left : at[1] # WhiteLabel
              /\ Enabled(otp, BootRows) => \A at \in run.left : at[1] # FlashDevinfo

BegunIsSet ==
    Active => /\ run.step = UsbBootFlags => Enabled(otp, UsbRows)
              /\ run.step = BootFlags0 => Enabled(otp, BootRows)

IInv == OtpForm /\ EnabledMeansWritten /\ LeftPlanned /\ NoneBehind /\ BegunIsSet

---------------------------------------------------------------------------
(* Rows.                                                                   *)

\* The parts of OTP are apart: a row's name says which part it is of.
LEMMA Apart ==
    /\ \A r \in UsbRows : r[1] = "usb"
    /\ \A r \in BootRows : r[1] = "boot"
    /\ \A r \in LabelRows : r[1] \in {"label", "addr"}
    /\ Devinfo[1] = "devinfo" /\ SlotSize[1] = "slot"
    /\ \A x : AreaRow(x)[1] = "area" /\ LockRow(x)[1] = "lock"
  BY DEF UsbRows, BootRows, LabelRows, Devinfo, SlotSize, AreaRow, LockRow

\* They are all rows of OTP.
LEMMA AllRows ==
    UsbRows \cup BootRows \cup LabelRows \cup {Devinfo, SlotSize} \subseteq Rows
  BY DEF Rows

---------------------------------------------------------------------------
(* Plans.                                                                  *)

Shaped(plan) ==
    \A k \in Steps : \A i \in DOMAIN plan[k] : Planned(<<k, i>>, plan[k][i])

\* A row to write is one its step does not hold.
LEMMA LeftIn ==
    ASSUME NEW plan, NEW at \in ToWrite(plan)
    PROVE  /\ at[1] \in Steps
           /\ at[2] \in DOMAIN plan[at[1]]
           /\ ~Holding(plan[at[1]][at[2]])
  <1>1. PICK k \in Steps : at \in {<<k, i>> : i \in {j \in DOMAIN plan[k] : ~Holding(plan[k][j])}}
    BY DEF ToWrite
  <1>2. PICK i \in DOMAIN plan[k] : at = <<k, i>> /\ ~Holding(plan[k][i])
    BY <1>1
  <1> QED
    BY <1>2

\* In a plan with the rows of each step, so are the rows to write.
LEMMA LeftShaped ==
    ASSUME NEW plan, Shaped(plan), NEW at \in ToWrite(plan)
    PROVE  Planned(at, plan[at[1]][at[2]])
  <1>1. at[1] \in Steps /\ at[2] \in DOMAIN plan[at[1]]
    BY LeftIn
  <1>2. Planned(<<at[1], at[2]>>, plan[at[1]][at[2]])
    BY <1>1 DEF Shaped
  <1> QED
    BY <1>2 DEF Planned

\* The plan of a size has the rows of two steps.
LEMMA SizeShaped == ASSUME NEW req PROVE Shaped(SizePlan(req))
  <1> SUFFICES ASSUME NEW k \in Steps, NEW i \in DOMAIN SizePlan(req)[k]
               PROVE  Planned(<<k, i>>, SizePlan(req)[k][i])
    BY DEF Shaped
  <1>1. NoPlan[k] = <<>> /\ DOMAIN NoPlan = Steps
    BY DEF NoPlan
  <1>2. DOMAIN <<>> = {}
    OBVIOUS
  <1>3. req.size # "M"
    BY <1>1, <1>2 DEF SizePlan
  <1>4. CASE k = FlashDevinfo
    <2>1. SizePlan(req)[k] = DevinfoPlan(BoardOf(req))
      BY <1>3, <1>4, <1>1 DEF SizePlan, FlashDevinfo, BootFlags0, Steps
    <2>2. i = 1 /\ SizePlan(req)[k][i].row = Devinfo
      BY <2>1 DEF DevinfoPlan, Write
    <2> QED
      BY <2>2, <1>4, Apart DEF Planned, FlashDevinfo, UsbBootFlags, BootFlags0, WhiteLabel, Steps
  <1>5. CASE k = BootFlags0
    <2>1. SizePlan(req)[k] = BootFlagsPlan
      BY <1>3, <1>5, <1>1 DEF SizePlan, FlashDevinfo, BootFlags0, Steps
    <2>2. i \in Copies
      BY <2>1 DEF BootFlagsPlan
    <2>3. SizePlan(req)[k][i].row = <<"boot", i>> /\ SizePlan(req)[k][i].want.value = Flag
      BY <2>1, <2>2 DEF BootFlagsPlan, Write
    <2>4. SizePlan(req)[k][i].row \in BootRows
      BY <2>2, <2>3 DEF BootRows
    <2> QED
      BY <2>3, <2>4, <1>5, Apart DEF Planned, FlashDevinfo, UsbBootFlags, BootFlags0, WhiteLabel, Steps
  <1>6. CASE k \notin {FlashDevinfo, BootFlags0}
    <2>1. SizePlan(req)[k] = <<>>
      BY <1>3, <1>6, <1>1 DEF SizePlan
    <2> QED
      BY <2>1, <1>2
  <1> QED
    BY <1>4, <1>5, <1>6

\* The plan of a commissioning adds the white label's two steps, then the
\* instance's and its locks'.
LEMMA LabelledShaped == ASSUME NEW req PROVE Shaped(LabelledPlan(req))
  <1> SUFFICES ASSUME NEW k \in Steps, NEW i \in DOMAIN LabelledPlan(req)[k]
               PROVE  Planned(<<k, i>>, LabelledPlan(req)[k][i])
    BY DEF Shaped
  <1>1. DOMAIN SizePlan(req) = Steps
    BY DEF SizePlan, NoPlan
  <1>2. LabelledPlan(req)[k] = IF k = UsbBootFlags THEN UsbPlan
                               ELSE IF k = WhiteLabel THEN WhiteLabelPlan(BoardOf(req))
                               ELSE SizePlan(req)[k]
    BY <1>1 DEF LabelledPlan
  <1>3. CASE k = WhiteLabel
    <2>1. LabelledPlan(req)[k] = WhiteLabelPlan(BoardOf(req))
      BY <1>2, <1>3 DEF WhiteLabel, UsbBootFlags
    <2>2. i \in 1 .. 3
      BY <2>1 DEF WhiteLabelPlan
    <2>3. LabelledPlan(req)[k][i].row \in LabelRows
      BY <2>1, <2>2 DEF WhiteLabelPlan, LabelRows, Write
    <2> QED
      BY <2>3, <1>3, Apart DEF Planned, FlashDevinfo, UsbBootFlags, BootFlags0, WhiteLabel, Steps
  <1>4. CASE k = UsbBootFlags
    <2>1. LabelledPlan(req)[k] = UsbPlan
      BY <1>2, <1>4
    <2>2. i \in Copies
      BY <2>1 DEF UsbPlan
    <2>3. LabelledPlan(req)[k][i].row = <<"usb", i>> /\ LabelledPlan(req)[k][i].want.value = Flag
      BY <2>1, <2>2 DEF UsbPlan, Write, Exactly
    <2>4. LabelledPlan(req)[k][i].row \in UsbRows
      BY <2>2, <2>3 DEF UsbRows
    <2> QED
      BY <2>3, <2>4, <1>4, Apart DEF Planned, FlashDevinfo, UsbBootFlags, BootFlags0, WhiteLabel, Steps
  <1>5. CASE k \notin {WhiteLabel, UsbBootFlags}
    BY <1>2, <1>5, SizeShaped DEF Shaped
  <1> QED
    BY <1>3, <1>4, <1>5

\* The plan of a whole commissioning run: the instance and its locks are rows of
\* the area and of the locks, apart from every row a flag enables.
LEMMA CommissionShaped ==
    ASSUME NEW req, NEW first, NEW values
    PROVE  Shaped(CommissionPlan(req, first, values))
  <1> DEFINE plan == CommissionPlan(req, first, values)
  <1> SUFFICES ASSUME NEW k \in Steps, NEW i \in DOMAIN plan[k]
               PROVE  Planned(<<k, i>>, plan[k][i])
    BY DEF Shaped
  <1>1. DOMAIN LabelledPlan(req) = Steps
    BY DEF LabelledPlan, SizePlan, NoPlan
  <1>2. plan[k] = IF k = Locks THEN LockPlan(first, values)
                  ELSE IF k = Instance THEN InstancePlan(first, values)
                  ELSE LabelledPlan(req)[k]
    BY <1>1 DEF CommissionPlan
  <1> HIDE DEF plan
  <1>3. CASE k = Instance
    <2>1. plan[k] = InstancePlan(first, values)
      BY <1>2, <1>3 DEF Instance, Locks
    <2>2. PICK x : plan[k][i].row = AreaRow(x)
      BY <2>1 DEF InstancePlan, Write
    <2> QED
      BY <2>2, <1>3, Apart DEF Planned, Instance, FlashDevinfo, UsbBootFlags, BootFlags0, Steps
  <1>4. CASE k = Locks
    <2>1. plan[k] = LockPlan(first, values)
      BY <1>2, <1>4
    <2>2. PICK x : plan[k][i].row = LockRow(x)
      BY <2>1 DEF LockPlan, Write
    <2> QED
      BY <2>2, <1>4, Apart DEF Planned, Locks, FlashDevinfo, UsbBootFlags, BootFlags0, Steps
  <1>5. CASE k \notin {Instance, Locks}
    BY <1>2, <1>5, LabelledShaped DEF Shaped
  <1> QED
    BY <1>3, <1>4, <1>5

---------------------------------------------------------------------------
(* Planning on a board whose flags are set.                                *)

\* Where a USB_BOOT_FLAGS copy is set the white label is written, so a plan that
\* prepare accepts has none of it left to write.
LEMMA LabelsWritten ==
    ASSUME NEW plan, NEW board \in BoardIds, EnabledMeansWritten,
           WhiteLabelAccepted(board), Enabled(otp, UsbRows),
           plan[WhiteLabel] = WhiteLabelPlan(board),
           NEW at \in ToWrite(plan), at[1] = WhiteLabel
    PROVE  FALSE
  <1> DEFINE w == plan[WhiteLabel][at[2]]
  <1>1. at[2] \in DOMAIN plan[WhiteLabel] /\ ~Holding(w)
    BY LeftIn
  <1>2. at[2] \in 1 .. 3
    BY <1>1 DEF WhiteLabelPlan
  <1>3. w.row \in LabelRows /\ w.want = Exactly(LabelValue(board, w.row))
    BY <1>2 DEF WhiteLabelPlan, LabelRows, Write
  <1> HIDE DEF w
  <1>4. otp[w.row].value = 0
    BY <1>1, <1>3 DEF WhiteLabelAccepted, Writable, Holds, IsUnwritten, Holding
  <1>5. PICK b \in BoardIds : WhiteLabelHolds(otp, b)
    BY DEF EnabledMeansWritten, EnabledOnlyWritten
  <1>6. otp[w.row].value = LabelValue(b, w.row)
    <2>1. otp[w.row] = Exactly(LabelValue(b, w.row))
      BY <1>3, <1>5 DEF WhiteLabelHolds, Holds
    <2> QED
      BY <2>1 DEF Exactly
  <1>7. LabelValue(b, w.row) # 0
    BY <1>3 DEF LabelValue, LabelRows, BoardIds
  <1> QED
    BY <1>4, <1>6, <1>7

\* The same of FLASH_DEVINFO where a BOOT_FLAGS0 copy is set.
LEMMA DevinfoWritten ==
    ASSUME NEW plan, NEW req \in Requests, EnabledMeansWritten,
           SizeAccepted(req), Enabled(otp, BootRows),
           plan[FlashDevinfo] = SizePlan(req)[FlashDevinfo],
           NEW at \in ToWrite(plan), at[1] = FlashDevinfo
    PROVE  FALSE
  <1> DEFINE w == plan[FlashDevinfo][at[2]]
             v == DevinfoValue(BoardOf(req))
  <1>1. at[2] \in DOMAIN plan[FlashDevinfo] /\ ~Holding(w)
    BY LeftIn
  <1>2. req.size = "L" /\ plan[FlashDevinfo] = DevinfoPlan(BoardOf(req))
    <2>1. NoPlan[FlashDevinfo] = <<>> /\ DOMAIN NoPlan = Steps
      BY DEF NoPlan, FlashDevinfo, Steps
    <2>2. DOMAIN <<>> = {}
      OBVIOUS
    <2>3. req.size # "M"
      BY <1>1, <2>1, <2>2 DEF SizePlan
    <2>4. plan[FlashDevinfo] = DevinfoPlan(BoardOf(req))
      BY <2>1, <2>3 DEF SizePlan, FlashDevinfo, BootFlags0, Steps
    <2> QED
      BY <2>3, <2>4, RequestsAssumption
  <1>3. w.row = Devinfo /\ w.want = Exactly(v)
    BY <1>1, <1>2 DEF DevinfoPlan, Write
  <1> HIDE DEF w
  <1>4. otp[Devinfo].value = 0
    BY <1>1, <1>2, <1>3 DEF SizeAccepted, Writable, Holds, IsUnwritten, Holding
  <1>5. PICK b \in BoardIds : SizeHolds(otp, b)
    BY DEF EnabledMeansWritten, EnabledOnlyWritten
  <1>6. otp[Devinfo].value = DevinfoValue(b)
    BY <1>5 DEF SizeHolds, Holds, Exactly
  <1>7. DevinfoValue(b) # 0
    BY DEF DevinfoValue, BoardIds
  <1> QED
    BY <1>4, <1>6, <1>7

---------------------------------------------------------------------------
(* Steps.                                                                  *)

\* A board is first met with its flags as they should be.
LEMMA InitInv == Init => IInv
  BY BoardsAssumption DEF Init, IInv, Idle, OtpForm, EnabledMeansWritten,
     LeftPlanned, NoneBehind, BegunIsSet, Active

\* A plan that was accepted is well formed.
LEMMA PrepareInv ==
    ASSUME IInv, NEW req \in Requests, PrepareCommission(req) \/ PrepareSize(req)
    PROVE  IInv'
  <1> DEFINE plan == run'.plan
  <1>1. /\ UNCHANGED otp
        /\ run'.left = ToWrite(plan) /\ run'.req = req /\ run'.step = 0
        /\ Shaped(plan) /\ SizeAccepted(req)
        /\ plan[FlashDevinfo] = SizePlan(req)[FlashDevinfo]
        /\ \/ plan[WhiteLabel] = <<>>
           \/ plan[WhiteLabel] = WhiteLabelPlan(BoardOf(req)) /\ WhiteLabelAccepted(BoardOf(req))
    <2>1. CASE PrepareCommission(req)
      <3> DEFINE values == Values(Area(otp), req)
                 first  == Place(Area(otp), values)
      <3>1. /\ UNCHANGED otp
            /\ plan = CommissionPlan(req, first, values)
            /\ run'.left = ToWrite(plan) /\ run'.req = req /\ run'.step = 0
            /\ SizeAccepted(req) /\ WhiteLabelAccepted(BoardOf(req))
        BY <2>1 DEF PrepareCommission, CommissionAccepted
      <3> HIDE DEF values, first, plan
      <3>2. /\ plan[FlashDevinfo] = LabelledPlan(req)[FlashDevinfo]
            /\ plan[WhiteLabel] = LabelledPlan(req)[WhiteLabel]
        BY <3>1 DEF CommissionPlan, LabelledPlan, SizePlan, NoPlan, FlashDevinfo, WhiteLabel,
           Instance, Locks, Steps
      <3>3. /\ LabelledPlan(req)[FlashDevinfo] = SizePlan(req)[FlashDevinfo]
            /\ LabelledPlan(req)[WhiteLabel] = WhiteLabelPlan(BoardOf(req))
        BY DEF LabelledPlan, SizePlan, NoPlan, FlashDevinfo, WhiteLabel, UsbBootFlags, Steps
      <3> QED
        BY <3>1, <3>2, <3>3, CommissionShaped
    <2>2. CASE PrepareSize(req)
      <3>1. /\ UNCHANGED otp
            /\ plan = SizePlan(req)
            /\ run'.left = ToWrite(plan) /\ run'.req = req /\ run'.step = 0
            /\ SizeAccepted(req)
        BY <2>2 DEF PrepareSize, SizeRequestAccepted, Idle
      <3> HIDE DEF plan
      <3>2. plan[WhiteLabel] = <<>>
        BY <3>1 DEF SizePlan, NoPlan, WhiteLabel, FlashDevinfo, BootFlags0, Steps
      <3> QED
        BY <3>1, <3>2, SizeShaped
    <2> QED
      BY <2>1, <2>2
  <1> HIDE DEF plan
  <1>2. OtpForm' /\ EnabledMeansWritten'
    BY <1>1 DEF IInv, OtpForm, EnabledMeansWritten, EnabledOnlyWritten, Enabled, WhiteLabelHolds, SizeHolds
  <1>3. \A at \in ToWrite(plan) : Planned(at, plan[at[1]][at[2]])
    BY <1>1, LeftShaped
  <1>4. LeftPlanned'
    BY <1>1, <1>3, RequestsAssumption DEF LeftPlanned, WriteAt, plan
  <1>5. ASSUME Enabled(otp, UsbRows), NEW at \in ToWrite(plan) PROVE at[1] # WhiteLabel
    <2> SUFFICES ASSUME at[1] = WhiteLabel PROVE FALSE
      OBVIOUS
    <2>1. CASE plan[WhiteLabel] = <<>>
      <3>1. at[2] \in DOMAIN plan[WhiteLabel]
        BY LeftIn
      <3> QED
        BY <3>1, <2>1
    <2>2. CASE plan[WhiteLabel] = WhiteLabelPlan(BoardOf(req)) /\ WhiteLabelAccepted(BoardOf(req))
      BY <2>2, <1>5, LabelsWritten, RequestsAssumption DEF IInv
    <2> QED
      BY <2>1, <2>2, <1>1
  <1>6. ASSUME Enabled(otp, BootRows), NEW at \in ToWrite(plan) PROVE at[1] # FlashDevinfo
    BY <1>1, <1>6, DevinfoWritten DEF IInv
  <1>7. NoneBehind'
    BY <1>1, <1>5, <1>6 DEF NoneBehind, Enabled
  <1>8. BegunIsSet'
    BY <1>1 DEF BegunIsSet, UsbBootFlags, BootFlags0
  <1> QED
    BY <1>2, <1>4, <1>7, <1>8 DEF IInv

\* A row goes wrong, or is written, without a flag being set ahead of it: the
\* rows a set flag enables are behind the step, and the first write of a step
\* that sets a flag comes after the check.
LEMMA RowChanges ==
    ASSUME IInv, run.pc = "writing", NEW at, IsNext(at), Checked(at),
           NEW r, otp' = [otp EXCEPT ![WriteAt(at).row] = r]
    PROVE  OtpForm' /\ EnabledMeansWritten'
  <1> DEFINE w == WriteAt(at)
  <1>1. Planned(at, w) /\ at \in run.left /\ BoardOf(run.req) \in BoardIds
    BY DEF IInv, LeftPlanned, Active, IsNext
  <1>2. OtpForm'
    BY DEF IInv, OtpForm
  <1>3. \A x \in Rows : x # w.row => otp'[x] = otp[x]
    BY DEF IInv, OtpForm
  <1> HIDE DEF w
  <1>4. ASSUME Enabled(otp', UsbRows)
        PROVE  \E board \in BoardIds : WhiteLabelHolds(otp', board)
    <2>1. PICK board \in BoardIds : WhiteLabelHolds(otp, board)
      <3>1. CASE at[1] = UsbBootFlags /\ at[1] # run.step
        BY <3>1, <1>1 DEF Checked, CheckEnabled
      <3>2. CASE at[1] = UsbBootFlags /\ at[1] = run.step
        BY <3>2 DEF IInv, BegunIsSet, Active, EnabledMeansWritten, EnabledOnlyWritten
      <3>3. CASE at[1] # UsbBootFlags
        <4>1. w.row \notin UsbRows
          BY <1>1, <3>3 DEF Planned
        <4>2. Enabled(otp, UsbRows)
          BY <1>3, <1>4, <4>1, AllRows DEF Enabled
        <4> QED
          BY <4>2 DEF IInv, EnabledMeansWritten, EnabledOnlyWritten
      <3> QED
        BY <3>1, <3>2, <3>3
    <2>2. w.row \notin LabelRows
      <3>1. CASE at[1] = UsbBootFlags
        BY <3>1, <1>1 DEF Planned, UsbBootFlags, WhiteLabel
      <3>2. CASE at[1] # UsbBootFlags
        <4>1. w.row \notin UsbRows
          BY <1>1, <3>2 DEF Planned
        <4>2. Enabled(otp, UsbRows)
          BY <1>3, <1>4, <4>1, AllRows DEF Enabled
        <4>3. at[1] # WhiteLabel
          BY <4>2, <1>1 DEF IInv, NoneBehind, Active
        <4> QED
          BY <4>3, <1>1 DEF Planned
      <3> QED
        BY <3>1, <3>2
    <2>3. WhiteLabelHolds(otp', board)
      BY <2>1, <2>2, <1>3, AllRows DEF WhiteLabelHolds
    <2> QED
      BY <2>3
  <1>5. ASSUME Enabled(otp', BootRows)
        PROVE  \E board \in BoardIds : SizeHolds(otp', board)
    <2>1. PICK board \in BoardIds : SizeHolds(otp, board)
      <3>1. CASE at[1] = BootFlags0 /\ at[1] # run.step
        BY <3>1, <1>1 DEF Checked, CheckEnabled
      <3>2. CASE at[1] = BootFlags0 /\ at[1] = run.step
        BY <3>2 DEF IInv, BegunIsSet, Active, EnabledMeansWritten, EnabledOnlyWritten
      <3>3. CASE at[1] # BootFlags0
        <4>1. w.row \notin BootRows
          BY <1>1, <3>3 DEF Planned
        <4>2. Enabled(otp, BootRows)
          BY <1>3, <1>5, <4>1, AllRows DEF Enabled
        <4> QED
          BY <4>2 DEF IInv, EnabledMeansWritten, EnabledOnlyWritten
      <3> QED
        BY <3>1, <3>2, <3>3
    <2>2. w.row # Devinfo /\ w.row # SlotSize
      <3>1. CASE at[1] = BootFlags0
        BY <3>1, <1>1 DEF Planned, BootFlags0, FlashDevinfo
      <3>2. CASE at[1] # BootFlags0
        <4>1. w.row \notin BootRows
          BY <1>1, <3>2 DEF Planned
        <4>2. Enabled(otp, BootRows)
          BY <1>3, <1>5, <4>1, AllRows DEF Enabled
        <4>3. at[1] # FlashDevinfo
          BY <4>2, <1>1 DEF IInv, NoneBehind, Active
        <4> QED
          BY <4>3, <1>1 DEF Planned
      <3> QED
        BY <3>1, <3>2
    <2>3. SizeHolds(otp', board)
      BY <2>1, <2>2, <1>3, AllRows DEF SizeHolds
    <2> QED
      BY <2>3
  <1>6. EnabledMeansWritten'
    BY <1>4, <1>5 DEF EnabledMeansWritten, EnabledOnlyWritten
  <1> QED
    BY <1>2, <1>6

\* A run that has stopped has nothing left to keep.
LEMMA IdleInv ==
    ASSUME OtpForm', EnabledMeansWritten', run'.pc \in {"idle", "done"}
    PROVE  IInv'
  BY DEF IInv, LeftPlanned, NoneBehind, BegunIsSet, Active

\* A row written leaves nothing behind the step it is of.
LEMMA WriteInv ==
    ASSUME IInv, NEW at, WriteRow(at)
    PROVE  IInv'
  <1> DEFINE w == WriteAt(at)
  <1>1. /\ run.pc = "writing" /\ IsNext(at) /\ Checked(at)
        /\ otp' = [otp EXCEPT ![w.row] = w.want]
        /\ run' = [run EXCEPT !.left = @ \ {at}, !.step = at[1],
                              !.pc = IF run.left = {at} THEN "done" ELSE "writing"]
    BY DEF WriteRow
  <1>2. OtpForm' /\ EnabledMeansWritten'
    BY <1>1, RowChanges
  <1>3. Planned(at, w) /\ at \in run.left /\ BoardOf(run.req) \in BoardIds
        /\ \A o \in run.left : Planned(o, WriteAt(o))
    BY <1>1 DEF IInv, LeftPlanned, Active, IsNext
  <1>4. CASE run.left = {at}
    <2>1. run'.pc = "done"
      BY <1>1, <1>4
    <2> QED
      BY <1>2, <2>1, IdleInv
  <1>5. CASE run.left # {at}
    <2> DEFINE next == [run EXCEPT !.left = @ \ {at}, !.step = at[1], !.pc = "writing"]
    <2>1. run' = next
      BY <1>1, <1>5
    <2>2. /\ next.req = run.req /\ next.plan = run.plan
          /\ next.left \subseteq run.left /\ next.step = at[1]
      OBVIOUS
    <2> HIDE DEF next
    <2>3. LeftPlanned'
      BY <1>3, <2>1, <2>2 DEF LeftPlanned, WriteAt
    <2>4. \A x \in Rows : x # w.row => otp'[x] = otp[x]
      BY <1>1 DEF IInv, OtpForm
    <2>5. w.row \in Rows => otp'[w.row] = w.want
      BY <1>1 DEF IInv, OtpForm
    <2> HIDE DEF w
    <2>6. \A o \in run.left : at[1] <= o[1]
      BY <1>1, <1>3 DEF IsNext, Planned, Steps
    <2>7. ASSUME Enabled(otp', UsbRows), NEW o \in next.left PROVE o[1] # WhiteLabel
      <3>1. CASE at[1] = UsbBootFlags
        BY <3>1, <2>2, <2>6 DEF UsbBootFlags, WhiteLabel
      <3>2. CASE at[1] # UsbBootFlags
        <4>1. w.row \notin UsbRows
          BY <1>3, <3>2 DEF Planned
        <4>2. Enabled(otp, UsbRows)
          BY <2>4, <2>7, <4>1, AllRows DEF Enabled
        <4> QED
          BY <4>2, <2>2, <1>1 DEF IInv, NoneBehind, Active
      <3> QED
        BY <3>1, <3>2
    <2>8. ASSUME Enabled(otp', BootRows), NEW o \in next.left PROVE o[1] # FlashDevinfo
      <3>1. CASE at[1] = BootFlags0
        BY <3>1, <2>2, <2>6 DEF BootFlags0, FlashDevinfo
      <3>2. CASE at[1] # BootFlags0
        <4>1. w.row \notin BootRows
          BY <1>3, <3>2 DEF Planned
        <4>2. Enabled(otp, BootRows)
          BY <2>4, <2>8, <4>1, AllRows DEF Enabled
        <4> QED
          BY <4>2, <2>2, <1>1 DEF IInv, NoneBehind, Active
      <3> QED
        BY <3>1, <3>2
    <2>9. NoneBehind'
      BY <2>1, <2>7, <2>8 DEF NoneBehind
    <2>10. at[1] = UsbBootFlags => Enabled(otp', UsbRows)
      BY <1>3, <2>5, AllRows DEF Enabled, Planned
    <2>11. at[1] = BootFlags0 => Enabled(otp', BootRows)
      BY <1>3, <2>5, AllRows DEF Enabled, Planned
    <2>12. BegunIsSet'
      BY <2>1, <2>2, <2>10, <2>11 DEF BegunIsSet
    <2> QED
      BY <1>2, <2>3, <2>9, <2>12 DEF IInv
  <1> QED
    BY <1>4, <1>5

\* A row that decays is one whose flag is not set.
LEMMA DecayInv == ASSUME IInv, Decay PROVE IInv'
  <1>1. PICK row \in LabelRows \cup {Devinfo, SlotSize} :
          ~Enabled(otp, EnabledBy(row)) /\ otp' = [otp EXCEPT ![row].exact = FALSE]
    BY DEF Decay
  <1>2. run' = run
    BY DEF Decay
  <1>3. OtpForm' /\ \A x \in Rows : x # row => otp'[x] = otp[x]
    BY <1>1 DEF IInv, OtpForm
  <1>4. row \notin UsbRows /\ row \notin BootRows
    BY Apart
  <1>5. Enabled(otp', UsbRows) <=> Enabled(otp, UsbRows)
    BY <1>3, <1>4, AllRows DEF Enabled
  <1>6. Enabled(otp', BootRows) <=> Enabled(otp, BootRows)
    BY <1>3, <1>4, AllRows DEF Enabled
  <1>7. ASSUME Enabled(otp', UsbRows)
        PROVE  \E board \in BoardIds : WhiteLabelHolds(otp', board)
    <2>1. row \notin LabelRows
      BY <1>1, <1>5, <1>7 DEF EnabledBy
    <2>2. PICK board \in BoardIds : WhiteLabelHolds(otp, board)
      BY <1>5, <1>7 DEF IInv, EnabledMeansWritten, EnabledOnlyWritten
    <2>3. WhiteLabelHolds(otp', board)
      BY <2>1, <2>2, <1>3, AllRows DEF WhiteLabelHolds
    <2> QED
      BY <2>3
  <1>8. ASSUME Enabled(otp', BootRows)
        PROVE  \E board \in BoardIds : SizeHolds(otp', board)
    <2>1. row \in LabelRows
      BY <1>1, <1>6, <1>8 DEF EnabledBy
    <2>2. row # Devinfo /\ row # SlotSize
      BY <2>1, Apart
    <2>3. PICK board \in BoardIds : SizeHolds(otp, board)
      BY <1>6, <1>8 DEF IInv, EnabledMeansWritten, EnabledOnlyWritten
    <2>4. SizeHolds(otp', board)
      BY <2>2, <2>3, <1>3, AllRows DEF SizeHolds
    <2> QED
      BY <2>4
  <1>9. EnabledMeansWritten'
    BY <1>7, <1>8 DEF EnabledMeansWritten, EnabledOnlyWritten
  <1>10. LeftPlanned'
    BY <1>2 DEF IInv, LeftPlanned, Active, WriteAt
  <1>11. NoneBehind' /\ BegunIsSet'
    BY <1>2, <1>5, <1>6 DEF IInv, NoneBehind, BegunIsSet, Active
  <1> QED
    BY <1>3, <1>9, <1>10, <1>11 DEF IInv

\* Steps that write nothing keep the run as it is, or end it.
LEMMA QuietInv ==
    ASSUME IInv, UNCHANGED otp,
           \/ run'.pc \in {"idle", "done"}
           \/ run' = run
           \/ run.pc = "asked" /\ run' = [run EXCEPT !.pc = "writing"]
    PROVE  IInv'
  <1>1. OtpForm' /\ EnabledMeansWritten'
    BY DEF IInv, OtpForm, EnabledMeansWritten
  <1>2. CASE run'.pc \in {"idle", "done"}
    BY <1>1, <1>2, IdleInv
  <1>3. CASE run' = run
    BY <1>1, <1>3 DEF IInv, LeftPlanned, NoneBehind, BegunIsSet, Active, WriteAt
  <1>4. CASE run.pc = "asked" /\ run' = [run EXCEPT !.pc = "writing"]
    <2>1. /\ run'.req = run.req /\ run'.left = run.left
          /\ run'.plan = run.plan /\ run'.step = run.step
      BY <1>4
    <2> QED
      BY <1>1, <1>4, <2>1 DEF IInv, LeftPlanned, NoneBehind, BegunIsSet, Active, WriteAt
  <1> QED
    BY <1>2, <1>3, <1>4

\* Every step keeps the invariant.
LEMMA NextInv == IInv /\ [Next]_vars => IInv'
  <1> SUFFICES ASSUME IInv, [Next]_vars PROVE IInv'
    OBVIOUS
  <1>1. ASSUME NEW req \in Requests, PrepareCommission(req) \/ PrepareSize(req) PROVE IInv'
    BY <1>1, PrepareInv
  <1>2. CASE Decline
    BY <1>2, QuietInv DEF Decline, Idle
  <1>3. CASE Agree
    BY <1>3, QuietInv DEF Agree, Idle
  <1>4. CASE AgreeReplyLost
    BY <1>4, QuietInv DEF AgreeReplyLost, Idle
  <1>5. ASSUME NEW at \in run.left, CheckFails(at) PROVE IInv'
    BY <1>5, QuietInv DEF CheckFails, Stopped, Idle
  <1>6. ASSUME NEW at \in run.left, WriteRow(at) PROVE IInv'
    BY <1>6, WriteInv
  <1>7. ASSUME NEW at \in run.left, WriteInterrupted(at) PROVE IInv'
    <2>1. run'.pc = "idle"
      BY <1>7 DEF WriteInterrupted, Stopped, Idle
    <2>2. CASE UNCHANGED otp
      BY <2>1, <2>2, QuietInv
    <2>3. CASE otp' = [otp EXCEPT ![WriteAt(at).row] = WriteAt(at).want]
      <3>1. OtpForm' /\ EnabledMeansWritten'
        BY <1>7, <2>3, RowChanges DEF WriteInterrupted
      <3> QED
        BY <2>1, <3>1, IdleInv
    <2> QED
      BY <1>7, <2>2, <2>3 DEF WriteInterrupted
  <1>8. ASSUME NEW at \in run.left, WriteDamaged(at) PROVE IInv'
    <2>1. run'.pc = "idle"
      BY <1>8 DEF WriteDamaged, Stopped, Idle
    <2>2. PICK v : otp' = [otp EXCEPT ![WriteAt(at).row] = [value |-> v, exact |-> FALSE]]
      BY <1>8 DEF WriteDamaged
    <2>3. OtpForm' /\ EnabledMeansWritten'
      BY <1>8, <2>2, RowChanges DEF WriteDamaged
    <2> QED
      BY <2>1, <2>3, IdleInv
  <1>9. CASE Decay
    BY <1>9, DecayInv
  <1>10. CASE Reboot
    BY <1>10, QuietInv DEF Reboot, Idle
  <1>11. CASE PowerCycle \/ NextDay \/ ChangeKey
    BY <1>11, QuietInv DEF PowerCycle, NextDay, ChangeKey
  <1>12. CASE UNCHANGED vars
    BY <1>12, QuietInv DEF vars
  <1> QED
    BY <1>1, <1>2, <1>3, <1>4, <1>5, <1>6, <1>7, <1>8, <1>9, <1>10, <1>11, <1>12 DEF Next

\* No run, however it or an earlier one was interrupted or a row damaged, sets
\* USB_BOOT_FLAGS or FLASH_DEVINFO_ENABLE ahead of the rows they enable.
THEOREM FlagsAreSafe == Spec => []EnabledMeansWritten
  <1>1. IInv => EnabledMeansWritten
    BY DEF IInv
  <1> QED
    BY <1>1, InitInv, NextInv, PTL DEF Spec

---------------------------------------------------------------------------
(* The rows of an instance.                                                *)

Writes == Seq(Int \X Nat)

\* The writes are to the rows from a on, one to each.
Covers(s, a) ==
    /\ s \in Writes
    /\ \A i \in 1 .. Len(s) : s[i][1] \in a .. a + Len(s) - 1
    /\ \A i, j \in 1 .. Len(s) : s[i][1] = s[j][1] => i = j

LEMMA CoversBoth ==
    ASSUME NEW a \in Int, NEW s, NEW t, Covers(s, a), Covers(t, a + Len(s))
    PROVE  Covers(s \o t, a) /\ Len(s \o t) = Len(s) + Len(t)
  <1> DEFINE u == s \o t
  <1>1. /\ u \in Writes /\ Len(u) = Len(s) + Len(t)
        /\ \A i \in 1 .. Len(s) + Len(t) : u[i] = IF i <= Len(s) THEN s[i] ELSE t[i - Len(s)]
        /\ Len(s) \in Nat /\ Len(t) \in Nat
    BY ConcatProperties, LenProperties DEF Covers, Writes
  <1> HIDE DEF u
  <1>2. PICK n \in Nat, m \in Nat : n = Len(s) /\ m = Len(t)
    BY <1>1
  <1>3. ASSUME NEW i \in 1 .. Len(u)
        PROVE  \/ i \in 1 .. n /\ u[i] = s[i]
               \/ i - n \in 1 .. m /\ u[i] = t[i - n]
    BY <1>1, <1>2
  <1>4. /\ \A i \in 1 .. n : s[i][1] \in a .. a + n - 1
        /\ \A i \in 1 .. m : t[i][1] \in a + n .. a + n + m - 1
        /\ \A i, j \in 1 .. n : s[i][1] = s[j][1] => i = j
        /\ \A i, j \in 1 .. m : t[i][1] = t[j][1] => i = j
    BY <1>2 DEF Covers
  <1>5. ASSUME NEW i \in 1 .. Len(u) PROVE u[i][1] \in a .. a + Len(u) - 1
    <2>1. CASE i \in 1 .. n /\ u[i] = s[i]
      <3>1. s[i][1] \in a .. a + n - 1
        BY <1>4, <2>1
      <3> QED
        BY <1>1, <1>2, <2>1, <3>1
    <2>2. CASE i - n \in 1 .. m /\ u[i] = t[i - n]
      <3>1. t[i - n][1] \in a + n .. a + n + m - 1
        BY <1>4, <2>2
      <3> QED
        BY <1>1, <1>2, <2>2, <3>1
    <2> QED
      BY <1>3, <2>1, <2>2
  <1>6. ASSUME NEW i \in 1 .. Len(u), NEW j \in 1 .. Len(u), u[i][1] = u[j][1] PROVE i = j
    <2>1. CASE i \in 1 .. n /\ u[i] = s[i] /\ j \in 1 .. n /\ u[j] = s[j]
      BY <1>4, <1>6, <2>1
    <2>2. CASE i - n \in 1 .. m /\ u[i] = t[i - n] /\ j - n \in 1 .. m /\ u[j] = t[j - n]
      <3>1. i - n = j - n
        BY <1>4, <1>6, <2>2
      <3> QED
        BY <1>2, <3>1
    <2>3. CASE i \in 1 .. n /\ u[i] = s[i] /\ j - n \in 1 .. m /\ u[j] = t[j - n]
      <3>1. s[i][1] < a + n /\ a + n <= t[j - n][1]
        BY <1>4, <2>3
      <3> QED
        BY <1>6, <2>3, <3>1, <1>4
    <2>4. CASE i - n \in 1 .. m /\ u[i] = t[i - n] /\ j \in 1 .. n /\ u[j] = s[j]
      <3>1. s[j][1] < a + n /\ a + n <= t[i - n][1]
        BY <1>4, <2>4
      <3> QED
        BY <1>6, <2>4, <3>1, <1>4
    <2> QED
      BY <1>3, <2>1, <2>2, <2>3, <2>4
  <1>7. Covers(u, a)
    BY <1>1, <1>5, <1>6 DEF Covers
  <1> QED
    BY <1>1, <1>7 DEF u

\* A sequence is built from its elements.
LEMMA BuiltSeq ==
    ASSUME NEW S, NEW n \in Nat, NEW f, f = [i \in 1 .. n |-> f[i]],
           \A i \in 1 .. n : f[i] \in S
    PROVE  f \in Seq(S) /\ Len(f) = n
  <1>1. f \in [1 .. n -> S]
    OBVIOUS
  <1>2. DOMAIN f = 1 .. n
    BY <1>1
  <1> QED
    BY <1>1, <1>2

\* Rows written from the second on, the first one last.
LEMMA RotatedCovers ==
    ASSUME NEW a \in Int, NEW n \in Nat \ {0}, NEW rows \in [1 .. n -> Nat]
    PROVE  LET w == [i \in 1 .. n |-> IF i < n THEN <<a + i, rows[i + 1]>> ELSE <<a, rows[1]>>]
           IN  Covers(w, a) /\ Len(w) = n
  <1> DEFINE w == [i \in 1 .. n |-> IF i < n THEN <<a + i, rows[i + 1]>> ELSE <<a, rows[1]>>]
             at(i) == IF i < n THEN a + i ELSE a
  <1>1. ASSUME NEW i \in 1 .. n PROVE w[i] \in Int \X Nat /\ w[i][1] = at(i)
    <2>1. CASE i < n
      <3>1. i + 1 \in 1 .. n /\ w[i] = <<a + i, rows[i + 1]>>
        BY <2>1
      <3>2. rows[i + 1] \in Nat /\ a + i \in Int
        BY <3>1
      <3> HIDE DEF w
      <3> QED
        BY <2>1, <3>1, <3>2
    <2>2. CASE ~(i < n)
      <3>1. 1 \in 1 .. n /\ w[i] = <<a, rows[1]>>
        BY <2>2
      <3>2. rows[1] \in Nat
        BY <3>1
      <3> HIDE DEF w
      <3> QED
        BY <2>2, <3>1, <3>2
    <2> QED
      BY <2>1, <2>2
  <1>2. w = [i \in 1 .. n |-> w[i]]
    OBVIOUS
  <1> HIDE DEF w
  <1>3. w \in Writes /\ Len(w) = n
    BY <1>1, <1>2, BuiltSeq DEF Writes
  <1>4. ASSUME NEW i \in 1 .. n PROVE w[i][1] \in a .. a + n - 1
    <2>1. at(i) \in a .. a + n - 1
      OBVIOUS
    <2> QED
      BY <1>1, <2>1
  <1>5. ASSUME NEW i \in 1 .. n, NEW j \in 1 .. n, w[i][1] = w[j][1] PROVE i = j
    <2>1. at(i) = at(j)
      BY <1>1, <1>5
    <2> QED
      BY <2>1
  <1>6. Covers(w, a)
    BY <1>3, <1>4, <1>5 DEF Covers
  <1>7. Covers(w, a) /\ Len(w) = n
    BY <1>3, <1>6
  <1> QED
    BY <1>7 DEF w

\* An entry's rows, its key row written last.
LEMMA EntryCovers ==
    ASSUME NEW a \in Int, NEW key \in Nat, NEW value \in Seq(Nat)
    PROVE  /\ Covers(EntryWrites(a, key, value), a)
           /\ Len(EntryWrites(a, key, value)) = Len(value) + 2
           /\ Len(EntryRows(key, value)) = Len(value) + 2
           /\ EntryRows(key, value) \in Seq(Nat)
  <1> DEFINE rows == EntryRows(key, value)
             n == Len(rows)
             w == [i \in 1 .. n |-> IF i < n THEN <<a + i, rows[i + 1]>> ELSE <<a, rows[1]>>]
  <1>1. Len(value) \in Nat /\ <<key, Len(value)>> \in Seq(Nat) /\ Len(<<key, Len(value)>>) = 2
    BY LenProperties
  <1>2. rows \in Seq(Nat) /\ n = Len(value) + 2
    BY <1>1, ConcatProperties DEF EntryRows
  <1>3. EntryWrites(a, key, value) = w
    BY DEF EntryWrites
  <1> HIDE DEF rows
  <1>4. n \in Nat \ {0} /\ rows \in [1 .. n -> Nat]
    BY <1>1, <1>2, LenProperties
  <1> HIDE DEF n
  <1>5. Covers(w, a) /\ Len(w) = n
    BY <1>4, RotatedCovers
  <1> HIDE DEF w
  <1>6. Len(rows) = Len(value) + 2
    BY <1>2 DEF n
  <1> QED
    BY <1>2, <1>3, <1>5, <1>6 DEF rows

\* An instance's writes are one to each of its rows.
LEMMA InstanceCovers ==
    ASSUME NEW first \in Int, NEW values, values.who \in Seq(Nat), values.date \in Seq(Nat),
           NEW sig \in Nat
    PROVE  LET writes == InstanceWrites(first, values, sig)
           IN  /\ Covers(writes, first) /\ Len(writes) = InstanceRowCount(values)
               /\ InstanceRowCount(values) = Len(values.who) + Len(values.date) + 9
  <1> DEFINE head == << <<first, Magic>>, <<first + 1, Version>> >>
             date == first + 4 + Len(values.who)
             end == date + 2 + Len(values.date)
             w == EntryWrites(first + 2, WhoKey, values.who)
             d == EntryWrites(date, DateKey, values.date)
             s == EntryWrites(end, SigKey, <<sig>>)
             signed == <<Magic, Version>>
             who == EntryRows(WhoKey, values.who)
             when == EntryRows(DateKey, values.date)
  <1>1. Len(values.who) \in Nat /\ Len(values.date) \in Nat /\ <<sig>> \in Seq(Nat) /\ Len(<<sig>>) = 1
    BY LenProperties
  <1>2. PICK m \in Nat, n \in Nat : m = Len(values.who) /\ n = Len(values.date)
    BY <1>1
  <1>3. /\ first + 2 \in Int
        /\ date = first + 4 + m /\ date \in Int
        /\ end = first + 6 + m + n /\ end \in Int
        /\ WhoKey \in Nat /\ DateKey \in Nat /\ SigKey \in Nat
    <2>1. date = first + 4 + m
      BY <1>2
    <2>2. end = date + 2 + n
      BY <1>2
    <2> HIDE DEF date, end
    <2> QED
      BY <2>1, <2>2 DEF WhoKey, DateKey, SigKey
  <1>4. InstanceWrites(first, values, sig) = ((head \o w) \o d) \o s
    BY DEF InstanceWrites
  <1>5. InstanceRowCount(values) = Len((signed \o who) \o when) + 3
    BY DEF InstanceRowCount, SignedRows
  <1>6. Covers(head, first) /\ Len(head) = 2
    <2>1. head \in Writes /\ Len(head) = 2
      BY DEF Writes, Magic, Version
    <2>2. head[1][1] = first /\ head[2][1] = first + 1
      OBVIOUS
    <2> HIDE DEF head
    <2>3. \A i \in 1 .. 2 : i = 1 \/ i = 2
      OBVIOUS
    <2>4. \A i \in 1 .. 2 : head[i][1] \in first .. first + 2 - 1
      BY <2>2, <2>3
    <2>5. \A i, j \in 1 .. 2 : head[i][1] = head[j][1] => i = j
      BY <2>2, <2>3
    <2> QED
      BY <2>1, <2>4, <2>5 DEF Covers
  <1>7. signed \in Seq(Nat) /\ Len(signed) = 2
    BY DEF Magic, Version
  <1> HIDE DEF head, date, end, signed
  <1>8. Covers(w, first + 2) /\ Len(w) = m + 2
        /\ Len(who) = m + 2 /\ who \in Seq(Nat)
    BY <1>2, <1>3, EntryCovers
  <1>9. Covers(d, date) /\ Len(d) = n + 2
        /\ Len(when) = n + 2 /\ when \in Seq(Nat)
    BY <1>2, <1>3, EntryCovers
  <1>10. Covers(s, end) /\ Len(s) = 3
    <2>1. Covers(s, end) /\ Len(s) = Len(<<sig>>) + 2
      BY <1>1, <1>3, EntryCovers, Zenon
    <2> HIDE DEF s
    <2>2. Len(<<sig>>) + 2 = 3
      BY <1>1
    <2> QED
      BY <2>1, <2>2
  <1> HIDE DEF w, d, s, who, when
  <1>11. Covers(head \o w, first) /\ Len(head \o w) = m + 4
    <2>1. Covers(w, first + Len(head))
      BY <1>6, <1>8
    <2>2. Covers(head \o w, first) /\ Len(head \o w) = Len(head) + Len(w)
      BY <1>6, <2>1, CoversBoth, Zenon
    <2> QED
      BY <1>6, <1>8, <2>2
  <1>12. Covers((head \o w) \o d, first) /\ Len((head \o w) \o d) = m + n + 6
    <2>1. Covers(d, first + Len(head \o w))
      <3>1. first + (m + 4) = date
        BY <1>3
      <3> QED
        BY <1>9, <1>11, <3>1
    <2>2. Covers((head \o w) \o d, first) /\ Len((head \o w) \o d) = Len(head \o w) + Len(d)
      BY <1>11, <2>1, CoversBoth, Zenon
    <2>3. (m + 4) + (n + 2) = m + n + 6
      OBVIOUS
    <2> QED
      BY <1>9, <1>11, <2>2, <2>3
  <1>13. Covers(((head \o w) \o d) \o s, first) /\ Len(((head \o w) \o d) \o s) = m + n + 9
    <2>1. Covers(s, first + Len((head \o w) \o d))
      <3>1. first + (m + n + 6) = end
        BY <1>3
      <3> QED
        BY <1>10, <1>12, <3>1
    <2>2. /\ Covers(((head \o w) \o d) \o s, first)
          /\ Len(((head \o w) \o d) \o s) = Len((head \o w) \o d) + Len(s)
      BY <1>12, <2>1, CoversBoth, Zenon
    <2>3. (m + n + 6) + 3 = m + n + 9
      OBVIOUS
    <2> QED
      BY <1>10, <1>12, <2>2, <2>3
  <1>14. Len((signed \o who) \o when) = m + n + 6
    <2>1. signed \o who \in Seq(Nat) /\ Len(signed \o who) = Len(signed) + Len(who)
      BY <1>8, <1>7, ConcatProperties, Zenon
    <2>2. Len((signed \o who) \o when) = Len(signed \o who) + Len(when)
      BY <1>9, <2>1, ConcatProperties, Zenon
    <2>3. PICK a \in Nat, b \in Nat, c \in Nat : a = Len(signed) /\ b = Len(who) /\ c = Len(when)
      BY <1>7, <1>8, <1>9
    <2> QED
      BY <1>7, <1>8, <1>9, <2>1, <2>2, <2>3
  <1> QED
    BY <1>2, <1>4, <1>5, <1>13, <1>14

---------------------------------------------------------------------------
(* Pages.                                                                  *)

\* A row's page, in the order of the rows.
LEMMA PageMonotone ==
    ASSUME NEW x \in Nat, NEW y \in Nat, x <= y
    PROVE  PageOf(x) \in Nat /\ PageOf(y) \in Nat /\ PageOf(x) <= PageOf(y)
  BY AreaAssumption DEF PageOf

\* A row of the area is on a page of it.
LEMMA AreaPage ==
    ASSUME NEW x \in 0 .. AreaEnd - 1
    PROVE  PageOf(x) \in 0 .. AreaPages - 1
  BY AreaAssumption DEF PageOf, AreaEnd

\* An instance where it fits lies in the area, its pages among the area's.
LEMMA PagesIn ==
    ASSUME NEW first, NEW values, Fits(first, values), InstanceRowCount(values) \in Nat \ {0},
           NEW x \in first .. first + InstanceRowCount(values) - 1
    PROVE  /\ x \in 0 .. AreaEnd - 1
           /\ PageOf(x) \in PagesOf(first, values)
           /\ PagesOf(first, values) \subseteq 0 .. AreaPages - 1
           /\ PageOf(first) \in Int
           /\ PageOf(first + InstanceRowCount(values) - 1) \in Int
  <1>1. PICK n \in Nat \ {0} : n = InstanceRowCount(values)
    OBVIOUS
  <1>2. AreaEnd \in Int
    BY AreaAssumption DEF AreaEnd
  <1>3. first \in 0 .. AreaEnd - 1 /\ first + n <= AreaEnd /\ x \in first .. first + n - 1
    BY <1>1 DEF Fits
  <1>4. PICK last \in 0 .. AreaEnd - 1 : last = first + n - 1
    BY <1>1, <1>2, <1>3
  <1>5. x \in 0 .. AreaEnd - 1 /\ first <= x /\ x <= last
    BY <1>1, <1>2, <1>3, <1>4
  <1>6. /\ PageOf(first) <= PageOf(x) /\ PageOf(x) <= PageOf(last)
        /\ PageOf(first) \in 0 .. AreaPages - 1 /\ PageOf(last) \in 0 .. AreaPages - 1
        /\ PageOf(x) \in 0 .. AreaPages - 1
    <2>1. first \in Nat /\ x \in Nat /\ last \in Nat
      BY <1>2, <1>3, <1>4, <1>5
    <2> QED
      BY <1>3, <1>4, <1>5, <2>1, PageMonotone, AreaPage
  <1>7. PagesOf(first, values) = PageOf(first) .. PageOf(last)
    BY <1>1, <1>4 DEF PagesOf
  <1>8. PagesOf(first, values) \subseteq 0 .. AreaPages - 1
    BY <1>6, <1>7, AreaAssumption
  <1> QED
    BY <1>1, <1>4, <1>5, <1>6, <1>7, <1>8

---------------------------------------------------------------------------
(* What a row to write must be for the chip to take it.                    *)

Takes(w) ==
    /\ w.row \in Rows
    /\ PageLocking(w.row) \notin LocksIn(otp)
    /\ w.row \in BootRows \/ IsUnwritten(otp[w.row])

\* check_locks looks at the lock of every row to write.
LEMMA UnlockedTakes ==
    ASSUME NEW plan, NEW checked, Unlocked(checked), NEW at \in ToWrite(plan),
           plan[at[1]] = checked[at[1]]
    PROVE  PageLocking(plan[at[1]][at[2]].row) \notin LocksIn(otp)
  <1>1. at[1] \in Steps /\ at[2] \in DOMAIN plan[at[1]] /\ ~Holding(plan[at[1]][at[2]])
    BY LeftIn
  <1>2. PICK k \in Steps : at \in {<<k, i>> : i \in {j \in DOMAIN plan[k] : ~Holding(plan[k][j])}}
    BY DEF ToWrite
  <1>3. at[1] = k
    BY <1>2
  <1>4. at \in ToWrite(checked)
    BY <1>2, <1>3 DEF ToWrite
  <1>5. ~IsLock(otp[LockRow(PageLocking(plan[at[1]][at[2]].row))])
    BY <1>4 DEF Unlocked
  <1> QED
    BY <1>5 DEF LocksIn

\* SizeAccepted: FLASH_DEVINFO is free or holds its value; the copies of
\* BOOT_FLAGS0 are written over what they hold.
LEMMA SizeTakes ==
    ASSUME NEW req \in Requests, SizeAccepted(req), NEW k \in Steps,
           NEW i \in DOMAIN SizePlan(req)[k], ~Holding(SizePlan(req)[k][i])
    PROVE  LET w == SizePlan(req)[k][i]
           IN  w.row \in Rows /\ (w.row \in BootRows \/ IsUnwritten(otp[w.row]))
  <1> DEFINE w == SizePlan(req)[k][i]
  <1>1. NoPlan[k] = <<>> /\ DOMAIN NoPlan = Steps /\ DOMAIN <<>> = {}
    BY DEF NoPlan
  <1>2. req.size # "M"
    BY <1>1 DEF SizePlan
  <1>3. SizePlan(req)[k] = IF k = BootFlags0 THEN BootFlagsPlan
                           ELSE IF k = FlashDevinfo THEN DevinfoPlan(BoardOf(req)) ELSE <<>>
    BY <1>1, <1>2 DEF SizePlan, FlashDevinfo, BootFlags0
  <1>4. CASE k = BootFlags0
    <2>1. i \in Copies /\ w.row = <<"boot", i>>
      BY <1>3, <1>4 DEF BootFlagsPlan, Write
    <2>2. w.row \in BootRows
      BY <2>1 DEF BootRows
    <2> QED
      BY <2>2, AllRows
  <1>5. CASE k = FlashDevinfo /\ k # BootFlags0
    <2>1. w.row = Devinfo /\ w.want = Exactly(DevinfoValue(BoardOf(req)))
      BY <1>3, <1>5 DEF DevinfoPlan, Write
    <2>2. Writable(otp[Devinfo], DevinfoValue(BoardOf(req)))
      BY <1>2, RequestsAssumption DEF SizeAccepted
    <2> HIDE DEF w
    <2>3. IsUnwritten(otp[Devinfo])
      BY <2>1, <2>2 DEF Writable, Holds, Holding, w
    <2> QED
      BY <2>1, <2>3, AllRows DEF w
  <1> QED
    BY <1>1, <1>3, <1>4, <1>5

\* WhiteLabelAccepted: the rows of the white label are free or hold theirs.
LEMMA LabelTakes ==
    ASSUME NEW board, WhiteLabelAccepted(board), NEW i \in 1 .. 3,
           ~Holding(WhiteLabelPlan(board)[i])
    PROVE  LET w == WhiteLabelPlan(board)[i] IN w.row \in Rows /\ IsUnwritten(otp[w.row])
  <1> DEFINE w == WhiteLabelPlan(board)[i]
  <1>1. w.row \in LabelRows /\ w.want = Exactly(LabelValue(board, w.row))
    BY DEF WhiteLabelPlan, LabelRows, Write
  <1> HIDE DEF w
  <1>2. ~Holding(w)
    BY DEF w
  <1>3. IsUnwritten(otp[w.row])
    BY <1>1, <1>2 DEF WhiteLabelAccepted, Writable, Holds, Holding
  <1>4. w.row \in Rows
    BY <1>1, AllRows
  <1> QED
    BY <1>3, <1>4 DEF w

\* USB_BOOT_FLAGS and its copies are blank or hold theirs.
LEMMA UsbTakes ==
    ASSUME NEW board, WhiteLabelAccepted(board), NEW i \in Copies, ~Holding(UsbPlan[i])
    PROVE  UsbPlan[i].row \in Rows /\ IsUnwritten(otp[UsbPlan[i].row])
  <1> DEFINE w == UsbPlan[i]
  <1>1. w.row \in UsbRows /\ w.want = Exactly(Flag)
    BY DEF UsbPlan, UsbRows, Write
  <1> HIDE DEF w
  <1>2. ~Holding(w)
    BY DEF w
  <1>3. IsUnwritten(otp[w.row])
    BY <1>1, <1>2 DEF WhiteLabelAccepted, IsUnwritten, Blank, Holding
  <1>4. w.row \in Rows
    BY <1>1, AllRows
  <1> QED
    BY <1>3, <1>4 DEF w

---------------------------------------------------------------------------
(* The instance and its locks.                                             *)

\* Values that were accepted are rows, and their signature is one.
LEMMA ValuesAccepted ==
    ASSUME NEW area, NEW req \in Requests, DateAccepted(Values(area, req))
    PROVE  LET values == Values(area, req)
           IN  /\ values.who \in Seq(Nat) /\ values.date \in Seq(Nat)
               /\ Signature(TableKey, values) \in Nat
  <1> DEFINE values == Values(area, req)
  <1>1. values.who = req.who /\ values.who \in Seq(Nat) /\ values.who[1] \in BoardIds
    BY RequestsAssumption DEF Values, BoardOf
  <1>2. PICK d \in Nat : values.date = <<d>>
    BY DatesAssumption DEF DateAccepted
  <1> HIDE DEF values
  <1>3. values.date \in Seq(Nat) /\ values.date[1] = d
    BY <1>2
  <1>4. Len(values.who) > 1 => values.who[2] \in Nat
    BY <1>1, ElementOfSeq, LenProperties
  <1>5. PICK x \in Nat : x = IF Len(values.who) > 1 THEN values.who[2] ELSE 0
    BY <1>4
  <1>6. PICK b \in Nat : b = values.who[1]
    BY <1>1 DEF BoardIds
  <1>7. Signature(TableKey, values) = 1000 * 1 + 100 * d + 10 * b + x
    BY <1>3, <1>5, <1>6 DEF Signature, TableKey
  <1>8. Signature(TableKey, values) \in Nat
    BY <1>7
  <1> QED
    BY <1>1, <1>3, <1>8 DEF values

\* The instance a run plans.
PlannedInstance(first, values) ==
    /\ values.who \in Seq(Nat) /\ values.date \in Seq(Nat)
    /\ Signature(TableKey, values) \in Nat
    /\ FitsAt(first, values)
    /\ LocksAccepted(first, values)

\* Its rows are those from its first on, a row to each write.
LEMMA InstanceRows ==
    ASSUME NEW first, NEW values, PlannedInstance(first, values)
    PROVE  LET plan == InstancePlan(first, values)
               count == InstanceRowCount(values)
           IN  /\ count \in Nat \ {0} /\ DOMAIN plan = 1 .. count
               /\ \A i \in 1 .. count : \E x \in first .. first + count - 1 : plan[i].row = AreaRow(x)
               /\ \A i, j \in 1 .. count : plan[i].row = plan[j].row => i = j
  <1> DEFINE sig == Signature(TableKey, values)
             writes == InstanceWrites(first, values, sig)
             plan == InstancePlan(first, values)
             count == InstanceRowCount(values)
  <1>1. first \in Int
    <2>1. AreaEnd \in Int
      BY AreaAssumption DEF AreaEnd
    <2> QED
      BY <2>1 DEF PlannedInstance, FitsAt, Fits
  <1>2. values.who \in Seq(Nat) /\ values.date \in Seq(Nat) /\ sig \in Nat
    BY DEF PlannedInstance
  <1>3. /\ Covers(writes, first) /\ Len(writes) = count
        /\ count = Len(values.who) + Len(values.date) + 9
    BY <1>1, <1>2, InstanceCovers
  <1>4. count \in Nat \ {0}
    <2>1. Len(values.who) \in Nat /\ Len(values.date) \in Nat
      BY <1>2, LenProperties
    <2>2. PICK m \in Nat, n \in Nat : m = Len(values.who) /\ n = Len(values.date)
      BY <2>1
    <2>3. count = m + n + 9
      BY <1>3, <2>2
    <2> HIDE DEF count
    <2> QED
      BY <2>3
  <1>5. plan = [i \in DOMAIN writes |-> Write(AreaRow(writes[i][1]), Exactly(writes[i][2]))]
    BY DEF InstancePlan
  <1> HIDE DEF writes, plan, count, sig
  <1>6. DOMAIN writes = 1 .. count
    BY <1>3, LenProperties DEF Covers, Writes
  <1>7. \A i \in 1 .. count : plan[i].row = AreaRow(writes[i][1])
    BY <1>5, <1>6 DEF Write
  <1>8. DOMAIN plan = 1 .. count
    BY <1>5, <1>6
  <1>9. ASSUME NEW i \in 1 .. count
        PROVE  \E x \in first .. first + count - 1 : plan[i].row = AreaRow(x)
    BY <1>3, <1>7 DEF Covers
  <1>10. ASSUME NEW i \in 1 .. count, NEW j \in 1 .. count, plan[i].row = plan[j].row
         PROVE  i = j
    <2>1. AreaRow(writes[i][1])[2] = AreaRow(writes[j][1])[2]
      BY <1>7, <1>10
    <2>2. writes[i][1] = writes[j][1]
      BY <2>1 DEF AreaRow
    <2> QED
      BY <1>3, <2>2 DEF Covers
  <1> QED
    BY <1>4, <1>8, <1>9, <1>10 DEF plan, count

\* FitsAt and LocksAccepted: a row of it still to write is free, on a page
\* whose lock is not written.
LEMMA InstanceTakes ==
    ASSUME NEW first, NEW values, PlannedInstance(first, values),
           NEW i \in DOMAIN InstancePlan(first, values),
           ~Holding(InstancePlan(first, values)[i])
    PROVE  Takes(InstancePlan(first, values)[i])
  <1> DEFINE plan == InstancePlan(first, values)
             w == plan[i]
             count == InstanceRowCount(values)
  <1>1. count \in Nat \ {0} /\ DOMAIN plan = 1 .. count
    BY InstanceRows
  <1>2. PICK x \in first .. first + count - 1 : w.row = AreaRow(x)
    BY <1>1, InstanceRows
  <1>3. Fits(first, values)
    BY DEF PlannedInstance, FitsAt
  <1>4. /\ x \in 0 .. AreaEnd - 1 /\ PageOf(x) \in PagesOf(first, values)
        /\ PagesOf(first, values) \subseteq 0 .. AreaPages - 1
    BY <1>1, <1>3, PagesIn
  <1>5. Writable(otp[w.row], w.want.value)
    BY DEF PlannedInstance, FitsAt
  <1>6. PICK v : w.want = Exactly(v)
    BY DEF InstancePlan, Write
  <1>7. \/ otp[LockRow(PageOf(x))] = Blank
        \/ (PageLocking(w.row) = PageOf(x) => Holding(w))
    BY <1>4 DEF PlannedInstance, LocksAccepted
  <1> HIDE DEF w
  <1>8. ~Holding(w)
    BY DEF w
  <1>9. w.row \in Rows
    BY <1>2, <1>4 DEF Rows
  <1>10. PageLocking(w.row) = PageOf(x)
    BY <1>2 DEF PageLocking, AreaRow
  <1>11. IsUnwritten(otp[w.row])
    BY <1>5, <1>6, <1>8 DEF Writable, Holds, Exactly, Holding
  <1>12. PageOf(x) \notin LocksIn(otp)
    BY <1>7, <1>8, <1>10 DEF LocksIn, IsLock, Blank, LockWord
  <1> QED
    BY <1>9, <1>10, <1>11, <1>12 DEF Takes, w

\* The locks are those of its pages, and one to write is blank.
LEMMA LockRows ==
    ASSUME NEW first, NEW values, PlannedInstance(first, values),
           NEW i \in DOMAIN LockPlan(first, values)
    PROVE  LET w == LockPlan(first, values)[i]
               p == PageOf(first) + i - 1
           IN  /\ p \in PagesOf(first, values) /\ p \in 0 .. LabelPage
               /\ i \in Nat /\ PageOf(first) \in Int
               /\ w.row = LockRow(p) /\ w.want = Exactly(LockWord)
  <1> DEFINE p == PageOf(first) + i - 1
             last == PageOf(first + InstanceRowCount(values) - 1)
  <1>1. InstanceRowCount(values) \in Nat \ {0}
    BY InstanceRows
  <1>2. Fits(first, values)
    BY DEF PlannedInstance, FitsAt
  <1>3. first \in first .. first + InstanceRowCount(values) - 1
    <2>1. AreaEnd \in Int
      BY AreaAssumption DEF AreaEnd
    <2>2. first \in Int
      BY <1>2, <2>1 DEF Fits
    <2> QED
      BY <1>1, <2>2
  <1>4. /\ PagesOf(first, values) \subseteq 0 .. AreaPages - 1
        /\ PageOf(first) \in Int /\ last \in Int
        /\ PagesOf(first, values) = PageOf(first) .. last
    BY <1>1, <1>2, <1>3, PagesIn DEF PagesOf
  <1>5. i \in 1 .. Cardinality(PagesOf(first, values))
    BY DEF LockPlan
  <1> HIDE DEF last
  <1>6. Cardinality(PagesOf(first, values)) = IF PageOf(first) > last THEN 0 ELSE last - PageOf(first) + 1
    BY <1>4, FS_Interval
  <1>7. PICK a \in Int : a = PageOf(first)
    BY <1>4
  <1>8. i \in Nat /\ a + i - 1 \in a .. last
    BY <1>4, <1>5, <1>6, <1>7
  <1>9. p \in PagesOf(first, values)
    BY <1>4, <1>7, <1>8
  <1>10. p \in 0 .. LabelPage
    BY <1>4, <1>9, AreaAssumption DEF LabelPage
  <1>11. LockPlan(first, values)[i] = Write(LockRow(p), Exactly(LockWord))
    BY <1>5 DEF LockPlan
  <1> QED
    BY <1>4, <1>8, <1>9, <1>10, <1>11 DEF Write

LEMMA LockTakes ==
    ASSUME NEW first, NEW values, PlannedInstance(first, values),
           NEW i \in DOMAIN LockPlan(first, values),
           ~Holding(LockPlan(first, values)[i])
    PROVE  Takes(LockPlan(first, values)[i])
  <1> DEFINE w == LockPlan(first, values)[i]
             p == PageOf(first) + i - 1
  <1>1. /\ p \in PagesOf(first, values) /\ p \in 0 .. LabelPage
        /\ w.row = LockRow(p) /\ w.want = Exactly(LockWord)
    BY LockRows
  <1>2. otp[LockRow(p)] = Blank \/ otp[LockRow(p)] = Exactly(LockWord)
    BY <1>1 DEF PlannedInstance, LocksAccepted
  <1> HIDE DEF w, p
  <1>3. ~Holding(w)
    BY DEF w
  <1>4. otp[w.row] = Blank
    BY <1>1, <1>2, <1>3 DEF Holding
  <1>5. w.row \in Rows
    BY <1>1 DEF Rows
  <1>6. PageLocking(w.row) = p
    BY <1>1 DEF PageLocking, LockRow
  <1>7. p \notin LocksIn(otp)
    BY <1>1, <1>4 DEF LocksIn, IsLock, Blank, LockWord
  <1> QED
    BY <1>4, <1>5, <1>6, <1>7 DEF Takes, IsUnwritten, Blank, w

---------------------------------------------------------------------------
(* Whole plans.                                                            *)

\* A row's part is that of one step.
OfStep(k, row) ==
    /\ row[1] = "devinfo" <=> k = FlashDevinfo
    /\ row[1] = "area" <=> k = Instance
    /\ row[1] = "lock" <=> k = Locks
    /\ row[1] \in {"label", "addr"} <=> k = WhiteLabel
    /\ row[1] = "usb" <=> k = UsbBootFlags
    /\ row[1] = "boot" <=> k = BootFlags0

\* No row is in a plan twice, and each to write is one the chip takes.
StepGood(plan, k) ==
    /\ \A i \in DOMAIN plan[k] : OfStep(k, plan[k][i].row)
    /\ \A i, j \in DOMAIN plan[k] : plan[k][i].row = plan[k][j].row => i = j
    /\ \A i \in DOMAIN plan[k] : ~Holding(plan[k][i]) => Takes(plan[k][i])

LEMMA GoodLeft ==
    ASSUME NEW plan, \A k \in Steps : StepGood(plan, k)
    PROVE  /\ \A at \in ToWrite(plan) : Takes(plan[at[1]][at[2]])
           /\ \A a, b \in ToWrite(plan) : plan[a[1]][a[2]].row = plan[b[1]][b[2]].row => a = b
  <1>1. ASSUME NEW at \in ToWrite(plan)
        PROVE  /\ at = <<at[1], at[2]>> /\ at[1] \in Steps /\ at[2] \in DOMAIN plan[at[1]]
               /\ ~Holding(plan[at[1]][at[2]])
    <2>1. PICK k \in Steps : at \in {<<k, i>> : i \in {j \in DOMAIN plan[k] : ~Holding(plan[k][j])}}
      BY DEF ToWrite
    <2>2. PICK i \in DOMAIN plan[k] : at = <<k, i>> /\ ~Holding(plan[k][i])
      BY <2>1
    <2> QED
      BY <2>2
  <1>2. ASSUME NEW at \in ToWrite(plan) PROVE Takes(plan[at[1]][at[2]])
    BY <1>1 DEF StepGood
  <1>3. ASSUME NEW a \in ToWrite(plan), NEW b \in ToWrite(plan),
               plan[a[1]][a[2]].row = plan[b[1]][b[2]].row
        PROVE  a = b
    <2>1. OfStep(a[1], plan[a[1]][a[2]].row) /\ OfStep(b[1], plan[a[1]][a[2]].row)
      BY <1>1, <1>3 DEF StepGood
    <2>2. a[1] = b[1]
      BY <1>1, <2>1 DEF OfStep, Steps, FlashDevinfo, Instance, Locks, WhiteLabel, UsbBootFlags,
         BootFlags0
    <2>3. a[2] = b[2]
      BY <1>1, <1>3, <2>2 DEF StepGood
    <2> QED
      BY <1>1, <2>2, <2>3
  <1> QED
    BY <1>2, <1>3

\* A row that check_locks looked at and that is free is one the chip takes.
LEMMA CheckedTakes ==
    ASSUME NEW plan, Unlocked(plan), NEW k \in Steps, NEW i \in DOMAIN plan[k],
           ~Holding(plan[k][i]), plan[k][i].row \in Rows,
           plan[k][i].row \in BootRows \/ IsUnwritten(otp[plan[k][i].row])
    PROVE  Takes(plan[k][i])
  <1> DEFINE at == <<k, i>>
  <1>1. at \in ToWrite(plan)
    BY DEF ToWrite
  <1>2. at[1] = k /\ at[2] = i
    OBVIOUS
  <1> HIDE DEF at
  <1>3. PageLocking(plan[k][i].row) \notin LocksIn(otp)
    BY <1>1, <1>2, UnlockedTakes
  <1> QED
    BY <1>3 DEF Takes

\* The size's two steps.
LEMMA SizeApart ==
    ASSUME NEW req, NEW k \in Steps
    PROVE  /\ \A i \in DOMAIN SizePlan(req)[k] : OfStep(k, SizePlan(req)[k][i].row)
           /\ \A i, j \in DOMAIN SizePlan(req)[k] :
                SizePlan(req)[k][i].row = SizePlan(req)[k][j].row => i = j
  <1> DEFINE steps == SizePlan(req)[k]
  <1>1. DOMAIN NoPlan = Steps /\ NoPlan[k] = <<>> /\ DOMAIN <<>> = {}
    BY DEF NoPlan
  <1>2. steps = <<>> \/ (k = FlashDevinfo /\ steps = DevinfoPlan(BoardOf(req)))
                     \/ (k = BootFlags0 /\ steps = BootFlagsPlan)
    BY <1>1 DEF SizePlan, FlashDevinfo, BootFlags0
  <1> HIDE DEF steps
  <1>3. CASE steps = <<>>
    BY <1>1, <1>3 DEF steps
  <1>4. CASE k = FlashDevinfo /\ steps = DevinfoPlan(BoardOf(req))
    <2>1. DOMAIN steps = {1} /\ steps[1].row = <<"devinfo", 0>>
      BY <1>4 DEF DevinfoPlan, Write, Devinfo
    <2> QED
      BY <1>4, <2>1 DEF OfStep, steps, FlashDevinfo, Instance, Locks, WhiteLabel, UsbBootFlags,
         BootFlags0
  <1>5. CASE k = BootFlags0 /\ steps = BootFlagsPlan
    <2>1. DOMAIN steps = Copies /\ \A i \in Copies : steps[i].row = <<"boot", i>>
      BY <1>5 DEF BootFlagsPlan, Write
    <2> QED
      BY <1>5, <2>1 DEF OfStep, steps, FlashDevinfo, Instance, Locks, WhiteLabel, UsbBootFlags,
         BootFlags0
  <1> QED
    BY <1>2, <1>3, <1>4, <1>5

\* A size that was accepted has a good plan.
LEMMA SizeGood ==
    ASSUME NEW req \in Requests, SizeAccepted(req), Unlocked(SizePlan(req)), NEW k \in Steps
    PROVE  StepGood(SizePlan(req), k)
  <1>1. ASSUME NEW i \in DOMAIN SizePlan(req)[k], ~Holding(SizePlan(req)[k][i])
        PROVE  Takes(SizePlan(req)[k][i])
    BY <1>1, SizeTakes, CheckedTakes
  <1> QED
    BY <1>1, SizeApart DEF StepGood

\* So has the rest of a commissioning without its instance.
LEMMA LabelledGood ==
    ASSUME NEW req \in Requests, SizeAccepted(req), WhiteLabelAccepted(BoardOf(req)),
           Unlocked(LabelledPlan(req)), NEW k \in Steps
    PROVE  StepGood(LabelledPlan(req), k)
  <1> DEFINE plan == LabelledPlan(req)
             label == WhiteLabelPlan(BoardOf(req))
  <1>1. DOMAIN SizePlan(req) = Steps
    BY DEF SizePlan, NoPlan
  <1>2. plan[k] = IF k = UsbBootFlags THEN UsbPlan
                  ELSE IF k = WhiteLabel THEN label ELSE SizePlan(req)[k]
    BY <1>1 DEF LabelledPlan
  <1> HIDE DEF plan, label
  <1>3. CASE k = UsbBootFlags
    <2>1. plan[k] = UsbPlan
      BY <1>2, <1>3
    <2>2. DOMAIN UsbPlan = Copies /\ \A i \in Copies : UsbPlan[i].row = <<"usb", i>>
      BY DEF UsbPlan, Write
    <2>3. ASSUME NEW i \in DOMAIN plan[k], ~Holding(plan[k][i]) PROVE Takes(plan[k][i])
      <3>1. plan[k][i].row \in Rows /\ IsUnwritten(otp[plan[k][i].row])
        BY <2>1, <2>2, <2>3, UsbTakes
      <3> QED
        BY <2>3, <3>1, CheckedTakes DEF plan
    <2> QED
      BY <1>3, <2>1, <2>2, <2>3 DEF StepGood, OfStep, plan, FlashDevinfo, Instance, Locks,
         WhiteLabel, UsbBootFlags, BootFlags0
  <1>4. CASE k = WhiteLabel
    <2>1. plan[k] = label
      BY <1>2, <1>4 DEF WhiteLabel, UsbBootFlags
    <2>2. /\ DOMAIN label = 1 .. 3
          /\ label[1].row = <<"label", 1>> /\ label[2].row = <<"label", 2>>
          /\ label[3].row = <<"addr", 0>>
      BY DEF label, WhiteLabelPlan, Write
    <2>3. ASSUME NEW i \in DOMAIN plan[k], ~Holding(plan[k][i]) PROVE Takes(plan[k][i])
      <3>1. plan[k][i].row \in Rows /\ IsUnwritten(otp[plan[k][i].row])
        BY <2>1, <2>2, <2>3, LabelTakes DEF label
      <3> QED
        BY <2>3, <3>1, CheckedTakes DEF plan
    <2>4. \A i \in DOMAIN label : i = 1 \/ i = 2 \/ i = 3
      BY <2>2
    <2>5. \A i \in DOMAIN label : label[i].row[1] \in {"label", "addr"}
      BY <2>2, <2>4
    <2>6. \A i, j \in DOMAIN label : label[i].row = label[j].row => i = j
      BY <2>2, <2>4
    <2> QED
      BY <1>4, <2>1, <2>3, <2>5, <2>6 DEF StepGood, OfStep, plan, FlashDevinfo, Instance, Locks,
         WhiteLabel, UsbBootFlags, BootFlags0
  <1>5. CASE k \notin {UsbBootFlags, WhiteLabel}
    <2>1. plan[k] = SizePlan(req)[k]
      BY <1>2, <1>5
    <2>2. ASSUME NEW i \in DOMAIN plan[k], ~Holding(plan[k][i]) PROVE Takes(plan[k][i])
      <3>1. plan[k][i].row \in Rows /\ (plan[k][i].row \in BootRows \/ IsUnwritten(otp[plan[k][i].row]))
        BY <2>1, <2>2, SizeTakes
      <3> QED
        BY <2>2, <3>1, CheckedTakes DEF plan
    <2> QED
      BY <2>1, <2>2, SizeApart DEF StepGood, plan
  <1> QED
    BY <1>3, <1>4, <1>5

\* And so has the whole.
LEMMA CommissionGood ==
    ASSUME NEW req \in Requests, SizeAccepted(req), WhiteLabelAccepted(BoardOf(req)),
           Unlocked(LabelledPlan(req)), NEW first, NEW values, PlannedInstance(first, values),
           NEW k \in Steps
    PROVE  StepGood(CommissionPlan(req, first, values), k)
  <1> DEFINE plan == CommissionPlan(req, first, values)
             rows == InstancePlan(first, values)
             locks == LockPlan(first, values)
  <1>1. DOMAIN LabelledPlan(req) = Steps
    BY DEF LabelledPlan, SizePlan, NoPlan
  <1>2. plan[k] = IF k = Locks THEN locks ELSE IF k = Instance THEN rows ELSE LabelledPlan(req)[k]
    BY <1>1 DEF CommissionPlan
  <1> HIDE DEF plan
  <1>3. CASE k = Locks
    <2>1. plan[k] = locks
      BY <1>2, <1>3
    <2>2. ASSUME NEW i \in DOMAIN locks
          PROVE  i \in Nat /\ locks[i].row = LockRow(PageOf(first) + i - 1) /\ PageOf(first) \in Int
      BY LockRows
    <2>3. ASSUME NEW i \in DOMAIN locks, ~Holding(locks[i]) PROVE Takes(locks[i])
      BY <2>3, LockTakes
    <2> HIDE DEF locks
    <2>4. ASSUME NEW i \in DOMAIN locks, NEW j \in DOMAIN locks, locks[i].row = locks[j].row
          PROVE  i = j
      <3>1. PageOf(first) + i - 1 = PageOf(first) + j - 1
        BY <2>2, <2>4 DEF LockRow
      <3>2. PICK a \in Int : a = PageOf(first)
        BY <2>2
      <3> QED
        BY <2>2, <3>1, <3>2
    <2>5. \A i \in DOMAIN locks : locks[i].row[1] = "lock"
      BY <2>2 DEF LockRow
    <2> QED
      BY <1>3, <2>1, <2>3, <2>4, <2>5 DEF StepGood, OfStep, plan, FlashDevinfo, Instance, Locks,
         WhiteLabel, UsbBootFlags, BootFlags0
  <1>4. CASE k = Instance
    <2>1. plan[k] = rows
      BY <1>2, <1>4 DEF Instance, Locks
    <2>2. ASSUME NEW i \in DOMAIN rows, ~Holding(rows[i]) PROVE Takes(rows[i])
      BY <2>2, InstanceTakes
    <2>3. /\ \A i \in DOMAIN rows : \E x : rows[i].row = AreaRow(x)
          /\ \A i, j \in DOMAIN rows : rows[i].row = rows[j].row => i = j
      BY InstanceRows
    <2> HIDE DEF rows
    <2>4. \A i \in DOMAIN rows : rows[i].row[1] = "area"
      BY <2>3 DEF AreaRow
    <2> QED
      BY <1>4, <2>1, <2>2, <2>3, <2>4 DEF StepGood, OfStep, plan, FlashDevinfo, Instance, Locks,
         WhiteLabel, UsbBootFlags, BootFlags0
  <1>5. CASE k \notin {Locks, Instance}
    <2>1. plan[k] = LabelledPlan(req)[k]
      BY <1>2, <1>5
    <2> QED
      BY <2>1, LabelledGood DEF StepGood, plan
  <1> QED
    BY <1>3, <1>4, <1>5

---------------------------------------------------------------------------
(* Every row left to write is one the chip takes, through the whole run.   *)

\* The locks the last reset loaded are written.
LocksHold == locked \subseteq LocksIn(otp)

LeftTaken ==
    Active => \A at \in run.left : WriteAt(at).row \in Rows /\ ChipTakes(WriteAt(at))

\* No row is left twice: writing one leaves the others as they were.
LeftApart ==
    Active => \A a, b \in run.left : WriteAt(a).row = WriteAt(b).row => a = b

TInv == OtpForm /\ LocksHold /\ LeftTaken /\ LeftApart

LEMMA InitTaken == Init => TInv
  BY BoardsAssumption DEF Init, TInv, Idle, OtpForm, LocksHold, LeftTaken, LeftApart, Active

\* What prepare accepts, the chip takes.
LEMMA PrepareTaken ==
    ASSUME TInv, NEW req \in Requests, PrepareCommission(req) \/ PrepareSize(req)
    PROVE  TInv'
  <1> DEFINE plan == run'.plan
  <1>1. /\ UNCHANGED <<otp, locked>>
        /\ run'.left = ToWrite(plan)
        /\ \A k \in Steps : StepGood(plan, k)
    <2>1. CASE PrepareCommission(req)
      <3> DEFINE area   == Area(otp)
                 values == Values(area, req)
                 first  == Place(area, values)
      <3>1. /\ UNCHANGED <<otp, locked>>
            /\ plan = CommissionPlan(req, first, values)
            /\ run'.left = ToWrite(plan)
            /\ SizeAccepted(req) /\ WhiteLabelAccepted(BoardOf(req)) /\ Unlocked(LabelledPlan(req))
            /\ DateAccepted(values) /\ first # NoRow /\ LocksAccepted(first, values)
        BY <2>1 DEF PrepareCommission, CommissionAccepted
      <3> HIDE DEF area, plan
      <3>2. /\ values.who \in Seq(Nat) /\ values.date \in Seq(Nat)
            /\ Signature(TableKey, values) \in Nat
        BY <3>1, ValuesAccepted
      <3> HIDE DEF values
      <3>3. FitsAt(first, values)
        BY <3>1 DEF Place
      <3> HIDE DEF first
      <3>4. PlannedInstance(first, values)
        BY <3>1, <3>2, <3>3 DEF PlannedInstance
      <3> QED
        BY <3>1, <3>4, CommissionGood
    <2>2. CASE PrepareSize(req)
      <3>1. /\ UNCHANGED <<otp, locked>>
            /\ plan = SizePlan(req)
            /\ run'.left = ToWrite(plan)
            /\ SizeAccepted(req) /\ Unlocked(SizePlan(req))
        BY <2>2 DEF PrepareSize, SizeRequestAccepted, Idle
      <3> HIDE DEF plan
      <3> QED
        BY <3>1, SizeGood
    <2> QED
      BY <2>1, <2>2
  <1> HIDE DEF plan
  <1>2. /\ \A at \in ToWrite(plan) : Takes(plan[at[1]][at[2]])
        /\ \A a, b \in ToWrite(plan) : plan[a[1]][a[2]].row = plan[b[1]][b[2]].row => a = b
    BY <1>1, GoodLeft
  <1>3. OtpForm' /\ LocksHold'
    BY <1>1 DEF TInv, OtpForm, LocksHold, LocksIn, IsLock
  <1>4. ASSUME NEW at \in run'.left
        PROVE  WriteAt(at)'.row \in Rows /\ ChipTakes(WriteAt(at))'
    <2>1. Takes(WriteAt(at)')
      BY <1>1, <1>2 DEF WriteAt, plan
    <2> QED
      BY <1>1, <2>1 DEF Takes, ChipTakes, TInv, LocksHold
  <1>5. LeftTaken'
    BY <1>4 DEF LeftTaken
  <1>6. LeftApart'
    BY <1>1, <1>2 DEF LeftApart, WriteAt, plan
  <1> QED
    BY <1>3, <1>5, <1>6 DEF TInv

\* A row the chip takes is no lock that a reset has loaded.
LEMMA LocksStay ==
    ASSUME TInv, UNCHANGED locked, NEW w, ChipTakes(w), NEW r, otp' = [otp EXCEPT ![w.row] = r]
    PROVE  OtpForm' /\ LocksHold'
  <1>1. OtpForm'
    BY DEF TInv, OtpForm
  <1>2. ASSUME NEW p \in locked PROVE p \in LocksIn(otp')
    <2>1. p \in 0 .. LabelPage /\ otp[LockRow(p)].value = LockWord
      BY DEF TInv, LocksHold, LocksIn, IsLock
    <2>2. LockRow(p) \in Rows
      BY <2>1 DEF Rows
    <2>3. LockRow(p) # w.row
      <3>1. LockRow(p) \notin BootRows
        BY Apart
      <3> QED
        BY <2>1, <3>1 DEF ChipTakes, IsUnwritten, LockWord
    <2>4. otp'[LockRow(p)] = otp[LockRow(p)]
      BY <2>2, <2>3 DEF TInv, OtpForm
    <2> QED
      BY <2>1, <2>4 DEF LocksIn, IsLock
  <1> QED
    BY <1>1, <1>2 DEF LocksHold, LocksIn, IsLock

\* Ending the run leaves nothing to write.
LEMMA IdleTaken ==
    ASSUME OtpForm', LocksHold', run'.pc \in {"idle", "done"}
    PROVE  TInv'
  BY DEF TInv, LeftTaken, LeftApart, Active

LEMMA WriteTaken == ASSUME TInv, NEW at, WriteRow(at) PROVE TInv'
  <1> DEFINE w == WriteAt(at)
             left == run.left \ {at}
  <1>1. /\ run.pc = "writing" /\ at \in run.left /\ ChipTakes(w)
        /\ otp' = [otp EXCEPT ![w.row] = w.want] /\ UNCHANGED locked
        /\ run' = [run EXCEPT !.left = @ \ {at}, !.step = at[1],
                              !.pc = IF run.left = {at} THEN "done" ELSE "writing"]
    BY DEF WriteRow, IsNext
  <1>2. OtpForm' /\ LocksHold'
    BY <1>1, LocksStay
  <1>3. CASE run'.pc = "done"
    BY <1>2, <1>3, IdleTaken
  <1>4. CASE run'.pc # "done"
    <2>1. run'.left \subseteq left /\ run'.plan = run.plan
      <3> DEFINE next == [run EXCEPT !.left = @ \ {at}, !.step = at[1],
                              !.pc = IF run.left = {at} THEN "done" ELSE "writing"]
      <3>1. next.left \subseteq left /\ next.plan = run.plan
        OBVIOUS
      <3> HIDE DEF next
      <3> QED
        BY <1>1, <3>1 DEF next
    <2>2. ASSUME NEW o \in left
          PROVE  /\ WriteAt(o).row \in Rows /\ ChipTakes(WriteAt(o))
                 /\ otp'[WriteAt(o).row] = otp[WriteAt(o).row]
      <3>1. WriteAt(o).row # w.row /\ WriteAt(o).row \in Rows /\ ChipTakes(WriteAt(o))
        BY <1>1 DEF TInv, LeftTaken, LeftApart, Active
      <3> HIDE DEF w
      <3> QED
        BY <1>1, <3>1 DEF TInv, OtpForm
    <2>3. \A o : WriteAt(o)' = WriteAt(o)
      BY <2>1 DEF WriteAt
    <2> HIDE DEF w, left
    <2>4. LeftTaken'
      BY <1>1, <2>1, <2>2, <2>3 DEF LeftTaken, ChipTakes, IsUnwritten
    <2>5. LeftApart'
      BY <1>1, <2>1, <2>3 DEF TInv, LeftApart, Active, left
    <2> QED
      BY <1>2, <2>4, <2>5 DEF TInv
  <1> QED
    BY <1>3, <1>4

\* A row that decays is no lock, and none still to write: it is written, or it
\* is the slot size, which no plan has.
LEMMA DecayTaken == ASSUME IInv, TInv, Decay PROVE TInv'
  <1>1. PICK row \in LabelRows \cup {Devinfo, SlotSize} :
          /\ row # SlotSize => ~IsUnwritten(otp[row])
          /\ otp' = [otp EXCEPT ![row].exact = FALSE]
    BY DEF Decay
  <1>2. UNCHANGED <<run, locked>>
    BY DEF Decay
  <1>3. row \in Rows
    BY AllRows
  <1>4. OtpForm' /\ \A x \in Rows : x # row => otp'[x] = otp[x]
    BY <1>1 DEF TInv, OtpForm
  <1>5. row \notin BootRows
    BY Apart
  <1>6. ASSUME Active, NEW at \in run.left
        PROVE  /\ WriteAt(at).row \in Rows /\ ChipTakes(WriteAt(at))
               /\ otp'[WriteAt(at).row] = otp[WriteAt(at).row]
    <2>1. WriteAt(at).row \in Rows /\ ChipTakes(WriteAt(at)) /\ WriteAt(at).row # SlotSize
      BY <1>6 DEF IInv, LeftPlanned, Planned, TInv, LeftTaken
    <2>2. WriteAt(at).row # row
      BY <1>1, <1>5, <2>1 DEF ChipTakes
    <2> QED
      BY <1>4, <2>1, <2>2
  <1>7. LocksHold'
    <2>1. ASSUME NEW p \in locked PROVE p \in LocksIn(otp')
      <3>1. p \in 0 .. LabelPage /\ IsLock(otp[LockRow(p)])
        BY DEF TInv, LocksHold, LocksIn
      <3>2. LockRow(p) \in Rows /\ LockRow(p) # row
        BY <3>1, Apart DEF Rows
      <3> QED
        BY <1>4, <3>1, <3>2 DEF LocksIn
    <2> QED
      BY <1>2, <2>1 DEF LocksHold, LocksIn, IsLock
  <1>8. LeftTaken'
    BY <1>2, <1>6 DEF TInv, LeftTaken, Active, WriteAt, ChipTakes
  <1>9. LeftApart'
    BY <1>2 DEF TInv, LeftApart, Active, WriteAt
  <1> QED
    BY <1>4, <1>7, <1>8, <1>9 DEF TInv

LEMMA QuietTaken ==
    ASSUME TInv, UNCHANGED otp, locked' \in {locked, LocksIn(otp)},
           \/ run'.pc \in {"idle", "done"}
           \/ UNCHANGED <<run, locked>>
           \/ /\ UNCHANGED locked
              /\ run.pc = "asked" /\ run' = [run EXCEPT !.pc = "writing"]
    PROVE  TInv'
  <1>1. OtpForm' /\ LocksHold'
    BY DEF TInv, OtpForm, LocksHold, LocksIn, IsLock
  <1>2. CASE run'.pc \in {"idle", "done"}
    BY <1>1, <1>2, IdleTaken
  <1>3. CASE UNCHANGED <<run, locked>>
    BY <1>1, <1>3 DEF TInv, LeftTaken, LeftApart, Active, WriteAt, ChipTakes
  <1>4. CASE UNCHANGED locked /\ run.pc = "asked" /\ run' = [run EXCEPT !.pc = "writing"]
    <2>1. run'.left = run.left /\ run'.plan = run.plan
      BY <1>4
    <2> QED
      BY <1>1, <1>4, <2>1 DEF TInv, LeftTaken, LeftApart, Active, WriteAt, ChipTakes
  <1> QED
    BY <1>2, <1>3, <1>4

LEMMA NextTaken == IInv /\ TInv /\ [Next]_vars => TInv'
  <1> SUFFICES ASSUME IInv, TInv, [Next]_vars PROVE TInv'
    OBVIOUS
  <1>1. ASSUME NEW req \in Requests, PrepareCommission(req) \/ PrepareSize(req) PROVE TInv'
    BY <1>1, PrepareTaken
  <1>2. CASE Decline
    BY <1>2, QuietTaken DEF Decline, Idle
  <1>3. CASE Agree
    BY <1>3, QuietTaken DEF Agree, Idle
  <1>4. CASE AgreeReplyLost
    BY <1>4, QuietTaken DEF AgreeReplyLost, Idle
  <1>5. ASSUME NEW at \in run.left, CheckFails(at) PROVE TInv'
    BY <1>5, QuietTaken DEF CheckFails, Stopped, Idle
  <1>6. ASSUME NEW at \in run.left, WriteRow(at) PROVE TInv'
    BY <1>6, WriteTaken
  <1>7. ASSUME NEW at \in run.left, WriteInterrupted(at) PROVE TInv'
    <2>1. run'.pc = "idle" /\ UNCHANGED locked
      BY <1>7 DEF WriteInterrupted, Stopped, Idle
    <2>2. CASE UNCHANGED otp
      BY <2>1, <2>2, QuietTaken
    <2>3. CASE ChipTakes(WriteAt(at)) /\ otp' = [otp EXCEPT ![WriteAt(at).row] = WriteAt(at).want]
      <3>1. OtpForm' /\ LocksHold'
        BY <2>1, <2>3, LocksStay
      <3> QED
        BY <2>1, <3>1, IdleTaken
    <2> QED
      BY <1>7, <2>2, <2>3 DEF WriteInterrupted
  <1>8. ASSUME NEW at \in run.left, WriteDamaged(at) PROVE TInv'
    <2>1. run'.pc = "idle" /\ UNCHANGED locked /\ ChipTakes(WriteAt(at))
      BY <1>8 DEF WriteDamaged, Stopped, Idle
    <2>2. PICK v : otp' = [otp EXCEPT ![WriteAt(at).row] = [value |-> v, exact |-> FALSE]]
      BY <1>8 DEF WriteDamaged
    <2>3. OtpForm' /\ LocksHold'
      BY <2>1, <2>2, LocksStay
    <2> QED
      BY <2>1, <2>3, IdleTaken
  <1>9. CASE Decay
    BY <1>9, DecayTaken
  <1>10. CASE Reboot
    BY <1>10, QuietTaken DEF Reboot, Idle
  <1>11. CASE PowerCycle
    BY <1>11, QuietTaken DEF PowerCycle
  <1>12. CASE NextDay \/ ChangeKey
    BY <1>12, QuietTaken DEF NextDay, ChangeKey
  <1>13. CASE UNCHANGED vars
    BY <1>13, QuietTaken DEF vars
  <1> QED
    BY <1>1, <1>2, <1>3, <1>4, <1>5, <1>6, <1>7, <1>8, <1>9, <1>10, <1>11, <1>12, <1>13 DEF Next

\* What prepare read of the board is enough: in every run, on every board, the
\* chip takes each row of the plan, on whatever rows earlier runs have left.
THEOREM WritesAreTaken == Spec => []NoRefusedWrite
  <1>1. TInv => NoRefusedWrite
    BY DEF TInv, LeftTaken, NoRefusedWrite, Active
  <1> QED
    BY <1>1, InitInv, NextInv, InitTaken, NextTaken, PTL DEF Spec

---------------------------------------------------------------------------
(* Recursion over rows.                                                    *)

\* A number less than another, as the library has it.
LEMMA LessThan ==
    ASSUME NEW x \in Nat, NEW y \in Nat, x < y
    PROVE  <<x, y>> \in OpToRel(<, Nat)
  BY DEF OpToRel

\* A set of rows has a last one, from which to go backwards.
LEMMA Greatest ==
    ASSUME NEW n \in Nat, NEW T \in SUBSET (0 .. n), T # {}
    PROVE  \E x \in T : \A y \in T : y <= x
  <1> DEFINE U == {i \in Nat : n - i \in T}
  <1>1. U \subseteq Nat /\ U # {}
    <2>1. PICK x \in T : TRUE
      OBVIOUS
    <2>2. n - x \in Nat /\ n - (n - x) \in T
      BY <2>1
    <2> QED
      BY <2>2
  <1> HIDE DEF U
  <1>2. PICK i \in U : \A j \in U : ~ (<<j, i>> \in OpToRel(<, Nat))
    BY <1>1, NatLessThanWellFounded, WFMin
  <1>3. ASSUME NEW y \in T PROVE y <= n - i
    <2>1. PICK j \in U : j = n - y
      BY DEF U
    <2>2. i \in Nat /\ j \in Nat
      BY <1>1, <1>2
    <2>3. ~ (<<j, i>> \in OpToRel(<, Nat))
      BY <1>2, Zenon
    <2>4. ~(j < i)
      BY <2>2, <2>3, LessThan, Zenon
    <2> QED
      BY <2>1, <2>2, <2>4
  <1> QED
    BY <1>2, <1>3 DEF U

\* The values of the area's rows, and how much of it may have been read.
AreaRows(A) == A \in [0 .. AreaEnd - 1 -> Nat]
ReadTo(end) == end \in 1 .. AreaEnd /\ \E p \in 1 .. AreaPages : end = p * PageRows

---------------------------------------------------------------------------
(* Lists of entries.                                                       *)

\* What EntriesFrom does at a row, where list is what it does further on.
ListStep(rows, end, list, row) ==
    LET Ends(how, r) == [entries |-> <<>>, how |-> how, row |-> r, sig |-> NoRow]
    IN  IF row = end THEN Ends("terminated", row - 1)
        ELSE IF row + 1 = end THEN Ends("lost", row)
        ELSE IF rows[row] = NoKey /\ rows[row + 1] = 0 THEN Ends("terminated", row + 1)
        ELSE LET next == row + 2 + rows[row + 1]
             IN  IF next > end THEN Ends("lost", row)
                 ELSE LET rest == IF rows[row] = SigKey
                                    THEN [Ends("signature", next - 1) EXCEPT !.sig = row]
                                    ELSE list[next]
                      IN  [rest EXCEPT !.entries = <<Entry(rows, row)>> \o @]

IsList(f, A, end, first) == f = [row \in first .. end |-> ListStep(A, end, f, row)]

\* An entry looks only at what is read further on.
LEMMA ListAhead ==
    ASSUME NEW A, NEW end \in Nat, NEW f, NEW g, NEW row \in 0 .. end,
           row + 1 < end => A[row + 1] \in Nat,
           \A next \in row + 1 .. end : f[next] = g[next]
    PROVE  ListStep(A, end, f, row) = ListStep(A, end, g, row)
  <1> DEFINE next == row + 2 + A[row + 1]
  <1>1. CASE row = end \/ row + 1 = end
    BY <1>1 DEF ListStep
  <1>2. CASE row # end /\ row + 1 # end
    <2>1. next \in Nat /\ (next <= end => next \in row + 1 .. end)
      BY <1>2
    <2>2. next <= end => f[next] = g[next]
      BY <2>1
    <2>3. CASE next > end
      BY <1>2, <2>3, Zenon DEF ListStep
    <2>4. CASE ~(next > end)
      <3>1. f[next] = g[next]
        BY <2>1, <2>2, <2>4
      <3> QED
        BY <1>2, <2>4, <3>1, Zenon DEF ListStep
    <2> QED
      BY <2>3, <2>4
  <1> QED
    BY <1>1, <1>2

\* So EntriesFrom is defined, at every row.
LEMMA ListDefined ==
    ASSUME NEW A, AreaRows(A), NEW end \in 1 .. AreaEnd, NEW first \in 0 .. end
    PROVE  \E f : IsList(f, A, end, first) /\ EntriesFrom(A, end, first) = f[first]
  <1> DEFINE Has(k) == \E f : IsList(f, A, end, k)
             T == {k \in 0 .. end : ~Has(k)}
  <1>0. end \in Nat /\ AreaEnd \in Int /\ \A r \in 0 .. end - 1 : A[r] \in Nat
    BY AreaAssumption DEF AreaEnd, AreaRows
  <1>1. ASSUME NEW k \in 0 .. end, k < end => Has(k + 1) PROVE Has(k)
    <2>1. PICK f : k < end => IsList(f, A, end, k + 1)
      BY <1>1
    <2> DEFINE g == [row \in k .. end |-> IF row = k THEN ListStep(A, end, f, k) ELSE f[row]]
    <2>2. ASSUME NEW row \in k .. end PROVE g[row] = ListStep(A, end, g, row)
      <3>1. \A next \in row + 1 .. end : f[next] = g[next]
        BY <1>0
      <3>2. row \in 0 .. end /\ (row + 1 < end => A[row + 1] \in Nat)
        BY <1>0
      <3>3. ListStep(A, end, f, row) = ListStep(A, end, g, row)
        <4> HIDE DEF g
        <4> QED
          BY <1>0, <3>1, <3>2, ListAhead
      <3>4. g[row] = ListStep(A, end, f, row)
        <4>1. CASE row = k
          BY <4>1
        <4>2. CASE row # k
          <5>1. k < end /\ row \in k + 1 .. end
            BY <4>2, <1>0
          <5>2. f[row] = ListStep(A, end, f, row)
            BY <2>1, <5>1 DEF IsList
          <5> QED
            BY <4>2, <5>2
        <4> QED
          BY <4>1, <4>2
      <3> QED
        BY <3>3, <3>4
    <2>3. IsList(g, A, end, k)
      <3>1. g = [row \in k .. end |-> g[row]]
        OBVIOUS
      <3> HIDE DEF g
      <3> QED
        BY <2>2, <3>1 DEF IsList
    <2> HIDE DEF g
    <2> QED
      BY <2>3
  <1> HIDE DEF Has
  <1>2. T = {}
    <2> SUFFICES ASSUME T # {} PROVE FALSE
      OBVIOUS
    <2>1. PICK k \in T : \A j \in T : j <= k
      <3>1. T \in SUBSET (0 .. end)
        OBVIOUS
      <3> HIDE DEF T
      <3> QED
        BY <1>0, <3>1, Greatest
    <2>2. k < end => Has(k + 1)
      BY <1>0, <2>1
    <2> QED
      BY <1>1, <2>1, <2>2
  <1>3. Has(first)
    BY <1>2
  <1>4. PICK f : f = (CHOOSE g : IsList(g, A, end, first))
    OBVIOUS
  <1>5. IsList(f, A, end, first)
    BY <1>3, <1>4 DEF Has
  <1>6. EntriesFrom(A, end, first) = f[first]
    <2>1. f = (CHOOSE g : g = [row \in first .. end |-> ListStep(A, end, g, row)])
      BY <1>4 DEF IsList
    <2> QED
      BY <2>1, Zenon DEF EntriesFrom, ListStep
  <1> QED
    BY <1>5, <1>6

\* What each case of it comes to.
Ended(how, row) == [entries |-> <<>>, how |-> how, row |-> row, sig |-> NoRow]
Past(A, row) == row + 2 + A[row + 1]
NoEntry(A, row) == A[row] = NoKey /\ A[row + 1] = 0

ListCase(A, end, f, row) ==
    /\ row = end => f[row] = Ended("terminated", row - 1)
    /\ row + 1 = end => f[row] = Ended("lost", row)
    /\ row + 1 < end =>
         /\ A[row] \in Nat /\ A[row + 1] \in Nat
         /\ Past(A, row) \in Nat /\ Past(A, row) >= row + 2
         /\ NoEntry(A, row) => f[row] = Ended("terminated", row + 1)
         /\ ~NoEntry(A, row) =>
              /\ Past(A, row) > end => f[row] = Ended("lost", row)
              /\ Past(A, row) <= end =>
                   /\ A[row] = SigKey =>
                        f[row] = [entries |-> <<Entry(A, row)>>, how |-> "signature",
                                  row |-> Past(A, row) - 1, sig |-> row]
                   /\ A[row] # SigKey =>
                        f[row] = [f[Past(A, row)] EXCEPT !.entries = <<Entry(A, row)>> \o @]

LEMMA ListCases ==
    ASSUME NEW A, AreaRows(A), NEW end \in 1 .. AreaEnd, NEW first \in 0 .. end,
           NEW f, IsList(f, A, end, first), NEW row \in first .. end
    PROVE  ListCase(A, end, f, row)
  <1> USE DEF ListCase
  <1>0. end \in Nat /\ AreaEnd \in Int /\ first \in Nat /\ \A r \in 0 .. end - 1 : A[r] \in Nat
    BY AreaAssumption DEF AreaEnd, AreaRows
  <1>1. f[row] = ListStep(A, end, f, row)
    BY DEF IsList
  <1>2. CASE row = end
    BY <1>0, <1>1, <1>2 DEF ListStep, Ended
  <1>3. CASE row + 1 = end
    BY <1>0, <1>1, <1>3 DEF ListStep, Ended
  <1>4. CASE row + 1 < end
    <2>1. row # end /\ row + 1 # end /\ A[row] \in Nat /\ A[row + 1] \in Nat
      BY <1>0, <1>4
    <2>2. Past(A, row) \in Nat /\ Past(A, row) >= row + 2
      BY <1>0, <2>1 DEF Past
    <2>3. NoEntry(A, row) => f[row] = Ended("terminated", row + 1)
      BY <1>1, <2>1, Zenon DEF ListStep, Ended, NoEntry
    <2>4. ~NoEntry(A, row) /\ Past(A, row) > end => f[row] = Ended("lost", row)
      BY <1>1, <2>1, Zenon DEF ListStep, Ended, NoEntry, Past
    <2>5. ASSUME ~NoEntry(A, row), Past(A, row) <= end
          PROVE  /\ A[row] = SigKey =>
                      f[row] = [entries |-> <<Entry(A, row)>>, how |-> "signature",
                                row |-> Past(A, row) - 1, sig |-> row]
                 /\ A[row] # SigKey =>
                      f[row] = [f[Past(A, row)] EXCEPT !.entries = <<Entry(A, row)>> \o @]
      <3>1. ~(Past(A, row) > end)
        BY <1>0, <2>2, <2>5
      <3> DEFINE rest == IF A[row] = SigKey
                           THEN [Ended("signature", Past(A, row) - 1) EXCEPT !.sig = row]
                           ELSE f[Past(A, row)]
      <3>2. f[row] = [rest EXCEPT !.entries = <<Entry(A, row)>> \o @]
        BY <1>1, <2>1, <2>5, <3>1, Zenon DEF ListStep, Ended, NoEntry, Past
      <3>3. CASE A[row] = SigKey
        <4>1. rest = [entries |-> <<>>, how |-> "signature", row |-> Past(A, row) - 1, sig |-> row]
          BY <3>3 DEF Ended
        <4>2. <<Entry(A, row)>> \o <<>> = <<Entry(A, row)>>
          OBVIOUS
        <4> HIDE DEF rest
        <4> QED
          BY <3>2, <3>3, <4>1, <4>2
      <3>4. CASE A[row] # SigKey
        BY <3>2, <3>4
      <3> QED
        BY <3>3, <3>4
    <2> QED
      BY <1>0, <1>4, <2>1, <2>2, <2>3, <2>4, <2>5
  <1> QED
    BY <1>0, <1>2, <1>3, <1>4 DEF ListCase

Lists(A, end, row) ==
    {l \in [entries : Seq({Entry(A, r) : r \in 0 .. end - 1}),
            how : {"terminated", "lost", "signature"},
            row : row - 1 .. end - 1, sig : {NoRow} \cup row .. end - 1] : l.sig <= l.row}

\* A list ends before end, and no earlier than the row before its first.
LEMMA ListTyped ==
    ASSUME NEW A, AreaRows(A), NEW end \in 1 .. AreaEnd, NEW first \in 0 .. end,
           NEW f, IsList(f, A, end, first), NEW row \in first .. end
    PROVE  f[row] \in Lists(A, end, row)
  <1> DEFINE T == {k \in first .. end : f[k] \notin Lists(A, end, k)}
             Ent == {Entry(A, r) : r \in 0 .. end - 1}
  <1>0. end \in Nat /\ AreaEnd \in Int /\ first \in Nat
    BY AreaAssumption DEF AreaEnd
  <1>1. ASSUME NEW k \in first .. end, \A j \in k + 1 .. end : f[j] \in Lists(A, end, j)
        PROVE  f[k] \in Lists(A, end, k)
    <2> DEFINE next == Past(A, k)
    <2>0. ListCase(A, end, f, k)
      BY ListCases
    <2>1. ASSUME NEW how \in {"terminated", "lost"}, NEW r \in k - 1 .. end - 1,
                 f[k] = Ended(how, r)
          PROVE  f[k] \in Lists(A, end, k)
      <3>1. <<>> \in Seq(Ent)
        OBVIOUS
      <3> HIDE DEF Ent
      <3> QED
        BY <1>0, <2>1, <3>1 DEF Lists, Ended, Ent, NoRow
    <2>2. CASE k = end
      BY <1>0, <2>1, <2>2, <2>0 DEF ListCase
    <2>3. CASE k + 1 = end
      <3>1. k \in k - 1 .. end - 1
        BY <1>0, <2>3
      <3> QED
        BY <2>1, <2>3, <3>1, <2>0 DEF ListCase
    <2>4. CASE k + 1 < end
      <3>1. k \in k - 1 .. end - 1 /\ k + 1 \in k - 1 .. end - 1
            /\ k \in 0 .. end - 1 /\ k \in k .. end - 1
        BY <1>0, <2>4
      <3>2. next \in Nat /\ next >= k + 2
        BY <2>4, <2>0 DEF ListCase
      <3>3. CASE NoEntry(A, k)
        BY <2>1, <2>4, <3>1, <3>3, <2>0 DEF ListCase
      <3>4. CASE ~NoEntry(A, k) /\ next > end
        BY <2>1, <2>4, <3>1, <3>4, <2>0 DEF ListCase
      <3>5. CASE ~NoEntry(A, k) /\ next <= end
        <4>1. next \in k + 1 .. end /\ next - 1 \in k - 1 .. end - 1
              /\ next - 1 .. end - 1 \subseteq k - 1 .. end - 1
              /\ next .. end - 1 \subseteq k .. end - 1
          BY <1>0, <3>2, <3>5
        <4>2. Entry(A, k) \in Ent
          BY <3>1
        <4>3. CASE A[k] = SigKey
          <5>1. f[k] = [entries |-> <<Entry(A, k)>>, how |-> "signature", row |-> next - 1, sig |-> k]
            BY <2>4, <3>5, <4>3, <2>0 DEF ListCase
          <5>2. <<Entry(A, k)>> \in Seq(Ent)
            BY <4>2
          <5> HIDE DEF Ent, next
          <5> QED
            BY <1>0, <3>1, <3>2, <3>5, <4>1, <5>1, <5>2 DEF Lists, Ent, NoRow
        <4>4. CASE A[k] # SigKey
          <5>1. f[k] = [f[next] EXCEPT !.entries = <<Entry(A, k)>> \o @]
            BY <2>4, <3>5, <4>4, <2>0 DEF ListCase
          <5>2. f[next] \in Lists(A, end, next)
            BY <1>1, <4>1
          <5> HIDE DEF next
          <5>3. <<Entry(A, k)>> \o f[next].entries \in Seq(Ent)
            <6>1. <<Entry(A, k)>> \in Seq(Ent) /\ f[next].entries \in Seq(Ent)
              BY <4>2, <5>2 DEF Lists
            <6> HIDE DEF Ent
            <6> QED
              BY <6>1, ConcatProperties
          <5> HIDE DEF Ent
          <5> QED
            BY <4>1, <5>1, <5>2, <5>3 DEF Lists, Ent
        <4> QED
          BY <4>3, <4>4
      <3> QED
        BY <1>0, <3>2, <3>3, <3>4, <3>5
    <2> QED
      BY <1>0, <2>2, <2>3, <2>4
  <1>2. T = {}
    <2> SUFFICES ASSUME T # {} PROVE FALSE
      OBVIOUS
    <2>1. PICK k \in T : \A j \in T : j <= k
      <3>1. T \in SUBSET (0 .. end)
        BY <1>0
      <3> HIDE DEF T
      <3> QED
        BY <1>0, <3>1, Greatest
    <2>2. ASSUME NEW j \in k + 1 .. end PROVE f[j] \in Lists(A, end, j)
      <3>1. j \in first .. end /\ ~(j <= k)
        BY <1>0, <2>1
      <3> QED
        BY <2>1, <3>1
    <2> QED
      BY <1>1, <2>1, <2>2
  <1> QED
    BY <1>2

---------------------------------------------------------------------------
(* Pages and instances.                                                    *)

\* A row's following page boundary, in what was read.
LEMMA PageAfterIn ==
    ASSUME NEW end, ReadTo(end), NEW row \in 0 .. end - 1
    PROVE  PageAfter(row) \in row + 1 .. end
  <1>1. PICK p \in Nat, k \in 1 .. AreaPages : p = PageRows /\ p > 0 /\ end = k * p
    BY AreaAssumption DEF ReadTo
  <1>2. end \in Nat /\ row \in Nat /\ k \in Nat
    BY <1>1, AreaAssumption DEF ReadTo, AreaEnd
  <1>3. PICK q \in Nat : q = row \div p
    BY <1>1, <1>2
  <1>4. PICK r \in 0 .. p - 1 : row = q * p + r
    BY <1>1, <1>2, <1>3
  <1>5. PageAfter(row) = (q + 1) * p
    BY <1>1, <1>3 DEF PageAfter, PageOf
  <1>6. (q + 1) * p = q * p + p
    BY <1>1
  <1>7. q + 1 <= k
    <2> SUFFICES ASSUME k <= q PROVE FALSE
      BY <1>2
    <2>1. PICK j \in Nat : q = k + j
      BY <1>2
    <2>2. q * p = k * p + j * p /\ j * p \in Nat
      BY <1>1, <1>2, <2>1
    <2> QED
      BY <1>1, <1>2, <1>4, <2>2
  <1>8. PICK j \in Nat : k = q + 1 + j
    BY <1>2, <1>7
  <1>9. k * p = (q + 1) * p + j * p /\ j * p \in Nat
    BY <1>1, <1>8
  <1> QED
    BY <1>1, <1>2, <1>4, <1>5, <1>6, <1>9

Instances(A, end) == {InstanceAt(A, end, b).instance : b \in 0 .. end - 1}

\* An instance ends, or is lost, in what was read.
LEMMA InstanceRow ==
    ASSUME NEW A, AreaRows(A), NEW end \in 1 .. AreaEnd, NEW b \in 0 .. end - 1
    PROVE  /\ InstanceAt(A, end, b).row \in b .. end - 1
           /\ InstanceAt(A, end, b).how \in {"lost", "ended", "unknown"}
           /\ InstanceAt(A, end, b).instance \in Instances(A, end)
  <1>1. InstanceAt(A, end, b).instance \in Instances(A, end)
    BY DEF Instances
  <1>2. end \in Nat /\ b \in Nat /\ AreaEnd \in Int
    BY AreaAssumption DEF AreaEnd
  <1>3. CASE b + 1 = end
    BY <1>1, <1>2, <1>3 DEF InstanceAt
  <1>4. CASE b + 1 # end /\ (A[b + 1] = 0 \/ A[b + 1] # Version)
    BY <1>1, <1>2, <1>4 DEF InstanceAt
  <1>5. CASE b + 1 # end /\ A[b + 1] # 0 /\ A[b + 1] = Version
    <2>1. b + 2 \in 0 .. end
      BY <1>2, <1>5
    <2>2. PICK f : IsList(f, A, end, b + 2) /\ EntriesFrom(A, end, b + 2) = f[b + 2]
      BY <2>1, ListDefined
    <2>3. f[b + 2] \in Lists(A, end, b + 2)
      <3>1. b + 2 \in b + 2 .. end
        BY <1>2, <2>1
      <3> QED
        BY <2>1, <2>2, <3>1, ListTyped
    <2> DEFINE list == EntriesFrom(A, end, b + 2)
    <2>4. InstanceAt(A, end, b).row = list.row
          /\ InstanceAt(A, end, b).how = IF list.how = "lost" THEN "lost" ELSE "ended"
      BY <1>5, Zenon DEF InstanceAt
    <2>5. list.row \in b + 1 .. end - 1
      BY <1>2, <2>2, <2>3 DEF Lists
    <2> HIDE DEF list
    <2> QED
      BY <1>1, <1>2, <2>4, <2>5
  <1> QED
    BY <1>3, <1>4, <1>5

---------------------------------------------------------------------------
(* The walk.                                                               *)

Halt(next, abandoned) ==
    [instances |-> <<>>, issues |-> <<>>, next |-> next, abandoned |-> abandoned]

\* What Walk does at a boundary, where walk is what it does further on.
Again(A, end, walk, row) ==
    LET later == InstancesAfter(A, end, row)
    IN  IF later = {} THEN Halt(NoRow, TRUE)
        ELSE walk[CHOOSE c \in later : \A d \in later : c <= d]

LostAt(A, end, walk, row) ==
    [Again(A, end, walk, row) EXCEPT !.issues = <<[issue |-> "lost", row |-> row]>> \o @]

After(A, end, walk, at) ==
    IF at.how = "lost" THEN LostAt(A, end, walk, at.row) ELSE walk[PageAfter(at.row)]

Found(A, end, walk, b, at) ==
    IF at.how = "unknown"
      THEN [Halt(NoRow, TRUE) EXCEPT !.issues = <<[issue |-> "version", row |-> b]>>]
    ELSE [After(A, end, walk, at) EXCEPT !.instances = <<at.instance>> \o @]

WalkStep(A, end, walk, b) ==
    IF b = end THEN Halt(NoRow, FALSE)
    ELSE IF A[b] = 0 THEN Halt(b, FALSE)
    ELSE IF A[b] # Magic THEN LostAt(A, end, walk, b)
    ELSE Found(A, end, walk, b, InstanceAt(A, end, b))

IsWalk(f, A, end) == f = [b \in 0 .. end |-> WalkStep(A, end, f, b)]

\* The next instance after a row is ahead of it.
LEMMA NextInstance ==
    ASSUME NEW A, NEW end, ReadTo(end), NEW row \in 0 .. end - 1
    PROVE  LET later == InstancesAfter(A, end, row)
           IN  /\ later \subseteq row + 1 .. end
               /\ later # {} => (CHOOSE c \in later : \A d \in later : c <= d) \in later
  <1> DEFINE later == InstancesAfter(A, end, row)
             c == CHOOSE c \in later : \A d \in later : c <= d
  <1>0. end \in Nat
    BY AreaAssumption DEF AreaEnd, ReadTo
  <1>1. PageAfter(row) \in row + 1 .. end
    BY PageAfterIn
  <1>2. later \subseteq row + 1 .. end
    BY <1>0, <1>1 DEF InstancesAfter
  <1>3. ASSUME later # {} PROVE c \in later
    <2>1. PICK m \in later : \A d \in later : m <= d
      <3> DEFINE T == {i \in 0 .. end : end - i \in later}
      <3>1. T \in SUBSET (0 .. end) /\ T # {}
        <4>1. PICK x \in later : TRUE
          BY <1>3
        <4>2. end - x \in 0 .. end /\ end - (end - x) = x
          BY <1>0, <1>2
        <4> HIDE DEF later
        <4> QED
          BY <4>1, <4>2
      <3> HIDE DEF T
      <3>2. PICK i \in T : \A j \in T : j <= i
        BY <1>0, <3>1, Greatest
      <3>3. i \in 0 .. end /\ end - i \in later
        BY <3>2 DEF T
      <3>4. ASSUME NEW d \in later PROVE end - i <= d
        <4>1. PICK j \in T : j = end - d
          <5>1. end - d \in 0 .. end /\ end - (end - d) = d
            BY <1>0, <1>2
          <5> HIDE DEF later
          <5> QED
            BY <5>1 DEF T
        <4>2. j <= i /\ j \in 0 .. end
          BY <3>1, <3>2
        <4> QED
          BY <1>0, <1>2, <3>3, <4>1, <4>2
      <3> QED
        BY <3>3, <3>4
    <2> HIDE DEF later
    <2> QED
      BY <2>1
  <1> QED
    BY <1>2, <1>3

\* Where the walk goes on is ahead of where it is.
LEMMA AgainAhead ==
    ASSUME NEW A, NEW end, ReadTo(end), NEW f, NEW g, NEW row \in 0 .. end - 1,
           \A c \in row + 1 .. end : f[c] = g[c]
    PROVE  /\ Again(A, end, f, row) = Again(A, end, g, row)
           /\ LostAt(A, end, f, row) = LostAt(A, end, g, row)
           /\ f[PageAfter(row)] = g[PageAfter(row)]
  <1> DEFINE later == InstancesAfter(A, end, row)
             c == CHOOSE c \in later : \A d \in later : c <= d
  <1>1. PageAfter(row) \in row + 1 .. end
    BY PageAfterIn
  <1>2. later \subseteq row + 1 .. end /\ (later # {} => c \in later)
    BY NextInstance
  <1>3. CASE later = {}
    BY <1>1, <1>3 DEF Again, LostAt
  <1>4. CASE later # {}
    <2>1. f[c] = g[c]
      <3> HIDE DEF c, later
      <3> QED
        BY <1>2, <1>4
    <2>2. Again(A, end, f, row) = f[c] /\ Again(A, end, g, row) = g[c]
      BY <1>4, Zenon DEF Again
    <2> HIDE DEF c, later
    <2> QED
      BY <1>1, <2>1, <2>2 DEF LostAt
  <1> QED
    BY <1>3, <1>4

\* So the walk at a boundary is that of the boundaries further on.
LEMMA WalkAhead ==
    ASSUME NEW A, AreaRows(A), NEW end, ReadTo(end), NEW f, NEW g, NEW b \in 0 .. end,
           \A c \in b + 1 .. end : f[c] = g[c]
    PROVE  WalkStep(A, end, f, b) = WalkStep(A, end, g, b)
  <1> DEFINE at == InstanceAt(A, end, b)
  <1>0. end \in Nat /\ end \in 1 .. AreaEnd
    BY AreaAssumption DEF AreaEnd, ReadTo
  <1>1. CASE b = end
    BY <1>1 DEF WalkStep
  <1>2. CASE b # end
    <2>1. b \in 0 .. end - 1
      BY <1>0, <1>2
    <2>2. at.row \in b .. end - 1
      BY <1>0, <2>1, InstanceRow
    <2>3. LostAt(A, end, f, b) = LostAt(A, end, g, b)
      BY <2>1, AgainAhead
    <2>4. LostAt(A, end, f, at.row) = LostAt(A, end, g, at.row)
          /\ f[PageAfter(at.row)] = g[PageAfter(at.row)]
      <3>1. at.row \in 0 .. end - 1 /\ \A c \in at.row + 1 .. end : f[c] = g[c]
        BY <1>0, <2>1, <2>2
      <3> HIDE DEF at
      <3>2. PICK row \in 0 .. end - 1 : row = at.row
        BY <3>1
      <3>3. \A c \in row + 1 .. end : f[c] = g[c]
        BY <3>1, <3>2
      <3>4. LostAt(A, end, f, row) = LostAt(A, end, g, row)
            /\ f[PageAfter(row)] = g[PageAfter(row)]
        BY <3>3, AgainAhead
      <3> QED
        BY <3>2, <3>4
    <2>5. After(A, end, f, at) = After(A, end, g, at)
      BY <2>4, Zenon DEF After
    <2>6. Found(A, end, f, b, at) = Found(A, end, g, b, at)
      BY <2>5, Zenon DEF Found
    <2> QED
      BY <2>3, <2>6, Zenon DEF WalkStep
  <1> QED
    BY <1>1, <1>2

\* So Walk is defined, at every boundary.
LEMMA WalkDefined ==
    ASSUME NEW A, AreaRows(A), NEW end, ReadTo(end)
    PROVE  \E f : IsWalk(f, A, end) /\ Walk(A, end) = f[0]
  <1> DEFINE Is(f, k) == f = [b \in k .. end |-> WalkStep(A, end, f, b)]
             Has(k) == \E f : Is(f, k)
             T == {k \in 0 .. end : ~Has(k)}
  <1>0. end \in Nat
    BY AreaAssumption DEF AreaEnd, ReadTo
  <1>1. ASSUME NEW k \in 0 .. end, k < end => Has(k + 1) PROVE Has(k)
    <2>1. PICK f : k < end => Is(f, k + 1)
      BY <1>1
    <2> DEFINE g == [b \in k .. end |-> IF b = k THEN WalkStep(A, end, f, k) ELSE f[b]]
    <2>2. ASSUME NEW b \in k .. end PROVE g[b] = WalkStep(A, end, g, b)
      <3>1. \A c \in b + 1 .. end : f[c] = g[c]
        BY <1>0
      <3>2. b \in 0 .. end
        BY <1>0
      <3>3. WalkStep(A, end, f, b) = WalkStep(A, end, g, b)
        <4> HIDE DEF g
        <4> QED
          BY <1>0, <3>1, <3>2, WalkAhead
      <3>4. g[b] = WalkStep(A, end, f, b)
        <4>1. CASE b = k
          BY <4>1
        <4>2. CASE b # k
          <5>1. k < end /\ b \in k + 1 .. end
            BY <4>2, <1>0
          <5>2. f[b] = WalkStep(A, end, f, b)
            BY <2>1, <5>1
          <5> QED
            BY <4>2, <5>2
        <4> QED
          BY <4>1, <4>2
      <3> QED
        BY <3>3, <3>4
    <2>3. Is(g, k)
      <3>1. g = [b \in k .. end |-> g[b]]
        OBVIOUS
      <3> HIDE DEF g
      <3> QED
        BY <2>2, <3>1
    <2> HIDE DEF g, Is
    <2> QED
      BY <2>3
  <1> HIDE DEF Has
  <1>2. T = {}
    <2> SUFFICES ASSUME T # {} PROVE FALSE
      OBVIOUS
    <2>1. PICK k \in T : \A j \in T : j <= k
      <3>1. T \in SUBSET (0 .. end)
        OBVIOUS
      <3> HIDE DEF T
      <3> QED
        BY <1>0, <3>1, Greatest
    <2>2. k < end => Has(k + 1)
      BY <1>0, <2>1
    <2> QED
      BY <1>1, <2>1, <2>2
  <1>3. Has(0)
    BY <1>0, <1>2
  <1>4. PICK f : f = (CHOOSE g : Is(g, 0))
    OBVIOUS
  <1>5. Is(f, 0)
    <2> HIDE DEF Is
    <2> QED
      BY <1>3, <1>4 DEF Has
  <1>6. Walk(A, end) = f[0]
    BY <1>4, Zenon DEF Walk, WalkStep, Found, After, LostAt, Again, Halt
  <1> QED
    BY <1>5, <1>6 DEF IsWalk

---------------------------------------------------------------------------
(* What is read of the area is enough.                                     *)

\* What the parser makes of a list depends on no row after the last one of it,
\* unless that is the last one read.
LEMMA ListLocal ==
    ASSUME NEW A, AreaRows(A), NEW end \in 1 .. AreaEnd, NEW B, AreaRows(B), NEW till \in 1 .. AreaEnd,
           NEW same \in 0 .. AreaEnd, same <= end, same <= till,
           \A r \in 0 .. same - 1 : A[r] = B[r],
           NEW first \in 0 .. same, NEW f, IsList(f, A, end, first),
           NEW g, IsList(g, B, till, first),
           f[first].how # "lost", f[first].row < same, f[first].row # end - 1
    PROVE  f[first] = g[first]
  <1> DEFINE Fine(k) == f[k].how # "lost" /\ f[k].row < same /\ f[k].row # end - 1
             T == {k \in first .. same : Fine(k) /\ f[k] # g[k]}
  <1>0. end \in Nat /\ till \in Nat /\ same \in Nat /\ first \in Nat /\ AreaEnd \in Int
        /\ first \in 0 .. end /\ first \in 0 .. till
    BY AreaAssumption DEF AreaEnd
  <1>1. ASSUME NEW k \in first .. same, Fine(k),
               \A j \in k + 1 .. same : Fine(j) => f[j] = g[j]
        PROVE  f[k] = g[k]
    <2>1. ListCase(A, end, f, k) /\ ListCase(B, till, g, k) /\ f[k] \in Lists(A, end, k)
      <3>1. k \in first .. end /\ k \in first .. till
        BY <1>0
      <3> QED
        BY <1>0, <3>1, ListCases, ListTyped
    <2> DEFINE next == Past(A, k)
    <2>2. k + 1 < end
      <3>1. k # end
        <4> SUFFICES ASSUME k = end PROVE FALSE
          OBVIOUS
        <4> QED
          BY <1>0, <1>1, <2>1 DEF ListCase, Ended
      <3>2. k + 1 # end
        BY <1>1, <2>1 DEF ListCase, Ended
      <3> QED
        BY <1>0, <3>1, <3>2
    <2>3. CASE NoEntry(A, k)
      <3>1. f[k] = Ended("terminated", k + 1)
        BY <2>1, <2>2, <2>3 DEF ListCase
      <3>2. k + 1 < same /\ k + 1 < till /\ k \in 0 .. same - 1 /\ k + 1 \in 0 .. same - 1
        BY <1>0, <1>1, <3>1 DEF Ended
      <3>3. NoEntry(B, k)
        BY <2>3, <3>2 DEF NoEntry
      <3> QED
        BY <2>1, <3>1, <3>2, <3>3 DEF ListCase
    <2>4. CASE ~NoEntry(A, k)
      <3>1. next \in Nat /\ next >= k + 2
        BY <2>1, <2>2 DEF ListCase
      <3>2. next <= end
        <4> SUFFICES ASSUME next > end PROVE FALSE
          BY <1>0, <3>1
        <4> QED
          BY <1>1, <2>1, <2>2, <2>4 DEF ListCase, Ended
      <3>3. next - 1 < same
        <4>1. CASE A[k] = SigKey
          BY <1>1, <2>1, <2>2, <2>4, <3>2, <4>1 DEF ListCase
        <4>2. CASE A[k] # SigKey
          <5>1. f[k] = [f[next] EXCEPT !.entries = <<Entry(A, k)>> \o @]
            BY <2>1, <2>2, <2>4, <3>2, <4>2 DEF ListCase
          <5>2. f[next] \in Lists(A, end, next)
            <6>1. next \in first .. end
              BY <1>0, <3>1, <3>2
            <6> HIDE DEF next
            <6> QED
              BY <1>0, <6>1, ListTyped
          <5>3. f[k].row = f[next].row /\ f[next].row \in next - 1 .. end - 1
            BY <5>1, <5>2 DEF Lists
          <5> HIDE DEF next
          <5> QED
            BY <1>0, <1>1, <3>1, <5>3
        <4> QED
          BY <4>1, <4>2
      <3>4. /\ k \in 0 .. same - 1 /\ k + 1 \in 0 .. same - 1
            /\ next <= same /\ next \in k + 1 .. same /\ next <= till /\ k + 1 < till
        BY <1>0, <3>1, <3>3
      <3>5. A[k] = B[k] /\ A[k + 1] = B[k + 1]
        BY <3>4
      <3>6. Past(B, k) = next /\ ~NoEntry(B, k)
        BY <2>4, <3>5 DEF Past, NoEntry
      <3>7. Entry(A, k) = Entry(B, k)
        <4>1. A[k + 1] \in Nat /\ next = k + 2 + A[k + 1]
          BY <2>1, <2>2 DEF ListCase, Past
        <4>2. \A i \in 1 .. A[k + 1] : A[k + 1 + i] = B[k + 1 + i]
          <5> SUFFICES ASSUME NEW i \in 1 .. A[k + 1] PROVE A[k + 1 + i] = B[k + 1 + i]
            OBVIOUS
          <5>1. k + 1 + i \in 0 .. same - 1
            BY <1>0, <3>3, <4>1
          <5> QED
            BY <5>1
        <4> QED
          BY <3>5, <4>2 DEF Entry
      <3> HIDE DEF next
      <3>8. CASE A[k] = SigKey
        <4>1. f[k] = [entries |-> <<Entry(A, k)>>, how |-> "signature", row |-> next - 1, sig |-> k]
          BY <2>1, <2>2, <2>4, <3>2, <3>8 DEF ListCase, next
        <4>2. g[k] = [entries |-> <<Entry(B, k)>>, how |-> "signature", row |-> next - 1, sig |-> k]
          BY <2>1, <3>4, <3>5, <3>6, <3>8 DEF ListCase
        <4> QED
          BY <3>7, <4>1, <4>2
      <3>9. CASE A[k] # SigKey
        <4>1. f[k] = [f[next] EXCEPT !.entries = <<Entry(A, k)>> \o @]
          BY <2>1, <2>2, <2>4, <3>2, <3>9 DEF ListCase, next
        <4>2. g[k] = [g[next] EXCEPT !.entries = <<Entry(B, k)>> \o @]
          BY <2>1, <3>4, <3>5, <3>6, <3>9 DEF ListCase
        <4>3. f[next] \in Lists(A, end, next)
          <5>1. next \in first .. end
            BY <1>0, <3>4
          <5> QED
            BY <1>0, <5>1, ListTyped
        <4>4. f[k].how = f[next].how /\ f[k].row = f[next].row
          BY <4>1, <4>3 DEF Lists
        <4>5. f[next] = g[next]
          BY <1>1, <3>4, <4>4
        <4> QED
          BY <3>7, <4>1, <4>2, <4>5
      <3> QED
        BY <3>8, <3>9
    <2> QED
      BY <2>3, <2>4
  <1>2. T = {}
    <2> SUFFICES ASSUME T # {} PROVE FALSE
      OBVIOUS
    <2>1. PICK k \in T : \A j \in T : j <= k
      <3>1. T \in SUBSET (0 .. same)
        BY <1>0
      <3> HIDE DEF T
      <3> QED
        BY <1>0, <3>1, Greatest
    <2>2. ASSUME NEW j \in k + 1 .. same, Fine(j) PROVE f[j] = g[j]
      <3>1. j \in first .. same /\ ~(j <= k)
        BY <1>0, <2>1
      <3> QED
        BY <2>1, <2>2, <3>1
    <2> HIDE DEF Fine
    <2> QED
      BY <1>1, <2>1, <2>2
  <1>3. first \in first .. same
    BY <1>0
  <1> QED
    BY <1>2, <1>3

\* Nor does an instance.
LEMMA InstanceLocal ==
    ASSUME NEW A, AreaRows(A), NEW end \in 1 .. AreaEnd, NEW B, AreaRows(B), NEW till \in 1 .. AreaEnd,
           NEW same \in 0 .. AreaEnd, same <= end, same <= till,
           \A r \in 0 .. same - 1 : A[r] = B[r],
           NEW b \in 0 .. same - 1, InstanceAt(A, end, b).how = "ended",
           InstanceAt(A, end, b).row < same, InstanceAt(A, end, b).row # end - 1
    PROVE  InstanceAt(A, end, b) = InstanceAt(B, till, b)
  <1>0. end \in Nat /\ till \in Nat /\ same \in Nat /\ b \in Nat /\ AreaEnd \in Int
    BY AreaAssumption DEF AreaEnd
  <1>1. b + 1 # end
    <2> SUFFICES ASSUME b + 1 = end PROVE FALSE
      OBVIOUS
    <2> QED
      BY <1>0 DEF InstanceAt
  <1>2. CASE A[b + 1] = 0
    <2>1. InstanceAt(A, end, b).row = b + 1
      BY <1>1, <1>2 DEF InstanceAt
    <2>2. b + 1 \in 0 .. same - 1 /\ b + 1 # till
      BY <1>0, <2>1
    <2>3. B[b + 1] = 0
      BY <1>2, <2>2
    <2> QED
      BY <1>1, <1>2, <2>2, <2>3 DEF InstanceAt
  <1>3. CASE A[b + 1] # 0
    <2>1. A[b + 1] = Version
      BY <1>1, <1>3 DEF InstanceAt
    <2>2. b + 2 \in 0 .. end
      BY <1>0, <1>1
    <2>3. PICK f : IsList(f, A, end, b + 2) /\ EntriesFrom(A, end, b + 2) = f[b + 2]
      BY <2>2, ListDefined
    <2> DEFINE list == EntriesFrom(A, end, b + 2)
    <2>4. InstanceAt(A, end, b) =
            [how |-> IF list.how = "lost" THEN "lost" ELSE "ended",
             row |-> list.row,
             instance |->
               [first   |-> b,
                entries |-> list.entries,
                signed  |-> IF list.how # "signature" THEN <<>>
                            ELSE [i \in 1 .. list.sig - b |-> A[b + i - 1]]]]
      BY <1>1, <1>3, <2>1, Zenon DEF InstanceAt
    <2>5. list.how # "lost" /\ list.row < same /\ list.row # end - 1
      <3> DEFINE signed == IF list.how # "signature" THEN <<>>
                           ELSE [i \in 1 .. list.sig - b |-> A[b + i - 1]]
      <3> HIDE DEF list, signed
      <3>1. InstanceAt(A, end, b) =
              [how |-> IF list.how = "lost" THEN "lost" ELSE "ended", row |-> list.row,
               instance |-> [first |-> b, entries |-> list.entries, signed |-> signed]]
        BY <2>4 DEF signed
      <3> QED
        BY <3>1
    <2>6. list \in Lists(A, end, b + 2)
      <3>1. b + 2 \in b + 2 .. end
        BY <1>0, <2>2
      <3> QED
        BY <2>2, <2>3, <3>1, ListTyped
    <2> HIDE DEF list
    <2>7. b + 1 \in 0 .. same - 1
      <3>1. list.row \in b + 1 .. end - 1
        BY <1>0, <2>6 DEF Lists
      <3> QED
        BY <1>0, <2>5, <3>1
    <2>8. b + 2 \in 0 .. same /\ b + 2 \in 0 .. till /\ b + 1 # till /\ B[b + 1] = A[b + 1]
      BY <1>0, <2>7
    <2>9. PICK g : IsList(g, B, till, b + 2) /\ EntriesFrom(B, till, b + 2) = g[b + 2]
      BY <2>8, ListDefined
    <2>10. g[b + 2] = list
      <3>1. f[b + 2] = list
        BY <2>3 DEF list
      <3>2. PICK k \in 0 .. same : k = b + 2
        BY <2>8
      <3>3. IsList(f, A, end, k) /\ IsList(g, B, till, k)
        BY <2>3, <2>9, <3>2
      <3>4. f[k].how # "lost" /\ f[k].row < same /\ f[k].row # end - 1
        BY <2>5, <3>1, <3>2
      <3>5. f[k] = g[k]
        BY <3>3, <3>4, ListLocal
      <3> QED
        BY <3>1, <3>2, <3>5
    <2>11. InstanceAt(B, till, b) =
            [how |-> IF list.how = "lost" THEN "lost" ELSE "ended",
             row |-> list.row,
             instance |->
               [first   |-> b,
                entries |-> list.entries,
                signed  |-> IF list.how # "signature" THEN <<>>
                            ELSE [i \in 1 .. list.sig - b |-> B[b + i - 1]]]]
      BY <1>3, <2>1, <2>8, <2>9, <2>10, Zenon DEF InstanceAt
    <2>12. ASSUME list.how = "signature"
           PROVE  [i \in 1 .. list.sig - b |-> A[b + i - 1]] = [i \in 1 .. list.sig - b |-> B[b + i - 1]]
      <3>1. PICK s \in Int : s = list.sig /\ s <= list.row + 1
        BY <1>0, <2>6, <2>12 DEF Lists, NoRow
      <3>2. ASSUME NEW i \in 1 .. s - b PROVE A[b + i - 1] = B[b + i - 1]
        <4>1. b + i - 1 \in 0 .. same - 1
          <5>1. PICK r \in Int : r = list.row
            BY <1>0, <2>6 DEF Lists
          <5>2. r < same /\ s <= r + 1
            BY <2>5, <3>1, <5>1
          <5> QED
            BY <1>0, <5>2
        <4> QED
          BY <4>1
      <3> QED
        BY <3>1, <3>2
    <2>13. (IF list.how # "signature" THEN <<>> ELSE [i \in 1 .. list.sig - b |-> A[b + i - 1]])
           = IF list.how # "signature" THEN <<>> ELSE [i \in 1 .. list.sig - b |-> B[b + i - 1]]
      BY <2>12, Zenon
    <2> DEFINE sA == IF list.how # "signature" THEN <<>>
                     ELSE [i \in 1 .. list.sig - b |-> A[b + i - 1]]
               sB == IF list.how # "signature" THEN <<>>
                     ELSE [i \in 1 .. list.sig - b |-> B[b + i - 1]]
               At(signed) ==
                 [how |-> IF list.how = "lost" THEN "lost" ELSE "ended", row |-> list.row,
                  instance |-> [first |-> b, entries |-> list.entries, signed |-> signed]]
    <2>14. sA = sB
      BY <2>13
    <2>15. InstanceAt(A, end, b) = At(sA) /\ InstanceAt(B, till, b) = At(sB)
      BY <2>4, <2>11
    <2> HIDE DEF sA, sB, At
    <2> QED
      BY <2>14, <2>15
  <1> QED
    BY <1>2, <1>3

---------------------------------------------------------------------------
(* What each case of the walk comes to.                                    *)

Walks(A, end) ==
    [instances : Seq(Instances(A, end)),
     issues : Seq([issue : {"lost", "version"}, row : Nat]),
     next : {NoRow} \cup 0 .. end - 1, abandoned : BOOLEAN]

With(walk, instance) == [walk EXCEPT !.instances = <<instance>> \o @]

WalkCase(A, end, f, b) ==
    /\ b = end => f[b] = Halt(NoRow, FALSE)
    /\ b < end =>
         LET at == InstanceAt(A, end, b)
         IN  /\ A[b] = 0 => f[b] = Halt(b, FALSE)
             /\ A[b] # 0 /\ A[b] # Magic => f[b] = LostAt(A, end, f, b)
             /\ A[b] = Magic /\ at.how = "unknown" =>
                  f[b] = [Halt(NoRow, TRUE) EXCEPT !.issues = <<[issue |-> "version", row |-> b]>>]
             /\ A[b] = Magic /\ at.how = "lost" =>
                  f[b] = With(LostAt(A, end, f, at.row), at.instance)
             /\ A[b] = Magic /\ at.how = "ended" =>
                  f[b] = With(f[PageAfter(at.row)], at.instance)

\* The walk at a boundary, case by case.
LEMMA WalkCases ==
    ASSUME NEW A, AreaRows(A), NEW end, ReadTo(end), NEW f, IsWalk(f, A, end), NEW b \in 0 .. end
    PROVE  WalkCase(A, end, f, b)
  <1> DEFINE at == InstanceAt(A, end, b)
  <1>0. end \in Nat /\ Magic # 0
    BY AreaAssumption DEF AreaEnd, ReadTo, Magic
  <1>1. f[b] = WalkStep(A, end, f, b)
    BY DEF IsWalk
  <1>2. b = end => f[b] = Halt(NoRow, FALSE)
    BY <1>1 DEF WalkStep
  <1>3. b # end /\ A[b] = 0 => f[b] = Halt(b, FALSE)
    BY <1>1 DEF WalkStep
  <1>4. b # end /\ A[b] # 0 /\ A[b] # Magic => f[b] = LostAt(A, end, f, b)
    BY <1>1, Zenon DEF WalkStep
  <1>5. b # end /\ A[b] # 0 /\ A[b] = Magic => f[b] = Found(A, end, f, b, at)
    BY <1>1, Zenon DEF WalkStep
  <1>6. at.how = "unknown" =>
          Found(A, end, f, b, at)
            = [Halt(NoRow, TRUE) EXCEPT !.issues = <<[issue |-> "version", row |-> b]>>]
    BY Zenon DEF Found
  <1>7. at.how # "unknown" => Found(A, end, f, b, at) = With(After(A, end, f, at), at.instance)
    BY Zenon DEF Found, With
  <1>8. at.how = "lost" => After(A, end, f, at) = LostAt(A, end, f, at.row)
    BY Zenon DEF After
  <1>9. at.how # "lost" => After(A, end, f, at) = f[PageAfter(at.row)]
    BY Zenon DEF After
  <1>10. /\ at.how = "lost" => at.how # "unknown"
         /\ at.how = "ended" => at.how # "unknown" /\ at.how # "lost"
    OBVIOUS
  <1>11. b < end => b # end
    BY <1>0
  <1> HIDE DEF at
  <1>12. /\ A[b] = Magic /\ b # end /\ at.how = "lost" =>
                  f[b] = With(LostAt(A, end, f, at.row), at.instance)
         /\ A[b] = Magic /\ b # end /\ at.how = "ended" =>
                  f[b] = With(f[PageAfter(at.row)], at.instance)
    BY <1>0, <1>5, <1>7, <1>8, <1>9, <1>10
  <1> QED
    BY <1>0, <1>2, <1>3, <1>4, <1>5, <1>6, <1>11, <1>12 DEF WalkCase, at

\* An instance put before a walk changes nothing else of it.
LEMMA WithTyped ==
    ASSUME NEW A, NEW end, NEW walk \in Walks(A, end), NEW instance \in Instances(A, end)
    PROVE  /\ With(walk, instance) \in Walks(A, end)
           /\ With(walk, instance).issues = walk.issues
           /\ With(walk, instance).next = walk.next
           /\ With(walk, instance).abandoned = walk.abandoned
           /\ With(walk, instance).instances = <<instance>> \o walk.instances
  <1> DEFINE S == Instances(A, end)
  <1>1. <<instance>> \o walk.instances \in Seq(S)
    <2>1. walk.instances \in Seq(S) /\ <<instance>> \in Seq(S)
      BY DEF Walks
    <2> HIDE DEF S
    <2> QED
      BY <2>1, ConcatProperties
  <1> HIDE DEF S
  <1> QED
    BY <1>1 DEF Walks, With, S

\* The walk that ends at a boundary.
LEMMA HaltTyped ==
    ASSUME NEW A, NEW end, NEW next \in {NoRow} \cup 0 .. end - 1, NEW abandoned \in BOOLEAN
    PROVE  Halt(next, abandoned) \in Walks(A, end)
  <1> DEFINE S == Instances(A, end)
             Issues == [issue : {"lost", "version"}, row : Nat]
  <1>1. <<>> \in Seq(S) /\ <<>> \in Seq(Issues)
    OBVIOUS
  <1> HIDE DEF S, Issues
  <1> QED
    BY <1>1 DEF Halt, Walks, S, Issues

\* Where the parser lost its place there is an issue.
LEMMA LostTyped ==
    ASSUME NEW A, AreaRows(A), NEW end, ReadTo(end), NEW f, NEW row \in 0 .. end - 1,
           \A c \in row + 1 .. end : f[c] \in Walks(A, end)
    PROVE  /\ LostAt(A, end, f, row) \in Walks(A, end)
           /\ LostAt(A, end, f, row).issues # <<>>
  <1> DEFINE later == InstancesAfter(A, end, row)
             c == CHOOSE c \in later : \A d \in later : c <= d
             lost == [issue |-> "lost", row |-> row]
             Issues == [issue : {"lost", "version"}, row : Nat]
             again == Again(A, end, f, row)
  <1>0. end \in Nat
    BY AreaAssumption DEF AreaEnd, ReadTo
  <1>1. later \subseteq row + 1 .. end /\ (later # {} => c \in later)
    BY NextInstance
  <1>2. Halt(NoRow, TRUE) \in Walks(A, end)
    BY HaltTyped
  <1>3. again \in Walks(A, end)
    <2>1. CASE later = {}
      BY <1>2, <2>1 DEF Again
    <2>2. CASE later # {}
      <3>1. Again(A, end, f, row) = f[c]
        BY <2>2, Zenon DEF Again
      <3> HIDE DEF c, later
      <3> QED
        BY <1>1, <2>2, <3>1
    <2> QED
      BY <2>1, <2>2
  <1>4. lost \in Issues
    BY <1>0
  <1> HIDE DEF again, lost, Issues
  <1>5. again.issues \in Seq(Issues)
    BY <1>3 DEF Walks, Issues
  <1>6. <<lost>> \o again.issues \in Seq(Issues) /\ Len(<<lost>> \o again.issues) = 1 + Len(again.issues)
    <2>1. <<lost>> \in Seq(Issues) /\ Len(<<lost>>) = 1
      BY <1>4
    <2> QED
      BY <1>5, <2>1, ConcatProperties
  <1>7. <<lost>> \o again.issues # <<>>
    <2>1. Len(again.issues) \in Nat /\ Len(<<>>) = 0
      BY <1>5, LenProperties
    <2> QED
      BY <1>6, <2>1
  <1>8. LostAt(A, end, f, row) = [again EXCEPT !.issues = <<lost>> \o @]
    BY DEF LostAt, again, lost
  <1> DEFINE issues == <<lost>> \o again.issues
  <1>9. issues \in Seq(Issues) /\ issues # <<>> /\ LostAt(A, end, f, row) = [again EXCEPT !.issues = issues]
    BY <1>6, <1>7, <1>8
  <1> HIDE DEF issues
  <1>10. PICK lostAt : lostAt = LostAt(A, end, f, row)
    OBVIOUS
  <1>11. lostAt = [again EXCEPT !.issues = issues]
    BY <1>9, <1>10
  <1>12. lostAt \in Walks(A, end)
    BY <1>3, <1>9, <1>11 DEF Walks, Issues
  <1>13. lostAt.issues = issues
    BY <1>3, <1>11 DEF Walks
  <1> QED
    BY <1>9, <1>10, <1>12, <1>13

\* What the walk gives is instances, issues, and a boundary to go on from.
LEMMA WalkTyped ==
    ASSUME NEW A, AreaRows(A), NEW end, ReadTo(end), NEW f, IsWalk(f, A, end), NEW b \in 0 .. end
    PROVE  f[b] \in Walks(A, end)
  <1> DEFINE T == {k \in 0 .. end : f[k] \notin Walks(A, end)}
  <1>0. end \in Nat /\ end \in 1 .. AreaEnd
    BY AreaAssumption DEF AreaEnd, ReadTo
  <1>1. ASSUME NEW k \in 0 .. end, \A c \in k + 1 .. end : f[c] \in Walks(A, end)
        PROVE  f[k] \in Walks(A, end)
    <2> DEFINE at == InstanceAt(A, end, k)
    <2>1. WalkCase(A, end, f, k)
      BY WalkCases
    <2>2. CASE k = end
      <3>1. f[k] = Halt(NoRow, FALSE)
        BY <2>1, <2>2 DEF WalkCase
      <3> QED
        BY <3>1, HaltTyped
    <2>3. CASE k < end
      <3>1. k \in 0 .. end - 1
        BY <1>0, <2>3
      <3>2. PICK r \in k .. end - 1, i \in Instances(A, end) :
              at.row = r /\ at.instance = i /\ at.how \in {"lost", "ended", "unknown"}
        BY <1>0, <3>1, InstanceRow
      <3> HIDE DEF at
      <3>3. CASE A[k] = 0
        <4>1. f[k] = Halt(k, FALSE)
          BY <2>1, <2>3, <3>3 DEF WalkCase
        <4> QED
          BY <3>1, <4>1, HaltTyped
      <3>4. CASE A[k] # 0 /\ A[k] # Magic
        <4>1. f[k] = LostAt(A, end, f, k)
          BY <2>1, <2>3, <3>4 DEF WalkCase
        <4>2. LostAt(A, end, f, k) \in Walks(A, end)
          BY <1>1, <3>1, LostTyped
        <4> QED
          BY <4>1, <4>2
      <3>5. CASE A[k] = Magic /\ at.how = "unknown"
        <4>1. f[k] = [Halt(NoRow, TRUE) EXCEPT !.issues = <<[issue |-> "version", row |-> k]>>]
          BY <2>1, <2>3, <3>5 DEF WalkCase, at
        <4>2. <<[issue |-> "version", row |-> k]>> \in Seq([issue : {"lost", "version"}, row : Nat])
          BY <3>1
        <4>3. Halt(NoRow, TRUE) \in Walks(A, end)
          BY HaltTyped
        <4> QED
          BY <4>1, <4>2, <4>3 DEF Walks
      <3>6. CASE A[k] = Magic /\ at.how = "lost"
        <4>1. f[k] = With(LostAt(A, end, f, r), i)
          BY <2>1, <2>3, <3>2, <3>6 DEF WalkCase, at
        <4>2. r \in 0 .. end - 1 /\ \A c \in r + 1 .. end : f[c] \in Walks(A, end)
          BY <1>0, <1>1, <3>2
        <4>3. LostAt(A, end, f, r) \in Walks(A, end)
          BY <4>2, LostTyped
        <4> QED
          BY <4>1, <4>3, WithTyped
      <3>7. CASE A[k] = Magic /\ at.how = "ended"
        <4>1. f[k] = With(f[PageAfter(r)], i)
          BY <2>1, <2>3, <3>2, <3>7 DEF WalkCase, at
        <4>2. r \in 0 .. end - 1
          BY <1>0, <3>2
        <4>3. PageAfter(r) \in r + 1 .. end
          BY <4>2, PageAfterIn
        <4>4. f[PageAfter(r)] \in Walks(A, end)
          BY <1>0, <1>1, <3>2, <4>3
        <4> QED
          BY <4>1, <4>4, WithTyped
      <3> QED
        BY <3>2, <3>3, <3>4, <3>5, <3>6, <3>7
    <2> QED
      BY <1>0, <2>2, <2>3
  <1>2. T = {}
    <2> SUFFICES ASSUME T # {} PROVE FALSE
      OBVIOUS
    <2>1. PICK k \in T : \A j \in T : j <= k
      <3>1. T \in SUBSET (0 .. end)
        OBVIOUS
      <3> HIDE DEF T
      <3> QED
        BY <1>0, <3>1, Greatest
    <2>2. ASSUME NEW j \in k + 1 .. end PROVE f[j] \in Walks(A, end)
      <3>1. j \in 0 .. end /\ ~(j <= k)
        BY <1>0, <2>1
      <3> QED
        BY <2>1, <3>1
    <2> QED
      BY <1>1, <2>1, <2>2
  <1> QED
    BY <1>2

\* The whole area is read, and is not empty.
LEMMA WholeArea == ReadTo(AreaEnd) /\ AreaEnd \in Nat /\ AreaEnd > 0
  <1>1. AreaPages \in 1 .. AreaPages /\ AreaEnd = AreaPages * PageRows
    BY AreaAssumption DEF AreaEnd
  <1>2. AreaEnd \in Nat /\ AreaEnd > 0
    BY AreaAssumption DEF AreaEnd
  <1> QED
    BY <1>1, <1>2 DEF ReadTo

\* A walk that found the next free page and no issue read all that matters.
LEMMA WalkLocal ==
    ASSUME NEW A, AreaRows(A), NEW end, ReadTo(end), NEW f, IsWalk(f, A, end),
           NEW g, IsWalk(g, A, AreaEnd), NEW b \in 0 .. end,
           f[b].issues = <<>>, f[b].next # NoRow
    PROVE  f[b] = g[b]
  <1> DEFINE Clear(k) == f[k].issues = <<>> /\ f[k].next # NoRow
             T == {k \in 0 .. end : Clear(k) /\ f[k] # g[k]}
  <1>0. end \in Nat /\ end \in 1 .. AreaEnd /\ AreaEnd \in Nat /\ ReadTo(AreaEnd)
    BY WholeArea DEF ReadTo
  <1>1. ASSUME NEW k \in 0 .. end, Clear(k), \A c \in k + 1 .. end : Clear(c) => f[c] = g[c]
        PROVE  f[k] = g[k]
    <2> DEFINE at == InstanceAt(A, end, k)
    <2>1. WalkCase(A, end, f, k)
      BY WalkCases
    <2>2. k < end
      <3> SUFFICES ASSUME k = end PROVE FALSE
        BY <1>0
      <3> QED
        BY <1>1, <2>1 DEF WalkCase, Halt
    <2>3. k \in 0 .. end - 1 /\ k \in 0 .. AreaEnd /\ k < AreaEnd
      BY <1>0, <2>2
    <2>4. WalkCase(A, AreaEnd, g, k)
      BY <1>0, <2>3, WalkCases
    <2>5. PICK r \in k .. end - 1, i \in Instances(A, end) :
            at.row = r /\ at.instance = i /\ at.how \in {"lost", "ended", "unknown"}
      BY <1>0, <2>3, InstanceRow
    <2>6. r \in 0 .. end - 1
      BY <1>0, <2>5
    <2>7. \A c \in 0 .. end : f[c] \in Walks(A, end)
      BY WalkTyped
    <2>8. ASSUME NEW row \in 0 .. end - 1 PROVE LostAt(A, end, f, row).issues # <<>>
                                               /\ LostAt(A, end, f, row) \in Walks(A, end)
      <3>1. \A c \in row + 1 .. end : f[c] \in Walks(A, end)
        BY <1>0, <2>7
      <3> QED
        BY <3>1, LostTyped
    <2> HIDE DEF at
    <2>9. CASE A[k] = 0
      <3>1. f[k] = Halt(k, FALSE) /\ g[k] = Halt(k, FALSE)
        BY <2>1, <2>2, <2>3, <2>4, <2>9 DEF WalkCase
      <3> QED
        BY <3>1
    <2>10. CASE A[k] # 0 /\ A[k] # Magic
      <3>1. f[k] = LostAt(A, end, f, k)
        BY <2>1, <2>2, <2>10 DEF WalkCase
      <3>2. LostAt(A, end, f, k).issues # <<>>
        BY <2>3, <2>8
      <3> QED
        BY <1>1, <3>1, <3>2
    <2>11. CASE A[k] = Magic /\ at.how = "unknown"
      <3>1. f[k] = [Halt(NoRow, TRUE) EXCEPT !.issues = <<[issue |-> "version", row |-> k]>>]
        BY <2>1, <2>2, <2>11 DEF WalkCase, at
      <3>2. f[k].issues = <<[issue |-> "version", row |-> k]>>
        BY <3>1 DEF Halt
      <3>3. f[k].issues # <<>>
        BY <3>2
      <3> QED
        BY <1>1, <3>3
    <2>12. CASE A[k] = Magic /\ at.how = "lost"
      <3>1. f[k] = With(LostAt(A, end, f, r), i)
        BY <2>1, <2>2, <2>5, <2>12 DEF WalkCase, at
      <3>2. LostAt(A, end, f, r).issues # <<>> /\ LostAt(A, end, f, r) \in Walks(A, end)
        BY <2>6, <2>8
      <3>3. f[k].issues = LostAt(A, end, f, r).issues
        <4>1. PICK w \in Walks(A, end) : w = LostAt(A, end, f, r)
          BY <3>2
        <4>2. With(w, i).issues = w.issues
          BY DEF With, Walks
        <4> QED
          BY <3>1, <4>1, <4>2
      <3> QED
        BY <1>1, <3>2, <3>3
    <2>13. CASE A[k] = Magic /\ at.how = "ended"
      <3> DEFINE c == PageAfter(r)
      <3>1. f[k] = With(f[c], i)
        BY <2>1, <2>2, <2>5, <2>13 DEF WalkCase, at
      <3>2. c \in r + 1 .. end
        BY <2>6, PageAfterIn
      <3> HIDE DEF c
      <3>3. c \in k + 1 .. end /\ c \in 0 .. end
        <4>1. r >= k /\ r \in Int /\ k \in Int
          BY <1>0, <2>5
        <4> QED
          BY <1>0, <3>2, <4>1
      <3>4. f[c] \in Walks(A, end)
        BY <2>7, <3>3
      <3>5. f[k].issues = f[c].issues /\ f[k].next = f[c].next
        <4>1. PICK w \in Walks(A, end) : w = f[c]
          BY <3>4
        <4>2. With(w, i).issues = w.issues /\ With(w, i).next = w.next
          BY DEF With, Walks
        <4> QED
          BY <3>1, <4>1, <4>2
      <3>6. f[c] = g[c]
        BY <1>1, <3>3, <3>5
      <3>7. c # end
        <4> SUFFICES ASSUME c = end PROVE FALSE
          OBVIOUS
        <4>1. WalkCase(A, end, f, c)
          BY <3>3, WalkCases
        <4> QED
          BY <1>1, <3>5, <4>1 DEF WalkCase, Halt
      <3>8. r # end - 1
        <4> SUFFICES ASSUME r = end - 1 PROVE FALSE
          OBVIOUS
        <4> QED
          BY <1>0, <3>2, <3>7
      <3>9. at = InstanceAt(A, AreaEnd, k)
        <4>1. PICK same \in 0 .. AreaEnd : same = end /\ same <= end /\ same <= AreaEnd
          BY <1>0
        <4>2. k \in 0 .. same - 1 /\ at.how = "ended" /\ at.row < same /\ at.row # end - 1
          BY <1>0, <2>3, <2>5, <2>13, <3>8, <4>1
        <4>3. AreaEnd \in 1 .. AreaEnd /\ \A x \in 0 .. same - 1 : A[x] = A[x]
          BY <1>0
        <4> QED
          BY <1>0, <4>1, <4>2, <4>3, InstanceLocal DEF at
      <3>10. g[k] = With(g[c], i)
        <4>1. InstanceAt(A, AreaEnd, k).how = "ended" /\ InstanceAt(A, AreaEnd, k).row = r
              /\ InstanceAt(A, AreaEnd, k).instance = i
          BY <2>5, <2>13, <3>9
        <4>2. g[k] = With(g[PageAfter(InstanceAt(A, AreaEnd, k).row)], InstanceAt(A, AreaEnd, k).instance)
          BY <2>3, <2>4, <2>13, <4>1 DEF WalkCase
        <4> QED
          BY <4>1, <4>2 DEF c
      <3> QED
        BY <3>1, <3>6, <3>10
    <2> QED
      BY <2>5, <2>9, <2>10, <2>11, <2>12, <2>13
  <1> HIDE DEF Clear
  <1>2. T = {}
    <2> SUFFICES ASSUME T # {} PROVE FALSE
      OBVIOUS
    <2>1. PICK k \in T : \A j \in T : j <= k
      <3>1. T \in SUBSET (0 .. end)
        OBVIOUS
      <3> HIDE DEF T
      <3> QED
        BY <1>0, <3>1, Greatest
    <2>2. ASSUME NEW j \in k + 1 .. end, Clear(j) PROVE f[j] = g[j]
      <3>1. j \in 0 .. end /\ ~(j <= k)
        BY <1>0, <2>1
      <3> QED
        BY <2>1, <2>2, <3>1
    <2> QED
      BY <1>1, <2>1, <2>2
  <1> QED
    BY <1>2 DEF Clear

\* read_area stops at the first page after which the parser has met no issue and
\* has found where the next instance goes.  What it then makes of the pages it
\* read is what it would make of the whole area.
THEOREM ReadWhole == ASSUME NEW A, AreaRows(A) PROVE ReadArea(A) = Parse(A, AreaEnd)
  <1> DEFINE whole == Parse(A, AreaEnd)
             Enough(p, area) == p = AreaPages \/ (area.next # NoRow /\ area.issues = <<>>)
             Some(p) == Parse(A, p * PageRows)
             Step(f, p) == IF Enough(p, Some(p)) THEN Some(p) ELSE f[p + 1]
             Is(f) == f = [p \in 1 .. AreaPages |-> Step(f, p)]
  <1>0. AreaPages \in Nat \ {0} /\ PageRows \in Nat \ {0} /\ AreaEnd = AreaPages * PageRows
    BY AreaAssumption DEF AreaEnd
  <1>1. ASSUME NEW p \in 1 .. AreaPages, Enough(p, Some(p)) PROVE Some(p) = whole
    <2>1. CASE p = AreaPages
      BY <1>0, <2>1
    <2>2. CASE Some(p).next # NoRow /\ Some(p).issues = <<>>
      <3> DEFINE end == p * PageRows
      <3>1. ReadTo(end)
        <4>1. PICK q \in Nat : AreaPages = p + q
          BY <1>0
        <4>2. PICK n \in Nat : n = PageRows /\ n > 0
          BY <1>0
        <4>3. AreaEnd = p * n + q * n /\ q * n \in Nat /\ p * n \in Nat /\ p * n > 0
          BY <1>0, <4>1, <4>2
        <4>4. end = p * n
          BY <4>2
        <4>5. end \in 1 .. AreaEnd
          BY <4>3, <4>4
        <4> HIDE DEF end
        <4> QED
          BY <4>2, <4>4, <4>5 DEF ReadTo
      <3> HIDE DEF end
      <3>2. PICK f : IsWalk(f, A, end) /\ Walk(A, end) = f[0]
        BY <3>1, WalkDefined
      <3>3. PICK g : IsWalk(g, A, AreaEnd) /\ Walk(A, AreaEnd) = g[0]
        BY WholeArea, WalkDefined
      <3>4. f[0].next = Some(p).next /\ f[0].issues = Some(p).issues
        BY <3>2 DEF Parse, Parsed, end
      <3>5. 0 \in 0 .. end
        BY <3>1 DEF ReadTo
      <3>6. f[0] = g[0]
        BY <2>2, <3>1, <3>2, <3>3, <3>4, <3>5, WalkLocal
      <3> QED
        BY <3>2, <3>3, <3>6 DEF Parse, end
    <2> QED
      BY <1>1, <2>1, <2>2
  <1>2. Is([p \in 1 .. AreaPages |-> whole])
    <2> DEFINE g == [p \in 1 .. AreaPages |-> whole]
    <2>1. ASSUME NEW p \in 1 .. AreaPages PROVE g[p] = Step(g, p)
      <3>1. g[p] = whole
        OBVIOUS
      <3>2. CASE Enough(p, Some(p))
        <4> HIDE DEF g, whole, Some, Enough
        <4> QED
          BY <1>1, <3>1, <3>2
      <3>3. CASE ~Enough(p, Some(p))
        <4>1. p + 1 \in 1 .. AreaPages
          BY <1>0, <3>3
        <4>2. g[p + 1] = whole
          BY <4>1
        <4> HIDE DEF g, whole, Some, Enough
        <4> QED
          BY <3>1, <3>3, <4>2
      <3> QED
        BY <3>2, <3>3
    <2>2. g = [p \in 1 .. AreaPages |-> g[p]]
      OBVIOUS
    <2> HIDE DEF g, Step
    <2>3. g = [p \in 1 .. AreaPages |-> Step(g, p)]
      BY <2>1, <2>2
    <2> QED
      BY <2>3 DEF g
  <1>3. PICK f : f = (CHOOSE g : Is(g))
    OBVIOUS
  <1>4. Is(f)
    <2> HIDE DEF Is
    <2> QED
      BY <1>2, <1>3
  <1>5. ReadArea(A) = f[1]
    BY <1>3, Zenon DEF ReadArea
  <1> DEFINE T == {p \in 0 .. AreaPages : p # 0 /\ f[p] # whole}
  <1>6. T = {}
    <2> SUFFICES ASSUME T # {} PROVE FALSE
      OBVIOUS
    <2>1. PICK p \in T : \A q \in T : q <= p
      <3>1. T \in SUBSET (0 .. AreaPages)
        OBVIOUS
      <3> HIDE DEF T
      <3> QED
        BY <1>0, <3>1, Greatest
    <2>2. p \in 1 .. AreaPages /\ f[p] # whole
      BY <1>0, <2>1
    <2>3. f[p] = Step(f, p)
      <3> HIDE DEF Step
      <3> QED
        BY <1>4, <2>2
    <2>4. CASE Enough(p, Some(p))
      <3> HIDE DEF whole, Some, Enough
      <3> QED
        BY <1>1, <2>2, <2>3, <2>4
    <2>5. CASE ~Enough(p, Some(p))
      <3>1. p + 1 \in 0 .. AreaPages /\ p + 1 # 0 /\ ~(p + 1 <= p)
        BY <1>0, <2>2, <2>5
      <3>2. f[p + 1] = whole
        <4> HIDE DEF whole
        <4> QED
          BY <2>1, <3>1
      <3> HIDE DEF whole, Some, Enough
      <3> QED
        BY <2>2, <2>3, <2>5, <3>2
    <2> QED
      BY <2>4, <2>5
  <1>7. 1 \in 0 .. AreaPages
    BY <1>0
  <1> HIDE DEF whole
  <1> QED
    BY <1>5, <1>6, <1>7 DEF whole

---------------------------------------------------------------------------
(* The rows of an instance, one by one.                                    *)

\* Values that name someone and a day: no row of them is 0.
Given(v) ==
    /\ v.who \in Seq(Nat \ {0}) /\ v.who # <<>>
    /\ \E d \in Nat \ {0} : v = [who |-> v.who, date |-> <<d>>]

SigOf(v) == Signature(TableKey, v)
WritesOf(b, v) == InstanceWrites(b, v, SigOf(v))

\* Which row each write is to and what it leaves there.
Layout(w, b, v) ==
    LET n == Len(v.who)
    IN  /\ Len(w) = 10 + n /\ DOMAIN w = 1 .. 10 + n
        /\ w[1] = <<b, Magic>> /\ w[2] = <<b + 1, Version>> /\ w[3] = <<b + 3, n>>
        /\ \A i \in 1 .. n : w[3 + i] = <<b + 3 + i, v.who[i]>>
        /\ w[4 + n] = <<b + 2, WhoKey>>
        /\ w[5 + n] = <<b + 5 + n, 1>> /\ w[6 + n] = <<b + 6 + n, v.date[1]>>
        /\ w[7 + n] = <<b + 4 + n, DateKey>>
        /\ w[8 + n] = <<b + 8 + n, 1>> /\ w[9 + n] = <<b + 9 + n, SigOf(v)>>
        /\ w[10 + n] = <<b + 7 + n, SigKey>>

SignedLayout(s, v) ==
    LET n == Len(v.who)
    IN  /\ Len(s) = 7 + n /\ s \in Seq(Nat)
        /\ s[1] = Magic /\ s[2] = Version /\ s[3] = WhoKey /\ s[4] = n
        /\ \A i \in 1 .. n : s[4 + i] = v.who[i]
        /\ s[5 + n] = DateKey /\ s[6 + n] = 1 /\ s[7 + n] = v.date[1]

\* What follows of values that a request gives.
LEMMA GivenFacts ==
    ASSUME NEW v, Given(v)
    PROVE  /\ v.who \in Seq(Nat) /\ v.date \in Seq(Nat) /\ Len(v.date) = 1
           /\ v.date = <<v.date[1]>> /\ v.date[1] \in Nat \ {0}
           /\ v = [who |-> v.who, date |-> v.date]
           /\ Len(v.who) \in Nat \ {0}
           /\ \A i \in 1 .. Len(v.who) : v.who[i] \in Nat \ {0}
           /\ SigOf(v) \in Nat \ {0}
  <1>1. PICK d \in Nat \ {0} : v = [who |-> v.who, date |-> <<d>>]
    BY DEF Given
  <1>2. v.date = <<d>>
    BY <1>1
  <1>3. v.date \in Seq(Nat) /\ Len(v.date) = 1 /\ v.date[1] = d
    BY <1>2
  <1>4. v.who \in Seq(Nat \ {0}) /\ v.who # <<>>
    BY DEF Given
  <1>5. v.who \in Seq(Nat) /\ Len(v.who) \in Nat \ {0}
        /\ \A i \in 1 .. Len(v.who) : v.who[i] \in Nat \ {0}
    <2>1. Len(v.who) \in Nat /\ DOMAIN v.who = 1 .. Len(v.who)
          /\ \A i \in 1 .. Len(v.who) : v.who[i] \in Nat \ {0}
      BY <1>4, LenProperties, ElementOfSeq
    <2>2. Len(v.who) # 0
      BY <1>4, EmptySeq
    <2> QED
      BY <1>4, <2>1, <2>2
  <1>6. SigOf(v) \in Nat \ {0}
    <2>1. 1 \in 1 .. Len(v.who) /\ (Len(v.who) > 1 => 2 \in 1 .. Len(v.who))
      BY <1>5
    <2>2. PICK x \in Nat : x = IF Len(v.who) > 1 THEN v.who[2] ELSE 0
      BY <1>5, <2>1
    <2>3. PICK b \in Nat : b = v.who[1]
      BY <1>5, <2>1
    <2>4. SigOf(v) = 1000 * 1 + 100 * d + 10 * b + x
      BY <1>3, <2>2, <2>3 DEF SigOf, Signature, TableKey
    <2> QED
      BY <2>4
  <1> QED
    BY <1>1, <1>2, <1>3, <1>5, <1>6

\* A concatenation's elements.
Joins(S, u, s, t, m, n) ==
    /\ u \in Seq(S) /\ Len(u) = m + n
    /\ \A i \in 1 .. m : u[i] = s[i]
    /\ \A i \in 1 .. n : u[m + i] = t[i]

\* A sequence joined to another, with the lengths named.
LEMMA Joined ==
    ASSUME NEW S, NEW s \in Seq(S), NEW t \in Seq(S), NEW m \in Nat, m = Len(s),
           NEW n \in Nat, n = Len(t)
    PROVE  Joins(S, s \o t, s, t, m, n)
  <1> DEFINE u == s \o t
  <1>1. u \in Seq(S) /\ Len(u) = m + n
        /\ \A i \in 1 .. m + n : u[i] = IF i <= m THEN s[i] ELSE t[i - m]
    BY ConcatProperties
  <1> HIDE DEF u
  <1>2. \A i \in 1 .. m : u[i] = s[i]
    BY <1>1
  <1>3. ASSUME NEW i \in 1 .. n PROVE u[m + i] = t[i]
    <2>1. m + i \in 1 .. m + n /\ ~(m + i <= m) /\ (m + i) - m = i
      OBVIOUS
    <2> QED
      BY <1>1, <2>1
  <1> QED
    BY <1>1, <1>2, <1>3 DEF u, Joins

\* One entry: its length, its value, its key.
EntryWritten(w, a, key, value, n) ==
    /\ w \in Seq(Int \X Nat) /\ Len(w) = n + 2
    /\ w[1] = <<a + 1, n>>
    /\ \A i \in 1 .. n : w[1 + i] = <<a + 1 + i, value[i]>>
    /\ w[n + 2] = <<a, key>>

EntryRead(rows, key, value, n) ==
    /\ rows \in Seq(Nat) /\ Len(rows) = n + 2
    /\ rows[1] = key /\ rows[2] = n
    /\ \A i \in 1 .. n : rows[2 + i] = value[i]

\* The rows of an entry: its key, its length, its value.
LEMMA EntryLayout ==
    ASSUME NEW key \in Nat, NEW value \in Seq(Nat), NEW n \in Nat, n = Len(value)
    PROVE  EntryRead(EntryRows(key, value), key, value, n)
  <1> DEFINE head == <<key, n>>
             rows == head \o value
  <1>1. head \in Seq(Nat) /\ Len(head) = 2 /\ head[1] = key /\ head[2] = n
    OBVIOUS
  <1>2. EntryRows(key, value) = rows
    BY DEF EntryRows
  <1> HIDE DEF head
  <1>3. Joins(Nat, rows, head, value, 2, n)
    BY <1>1, Joined
  <1> HIDE DEF rows
  <1> QED
    BY <1>1, <1>2, <1>3 DEF EntryRead, Joins

\* The writes of an entry: the key comes last.
LEMMA EntryWrittenAs ==
    ASSUME NEW a \in Int, NEW key \in Nat, NEW value \in Seq(Nat), NEW n \in Nat, n = Len(value)
    PROVE  EntryWritten(EntryWrites(a, key, value), a, key, value, n)
  <1> DEFINE rows == EntryRows(key, value)
             w == EntryWrites(a, key, value)
  <1>1. EntryRead(rows, key, value, n)
    BY EntryLayout
  <1>2. Len(rows) = n + 2
    BY <1>1 DEF EntryRead
  <1>6. w = [i \in 1 .. n + 2 |-> IF i < n + 2 THEN <<a + i, rows[i + 1]>> ELSE <<a, rows[1]>>]
    BY <1>2 DEF EntryWrites
  <1> HIDE DEF rows
  <1>7. w \in Seq(Int \X Nat) /\ Len(w) = n + 2
    BY EntryCovers DEF Covers, Writes
  <1> HIDE DEF w
  <1>8. w[1] = <<a + 1, n>>
    BY <1>1, <1>6 DEF EntryRead
  <1>9. w[n + 2] = <<a, key>>
    BY <1>1, <1>6 DEF EntryRead
  <1>10. ASSUME NEW i \in 1 .. n PROVE w[1 + i] = <<a + 1 + i, value[i]>>
    <2>1. 1 + i \in 1 .. n + 2 /\ 1 + i < n + 2 /\ (1 + i) + 1 = 2 + i /\ a + (1 + i) = a + 1 + i
      OBVIOUS
    <2>2. w[1 + i] = <<a + (1 + i), rows[(1 + i) + 1]>>
      BY <1>6, <2>1
    <2>3. rows[2 + i] = value[i]
      BY <1>1 DEF EntryRead
    <2> QED
      BY <2>1, <2>2, <2>3
  <1> QED
    BY <1>7, <1>8, <1>9, <1>10 DEF EntryWritten, w

\* The writes of an instance, one by one.
LEMMA WritesAre ==
    ASSUME NEW b \in Int, NEW v, Given(v)
    PROVE  Layout(WritesOf(b, v), b, v)
  <1> DEFINE S == Int \X Nat
             date == b + 4 + Len(v.who)
             end == date + 2 + Len(v.date)
             h == << <<b, Magic>>, <<b + 1, Version>> >>
             x == EntryWrites(b + 2, WhoKey, v.who)
             y == EntryWrites(date, DateKey, v.date)
             z == EntryWrites(end, SigKey, <<SigOf(v)>>)
             w == WritesOf(b, v)
  <1>1. PICK n \in Nat : n = Len(v.who) /\ n > 0
    BY GivenFacts
  <1>2. /\ v.who \in Seq(Nat) /\ v.date \in Seq(Nat) /\ Len(v.date) = 1
        /\ SigOf(v) \in Nat
    BY GivenFacts
  <1>3. w = ((h \o x) \o y) \o z
    BY DEF WritesOf, InstanceWrites
  <1>4. b + 2 \in Int /\ date = b + 4 + n /\ end = b + 7 + n /\ date \in Int /\ end \in Int
    <2>1. date = b + 4 + n
      BY <1>1
    <2> HIDE DEF date
    <2> QED
      BY <1>2, <2>1
  <1>5. WhoKey \in Nat /\ DateKey \in Nat /\ SigKey \in Nat /\ Magic \in Nat /\ Version \in Nat
    BY DEF WhoKey, DateKey, SigKey, Magic, Version
  <1>6. h \in Seq(S) /\ Len(h) = 2 /\ h[1] = <<b, Magic>> /\ h[2] = <<b + 1, Version>>
    BY <1>5
  <1> HIDE DEF h, date, end
  <1>7. EntryWritten(x, b + 2, WhoKey, v.who, n)
    BY <1>1, <1>2, <1>4, <1>5, EntryWrittenAs
  <1>8. /\ y \in Seq(S) /\ Len(y) = 3 /\ y[1] = <<date + 1, 1>>
        /\ y[2] = <<date + 2, v.date[1]>> /\ y[3] = <<date, DateKey>>
    <2>1. EntryWritten(y, date, DateKey, v.date, 1)
      BY <1>2, <1>4, <1>5, EntryWrittenAs
    <2> HIDE DEF y
    <2>2. y[1 + 1] = <<date + 1 + 1, v.date[1]>>
      BY <2>1 DEF EntryWritten
    <2> QED
      BY <1>4, <2>1, <2>2 DEF EntryWritten
  <1>9. /\ z \in Seq(S) /\ Len(z) = 3 /\ z[1] = <<end + 1, 1>>
        /\ z[2] = <<end + 2, SigOf(v)>> /\ z[3] = <<end, SigKey>>
    <2> DEFINE one == <<SigOf(v)>>
    <2>1. one \in Seq(Nat) /\ Len(one) = 1 /\ one[1] = SigOf(v)
      BY <1>2
    <2> HIDE DEF one
    <2>2. EntryWritten(EntryWrites(end, SigKey, one), end, SigKey, one, 1)
      BY <1>4, <1>5, <2>1, EntryWrittenAs
    <2>3. z = EntryWrites(end, SigKey, one)
      BY DEF one
    <2> HIDE DEF z
    <2>4. z[1 + 1] = <<end + 1 + 1, one[1]>>
      BY <2>2, <2>3 DEF EntryWritten
    <2> QED
      BY <1>4, <2>1, <2>2, <2>3, <2>4 DEF EntryWritten
  <1> DEFINE p == h \o x
             q == p \o y
  <1> HIDE DEF x, y, z, S
  <1>10. /\ p \in Seq(S) /\ Len(p) = 4 + n
         /\ p[1] = h[1] /\ p[2] = h[2] /\ \A i \in 1 .. n + 2 : p[2 + i] = x[i]
    <2>1. x \in Seq(S) /\ Len(x) = n + 2 /\ n + 2 \in Nat
      BY <1>1, <1>7 DEF EntryWritten, S
    <2>2. Joins(S, p, h, x, 2, n + 2)
      BY <1>6, <2>1, Joined
    <2> HIDE DEF p
    <2> QED
      BY <1>1, <2>2 DEF Joins
  <1> HIDE DEF p
  <1>11. /\ q \in Seq(S) /\ Len(q) = 7 + n
         /\ \A i \in 1 .. 4 + n : q[i] = p[i]
         /\ \A i \in 1 .. 3 : q[4 + n + i] = y[i]
    <2>1. 4 + n \in Nat
      BY <1>1
    <2>2. Joins(S, q, p, y, 4 + n, 3)
      BY <1>8, <1>10, <2>1, Joined
    <2> HIDE DEF q
    <2> QED
      BY <1>1, <2>2 DEF Joins
  <1> HIDE DEF q
  <1>12. /\ w \in Seq(S) /\ Len(w) = 10 + n
         /\ \A i \in 1 .. 7 + n : w[i] = q[i]
         /\ \A i \in 1 .. 3 : w[7 + n + i] = z[i]
    <2>1. w = q \o z
      BY <1>3 DEF q, p
    <2> HIDE DEF w
    <2>2. 7 + n \in Nat
      BY <1>1
    <2>3. Joins(S, q \o z, q, z, 7 + n, 3)
      BY <1>9, <1>11, <2>2, Joined
    <2>4. Joins(S, w, q, z, 7 + n, 3)
      BY <2>1, <2>3
    <2> QED
      BY <1>1, <2>4 DEF Joins
  <1> HIDE DEF w
  <1>13. DOMAIN w = 1 .. 10 + n
    BY <1>12, LenProperties
  <1>14. ASSUME NEW i \in 1 .. n + 2 PROVE w[2 + i] = x[i]
    <2>1. 2 + i \in 1 .. 4 + n /\ 2 + i \in 1 .. 7 + n
      BY <1>1
    <2> QED
      BY <1>10, <1>11, <1>12, <2>1
  <1>15. w[1] = h[1] /\ w[2] = h[2]
    <2>1. {1, 2} \subseteq 1 .. 4 + n /\ {1, 2} \subseteq 1 .. 7 + n
      BY <1>1
    <2>2. \A i \in {1, 2} : w[i] = q[i] /\ q[i] = p[i]
      BY <1>11, <1>12, <2>1
    <2> QED
      BY <1>10, <2>2
  <1>16. w[3] = <<b + 3, n>>
    <2>1. w[2 + 1] = x[1] /\ b + 2 + 1 = b + 3
      BY <1>1, <1>14
    <2> QED
      BY <1>7, <2>1 DEF EntryWritten
  <1>17. ASSUME NEW i \in 1 .. n PROVE w[3 + i] = <<b + 3 + i, v.who[i]>>
    <2>1. 1 + i \in 1 .. n + 2 /\ 2 + (1 + i) = 3 + i /\ b + 2 + 1 + i = b + 3 + i
      BY <1>1
    <2>2. w[2 + (1 + i)] = x[1 + i]
      BY <1>14, <2>1
    <2>3. x[1 + i] = <<b + 2 + 1 + i, v.who[i]>>
      BY <1>7 DEF EntryWritten
    <2> QED
      BY <2>1, <2>2, <2>3
  <1>18. w[4 + n] = <<b + 2, WhoKey>>
    <2>1. w[2 + (n + 2)] = x[n + 2] /\ 2 + (n + 2) = 4 + n
      BY <1>1, <1>14
    <2> QED
      BY <1>7, <2>1 DEF EntryWritten
  <1>19. ASSUME NEW i \in 1 .. 3 PROVE w[4 + n + i] = y[i]
    <2>1. 4 + n + i \in 1 .. 7 + n
      BY <1>1
    <2> QED
      BY <1>11, <1>12, <2>1
  <1>20. w[5 + n] = <<b + 5 + n, 1>> /\ w[6 + n] = <<b + 6 + n, v.date[1]>>
         /\ w[7 + n] = <<b + 4 + n, DateKey>>
    <2>1. w[4 + n + 1] = y[1] /\ w[4 + n + 2] = y[2] /\ w[4 + n + 3] = y[3]
      BY <1>19
    <2>2. /\ 4 + n + 1 = 5 + n /\ 4 + n + 2 = 6 + n /\ 4 + n + 3 = 7 + n
          /\ date + 1 = b + 5 + n /\ date + 2 = b + 6 + n
      BY <1>4
    <2> QED
      BY <1>4, <1>8, <2>1, <2>2
  <1>21. w[8 + n] = <<b + 8 + n, 1>> /\ w[9 + n] = <<b + 9 + n, SigOf(v)>>
         /\ w[10 + n] = <<b + 7 + n, SigKey>>
    <2>1. w[7 + n + 1] = z[1] /\ w[7 + n + 2] = z[2] /\ w[7 + n + 3] = z[3]
      BY <1>12
    <2>2. /\ 7 + n + 1 = 8 + n /\ 7 + n + 2 = 9 + n /\ 7 + n + 3 = 10 + n
          /\ end + 1 = b + 8 + n /\ end + 2 = b + 9 + n
      BY <1>4
    <2> QED
      BY <1>4, <1>9, <2>1, <2>2
  <1> QED
    BY <1>1, <1>6, <1>12, <1>13, <1>15, <1>16, <1>17, <1>18, <1>20, <1>21 DEF Layout, w

\* The rows of an instance its signature covers, one by one.
LEMMA SignedAre == ASSUME NEW v, Given(v) PROVE SignedLayout(SignedRows(v), v)
  <1> DEFINE h == <<Magic, Version>>
             x == EntryRows(WhoKey, v.who)
             y == EntryRows(DateKey, v.date)
             s == SignedRows(v)
  <1>1. PICK n \in Nat : n = Len(v.who) /\ n > 0
    BY GivenFacts
  <1>2. v.who \in Seq(Nat) /\ v.date \in Seq(Nat) /\ Len(v.date) = 1
    BY GivenFacts
  <1>3. s = (h \o x) \o y
    BY DEF SignedRows
  <1>4. WhoKey \in Nat /\ DateKey \in Nat /\ Magic \in Nat /\ Version \in Nat
    BY DEF WhoKey, DateKey, Magic, Version
  <1>5. h \in Seq(Nat) /\ Len(h) = 2 /\ h[1] = Magic /\ h[2] = Version
    BY <1>4
  <1> HIDE DEF h
  <1>6. EntryRead(x, WhoKey, v.who, n)
    BY <1>1, <1>2, <1>4, EntryLayout
  <1>7. y \in Seq(Nat) /\ Len(y) = 3 /\ y[1] = DateKey /\ y[2] = 1 /\ y[3] = v.date[1]
    <2>1. EntryRead(y, DateKey, v.date, 1)
      BY <1>2, <1>4, EntryLayout
    <2> HIDE DEF y
    <2>2. y[2 + 1] = v.date[1]
      BY <2>1 DEF EntryRead
    <2> QED
      BY <2>1, <2>2 DEF EntryRead
  <1> DEFINE p == h \o x
  <1> HIDE DEF x, y
  <1>8. /\ p \in Seq(Nat) /\ Len(p) = 2 + (n + 2)
        /\ \A i \in 1 .. 2 : p[i] = h[i]
        /\ \A i \in 1 .. n + 2 : p[2 + i] = x[i]
    <2>1. x \in Seq(Nat) /\ Len(x) = n + 2 /\ n + 2 \in Nat
      BY <1>1, <1>6 DEF EntryRead
    <2>2. Joins(Nat, p, h, x, 2, n + 2)
      BY <1>5, <2>1, Joined
    <2> HIDE DEF p
    <2> QED
      BY <2>2 DEF Joins
  <1> HIDE DEF p
  <1>9. Joins(Nat, s, p, y, 4 + n, 3)
    <2>1. s = p \o y
      BY <1>3 DEF p
    <2>2. Len(p) = 4 + n /\ 4 + n \in Nat
      BY <1>1, <1>8
    <2>3. Joins(Nat, p \o y, p, y, 4 + n, 3)
      BY <1>7, <1>8, <2>2, Joined
    <2> QED
      BY <2>1, <2>3
  <1> HIDE DEF s
  <1>10. s[1] = Magic /\ s[2] = Version
    <2>1. {1, 2} \subseteq 1 .. 4 + n
      BY <1>1
    <2>2. \A i \in {1, 2} : s[i] = p[i] /\ p[i] = h[i]
      BY <1>8, <1>9, <2>1 DEF Joins
    <2> QED
      BY <1>5, <2>2
  <1>11. ASSUME NEW i \in 1 .. n + 2 PROVE s[2 + i] = x[i]
    <2>1. 2 + i \in 1 .. 4 + n
      BY <1>1
    <2> QED
      BY <1>8, <1>9, <2>1 DEF Joins
  <1>12. s[3] = WhoKey /\ s[4] = n
    <2>1. s[2 + 1] = x[1] /\ s[2 + 2] = x[2]
      BY <1>1, <1>11
    <2> QED
      BY <1>6, <2>1 DEF EntryRead
  <1>13. ASSUME NEW i \in 1 .. n PROVE s[4 + i] = v.who[i]
    <2>1. 2 + i \in 1 .. n + 2 /\ 2 + (2 + i) = 4 + i
      BY <1>1
    <2>2. s[2 + (2 + i)] = x[2 + i]
      BY <1>11, <2>1
    <2>3. x[2 + i] = v.who[i]
      BY <1>6 DEF EntryRead
    <2> QED
      BY <2>1, <2>2, <2>3
  <1>14. s[5 + n] = DateKey /\ s[6 + n] = 1 /\ s[7 + n] = v.date[1]
    <2>1. /\ s[(4 + n) + 1] = y[1] /\ s[(4 + n) + 2] = y[2] /\ s[(4 + n) + 3] = y[3]
          /\ (4 + n) + 1 = 5 + n /\ (4 + n) + 2 = 6 + n /\ (4 + n) + 3 = 7 + n
      BY <1>1, <1>9 DEF Joins
    <2> QED
      BY <1>7, <2>1
  <1> QED
    <2>1. s \in Seq(Nat) /\ Len(s) = 7 + n
      BY <1>1, <1>9 DEF Joins
    <2> QED
      BY <1>1, <2>1, <1>10, <1>12, <1>13, <1>14 DEF SignedLayout, s

---------------------------------------------------------------------------
(* The last instance of the area.                                          *)

\* Of the instance of v that starts at b the first m rows are written, in the
\* order they are written in, and none after it.
Front(A, b, v, m) ==
    LET n == Len(v.who)
        w == WritesOf(b, v)
    IN  /\ AreaRows(A) /\ Given(v)
        /\ b \in Nat /\ b % PageRows = 0 /\ b + 10 + n <= AreaEnd
        /\ m \in 0 .. 10 + n
        /\ \A j \in 1 .. 10 + n : A[w[j][1]] = IF j <= m THEN w[j][2] ELSE 0
        /\ \A r \in b + 10 + n .. AreaEnd - 1 : A[r] = 0

Long(v, n) == n = Len(v.who)

\* The same, row by row.
Shows(A, b, v, m, n) ==
    /\ A[b] = IF 1 <= m THEN Magic ELSE 0
    /\ A[b + 1] = IF 2 <= m THEN Version ELSE 0
    /\ A[b + 2] = IF 4 + n <= m THEN WhoKey ELSE 0
    /\ A[b + 3] = IF 3 <= m THEN n ELSE 0
    /\ \A i \in 1 .. n : A[b + 3 + i] = IF 3 + i <= m THEN v.who[i] ELSE 0
    /\ A[b + 4 + n] = IF 7 + n <= m THEN DateKey ELSE 0
    /\ A[b + 5 + n] = IF 5 + n <= m THEN 1 ELSE 0
    /\ A[b + 6 + n] = IF 6 + n <= m THEN v.date[1] ELSE 0
    /\ A[b + 7 + n] = IF 10 + n <= m THEN SigKey ELSE 0
    /\ A[b + 8 + n] = IF 8 + n <= m THEN 1 ELSE 0
    /\ A[b + 9 + n] = IF 9 + n <= m THEN SigOf(v) ELSE 0

\* An instance at the front lies in the area, with nothing after it.
LEMMA FrontBounds ==
    ASSUME NEW A, NEW b, NEW v, NEW m, Front(A, b, v, m)
    PROVE  \E n \in Nat \ {0} :
             /\ Long(v, n) /\ AreaEnd \in Nat /\ b \in Nat /\ m \in 0 .. 10 + n
             /\ b + 10 + n <= AreaEnd /\ AreaEnd \in 1 .. AreaEnd /\ b \in 0 .. AreaEnd - 1
             /\ AreaRows(A) /\ Given(v) /\ b % PageRows = 0
             /\ \A r \in b + 10 + n .. AreaEnd - 1 : A[r] = 0
             /\ \A r \in 0 .. AreaEnd - 1 : A[r] \in Nat
  <1>1. PICK n \in Nat \ {0} : n = Len(v.who)
    BY GivenFacts DEF Front
  <1>2. /\ b \in Nat /\ m \in 0 .. 10 + n /\ b + 10 + n <= AreaEnd
        /\ AreaRows(A) /\ Given(v) /\ b % PageRows = 0
        /\ \A r \in b + 10 + n .. AreaEnd - 1 : A[r] = 0
    BY <1>1, Zenon DEF Front
  <1>3. AreaEnd \in Nat
    BY WholeArea
  <1>4. AreaEnd \in 1 .. AreaEnd /\ b \in 0 .. AreaEnd - 1
    BY <1>2, <1>3
  <1>5. \A r \in 0 .. AreaEnd - 1 : A[r] \in Nat
    BY <1>2 DEF AreaRows
  <1> QED
    BY <1>1, <1>2, <1>3, <1>4, <1>5 DEF Long

\* What it has in each of its rows.
LEMMA FrontShows ==
    ASSUME NEW A, NEW b, NEW v, NEW m, Front(A, b, v, m), NEW n, Long(v, n)
    PROVE  Shows(A, b, v, m, n)
  <1> DEFINE w == WritesOf(b, v)
  <1>1. n \in Nat \ {0} /\ b \in Nat /\ Given(v)
    BY FrontBounds DEF Long
  <1>2. Layout(w, b, v)
    BY <1>1, WritesAre
  <1>3. \A j \in 1 .. 10 + n : A[w[j][1]] = IF j <= m THEN w[j][2] ELSE 0
    BY Zenon DEF Front, Long
  <1> HIDE DEF w
  <1>4. /\ {1, 2, 3, 4 + n, 5 + n, 6 + n, 7 + n, 8 + n, 9 + n, 10 + n} \subseteq 1 .. 10 + n
        /\ \A i \in 1 .. n : 3 + i \in 1 .. 10 + n
    BY <1>1
  <1>5. /\ A[w[1][1]] = IF 1 <= m THEN w[1][2] ELSE 0
        /\ A[w[2][1]] = IF 2 <= m THEN w[2][2] ELSE 0
        /\ A[w[3][1]] = IF 3 <= m THEN w[3][2] ELSE 0
        /\ \A i \in 1 .. n : A[w[3 + i][1]] = IF 3 + i <= m THEN w[3 + i][2] ELSE 0
        /\ A[w[4 + n][1]] = IF 4 + n <= m THEN w[4 + n][2] ELSE 0
        /\ A[w[5 + n][1]] = IF 5 + n <= m THEN w[5 + n][2] ELSE 0
        /\ A[w[6 + n][1]] = IF 6 + n <= m THEN w[6 + n][2] ELSE 0
        /\ A[w[7 + n][1]] = IF 7 + n <= m THEN w[7 + n][2] ELSE 0
        /\ A[w[8 + n][1]] = IF 8 + n <= m THEN w[8 + n][2] ELSE 0
        /\ A[w[9 + n][1]] = IF 9 + n <= m THEN w[9 + n][2] ELSE 0
        /\ A[w[10 + n][1]] = IF 10 + n <= m THEN w[10 + n][2] ELSE 0
    BY <1>3, <1>4, Zenon
  <1>6. /\ w[1] = <<b, Magic>> /\ w[2] = <<b + 1, Version>> /\ w[3] = <<b + 3, n>>
        /\ \A i \in 1 .. n : w[3 + i] = <<b + 3 + i, v.who[i]>>
        /\ w[4 + n] = <<b + 2, WhoKey>>
        /\ w[5 + n] = <<b + 5 + n, 1>> /\ w[6 + n] = <<b + 6 + n, v.date[1]>>
        /\ w[7 + n] = <<b + 4 + n, DateKey>>
        /\ w[8 + n] = <<b + 8 + n, 1>> /\ w[9 + n] = <<b + 9 + n, SigOf(v)>>
        /\ w[10 + n] = <<b + 7 + n, SigKey>>
    BY <1>2, Zenon DEF Layout, Long
  <1>7. \A x, y : <<x, y>>[1] = x /\ <<x, y>>[2] = y
    OBVIOUS
  <1>8. /\ A[b] = IF 1 <= m THEN Magic ELSE 0
        /\ A[b + 1] = IF 2 <= m THEN Version ELSE 0
        /\ A[b + 2] = IF 4 + n <= m THEN WhoKey ELSE 0
        /\ A[b + 3] = IF 3 <= m THEN n ELSE 0
    BY <1>5, <1>6, <1>7
  <1>9. \A i \in 1 .. n : A[b + 3 + i] = IF 3 + i <= m THEN v.who[i] ELSE 0
    BY <1>5, <1>6, <1>7
  <1>10. /\ A[b + 4 + n] = IF 7 + n <= m THEN DateKey ELSE 0
         /\ A[b + 5 + n] = IF 5 + n <= m THEN 1 ELSE 0
         /\ A[b + 6 + n] = IF 6 + n <= m THEN v.date[1] ELSE 0
    BY <1>5, <1>6, <1>7
  <1>11. /\ A[b + 7 + n] = IF 10 + n <= m THEN SigKey ELSE 0
         /\ A[b + 8 + n] = IF 8 + n <= m THEN 1 ELSE 0
         /\ A[b + 9 + n] = IF 9 + n <= m THEN SigOf(v) ELSE 0
    BY <1>5, <1>6, <1>7
  <1> QED
    BY <1>8, <1>9, <1>10, <1>11 DEF Shows

---------------------------------------------------------------------------
(* What the parser makes of it.                                            *)

Whole(b, v) ==
    LET n == Len(v.who)
    IN  [first |-> b,
         entries |-> << [key |-> WhoKey, row |-> b + 2, value |-> v.who],
                        [key |-> DateKey, row |-> b + 4 + n, value |-> v.date],
                        [key |-> SigKey, row |-> b + 7 + n, value |-> <<SigOf(v)>>] >>,
         signed |-> SignedRows(v)]

ReadsAs(A, at, b, v, m, n) ==
    /\ at.instance.first = b
    /\ \/ at.how = "ended"
       \/ at.how = "lost" /\ at.row = AreaEnd - 1 /\ b + 11 + n = AreaEnd /\ 8 + n <= m
    /\ at.row \in b + 1 .. AreaEnd - 1
    /\ \A r \in at.row + 1 .. AreaEnd - 1 : A[r] = 0
    /\ m < 10 + n => at.instance.signed = <<>>
    /\ m = 10 + n => at.how = "ended" /\ at.instance = Whole(b, v)

\* The list of an instance's entries, while its signature is not written.
LEMMA ListReads ==
    ASSUME NEW A, NEW b, NEW v, NEW m, Front(A, b, v, m), NEW n \in Nat \ {0}, Long(v, n),
           2 <= m, m < 10 + n, NEW f, IsList(f, A, AreaEnd, b + 2)
    PROVE  /\ \/ f[b + 2].how = "terminated"
              \/ /\ f[b + 2].how = "lost" /\ f[b + 2].row = AreaEnd - 1
                 /\ b + 11 + n = AreaEnd /\ 8 + n <= m
           /\ f[b + 2].row \in b + 1 .. AreaEnd - 1
           /\ \A r \in f[b + 2].row + 1 .. AreaEnd - 1 : A[r] = 0
  <1> DEFINE end == AreaEnd
             Fine(l) == /\ \/ l.how = "terminated"
                           \/ /\ l.how = "lost" /\ l.row = end - 1
                              /\ b + 11 + n = end /\ 8 + n <= m
                        /\ l.row \in b + 1 .. end - 1
                        /\ \A r \in l.row + 1 .. end - 1 : A[r] = 0
             Onwards(k) == \A r \in k .. end - 1 : A[r] = 0
  <1>1. /\ end \in Nat /\ b \in Nat /\ m \in Nat /\ b + 10 + n <= end
        /\ AreaRows(A) /\ end \in 1 .. end /\ b + 2 \in 0 .. end
        /\ Onwards(b + 10 + n)
    BY FrontBounds DEF Long
  <1>2. Shows(A, b, v, m, n)
    BY FrontShows
  <1>3. \A k \in b + 2 .. end : ListCase(A, end, f, k)
    BY <1>1, ListCases
  <1>4. ASSUME NEW k \in b + 2 .. end - 2, NoEntry(A, k), Onwards(k + 2), f[b + 2].how = f[k].how,
               f[b + 2].row = f[k].row
        PROVE  Fine(f[b + 2])
    <2>1. k + 1 < end /\ k \in b + 2 .. end
      BY <1>1
    <2>2. f[k] = Ended("terminated", k + 1)
      BY <1>3, <1>4, <2>1 DEF ListCase
    <2>3. f[b + 2].how = "terminated" /\ f[b + 2].row = k + 1
      BY <1>4, <2>2 DEF Ended
    <2>4. k + 1 \in b + 1 .. end - 1 /\ k + 1 + 1 = k + 2
      BY <1>1
    <2> QED
      BY <1>4, <2>3, <2>4
  <1>5. ASSUME NEW k \in b + 2 .. end - 2, NEW key \in Nat, key # SigKey, A[k] = key,
               NEW len \in Nat \ {0}, A[k + 1] = len, k + 2 + len <= end
        PROVE  f[k].how = f[k + 2 + len].how /\ f[k].row = f[k + 2 + len].row
    <2>1. k + 1 < end /\ k \in b + 2 .. end
      BY <1>1
    <2>2. ~NoEntry(A, k) /\ Past(A, k) = k + 2 + len
      BY <1>5 DEF NoEntry, Past
    <2>3. f[k] = [f[k + 2 + len] EXCEPT !.entries = <<Entry(A, k)>> \o @]
      <3>1. ListCase(A, end, f, k)
        BY <1>3, <2>1
      <3>2. PICK next : next = k + 2 + len /\ Past(A, k) = next /\ next <= end
        BY <1>5, <2>2
      <3>3. f[k] = [f[Past(A, k)] EXCEPT !.entries = <<Entry(A, k)>> \o @]
        BY <1>5, <2>1, <2>2, <3>1, <3>2 DEF ListCase
      <3> QED
        BY <3>2, <3>3
    <2>4. k + 2 + len \in b + 2 .. end
      BY <1>1, <1>5
    <2>5. f[k + 2 + len] \in Lists(A, end, k + 2 + len)
      BY <1>1, <2>4, ListTyped
    <2> QED
      BY <2>3, <2>5 DEF Lists
  <1>6. WhoKey \in Nat /\ WhoKey # SigKey /\ DateKey \in Nat /\ DateKey # SigKey
        /\ 0 \in Nat /\ 0 # SigKey /\ NoKey = 0
    BY DEF WhoKey, DateKey, SigKey, NoKey
  <1>7. CASE m = 2
    <2>1. /\ A[b + 2] = 0 /\ A[b + 3] = 0 /\ \A i \in 1 .. n : A[b + 3 + i] = 0
          /\ A[b + 4 + n] = 0 /\ A[b + 5 + n] = 0 /\ A[b + 6 + n] = 0
          /\ A[b + 7 + n] = 0 /\ A[b + 8 + n] = 0 /\ A[b + 9 + n] = 0
      BY <1>2, <1>7 DEF Shows
    <2>2. b + 2 \in b + 2 .. end - 2
      BY <1>1
    <2>3. Onwards(b + 2 + 2)
      <3> SUFFICES ASSUME NEW r \in b + 4 .. end - 1 PROVE A[r] = 0
        BY <1>1
      <3>1. CASE r \in b + 10 + n .. end - 1
        BY <1>1, <3>1
      <3>2. CASE r - (b + 3) \in 1 .. n
        <4>1. PICK i \in 1 .. n : i = r - (b + 3)
          BY <3>2
        <4>2. r = b + 3 + i
          BY <1>1, <4>1
        <4> QED
          BY <2>1, <4>2
      <3>3. CASE r \in {b + 4 + n, b + 5 + n, b + 6 + n, b + 7 + n, b + 8 + n, b + 9 + n}
        BY <2>1, <3>3
      <3> QED
        BY <1>1, <3>1, <3>2, <3>3
    <2>4. NoEntry(A, b + 2)
      <3>1. b + 2 + 1 = b + 3
        BY <1>1
      <3> QED
        BY <1>6, <2>1, <3>1 DEF NoEntry
    <2> HIDE DEF Fine, Onwards, end
    <2>5. Fine(f[b + 2])
      BY <1>4, <2>2, <2>3, <2>4
    <2> QED
      BY <2>5 DEF Fine, end
  <1>8. CASE 3 <= m
    <2>1. f[b + 2].how = f[b + 4 + n].how /\ f[b + 2].row = f[b + 4 + n].row
      <3>1. A[b + 2] \in {0, WhoKey} /\ A[b + 3] = n
        BY <1>2, <1>8 DEF Shows
      <3>2. /\ b + 2 \in b + 2 .. end - 2 /\ b + 2 + 1 = b + 3
            /\ b + 2 + 2 + n = b + 4 + n /\ b + 4 + n <= end
        BY <1>1
      <3>3. PICK key \in Nat : A[b + 2] = key /\ key # SigKey
        BY <1>6, <3>1
      <3> QED
        BY <1>5, <3>1, <3>2, <3>3
    <2>2. b + 4 + n \in b + 2 .. end - 2 /\ b + 4 + n + 1 = b + 5 + n
      BY <1>1
    <2>3. CASE m < 5 + n
      <3>1. /\ A[b + 4 + n] = 0 /\ A[b + 5 + n] = 0 /\ A[b + 6 + n] = 0
            /\ A[b + 7 + n] = 0 /\ A[b + 8 + n] = 0 /\ A[b + 9 + n] = 0
        <4>1. ~(7 + n <= m) /\ ~(5 + n <= m) /\ ~(6 + n <= m) /\ ~(10 + n <= m)
              /\ ~(8 + n <= m) /\ ~(9 + n <= m)
          BY <1>1, <2>3
        <4> QED
          BY <1>2, <4>1 DEF Shows
      <3>2. Onwards(b + 4 + n + 2)
        <4> SUFFICES ASSUME NEW r \in b + 6 + n .. end - 1 PROVE A[r] = 0
          BY <1>1
        <4>1. r \in b + 10 + n .. end - 1 \/ r \in {b + 6 + n, b + 7 + n, b + 8 + n, b + 9 + n}
          BY <1>1
        <4> QED
          BY <1>1, <3>1, <4>1
      <3>3. NoEntry(A, b + 4 + n)
        BY <1>6, <2>2, <3>1 DEF NoEntry
      <3> HIDE DEF Fine, Onwards, end
      <3>4. Fine(f[b + 2])
        BY <1>4, <2>1, <2>2, <3>2, <3>3
      <3> QED
        BY <3>4 DEF Fine, end
    <2>4. CASE 5 + n <= m
      <3>1. f[b + 4 + n].how = f[b + 7 + n].how /\ f[b + 4 + n].row = f[b + 7 + n].row
        <4>1. A[b + 4 + n] \in {0, DateKey} /\ A[b + 5 + n] = 1
          BY <1>2, <2>4 DEF Shows
        <4>2. b + 4 + n + 2 + 1 = b + 7 + n /\ b + 7 + n <= end
          BY <1>1
        <4>3. PICK key \in Nat : A[b + 4 + n] = key /\ key # SigKey
          BY <1>6, <4>1
        <4> QED
          BY <1>5, <2>2, <4>1, <4>2, <4>3
      <3>2. b + 7 + n \in b + 2 .. end - 2 /\ b + 7 + n + 1 = b + 8 + n
        BY <1>1
      <3>3. A[b + 7 + n] = 0
        BY <1>1, <1>2 DEF Shows
      <3>4. CASE m < 8 + n
        <4>1. A[b + 8 + n] = 0 /\ A[b + 9 + n] = 0
          <5>1. ~(8 + n <= m) /\ ~(9 + n <= m)
            BY <1>1, <3>4
          <5> QED
            BY <1>2, <5>1 DEF Shows
        <4>2. Onwards(b + 7 + n + 2)
          <5> SUFFICES ASSUME NEW r \in b + 9 + n .. end - 1 PROVE A[r] = 0
            BY <1>1
          <5>1. r \in b + 10 + n .. end - 1 \/ r = b + 9 + n
            BY <1>1
          <5> QED
            BY <1>1, <4>1, <5>1
        <4>3. NoEntry(A, b + 7 + n)
          BY <1>6, <3>2, <3>3, <4>1 DEF NoEntry
        <4> HIDE DEF Fine, Onwards, end
        <4>4. Fine(f[b + 2])
          BY <1>4, <2>1, <3>1, <3>2, <4>2, <4>3
        <4> QED
          BY <4>4 DEF Fine, end
      <3>5. CASE 8 + n <= m
        <4>1. f[b + 7 + n].how = f[b + 10 + n].how /\ f[b + 7 + n].row = f[b + 10 + n].row
          <5>1. A[b + 8 + n] = 1
            BY <1>2, <3>5 DEF Shows
          <5>2. b + 7 + n + 2 + 1 = b + 10 + n /\ 1 \in Nat \ {0}
            BY <1>1
          <5> QED
            BY <1>1, <1>5, <1>6, <3>2, <3>3, <5>1, <5>2
        <4>2. b + 10 + n \in b + 2 .. end
          BY <1>1
        <4>3. ListCase(A, end, f, b + 10 + n)
          BY <1>3, <4>2
        <4>4. CASE b + 10 + n = end
          <5>1. PICK k \in b + 2 .. end : k = b + 10 + n
            BY <4>2
          <5>2. f[k] = Ended("terminated", k - 1)
            BY <4>3, <4>4, <5>1 DEF ListCase
          <5>3. f[k].how = "terminated" /\ f[k].row = k - 1
            BY <5>2 DEF Ended
          <5>4. f[b + 2].how = "terminated" /\ f[b + 2].row = end - 1
            BY <2>1, <3>1, <4>1, <4>4, <5>1, <5>3
          <5> QED
            BY <1>1, <5>4
        <4>5. CASE b + 10 + n + 1 = end
          <5>1. f[b + 10 + n] = Ended("lost", b + 10 + n)
            BY <4>3, <4>5 DEF ListCase
          <5>2. f[b + 2].how = "lost" /\ f[b + 2].row = b + 10 + n
            BY <2>1, <3>1, <4>1, <5>1 DEF Ended
          <5> QED
            BY <1>1, <3>5, <4>5, <5>2
        <4>6. CASE b + 10 + n + 1 < end
          <5>1. b + 10 + n \in b + 2 .. end - 2 /\ b + 10 + n \in b + 10 + n .. end - 1
                /\ b + 10 + n + 1 \in b + 10 + n .. end - 1
            BY <1>1, <4>6
          <5>2. NoEntry(A, b + 10 + n)
            BY <1>1, <1>6, <5>1 DEF NoEntry
          <5>3. Onwards(b + 10 + n + 2)
            <6> SUFFICES ASSUME NEW r \in b + 10 + n + 2 .. end - 1 PROVE A[r] = 0
              OBVIOUS
            <6>1. r \in b + 10 + n .. end - 1
              BY <1>1
            <6> QED
              BY <1>1, <6>1
          <5> HIDE DEF Fine, Onwards, end
          <5>4. Fine(f[b + 2])
            BY <1>4, <2>1, <3>1, <4>1, <5>1, <5>2, <5>3
          <5> QED
            BY <5>4 DEF Fine, end
        <4> QED
          BY <1>1, <4>4, <4>5, <4>6
      <3> QED
        BY <1>1, <3>4, <3>5
    <2> QED
      BY <1>1, <2>3, <2>4
  <1> QED
    BY <1>1, <1>7, <1>8

\* And of the whole of it.
LEMMA WholeReads ==
    ASSUME NEW A, NEW b, NEW v, NEW n \in Nat \ {0}, Long(v, n), Front(A, b, v, 10 + n),
           NEW f, IsList(f, A, AreaEnd, b + 2)
    PROVE  f[b + 2] = [entries |-> Whole(b, v).entries, how |-> "signature",
                       row |-> b + 9 + n, sig |-> b + 7 + n]
  <1> DEFINE end == AreaEnd
             who == [key |-> WhoKey, row |-> b + 2, value |-> v.who]
             date == [key |-> DateKey, row |-> b + 4 + n, value |-> v.date]
             sig == [key |-> SigKey, row |-> b + 7 + n, value |-> <<SigOf(v)>>]
  <1>1. /\ end \in Nat /\ b \in Nat /\ b + 10 + n <= end /\ Given(v)
        /\ AreaRows(A) /\ end \in 1 .. end /\ b + 2 \in 0 .. end
    BY FrontBounds DEF Long
  <1>2. Shows(A, b, v, 10 + n, n)
    BY FrontShows
  <1>3. /\ A[b + 2] = WhoKey /\ A[b + 3] = n /\ \A i \in 1 .. n : A[b + 3 + i] = v.who[i]
        /\ A[b + 4 + n] = DateKey /\ A[b + 5 + n] = 1 /\ A[b + 6 + n] = v.date[1]
        /\ A[b + 7 + n] = SigKey /\ A[b + 8 + n] = 1 /\ A[b + 9 + n] = SigOf(v)
    BY <1>2 DEF Shows
  <1>4. \A k \in b + 2 .. end : ListCase(A, end, f, k)
    BY <1>1, ListCases
  <1>5. WhoKey # SigKey /\ DateKey # SigKey /\ 1 # NoKey /\ n # NoKey
    BY DEF WhoKey, DateKey, SigKey, NoKey
  <1>6. Entry(A, b + 2) = who
    <2>1. PICK k \in Nat : k = b + 2 /\ k + 1 = b + 3 /\ \A i \in 1 .. n : k + 1 + i = b + 3 + i
      BY <1>1
    <2>2. A[k] = WhoKey /\ A[k + 1] = n /\ \A i \in 1 .. n : A[k + 1 + i] = v.who[i]
      BY <1>3, <2>1
    <2> DEFINE read == [i \in 1 .. A[k + 1] |-> A[k + 1 + i]]
               given == [i \in 1 .. n |-> v.who[i]]
    <2>3. read = given
      BY <2>2
    <2>4. v.who = given
      <3>1. v.who \in Seq(Nat) /\ n = Len(v.who)
        BY <1>1, GivenFacts DEF Long
      <3>2. ASSUME NEW s \in Seq(Nat) PROVE s = [i \in 1 .. Len(s) |-> s[i]]
        OBVIOUS
      <3> QED
        BY <3>1, <3>2, Zenon
    <2> HIDE DEF read, given
    <2>5. read = v.who
      BY <2>3, <2>4
    <2>6. Entry(A, k) = [key |-> WhoKey, row |-> k, value |-> v.who]
      <3>1. Entry(A, k) = [key |-> A[k], row |-> k, value |-> read]
        BY Zenon DEF Entry, read
      <3> QED
        BY <2>2, <2>5, <3>1
    <2> QED
      BY <2>1, <2>6, Zenon
  <1>6a. \A x : <<x>> = [i \in 1 .. 1 |-> x]
    OBVIOUS
  <1>7. Entry(A, b + 4 + n) = date
    <2>1. PICK k \in Nat : k = b + 4 + n /\ k + 1 = b + 5 + n /\ \A i \in 1 .. 1 : k + 1 + i = b + 6 + n
      BY <1>1
    <2>2. A[k] = DateKey /\ A[k + 1] = 1 /\ \A i \in 1 .. 1 : A[k + 1 + i] = v.date[1]
      BY <1>3, <2>1, Zenon
    <2>3. [i \in 1 .. A[k + 1] |-> A[k + 1 + i]] = [i \in 1 .. 1 |-> v.date[1]]
      BY <2>2
    <2>4. v.date = <<v.date[1]>>
      BY <1>1, GivenFacts
    <2>5. v.date = [i \in 1 .. 1 |-> v.date[1]]
      BY <1>6a, <2>4, Zenon
    <2>6. Entry(A, k) = [key |-> DateKey, row |-> k, value |-> v.date]
      BY <2>2, <2>3, <2>5, Zenon DEF Entry
    <2> QED
      BY <2>1, <2>6, Zenon
  <1>8. Entry(A, b + 7 + n) = sig
    <2>1. PICK k \in Nat : k = b + 7 + n /\ k + 1 = b + 8 + n /\ \A i \in 1 .. 1 : k + 1 + i = b + 9 + n
      BY <1>1
    <2>2. A[k] = SigKey /\ A[k + 1] = 1 /\ \A i \in 1 .. 1 : A[k + 1 + i] = SigOf(v)
      BY <1>3, <2>1, Zenon
    <2>3. [i \in 1 .. A[k + 1] |-> A[k + 1 + i]] = [i \in 1 .. 1 |-> SigOf(v)]
      BY <2>2
    <2>5. <<SigOf(v)>> = [i \in 1 .. 1 |-> SigOf(v)]
      BY <1>6a, Zenon
    <2>6. Entry(A, k) = [key |-> SigKey, row |-> k, value |-> <<SigOf(v)>>]
      BY <2>2, <2>3, <2>5, Zenon DEF Entry
    <2> QED
      BY <2>1, <2>6, Zenon
  <1> HIDE DEF who, date, sig
  <1>9. f[b + 7 + n] = [entries |-> <<sig>>, how |-> "signature", row |-> b + 9 + n, sig |-> b + 7 + n]
    <2>1. PICK k \in b + 2 .. end : k = b + 7 + n /\ k + 1 < end /\ k + 1 = b + 8 + n
                                    /\ k + 3 <= end /\ k + 2 = b + 9 + n
      BY <1>1
    <2>2. ~NoEntry(A, k) /\ Past(A, k) = k + 3
      BY <1>3, <1>5, <2>1 DEF NoEntry, Past
    <2>3. ListCase(A, end, f, k) /\ A[k] = SigKey /\ Entry(A, k) = sig
      BY <1>3, <1>4, <1>8, <2>1
    <2>4. f[k] = [entries |-> <<sig>>, how |-> "signature", row |-> k + 3 - 1, sig |-> k]
      BY <2>1, <2>2, <2>3 DEF ListCase
    <2>5. k + 3 - 1 = b + 9 + n
      BY <2>1
    <2> QED
      BY <2>1, <2>4, <2>5
  <1>10. f[b + 4 + n] = [entries |-> <<date>> \o <<sig>>, how |-> "signature",
                         row |-> b + 9 + n, sig |-> b + 7 + n]
    <2>1. PICK k \in b + 2 .. end : k = b + 4 + n /\ k + 1 < end /\ k + 1 = b + 5 + n
                                    /\ k + 3 <= end /\ k + 3 = b + 7 + n
      BY <1>1
    <2>2. ~NoEntry(A, k) /\ Past(A, k) = k + 3
      BY <1>3, <1>5, <2>1 DEF NoEntry, Past
    <2>3. ListCase(A, end, f, k) /\ A[k] # SigKey /\ Entry(A, k) = date
      BY <1>3, <1>4, <1>5, <1>7, <2>1
    <2>4. f[k] = [f[Past(A, k)] EXCEPT !.entries = <<date>> \o @]
      BY <2>1, <2>2, <2>3 DEF ListCase
    <2>5. Past(A, k) = b + 7 + n
      BY <2>1, <2>2
    <2>6. f[k] = [f[b + 7 + n] EXCEPT !.entries = <<date>> \o @]
      BY <2>4, <2>5, Zenon
    <2>7. f[k] = [entries |-> <<date>> \o <<sig>>, how |-> "signature",
                  row |-> b + 9 + n, sig |-> b + 7 + n]
      BY <1>9, <2>6
    <2> QED
      BY <2>1, <2>7, Zenon
  <1>11. f[b + 2] = [entries |-> <<who>> \o (<<date>> \o <<sig>>), how |-> "signature",
                     row |-> b + 9 + n, sig |-> b + 7 + n]
    <2>1. PICK k \in b + 2 .. end : k = b + 2 /\ k + 1 < end /\ k + 1 = b + 3
                                    /\ k + 2 + n <= end /\ k + 2 + n = b + 4 + n
      BY <1>1
    <2>2. ~NoEntry(A, k) /\ Past(A, k) = k + 2 + n
      BY <1>3, <1>5, <2>1 DEF NoEntry, Past
    <2>3. ListCase(A, end, f, k) /\ A[k] # SigKey /\ Entry(A, k) = who
      BY <1>3, <1>4, <1>5, <1>6, <2>1
    <2>4. f[k] = [f[Past(A, k)] EXCEPT !.entries = <<who>> \o @]
      BY <2>1, <2>2, <2>3 DEF ListCase
    <2>5. Past(A, k) = b + 4 + n
      BY <2>1, <2>2
    <2>6. f[k] = [f[b + 4 + n] EXCEPT !.entries = <<who>> \o @]
      BY <2>4, <2>5, Zenon
    <2> DEFINE rest == <<date>> \o <<sig>>
    <2>7. f[b + 4 + n] = [entries |-> rest, how |-> "signature", row |-> b + 9 + n, sig |-> b + 7 + n]
      BY <1>10
    <2> HIDE DEF rest
    <2>8. f[k] = [entries |-> <<who>> \o rest, how |-> "signature",
                  row |-> b + 9 + n, sig |-> b + 7 + n]
      <3>2. f[b + 4 + n].entries = rest
        BY <2>7
      <3>3. f[k] = [f[b + 4 + n] EXCEPT !.entries = <<who>> \o rest]
        BY <2>6, <3>2, Zenon
      <3>4. [f[b + 4 + n] EXCEPT !.entries = <<who>> \o rest]
              = [entries |-> <<who>> \o rest, how |-> "signature",
                 row |-> b + 9 + n, sig |-> b + 7 + n]
        <4>1. PICK g, more, row, s : /\ g = f[b + 4 + n] /\ more = <<who>> \o rest
                                     /\ row = b + 9 + n /\ s = b + 7 + n
          OBVIOUS
        <4>2. g = [entries |-> rest, how |-> "signature", row |-> row, sig |-> s]
          BY <2>7, <4>1, Zenon
        <4>3. [g EXCEPT !.entries = more]
                = [entries |-> more, how |-> "signature", row |-> row, sig |-> s]
          BY <4>2
        <4> QED
          BY <4>1, <4>3
      <3> QED
        BY <3>3, <3>4
    <2>9. f[b + 2] = [entries |-> <<who>> \o rest, how |-> "signature",
                      row |-> b + 9 + n, sig |-> b + 7 + n]
      BY <2>1, <2>8
    <2> QED
      BY <2>9, Zenon DEF rest
  <1>12. <<who>> \o (<<date>> \o <<sig>>) = <<who, date, sig>>
    <2>1. ASSUME NEW x, NEW y, NEW z PROVE <<x>> \o (<<y>> \o <<z>>) = <<x, y, z>>
      <3> DEFINE T == {x, y, z}
                 a == <<y>> \o <<z>>
                 u == <<x>> \o a
      <3>1. <<x>> \in Seq(T) /\ <<y>> \in Seq(T) /\ <<z>> \in Seq(T)
        OBVIOUS
      <3>2. a \in Seq(T) /\ Len(a) = 2 /\ a[1] = y /\ a[2] = z
        BY <3>1
      <3> HIDE DEF a
      <3>3. u \in Seq(T) /\ Len(u) = 3 /\ u[1] = x /\ u[2] = y /\ u[3] = z
        <4> DEFINE s == <<x>>
        <4>1. Len(s) = 1 /\ s[1] = x /\ s \in Seq(T)
          BY <3>1
        <4> HIDE DEF s
        <4>2. Joins(T, s \o a, s, a, 1, 2)
          BY <3>2, <4>1, Joined
        <4>3. /\ s \o a \in Seq(T) /\ Len(s \o a) = 3
              /\ (s \o a)[1] = s[1] /\ (s \o a)[2] = a[1] /\ (s \o a)[3] = a[2]
          BY <4>2 DEF Joins
        <4>4. u = s \o a
          BY DEF s
        <4> HIDE DEF u
        <4> QED
          BY <3>2, <4>1, <4>3, <4>4
      <3>4. u = [i \in 1 .. 3 |-> u[i]] /\ <<x, y, z>> = [i \in 1 .. 3 |-> <<x, y, z>>[i]]
        BY <3>3
      <3> HIDE DEF u
      <3>5. \A i \in 1 .. 3 : u[i] = <<x, y, z>>[i]
        BY <3>3
      <3>6. u = <<x, y, z>>
        BY <3>4, <3>5
      <3> QED
        BY <3>6 DEF u, a
    <2> QED
      BY <2>1
  <1>13. Whole(b, v).entries = <<who, date, sig>>
    BY Zenon DEF Whole, who, date, sig, Long
  <1> QED
    BY <1>11, <1>12, <1>13

\* Read, it ends, and is complete only as a whole; or it is cut off where the
\* area ends just after it, and the read is lost there.
LEMMA FrontReads ==
    ASSUME NEW A, NEW b, NEW v, NEW m, Front(A, b, v, m), NEW n \in Nat \ {0}, Long(v, n), 1 <= m
    PROVE  ReadsAs(A, InstanceAt(A, AreaEnd, b), b, v, m, n)
  <1> DEFINE end == AreaEnd
             at == InstanceAt(A, end, b)
             list == EntriesFrom(A, end, b + 2)
  <1>1. /\ end \in Nat /\ b \in Nat /\ m \in 0 .. 10 + n /\ b + 10 + n <= end
        /\ AreaRows(A) /\ Given(v) /\ end \in 1 .. end /\ b + 2 \in 0 .. end /\ b + 1 # end
        /\ \A r \in b + 10 + n .. end - 1 : A[r] = 0
    BY FrontBounds DEF Long
  <1>2. Shows(A, b, v, m, n)
    BY FrontShows
  <1>3. CASE m = 1
    <2>1. /\ A[b + 1] = 0 /\ A[b + 2] = 0 /\ A[b + 3] = 0 /\ \A i \in 1 .. n : A[b + 3 + i] = 0
          /\ A[b + 4 + n] = 0 /\ A[b + 5 + n] = 0 /\ A[b + 6 + n] = 0
          /\ A[b + 7 + n] = 0 /\ A[b + 8 + n] = 0 /\ A[b + 9 + n] = 0
      BY <1>2, <1>3 DEF Shows
    <2>2. at = [how |-> "ended", row |-> b + 1,
                instance |-> [first |-> b, entries |-> <<>>, signed |-> <<>>]]
      BY <1>1, <2>1 DEF InstanceAt
    <2>3. ASSUME NEW r \in b + 1 + 1 .. end - 1 PROVE A[r] = 0
      <3>1. CASE r \in b + 10 + n .. end - 1
        BY <1>1, <3>1
      <3>2. CASE r - (b + 3) \in 1 .. n
        <4>1. PICK i \in 1 .. n : i = r - (b + 3)
          BY <3>2
        <4>2. r = b + 3 + i
          BY <1>1, <4>1
        <4> QED
          BY <2>1, <4>2
      <3>3. CASE r \in {b + 2, b + 3, b + 4 + n, b + 5 + n, b + 6 + n, b + 7 + n, b + 8 + n, b + 9 + n}
        BY <2>1, <3>3
      <3> QED
        BY <1>1, <3>1, <3>2, <3>3
    <2>4. b + 1 \in b + 1 .. end - 1 /\ m # 10 + n
      BY <1>1, <1>3
    <2> HIDE DEF at
    <2>5. at.instance.first = b /\ at.how = "ended" /\ at.row = b + 1 /\ at.instance.signed = <<>>
      BY <2>2
    <2> QED
      BY <2>3, <2>4, <2>5 DEF ReadsAs, at
  <1>4. CASE 2 <= m
    <2>1. A[b + 1] = Version /\ Version # 0
      BY <1>2, <1>4 DEF Shows, Version
    <2> DEFINE signed == IF list.how # "signature" THEN <<>>
                         ELSE [i \in 1 .. list.sig - b |-> A[b + i - 1]]
    <2>2. at = [how |-> IF list.how = "lost" THEN "lost" ELSE "ended", row |-> list.row,
                instance |-> [first |-> b, entries |-> list.entries, signed |-> signed]]
      BY <1>1, <2>1, Zenon DEF InstanceAt
    <2>3. PICK f : IsList(f, A, end, b + 2) /\ list = f[b + 2]
      BY <1>1, ListDefined
    <2>4. CASE m < 10 + n
      <3>1. /\ \/ list.how = "terminated"
               \/ list.how = "lost" /\ list.row = end - 1 /\ b + 11 + n = end /\ 8 + n <= m
            /\ list.row \in b + 1 .. end - 1
            /\ \A r \in list.row + 1 .. end - 1 : A[r] = 0
        BY <1>4, <2>3, <2>4, ListReads
      <3> HIDE DEF list
      <3>2. signed = <<>>
        BY <3>1
      <3> HIDE DEF signed, at
      <3>3. /\ at.instance.first = b /\ at.row = list.row /\ at.instance.signed = <<>>
            /\ at.how = IF list.how = "lost" THEN "lost" ELSE "ended"
        BY <2>2, <3>2
      <3>4. m # 10 + n
        BY <1>1, <2>4
      <3>5. at.how = "ended" \/ (at.how = "lost" /\ at.row = end - 1 /\ b + 11 + n = end /\ 8 + n <= m)
        BY <3>1, <3>3
      <3> QED
        BY <3>1, <3>3, <3>4, <3>5 DEF ReadsAs, at
    <2>5. CASE m = 10 + n
      <3>1. list = [entries |-> Whole(b, v).entries, how |-> "signature",
                    row |-> b + 9 + n, sig |-> b + 7 + n]
        BY <2>3, <2>5, WholeReads
      <3> HIDE DEF list
      <3>2. signed = [i \in 1 .. 7 + n |-> A[b + i - 1]]
        <4>1. list.sig - b = 7 + n /\ list.how = "signature"
          BY <1>1, <3>1
        <4> QED
          BY <4>1
      <3> HIDE DEF signed
      <3>3. signed = SignedRows(v)
        <4> DEFINE s == SignedRows(v)
        <4>1. SignedLayout(s, v)
          BY <1>1, SignedAre
        <4>2. /\ Len(s) = 7 + n /\ s \in Seq(Nat)
              /\ s[1] = Magic /\ s[2] = Version /\ s[3] = WhoKey /\ s[4] = n
              /\ \A i \in 1 .. n : s[4 + i] = v.who[i]
              /\ s[5 + n] = DateKey /\ s[6 + n] = 1 /\ s[7 + n] = v.date[1]
          BY <4>1, Zenon DEF SignedLayout, Long
        <4>3. /\ A[b] = Magic /\ A[b + 1] = Version
              /\ A[b + 2] = WhoKey /\ A[b + 3] = n /\ \A i \in 1 .. n : A[b + 3 + i] = v.who[i]
              /\ A[b + 4 + n] = DateKey /\ A[b + 5 + n] = 1 /\ A[b + 6 + n] = v.date[1]
          BY <1>2, <2>5 DEF Shows
        <4>4. s = [i \in 1 .. 7 + n |-> s[i]]
          BY <4>2
        <4> HIDE DEF s
        <4>5. ASSUME NEW i \in 1 .. 7 + n PROVE A[b + i - 1] = s[i]
          <5>1. CASE i = 1
            <6>1. b + 1 - 1 = b
              BY <1>1
            <6> QED
              BY <4>2, <4>3, <5>1, <6>1
          <5>2. CASE i = 2
            <6>1. b + 2 - 1 = b + 1
              BY <1>1
            <6> QED
              BY <4>2, <4>3, <5>2, <6>1
          <5>3. CASE i = 3
            <6>1. b + 3 - 1 = b + 2
              BY <1>1
            <6> QED
              BY <4>2, <4>3, <5>3, <6>1
          <5>4. CASE i = 4
            <6>1. b + 4 - 1 = b + 3
              BY <1>1
            <6> QED
              BY <4>2, <4>3, <5>4, <6>1
          <5>5. CASE i - 4 \in 1 .. n
            <6>1. PICK j \in 1 .. n : j = i - 4
              BY <5>5
            <6>2. i = 4 + j /\ b + i - 1 = b + 3 + j
              BY <1>1, <6>1
            <6> QED
              BY <4>2, <4>3, <6>2
          <5>6. CASE i = 5 + n
            <6>1. b + i - 1 = b + 4 + n
              BY <1>1, <5>6
            <6> QED
              BY <4>2, <4>3, <5>6, <6>1
          <5>7. CASE i = 6 + n
            <6>1. b + i - 1 = b + 5 + n
              BY <1>1, <5>7
            <6> QED
              BY <4>2, <4>3, <5>7, <6>1
          <5>8. CASE i = 7 + n
            <6>1. b + i - 1 = b + 6 + n
              BY <1>1, <5>8
            <6> QED
              BY <4>2, <4>3, <5>8, <6>1
          <5> QED
            BY <5>1, <5>2, <5>3, <5>4, <5>5, <5>6, <5>7, <5>8
        <4>6. [i \in 1 .. 7 + n |-> A[b + i - 1]] = [i \in 1 .. 7 + n |-> s[i]]
          BY <4>5
        <4> QED
          BY <3>2, <4>4, <4>6 DEF s
      <3> HIDE DEF at
      <3>4. at = [how |-> "ended", row |-> b + 9 + n,
                  instance |-> [first |-> b, entries |-> Whole(b, v).entries, signed |-> SignedRows(v)]]
        BY <2>2, <3>1, <3>3
      <3>5. [first |-> b, entries |-> Whole(b, v).entries, signed |-> SignedRows(v)] = Whole(b, v)
        BY DEF Whole
      <3>6. /\ at.how = "ended" /\ at.row = b + 9 + n /\ at.instance = Whole(b, v)
            /\ at.instance.first = b
        BY <3>4, <3>5
      <3>7. b + 9 + n \in b + 1 .. end - 1 /\ b + 9 + n + 1 = b + 10 + n
        BY <1>1
      <3> QED
        BY <1>1, <2>5, <3>6, <3>7 DEF ReadsAs, at
    <2> QED
      BY <1>1, <2>4, <2>5
  <1> QED
    BY <1>1, <1>3, <1>4

\* An instance whose values are those its signature covers, and is recorded.
Sound(instance) ==
    LET values == [who |-> Used(instance, WhoKey), date |-> Used(instance, DateKey)]
    IN  /\ instance.signed = SignedRows(values)
        /\ Used(instance, SigKey) = <<Signature(TableKey, values)>>

\* An instance as a whole has the values it was written with.
LEMMA WholeUsed ==
    ASSUME NEW b, NEW v, Given(v)
    PROVE  /\ Used(Whole(b, v), WhoKey) = v.who /\ Used(Whole(b, v), DateKey) = v.date
           /\ Used(Whole(b, v), SigKey) = <<SigOf(v)>>
           /\ IsComplete(Whole(b, v)) /\ IsValid(Whole(b, v)) /\ Sound(Whole(b, v))
           /\ Whole(b, v).first = b
  <1> DEFINE i == Whole(b, v)
             at(key) == {j \in DOMAIN i.entries : i.entries[j].key = key}
  <1>1. /\ DOMAIN i.entries = 1 .. 3
        /\ i.entries[1].key = WhoKey /\ i.entries[1].value = v.who
        /\ i.entries[2].key = DateKey /\ i.entries[2].value = v.date
        /\ i.entries[3].key = SigKey /\ i.entries[3].value = <<SigOf(v)>>
        /\ i.first = b /\ i.signed = SignedRows(v)
    BY DEF Whole
  <1> HIDE DEF i
  <1>2. at(WhoKey) = {1} /\ at(DateKey) = {2} /\ at(SigKey) = {3}
    BY <1>1 DEF WhoKey, DateKey, SigKey
  <1>3. \A x \in Nat : (CHOOSE y \in {x} : \A z \in {x} : z <= y) = x
    OBVIOUS
  <1>4. Used(i, WhoKey) = v.who
    <2>1. (CHOOSE y \in at(WhoKey) : \A z \in at(WhoKey) : z <= y) = 1
      BY <1>2, <1>3
    <2>2. at(WhoKey) # {} /\ WhoKey # SigKey
      BY <1>2 DEF WhoKey, SigKey
    <2> QED
      BY <1>1, <2>1, <2>2, Zenon DEF Used
  <1>5. Used(i, DateKey) = v.date
    <2>1. (CHOOSE y \in at(DateKey) : \A z \in at(DateKey) : z <= y) = 2
      BY <1>2, <1>3
    <2>2. at(DateKey) # {} /\ DateKey # SigKey
      BY <1>2 DEF DateKey, SigKey
    <2> QED
      BY <1>1, <2>1, <2>2, Zenon DEF Used
  <1>6. Used(i, SigKey) = <<SigOf(v)>>
    <2>1. (CHOOSE y \in at(SigKey) : \A z \in at(SigKey) : z <= y) = 3
      BY <1>2, <1>3
    <2>2. at(SigKey) # {} /\ Len(<<SigOf(v)>>) = 1
      BY <1>2
    <2> QED
      BY <1>1, <2>1, <2>2, Zenon DEF Used
  <1>7. IsComplete(i)
    <2>1. SignedLayout(SignedRows(v), v)
      BY SignedAre
    <2>2. Len(SignedRows(v)) = 7 + Len(v.who) /\ Len(v.who) \in Nat
      BY <2>1, GivenFacts DEF SignedLayout
    <2>3. Len(SignedRows(v)) # 0
      BY <2>2
    <2>4. Len(<<>>) = 0
      OBVIOUS
    <2> QED
      BY <1>1, <2>3, <2>4, Zenon DEF IsComplete
  <1>8. IsValid(i)
    <2>1. v.who # <<>> /\ v.date # <<>> /\ <<SigOf(v)>> # <<>>
      <3>1. v.date = <<v.date[1]>>
        BY GivenFacts
      <3>2. \A x : <<x>> # <<>>
        OBVIOUS
      <3> QED
        BY <3>1, <3>2, Zenon DEF Given
    <2> QED
      BY <1>4, <1>5, <1>6, <2>1 DEF IsValid, NoValue
  <1>9. Sound(i)
    <2>1. [who |-> Used(i, WhoKey), date |-> Used(i, DateKey)] = v
      BY <1>4, <1>5, GivenFacts
    <2> QED
      BY <1>1, <1>6, <2>1 DEF Sound, SigOf
  <1> QED
    BY <1>1, <1>4, <1>5, <1>6, <1>7, <1>8, <1>9 DEF i

---------------------------------------------------------------------------
(* The instances before it, settled, and it: how the walk over them ends.  *)

\* An instance that, where it is complete, was signed and is recorded.
Fair(instance, R) ==
    IsComplete(instance) => Sound(instance) /\ Used(instance, SigKey)[1] \in R

\* The instances behind row f: each ends, and the next is on the page after it.
Settled(A, S, f, R) ==
    /\ S \subseteq 0 .. f - 1 /\ 0 \in S \cup {f}
    /\ \A s \in S :
         LET at == InstanceAt(A, AreaEnd, s)
         IN  /\ A[s] = Magic /\ at.how = "ended" /\ Fair(at.instance, R)
             /\ PageAfter(at.row) \in S \cup {f}

\* The front is where the last of them lies or is to lie.
Chain(A, S, f, v, m, R) ==
    /\ Front(A, f, v, m)
    /\ Settled(A, S, f, R)
    /\ \A n \in Nat : Long(v, n) /\ m = 10 + n => SigOf(v) \in R

\* What a walk of the front's instance gives.
FrontWalked(x, at) ==
    /\ x.instances = <<at.instance>>
    /\ at.how = "ended" => /\ x.issues = <<>> /\ x.abandoned = FALSE
                           /\ x.next = IF PageAfter(at.row) = AreaEnd THEN NoRow ELSE PageAfter(at.row)
    /\ at.how = "lost" => /\ x.issues = <<[issue |-> "lost", row |-> at.row]>>
                          /\ x.abandoned = TRUE /\ x.next = NoRow

\* The walk takes the instance at the front, and goes on from the page after it.
LEMMA FrontWalk ==
    ASSUME NEW A, NEW f, NEW v, NEW m, Front(A, f, v, m), 1 <= m,
           NEW g, IsWalk(g, A, AreaEnd)
    PROVE  FrontWalked(g[f], InstanceAt(A, AreaEnd, f))
  <1> DEFINE end == AreaEnd
             at == InstanceAt(A, end, f)
  <1>1. PICK n \in Nat \ {0} : /\ Long(v, n) /\ AreaEnd \in Nat /\ f \in 0 .. end - 1 /\ AreaRows(A)
                               /\ f % PageRows = 0
    BY FrontBounds
  <1>2. ReadsAs(A, at, f, v, m, n)
    BY <1>1, FrontReads
  <1>3. Shows(A, f, v, m, n)
    BY <1>1, FrontShows
  <1>4. A[f] = Magic
    BY <1>3 DEF Shows
  <1>5. ReadTo(end)
    BY WholeArea
  <1>6. WalkCase(A, end, g, f)
    <2>1. f \in 0 .. end
      BY <1>1
    <2> QED
      BY <1>1, <1>5, <2>1, WalkCases
  <1>7. /\ at.how = "ended" \/ (at.how = "lost" /\ at.row = end - 1)
        /\ at.row \in f + 1 .. end - 1
        /\ \A r \in at.row + 1 .. end - 1 : A[r] = 0
    BY <1>2 DEF ReadsAs
  <1>8. at.row \in 0 .. end - 1
    BY <1>1, <1>7
  <1>9. PageAfter(at.row) \in at.row + 1 .. end
    BY <1>5, <1>8, PageAfterIn
  <1>10. at.instance \in Instances(A, end)
    <2>1. end \in 1 .. AreaEnd
      BY <1>1
    <2> QED
      BY <1>1, <2>1, InstanceRow
  <1>11. f < end
    BY <1>1
  <1> HIDE DEF at
  <1>12. CASE at.how = "ended"
    <2> DEFINE next == PageAfter(at.row)
               x == g[next]
    <2>1. g[f] = With(x, at.instance)
      BY <1>4, <1>6, <1>11, <1>12 DEF WalkCase, at
    <2>2. next \in 0 .. end /\ (next # end => next \in at.row + 1 .. end - 1)
      BY <1>1, <1>8, <1>9
    <2> HIDE DEF next
    <2>3. WalkCase(A, end, g, next)
      BY <1>1, <1>5, <2>2, WalkCases
    <2>4. next = end => x = Halt(NoRow, FALSE)
      BY <2>3 DEF WalkCase
    <2>5. next # end => x = Halt(next, FALSE)
      <3>1. next # end => A[next] = 0 /\ next < end
        BY <1>1, <1>7, <2>2
      <3> QED
        BY <2>3, <3>1 DEF WalkCase
    <2>6. x = Halt(IF next = end THEN NoRow ELSE next, FALSE)
      BY <2>4, <2>5
    <2> HIDE DEF x
    <2>7. /\ x.issues = <<>> /\ x.abandoned = FALSE /\ x.instances = <<>>
          /\ x.next = IF next = end THEN NoRow ELSE next
      BY <2>6 DEF Halt
    <2>8. x \in Walks(A, end)
      <3>1. g[next] \in Walks(A, end)
        BY <1>1, <1>5, <2>2, WalkTyped
      <3> QED
        BY <3>1 DEF x
    <2>9. /\ g[f].issues = x.issues /\ g[f].next = x.next /\ g[f].abandoned = x.abandoned
          /\ g[f].instances = <<at.instance>> \o x.instances
      BY <1>10, <2>1, <2>8, WithTyped
    <2>10. <<at.instance>> \o <<>> = <<at.instance>>
      OBVIOUS
    <2> QED
      BY <1>12, <2>7, <2>9, <2>10 DEF FrontWalked, next, at
  <1>13. CASE at.how = "lost"
    <2> DEFINE lost == [issue |-> "lost", row |-> at.row]
               x == LostAt(A, end, g, at.row)
    <2>1. g[f] = With(x, at.instance)
      BY <1>4, <1>6, <1>11, <1>13 DEF WalkCase, at
    <2>2. InstancesAfter(A, end, at.row) = {}
      <3>1. at.row = end - 1
        BY <1>7, <1>13
      <3>2. PageAfter(at.row) .. end - 1 = {}
        BY <1>1, <1>9, <3>1
      <3> QED
        BY <3>2 DEF InstancesAfter
    <2>3. Again(A, end, g, at.row) = Halt(NoRow, TRUE)
      BY <2>2 DEF Again
    <2>4. <<lost>> \o <<>> = <<lost>>
      OBVIOUS
    <2>5. x = [Halt(NoRow, TRUE) EXCEPT !.issues = <<lost>> \o @]
      BY <2>3 DEF LostAt
    <2> HIDE DEF x, lost
    <2>6. x = [instances |-> <<>>, issues |-> <<lost>> \o <<>>, next |-> NoRow, abandoned |-> TRUE]
      BY <2>5 DEF Halt
    <2>7. /\ x.issues = <<lost>> /\ x.abandoned = TRUE /\ x.instances = <<>> /\ x.next = NoRow
      BY <2>4, <2>6
    <2>8. x \in Walks(A, end)
      <3>1. \A c \in at.row + 1 .. end : g[c] \in Walks(A, end)
        <4> TAKE c \in at.row + 1 .. end
        <4>1. c \in 0 .. end
          BY <1>8
        <4> QED
          BY <1>1, <1>5, <4>1, WalkTyped
      <3> QED
        BY <1>1, <1>5, <1>8, <3>1, LostTyped DEF x
    <2>9. /\ g[f].issues = x.issues /\ g[f].next = x.next /\ g[f].abandoned = x.abandoned
          /\ g[f].instances = <<at.instance>> \o x.instances
      BY <1>10, <2>1, <2>8, WithTyped
    <2>10. <<at.instance>> \o <<>> = <<at.instance>>
      OBVIOUS
    <2> QED
      BY <1>13, <2>7, <2>9, <2>10 DEF FrontWalked, lost, at
  <1> QED
    BY <1>7, <1>12, <1>13 DEF at

\* A walk that ends as x does, past instances that are all fair.
Ends(w, x, R) ==
    /\ w.issues = x.issues /\ w.next = x.next /\ w.abandoned = x.abandoned
    /\ w.instances # <<>>
    /\ \A i \in DOMAIN w.instances : Fair(w.instances[i], R)
    /\ w.instances[Len(w.instances)] = x.instances[1]

\* An instance before it in the area changes nothing of how the walk ends.
LEMMA EndsWith ==
    ASSUME NEW A, NEW end, NEW w \in Walks(A, end), NEW x, NEW R, Ends(w, x, R),
           NEW i \in Instances(A, end), Fair(i, R)
    PROVE  Ends(With(w, i), x, R)
  <1> DEFINE T == Instances(A, end)
             s == w.instances
             u == <<i>> \o s
  <1>1. s \in Seq(T) /\ s # <<>>
    BY DEF Walks, Ends
  <1> HIDE DEF T, s
  <1>2. Len(s) \in Nat \ {0}
    BY <1>1
  <1>3. PICK k \in Nat \ {0} : k = Len(s)
    BY <1>2
  <1>4. <<i>> \in Seq(T) /\ Len(<<i>>) = 1 /\ <<i>>[1] = i
    BY DEF T
  <1>5. Joins(T, u, <<i>>, s, 1, k)
    BY <1>1, <1>3, <1>4, Joined
  <1> HIDE DEF u
  <1>6. u \in Seq(T) /\ Len(u) = 1 + k /\ u[1] = i /\ \A j \in 1 .. k : u[1 + j] = s[j]
    BY <1>4, <1>5 DEF Joins
  <1>7. DOMAIN u = 1 .. 1 + k /\ DOMAIN s = 1 .. k /\ u # <<>>
    BY <1>1, <1>3, <1>6
  <1>8. u[Len(u)] = s[Len(s)]
    BY <1>3, <1>6
  <1>9. \A j \in DOMAIN u : Fair(u[j], R)
    <2> SUFFICES ASSUME NEW j \in 1 .. 1 + k PROVE Fair(u[j], R)
      BY <1>7
    <2>1. CASE j = 1
      BY <1>6, <2>1
    <2>2. CASE j # 1
      <3>1. PICK l \in 1 .. k : j = 1 + l
        <4>1. j - 1 \in 1 .. k /\ j = 1 + (j - 1)
          BY <2>2
        <4> QED
          BY <4>1
      <3>2. u[j] = s[l] /\ l \in DOMAIN s
        BY <1>6, <1>7, <3>1
      <3> QED
        BY <3>2 DEF Ends, s
    <2> QED
      BY <2>1, <2>2
  <1>10. /\ With(w, i).issues = w.issues /\ With(w, i).next = w.next
         /\ With(w, i).abandoned = w.abandoned /\ With(w, i).instances = u
    BY WithTyped DEF u, s
  <1> QED
    BY <1>7, <1>8, <1>9, <1>10 DEF Ends, s

\* The front is complete only with its last row, when its signature is recorded.
LEMMA FrontFair ==
    ASSUME NEW A, NEW S, NEW f, NEW v, NEW m, NEW R, Chain(A, S, f, v, m, R), 1 <= m
    PROVE  Fair(InstanceAt(A, AreaEnd, f).instance, R)
  <1> DEFINE at == InstanceAt(A, AreaEnd, f)
  <1>1. Front(A, f, v, m)
    BY DEF Chain
  <1>2. PICK n \in Nat \ {0} : Long(v, n) /\ m \in 0 .. 10 + n /\ Given(v)
    BY <1>1, FrontBounds
  <1>3. ReadsAs(A, at, f, v, m, n)
    BY <1>1, <1>2, FrontReads
  <1> HIDE DEF at
  <1>4. CASE m < 10 + n
    <2>1. at.instance.signed = <<>>
      BY <1>3, <1>4 DEF ReadsAs
    <2> QED
      BY <2>1, Zenon DEF Fair, IsComplete, at
  <1>5. CASE m = 10 + n
    <2>1. at.instance = Whole(f, v) /\ SigOf(v) \in R
      <3>1. SigOf(v) \in R
        BY <1>2, <1>5 DEF Chain
      <3> QED
        BY <1>3, <1>5, <3>1 DEF ReadsAs
    <2>2. /\ Sound(Whole(f, v)) /\ Used(Whole(f, v), SigKey) = <<SigOf(v)>>
      BY <1>2, WholeUsed
    <2>3. <<SigOf(v)>>[1] = SigOf(v)
      OBVIOUS
    <2> QED
      BY <2>1, <2>2, <2>3, Zenon DEF Fair, at
  <1> QED
    BY <1>2, <1>4, <1>5 DEF at

\* The walk over the instances settled comes to the front.
LEMMA ChainWalk ==
    ASSUME NEW A, NEW S, NEW f, NEW v, NEW m, NEW R, Chain(A, S, f, v, m, R), 1 <= m,
           NEW g, IsWalk(g, A, AreaEnd)
    PROVE  Ends(g[0], g[f], R)
  <1> DEFINE end == AreaEnd
             T == {k \in S \cup {f} : ~Ends(g[k], g[f], R)}
  <1>1. Front(A, f, v, m) /\ Settled(A, S, f, R)
    BY DEF Chain
  <1>2. end \in Nat /\ f \in 0 .. end - 1 /\ AreaRows(A) /\ ReadTo(end)
    BY <1>1, FrontBounds, WholeArea
  <1>3. \A k \in 0 .. end : g[k] \in Walks(A, end)
    BY <1>2, WalkTyped
  <1>4. \A k \in 0 .. end - 1 : InstanceAt(A, end, k).instance \in Instances(A, end)
    BY DEF Instances
  <1>5. Ends(g[f], g[f], R)
    <2>1. g[f].instances = <<InstanceAt(A, end, f).instance>>
      BY <1>1, FrontWalk DEF FrontWalked
    <2>2. \A x : <<x>> # <<>> /\ DOMAIN <<x>> = {1} /\ <<x>>[1] = x /\ Len(<<x>>) = 1
      OBVIOUS
    <2>3. Fair(InstanceAt(A, end, f).instance, R)
      BY FrontFair
    <2> QED
      BY <2>1, <2>2, <2>3 DEF Ends
  <1>6. ASSUME NEW k \in S, \A c \in S \cup {f} : c > k => Ends(g[c], g[f], R)
        PROVE  Ends(g[k], g[f], R)
    <2> DEFINE at == InstanceAt(A, end, k)
    <2>1. k \in 0 .. f - 1 /\ k \in 0 .. end - 1 /\ k < end
      BY <1>1, <1>2 DEF Settled
    <2>2. A[k] = Magic /\ at.how = "ended" /\ Fair(at.instance, R) /\ PageAfter(at.row) \in S \cup {f}
      BY <1>1 DEF Settled
    <2>3. at.row \in k .. end - 1
      <3>1. end \in 1 .. AreaEnd
        BY <1>2
      <3> QED
        BY <1>2, <2>1, <3>1, InstanceRow
    <2> HIDE DEF at
    <2>4. PageAfter(at.row) \in at.row + 1 .. end
      <3>1. at.row \in 0 .. end - 1
        BY <2>1, <2>3
      <3> QED
        BY <1>2, <3>1, PageAfterIn
    <2> DEFINE next == PageAfter(at.row)
    <2>5. next > k /\ next \in 0 .. end
      BY <1>2, <2>1, <2>3, <2>4
    <2>6. WalkCase(A, end, g, k)
      <3>1. k \in 0 .. end
        BY <1>2, <2>1
      <3> QED
        BY <1>2, <3>1, WalkCases
    <2>7. g[k] = With(g[next], at.instance)
      BY <2>1, <2>2, <2>6 DEF WalkCase, at
    <2>8. Ends(g[next], g[f], R)
      BY <1>6, <2>2, <2>5
    <2>9. g[next] \in Walks(A, end) /\ at.instance \in Instances(A, end)
      BY <1>3, <1>4, <2>1, <2>5 DEF at
    <2> QED
      BY <2>2, <2>7, <2>8, <2>9, EndsWith
  <1>7. T = {}
    <2> SUFFICES ASSUME T # {} PROVE FALSE
      OBVIOUS
    <2>1. T \in SUBSET (0 .. end)
      <3>1. S \subseteq 0 .. f - 1
        BY <1>1 DEF Settled
      <3>2. S \cup {f} \subseteq 0 .. end
        BY <1>2, <3>1
      <3> QED
        BY <3>2
    <2>2. PICK k \in T : \A y \in T : y <= k
      BY <1>2, <2>1, Greatest
    <2>3. k # f /\ k \in S
      BY <1>5, <2>2
    <2>4. \A c \in S \cup {f} : c > k => c \notin T
      BY <1>2, <2>1, <2>2
    <2> QED
      BY <1>6, <2>2, <2>3, <2>4
  <1>8. 0 \in S \cup {f}
    BY <1>1 DEF Settled
  <1> QED
    BY <1>7, <1>8

\* What a parsed area says where the walk ended as x.
SaysAs(area, x, R) ==
    LET last == x.instances[1]
    IN  /\ area.issues = x.issues /\ area.next = x.next
        /\ area.instances # <<>> /\ area.instances[Len(area.instances)] = last
        /\ \A i \in DOMAIN area.instances : Fair(area.instances[i], R)
        /\ area.current # NoInstance => Sound(area.current)
        /\ IsComplete(last) /\ IsValid(last) /\ ~x.abandoned => area.current = last

\* So does the parsed area.
LEMMA ParsedEnds ==
    ASSUME NEW A, NEW end, NEW w \in Walks(A, end), NEW x, NEW R, Ends(w, x, R)
    PROVE  SaysAs(Parsed(w), x, R)
  <1> DEFINE complete == {i \in DOMAIN w.instances : IsComplete(w.instances[i])}
             top == CHOOSE i \in complete : \A j \in complete : j <= i
             last == w.instances[top]
             area == Parsed(w)
             cur == IF w.abandoned \/ complete = {} THEN NoInstance
                    ELSE IF IsValid(last) THEN last ELSE NoInstance
  <1>1. /\ area.instances = w.instances /\ area.issues = w.issues /\ area.next = w.next
        /\ area.current = cur
    BY Zenon DEF Parsed
  <1>2. PICK k \in Nat : k = Len(w.instances) /\ DOMAIN w.instances = 1 .. k /\ k # 0
    <2>1. w.instances \in Seq(Instances(A, end)) /\ w.instances # <<>>
      BY DEF Walks, Ends
    <2> QED
      BY <2>1
  <1>3. complete # {} => top \in complete /\ \A j \in complete : j <= top
    <2>1. complete \in SUBSET (0 .. k)
      BY <1>2
    <2> HIDE DEF complete
    <2>2. complete # {} => \E i \in complete : \A j \in complete : j <= i
      BY <2>1, Greatest
    <2> QED
      BY <2>2
  <1>4. complete # {} => IsComplete(last) /\ Fair(last, R)
    BY <1>3 DEF Ends
  <1>5. cur # NoInstance => Sound(cur)
    BY <1>4, Zenon DEF Fair
  <1>6. IsComplete(x.instances[1]) => complete # {} /\ top = k
    <2> SUFFICES ASSUME IsComplete(x.instances[1]) PROVE complete # {} /\ top = k
      OBVIOUS
    <2>1. k \in complete
      BY <1>2 DEF Ends
    <2>2. top \in 1 .. k /\ k <= top
      BY <1>2, <1>3, <2>1
    <2> HIDE DEF top, complete
    <2> QED
      BY <1>2, <2>1, <2>2
  <1>7. w.instances[k] = x.instances[1] /\ w.abandoned = x.abandoned
    BY <1>2 DEF Ends
  <1>8. IsComplete(x.instances[1]) /\ IsValid(x.instances[1]) /\ ~x.abandoned => cur = x.instances[1]
    BY <1>6, <1>7, Zenon
  <1> HIDE DEF area, cur
  <1> QED
    BY <1>1, <1>5, <1>7, <1>8 DEF SaysAs, Ends, area

\* What is read of an area where an instance has begun at the front.
LEMMA ChainArea ==
    ASSUME NEW A, NEW S, NEW f, NEW v, NEW m, NEW R, Chain(A, S, f, v, m, R), 1 <= m
    PROVE  \E x : /\ FrontWalked(x, InstanceAt(A, AreaEnd, f))
                  /\ SaysAs(ReadArea(A), x, R)
  <1>1. Front(A, f, v, m)
    BY DEF Chain
  <1>2. AreaRows(A) /\ ReadTo(AreaEnd) /\ AreaEnd \in Nat
    BY <1>1, WholeArea, FrontBounds
  <1>3. PICK g : IsWalk(g, A, AreaEnd) /\ Walk(A, AreaEnd) = g[0]
    BY <1>2, WalkDefined
  <1>4. ReadArea(A) = Parsed(g[0])
    BY <1>2, <1>3, ReadWhole DEF Parse
  <1>5. Ends(g[0], g[f], R)
    BY <1>3, ChainWalk
  <1>6. g[0] \in Walks(A, AreaEnd)
    <2>1. 0 \in 0 .. AreaEnd
      BY <1>2
    <2> QED
      BY <1>2, <1>3, <2>1, WalkTyped
  <1>7. SaysAs(Parsed(g[0]), g[f], R)
    BY <1>5, <1>6, ParsedEnds
  <1>8. FrontWalked(g[f], InstanceAt(A, AreaEnd, f))
    BY <1>1, <1>3, FrontWalk
  <1> QED
    BY <1>4, <1>7, <1>8

\* A blank area.
ZeroArea(A) == AreaRows(A) /\ \A r \in 0 .. AreaEnd - 1 : A[r] = 0

\* A blank area has no instance, and the next goes at its start.
LEMMA ZeroReads ==
    ASSUME NEW A, ZeroArea(A)
    PROVE  /\ ReadArea(A).instances = <<>> /\ ReadArea(A).issues = <<>>
           /\ ReadArea(A).next = 0 /\ ReadArea(A).current = NoInstance
  <1>1. AreaRows(A) /\ ReadTo(AreaEnd) /\ AreaEnd \in Nat /\ 0 < AreaEnd /\ 0 \in 0 .. AreaEnd
    BY WholeArea DEF ZeroArea
  <1>2. PICK g : IsWalk(g, A, AreaEnd) /\ Walk(A, AreaEnd) = g[0]
    BY <1>1, WalkDefined
  <1>3. ReadArea(A) = Parsed(g[0])
    BY <1>1, <1>2, ReadWhole DEF Parse
  <1>4. WalkCase(A, AreaEnd, g, 0)
    BY <1>1, <1>2, WalkCases
  <1>5. A[0] = 0
    BY <1>1 DEF ZeroArea
  <1>6. g[0] = Halt(0, FALSE)
    BY <1>1, <1>4, <1>5 DEF WalkCase
  <1> DEFINE w == Halt(0, FALSE)
             complete == {i \in DOMAIN w.instances : IsComplete(w.instances[i])}
  <1>7. w.instances = <<>> /\ w.issues = <<>> /\ w.next = 0 /\ DOMAIN w.instances = {}
    BY DEF Halt
  <1> HIDE DEF w
  <1>8. complete = {}
    BY <1>7
  <1>9. /\ Parsed(w).instances = w.instances /\ Parsed(w).issues = w.issues /\ Parsed(w).next = w.next
        /\ Parsed(w).current = NoInstance
    BY <1>8, Zenon DEF Parsed
  <1> QED
    BY <1>3, <1>6, <1>7, <1>9 DEF w

---------------------------------------------------------------------------
\* A walk that met a version it does not know was abandoned there.
Foreign(w) == \E i \in DOMAIN w.issues : w.issues[i].issue = "version"
Gone(w) == Foreign(w) => w.abandoned

\* Nor does an instance before it change that.
LEMMA GoneWith ==
    ASSUME NEW A, NEW end, NEW w \in Walks(A, end), Gone(w), NEW i \in Instances(A, end)
    PROVE  Gone(With(w, i))
  <1>1. With(w, i).issues = w.issues /\ With(w, i).abandoned = w.abandoned
    BY DEF With, Walks
  <1>2. PICK u : u = With(w, i)
    OBVIOUS
  <1>3. u.issues = w.issues /\ u.abandoned = w.abandoned
    BY <1>1, <1>2
  <1>4. Gone(u)
    BY <1>3 DEF Gone, Foreign
  <1> QED
    BY <1>2, <1>4

\* A walk that ends has met no unknown version.
LEMMA GoneHalt == ASSUME NEW next, NEW abandoned PROVE Gone(Halt(next, abandoned))
  BY DEF Gone, Foreign, Halt

\* One that is lost and goes on has met one only where the rest has.
LEMMA GoneLost ==
    ASSUME NEW A, AreaRows(A), NEW end, ReadTo(end), NEW f, NEW row \in 0 .. end - 1,
           \A c \in row + 1 .. end : f[c] \in Walks(A, end) /\ Gone(f[c])
    PROVE  Gone(LostAt(A, end, f, row))
  <1> DEFINE later == InstancesAfter(A, end, row)
             c == CHOOSE c \in later : \A d \in later : c <= d
             again == Again(A, end, f, row)
             lost == [issue |-> "lost", row |-> row]
             Issues == [issue : {"lost", "version"}, row : Nat]
             u == <<lost>> \o again.issues
  <1>1. later \subseteq row + 1 .. end /\ (later # {} => c \in later)
    BY NextInstance
  <1>2. again \in Walks(A, end) /\ Gone(again)
    <2>1. CASE later = {}
      <3>1. again = Halt(NoRow, TRUE)
        BY <2>1 DEF Again
      <3> QED
        BY <3>1, HaltTyped, GoneHalt
    <2>2. CASE later # {}
      <3>1. again = f[c]
        BY <2>2 DEF Again
      <3>2. c \in row + 1 .. end
        BY <1>1, <2>2
      <3> HIDE DEF c, again
      <3> QED
        BY <3>1, <3>2
    <2> QED
      BY <2>1, <2>2
  <1> HIDE DEF again
  <1>3. again.issues \in Seq(Issues)
    BY <1>2 DEF Walks
  <1>4. LostAt(A, end, f, row) = [again EXCEPT !.issues = u]
    BY DEF LostAt, again
  <1>5. /\ LostAt(A, end, f, row).issues = u
        /\ LostAt(A, end, f, row).abandoned = again.abandoned
    <2> HIDE DEF u
    <2> QED
      BY <1>2, <1>4 DEF Walks
  <1>6. ASSUME NEW i \in DOMAIN u, u[i].issue = "version" PROVE Foreign(again)
    <2> DEFINE s == again.issues
    <2> HIDE DEF s
    <2>1. PICK k \in Nat : k = Len(s) /\ s \in Seq(Issues) /\ DOMAIN s = 1 .. k
      BY <1>3 DEF s
    <2>2. row \in Nat
      BY AreaAssumption DEF ReadTo, AreaEnd
    <2>3. <<lost>> \in Seq(Issues) /\ Len(<<lost>>) = 1 /\ <<lost>>[1] = lost
      BY <2>2
    <2>4. Joins(Issues, u, <<lost>>, s, 1, k)
      <3>1. u = <<lost>> \o s
        BY DEF s
      <3> HIDE DEF u
      <3> QED
        BY <2>1, <2>3, <3>1, Joined
    <2> HIDE DEF u
    <2>5. u \in Seq(Issues) /\ Len(u) = 1 + k /\ u[1] = lost /\ \A j \in 1 .. k : u[1 + j] = s[j]
      BY <2>3, <2>4 DEF Joins
    <2>6. DOMAIN u = 1 .. 1 + k
      BY <2>5
    <2>7. i # 1
      BY <1>6, <2>5
    <2>8. PICK l \in 1 .. k : i = 1 + l
      <3>1. i - 1 \in 1 .. k /\ i = 1 + (i - 1)
        BY <2>1, <2>6, <2>7, <1>6
      <3> QED
        BY <3>1
    <2>9. s[l].issue = "version" /\ l \in DOMAIN s
      BY <1>6, <2>1, <2>5, <2>8
    <2> QED
      BY <2>9 DEF Foreign, s
  <1> HIDE DEF u
  <1> QED
    BY <1>2, <1>5, <1>6 DEF Gone, Foreign

\* An area with a version not known has no current instance.
LEMMA ForeignGone ==
    ASSUME NEW A, AreaRows(A), ~VersionKnown(ReadArea(A))
    PROVE  ReadArea(A).current = NoInstance
  <1> DEFINE end == AreaEnd
  <1>1. ReadTo(end) /\ end \in Nat /\ 0 \in 0 .. end
    BY WholeArea
  <1>2. PICK g : IsWalk(g, A, end) /\ Walk(A, end) = g[0]
    BY <1>1, WalkDefined
  <1>3. \A k \in 0 .. end : g[k] \in Walks(A, end)
    BY <1>1, <1>2, WalkTyped
  <1>4. ASSUME NEW k \in 0 .. end, \A c \in k + 1 .. end : Gone(g[c])
        PROVE  Gone(g[k])
    <2> DEFINE at == InstanceAt(A, end, k)
    <2>1. WalkCase(A, end, g, k)
      BY <1>1, <1>2, WalkCases
    <2>2. CASE k = end
      <3>1. g[k] = Halt(NoRow, FALSE)
        BY <2>1, <2>2 DEF WalkCase
      <3> QED
        BY <3>1, GoneHalt
    <2>3. CASE k # end
      <3>1. k \in 0 .. end - 1 /\ k < end /\ end \in 1 .. AreaEnd
        BY <1>1, <2>3
      <3>2. at.row \in k .. end - 1 /\ at.how \in {"lost", "ended", "unknown"}
            /\ at.instance \in Instances(A, end)
        BY <3>1, InstanceRow
      <3> HIDE DEF at
      <3>3. CASE A[k] = 0
        <4>1. g[k] = Halt(k, FALSE)
          BY <2>1, <3>1, <3>3 DEF WalkCase
        <4> QED
          BY <4>1, GoneHalt
      <3>4. CASE A[k] # 0 /\ A[k] # Magic
        <4>1. \A c \in k + 1 .. end : g[c] \in Walks(A, end) /\ Gone(g[c])
          BY <1>1, <1>3, <1>4
        <4>2. Gone(LostAt(A, end, g, k))
          BY <1>1, <3>1, <4>1, GoneLost
        <4> QED
          BY <2>1, <3>1, <3>4, <4>2 DEF WalkCase
      <3>5. CASE A[k] = Magic /\ at.how = "unknown"
        <4>1. g[k] = [Halt(NoRow, TRUE) EXCEPT !.issues = <<[issue |-> "version", row |-> k]>>]
          BY <2>1, <3>1, <3>5 DEF WalkCase, at
        <4>2. g[k].abandoned = TRUE
          BY <4>1 DEF Halt
        <4> QED
          BY <4>2 DEF Gone
      <3>6. CASE A[k] = Magic /\ at.how = "lost"
        <4>1. g[k] = With(LostAt(A, end, g, at.row), at.instance)
          BY <2>1, <3>1, <3>6 DEF WalkCase, at
        <4>2. at.row \in 0 .. end - 1
          BY <1>1, <3>1, <3>2
        <4>3. \A c \in at.row + 1 .. end : g[c] \in Walks(A, end) /\ Gone(g[c])
          <5> TAKE c \in at.row + 1 .. end
          <5>1. c \in k + 1 .. end /\ c \in 0 .. end
            BY <1>1, <3>2
          <5> QED
            BY <1>3, <1>4, <5>1
        <4>4. Gone(LostAt(A, end, g, at.row)) /\ LostAt(A, end, g, at.row) \in Walks(A, end)
          BY <1>1, <4>2, <4>3, GoneLost, LostTyped
        <4> QED
          BY <3>2, <4>1, <4>4, GoneWith
      <3>7. CASE A[k] = Magic /\ at.how = "ended"
        <4>1. g[k] = With(g[PageAfter(at.row)], at.instance)
          BY <2>1, <3>1, <3>7 DEF WalkCase, at
        <4>2. at.row \in 0 .. end - 1
          BY <1>1, <3>1, <3>2
        <4>3. PageAfter(at.row) \in at.row + 1 .. end
          BY <1>1, <4>2, PageAfterIn
        <4>4. PageAfter(at.row) \in k + 1 .. end /\ PageAfter(at.row) \in 0 .. end
          BY <1>1, <3>2, <4>3
        <4>5. Gone(g[PageAfter(at.row)]) /\ g[PageAfter(at.row)] \in Walks(A, end)
          BY <1>3, <1>4, <4>4
        <4> QED
          BY <3>2, <4>1, <4>5, GoneWith
      <3> QED
        BY <3>2, <3>3, <3>4, <3>5, <3>6, <3>7
    <2> QED
      BY <2>2, <2>3
  <1>5. Gone(g[0])
    <2> DEFINE T == {k \in 0 .. end : ~Gone(g[k])}
    <2>1. T = {}
      <3> SUFFICES ASSUME T # {} PROVE FALSE
        OBVIOUS
      <3>1. T \in SUBSET (0 .. end)
        OBVIOUS
      <3>2. PICK k \in T : \A y \in T : y <= k
        BY <1>1, <3>1, Greatest
      <3>3. \A c \in k + 1 .. end : Gone(g[c])
        <4> TAKE c \in k + 1 .. end
        <4>1. c \in 0 .. end /\ c > k
          BY <1>1, <3>2
        <4> QED
          BY <3>2, <4>1
      <3> QED
        BY <1>4, <3>2, <3>3
    <2> QED
      BY <1>1, <2>1
  <1>6. ReadArea(A) = Parsed(g[0])
    BY <1>1, <1>2, ReadWhole DEF Parse
  <1> DEFINE w == g[0]
  <1>7. Parsed(w).issues = w.issues /\ (w.abandoned => Parsed(w).current = NoInstance)
    BY Zenon DEF Parsed
  <1>8. Foreign(w)
    BY <1>6, <1>7 DEF VersionKnown, Foreign
  <1> QED
    BY <1>5, <1>6, <1>7, <1>8 DEF Gone

---------------------------------------------------------------------------
(* Where an instance goes on from what is there.                           *)

\* The row of each write.
Pos(b, n, j) ==
    IF j <= 2 THEN b + j - 1
    ELSE IF j = 4 + n THEN b + 2
    ELSE IF j = 7 + n THEN b + 4 + n
    ELSE IF j = 10 + n THEN b + 7 + n
    ELSE b + j

\* No two writes are to a row, and the magic and the version come first.
LEMMA PosApart ==
    ASSUME NEW b \in Nat, NEW n \in Nat, NEW i \in 1 .. 10 + n, NEW j \in 1 .. 10 + n
    PROVE  /\ Pos(b, n, j) \in b .. b + 9 + n
           /\ i # j => Pos(b, n, i) # Pos(b, n, j)
           /\ j > 2 => Pos(b, n, j) \in b + 2 .. b + 9 + n
  BY DEF Pos

\* Every write is to its row, and leaves it written.
LEMMA WritesAt ==
    ASSUME NEW b \in Nat, NEW v, Given(v), NEW n, Long(v, n), NEW j \in 1 .. 10 + n
    PROVE  WritesOf(b, v)[j][1] = Pos(b, n, j) /\ WritesOf(b, v)[j][2] \in Nat \ {0}
  <1> DEFINE w == WritesOf(b, v)
  <1>1. n \in Nat \ {0} /\ v.date[1] \in Nat \ {0} /\ SigOf(v) \in Nat \ {0}
        /\ \A i \in 1 .. n : v.who[i] \in Nat \ {0}
    BY GivenFacts DEF Long
  <1>2. Layout(w, b, v)
    BY WritesAre
  <1>3. /\ w[1] = <<b, Magic>> /\ w[2] = <<b + 1, Version>> /\ w[3] = <<b + 3, n>>
        /\ \A i \in 1 .. n : w[3 + i] = <<b + 3 + i, v.who[i]>>
        /\ w[4 + n] = <<b + 2, WhoKey>>
        /\ w[5 + n] = <<b + 5 + n, 1>> /\ w[6 + n] = <<b + 6 + n, v.date[1]>>
        /\ w[7 + n] = <<b + 4 + n, DateKey>>
        /\ w[8 + n] = <<b + 8 + n, 1>> /\ w[9 + n] = <<b + 9 + n, SigOf(v)>>
        /\ w[10 + n] = <<b + 7 + n, SigKey>>
    BY <1>2, Zenon DEF Layout, Long
  <1> HIDE DEF w
  <1>4. CASE j - 3 \in 1 .. n
    <2>1. PICK i \in 1 .. n : i = j - 3
      BY <1>4
    <2>2. j = 3 + i /\ Pos(b, n, j) = b + 3 + i
      BY <1>1, <2>1 DEF Pos
    <2>3. w[j] = <<b + 3 + i, v.who[i]>>
      <3>1. w[3 + i] = <<b + 3 + i, v.who[i]>>
        BY <1>3, Zenon
      <3> QED
        BY <2>2, <3>1, Zenon
    <2>4. w[j][1] = Pos(b, n, j) /\ w[j][2] \in Nat \ {0}
      <3>1. w[j][1] = b + 3 + i /\ w[j][2] = v.who[i]
        BY <2>3
      <3>2. v.who[i] \in Nat \ {0}
        BY <1>1, <2>1
      <3> QED
        BY <2>2, <3>1, <3>2, Zenon
    <2> QED
      BY <2>4 DEF w
  <1>5. CASE j \in {1, 2, 3, 4 + n, 5 + n, 6 + n, 7 + n, 8 + n, 9 + n, 10 + n}
    <2>1. /\ Magic \in Nat \ {0} /\ Version \in Nat \ {0} /\ WhoKey \in Nat \ {0}
          /\ DateKey \in Nat \ {0} /\ SigKey \in Nat \ {0}
      BY DEF Magic, Version, WhoKey, DateKey, SigKey
    <2>2. w[j][2] \in Nat \ {0}
      BY <1>1, <1>3, <1>5, <2>1
    <2>3. CASE j \in {1, 2, 3}
      BY <1>1, <1>3, <2>2, <2>3 DEF Pos, w
    <2>4. CASE j = 4 + n
      BY <1>1, <1>3, <2>2, <2>4 DEF Pos, w
    <2>5. CASE j = 5 + n
      BY <1>1, <1>3, <2>2, <2>5 DEF Pos, w
    <2>6. CASE j = 6 + n
      BY <1>1, <1>3, <2>2, <2>6 DEF Pos, w
    <2>7. CASE j = 7 + n
      BY <1>1, <1>3, <2>2, <2>7 DEF Pos, w
    <2>8. CASE j = 8 + n
      BY <1>1, <1>3, <2>2, <2>8 DEF Pos, w
    <2>9. CASE j = 9 + n
      BY <1>1, <1>3, <2>2, <2>9 DEF Pos, w
    <2>10. CASE j = 10 + n
      BY <1>1, <1>3, <2>2, <2>10 DEF Pos, w
    <2> QED
      BY <1>5, <2>3, <2>4, <2>5, <2>6, <2>7, <2>8, <2>9, <2>10
  <1> QED
    BY <1>1, <1>4, <1>5

\* The front in these terms.
LEMMA FrontAt ==
    ASSUME NEW A, NEW b, NEW v, NEW m, NEW n, Long(v, n)
    PROVE  Front(A, b, v, m) <=>
             /\ AreaRows(A) /\ Given(v)
             /\ b \in Nat /\ b % PageRows = 0 /\ b + 10 + n <= AreaEnd
             /\ m \in 0 .. 10 + n
             /\ \A j \in 1 .. 10 + n :
                  A[WritesOf(b, v)[j][1]] = IF j <= m THEN WritesOf(b, v)[j][2] ELSE 0
             /\ \A r \in b + 10 + n .. AreaEnd - 1 : A[r] = 0
  BY Zenon DEF Front, Long

\* A place where every row of the new instance is free or holds its value.
Fitting(A, f, t) ==
    /\ f % PageRows = 0
    /\ \A n \in Nat : Long(t, n) =>
         /\ f + 10 + n <= AreaEnd
         /\ \A j \in 1 .. 10 + n : A[WritesOf(f, t)[j][1]] \in {0, WritesOf(f, t)[j][2]}

\* An interrupted instance is finished by one it agrees with as far as it goes.
LEMMA Refit ==
    ASSUME NEW A, NEW S, NEW f, NEW v, NEW m, NEW R, Chain(A, S, f, v, m, R), 1 <= m,
           NEW t, Given(t), Fitting(A, f, t)
    PROVE  Chain(A, S, f, t, m, R)
  <1>1. Front(A, f, v, m) /\ Settled(A, S, f, R)
    BY DEF Chain
  <1>2. PICK n \in Nat \ {0} :
          /\ Long(v, n) /\ AreaEnd \in Nat /\ f \in Nat /\ m \in 0 .. 10 + n
          /\ f + 10 + n <= AreaEnd /\ AreaRows(A) /\ Given(v) /\ f % PageRows = 0
          /\ \A r \in f + 10 + n .. AreaEnd - 1 : A[r] = 0
    BY <1>1, FrontBounds
  <1>3. Shows(A, f, v, m, n)
    BY <1>1, <1>2, FrontShows
  <1>4. PICK l \in Nat \ {0} : Long(t, l)
    BY GivenFacts DEF Long
  <1> DEFINE u == WritesOf(f, t)
             w == WritesOf(f, v)
  <1>5. /\ f + 10 + l <= AreaEnd
        /\ \A j \in 1 .. 10 + l : A[u[j][1]] \in {0, u[j][2]}
    BY <1>4 DEF Fitting
  <1>6. \A j \in 1 .. 10 + l : u[j][1] = Pos(f, l, j) /\ u[j][2] \in Nat \ {0}
    BY <1>2, <1>4, WritesAt
  <1>7. \A j \in 1 .. 10 + n : w[j][1] = Pos(f, n, j) /\ w[j][2] \in Nat \ {0}
    BY <1>2, WritesAt
  <1>8. /\ u[1] = <<f, Magic>> /\ u[2] = <<f + 1, Version>> /\ u[3] = <<f + 3, l>>
        /\ u[9 + l] = <<f + 9 + l, SigOf(t)>>
    <2>1. Layout(u, f, t)
      BY <1>2, WritesAre
    <2> QED
      BY <1>4, <2>1, Zenon DEF Layout, Long
  <1>9. \A j \in 1 .. 10 + n : A[w[j][1]] = IF j <= m THEN w[j][2] ELSE 0
    BY <1>1, <1>2, FrontAt
  <1>10. SigOf(t) \in Nat \ {0} /\ SigOf(v) \in Nat \ {0}
    BY <1>2, GivenFacts
  <1> HIDE DEF u, w
  <1>11. CASE m <= 2
    <2>1. \A r \in f + 2 .. AreaEnd - 1 : A[r] = 0
      <3> TAKE r \in f + 2 .. AreaEnd - 1
      <3>1. /\ A[f + 2] = 0 /\ A[f + 3] = 0 /\ \A i \in 1 .. n : A[f + 3 + i] = 0
            /\ A[f + 4 + n] = 0 /\ A[f + 5 + n] = 0 /\ A[f + 6 + n] = 0
            /\ A[f + 7 + n] = 0 /\ A[f + 8 + n] = 0 /\ A[f + 9 + n] = 0
        BY <1>2, <1>3, <1>11 DEF Shows
      <3>2. CASE r - (f + 3) \in 1 .. n
        <4>1. PICK i \in 1 .. n : i = r - (f + 3)
          BY <3>2
        <4>2. r = f + 3 + i
          BY <1>2, <4>1
        <4> QED
          BY <3>1, <4>2
      <3>3. CASE r \in {f + 2, f + 3, f + 4 + n, f + 5 + n, f + 6 + n, f + 7 + n, f + 8 + n, f + 9 + n}
        BY <3>1, <3>3
      <3>4. CASE r \in f + 10 + n .. AreaEnd - 1
        BY <1>2, <3>4
      <3> QED
        BY <1>2, <3>2, <3>3, <3>4
    <2>2. ASSUME NEW j \in 1 .. 10 + l
          PROVE  A[u[j][1]] = IF j <= m THEN u[j][2] ELSE 0
      <3>1. CASE j = 1
        <4>1. A[f] = Magic /\ u[1][1] = f /\ u[1][2] = Magic
          BY <1>3, <1>8 DEF Shows
        <4> QED
          BY <3>1, <4>1
      <3>2. CASE j = 2
        <4>1. A[f + 1] = (IF 2 <= m THEN Version ELSE 0) /\ u[2][1] = f + 1 /\ u[2][2] = Version
          BY <1>3, <1>8 DEF Shows
        <4> QED
          BY <3>2, <4>1
      <3>3. CASE j > 2
        <4>1. u[j][1] = Pos(f, l, j) /\ Pos(f, l, j) \in f + 2 .. f + 9 + l
          BY <1>2, <1>6, <3>3, PosApart
        <4>2. u[j][1] \in f + 2 .. AreaEnd - 1
          BY <1>2, <1>5, <4>1
        <4>3. A[u[j][1]] = 0 /\ ~(j <= m)
          BY <1>2, <1>11, <2>1, <3>3, <4>2
        <4> QED
          BY <4>3
      <3> QED
        BY <3>1, <3>2, <3>3
    <2>3. \A r \in f + 10 + l .. AreaEnd - 1 : A[r] = 0
      BY <1>2, <2>1
    <2>4. m \in 0 .. 10 + l
      BY <1>2, <1>11
    <2>5. Front(A, f, t, m)
      BY <1>2, <1>4, <1>5, <2>2, <2>3, <2>4, FrontAt DEF u
    <2>6. ASSUME NEW k \in Nat, Long(t, k), m = 10 + k PROVE FALSE
      BY <1>2, <1>11, <2>6
    <2> QED
      BY <1>1, <2>5, <2>6 DEF Chain
  <1>12. CASE m >= 3
    <2>1. A[f + 3] = n
      BY <1>3, <1>12 DEF Shows
    <2>2. 3 \in 1 .. 10 + l /\ u[3][1] = f + 3 /\ u[3][2] = l
      BY <1>8
    <2>3. A[u[3][1]] \in {0, u[3][2]}
      BY <1>5, <2>2
    <2>4. n = l
      BY <1>2, <2>1, <2>2, <2>3
    <2>5. ASSUME NEW j \in 1 .. 10 + l
          PROVE  A[u[j][1]] = IF j <= m THEN u[j][2] ELSE 0
      <3>1. A[u[j][1]] \in {0, u[j][2]}
        BY <1>5
      <3>2. u[j][1] = Pos(f, l, j) /\ w[j][1] = Pos(f, n, j) /\ w[j][2] # 0
        BY <1>6, <1>7, <2>4
      <3>3. u[j][1] = w[j][1]
        BY <2>4, <3>2
      <3>4. A[w[j][1]] = IF j <= m THEN w[j][2] ELSE 0
        BY <1>9, <2>4
      <3> QED
        BY <3>1, <3>2, <3>3, <3>4
    <2>6. m \in 0 .. 10 + l /\ \A r \in f + 10 + l .. AreaEnd - 1 : A[r] = 0
      BY <1>2, <2>4
    <2>7. Front(A, f, t, m)
      BY <1>2, <1>4, <1>5, <2>5, <2>6, FrontAt DEF u
    <2>8. ASSUME NEW k \in Nat, Long(t, k), m = 10 + k PROVE SigOf(t) \in R
      <3>1. k = l
        BY <1>4, <2>8 DEF Long
      <3>2. m = 10 + n
        BY <2>4, <2>8, <3>1
      <3>3. A[f + 9 + n] = SigOf(v) /\ SigOf(v) \in R
        <4>1. SigOf(v) \in R
          BY <1>2, <3>2 DEF Chain
        <4> QED
          BY <1>2, <1>3, <3>2, <4>1 DEF Shows
      <3>4. 9 + l \in 1 .. 10 + l /\ u[9 + l][1] = f + 9 + l /\ u[9 + l][2] = SigOf(t)
        BY <1>4, <1>8
      <3>5. A[f + 9 + l] \in {0, SigOf(t)}
        BY <1>5, <3>4
      <3> QED
        BY <1>10, <2>4, <3>3, <3>5
    <2> QED
      BY <1>1, <2>7, <2>8 DEF Chain
  <1> QED
    BY <1>2, <1>11, <1>12

\* A new instance goes on the page after the last one.
LEMMA Onward ==
    ASSUME NEW A, NEW S, NEW f, NEW v, NEW m, NEW R, Chain(A, S, f, v, m, R), 1 <= m,
           InstanceAt(A, AreaEnd, f).how = "ended",
           NEW p, p = PageAfter(InstanceAt(A, AreaEnd, f).row),
           NEW t, Given(t), Fitting(A, p, t)
    PROVE  Chain(A, S \cup {f}, p, t, 0, R)
  <1> DEFINE at == InstanceAt(A, AreaEnd, f)
  <1>1. Front(A, f, v, m) /\ Settled(A, S, f, R)
    BY DEF Chain
  <1>2. PICK n \in Nat \ {0} :
          /\ Long(v, n) /\ AreaEnd \in Nat /\ f \in 0 .. AreaEnd - 1 /\ m \in 0 .. 10 + n
          /\ AreaRows(A) /\ Given(v) /\ AreaEnd \in 1 .. AreaEnd
    BY <1>1, FrontBounds
  <1>3. ReadsAs(A, at, f, v, m, n)
    BY <1>1, <1>2, FrontReads
  <1>4. A[f] = Magic
    <2>1. Shows(A, f, v, m, n)
      BY <1>1, <1>2, FrontShows
    <2> QED
      BY <2>1 DEF Shows
  <1>5. Fair(at.instance, R)
    BY FrontFair
  <1>6. at.row \in f + 1 .. AreaEnd - 1 /\ \A r \in at.row + 1 .. AreaEnd - 1 : A[r] = 0
    BY <1>3 DEF ReadsAs
  <1> HIDE DEF at
  <1>7. p \in at.row + 1 .. AreaEnd
    <2>1. at.row \in 0 .. AreaEnd - 1
      BY <1>2, <1>6
    <2> QED
      BY <2>1, WholeArea, PageAfterIn DEF at
  <1>8. p \in Nat /\ f < p /\ \A r \in p .. AreaEnd - 1 : A[r] = 0
    BY <1>2, <1>6, <1>7
  <1>9. PICK l \in Nat \ {0} : Long(t, l)
    BY GivenFacts DEF Long
  <1>10. p + 10 + l <= AreaEnd /\ p % PageRows = 0
    BY <1>9 DEF Fitting
  <1>11. Front(A, p, t, 0)
    <2>1. ASSUME NEW j \in 1 .. 10 + l
          PROVE  A[WritesOf(p, t)[j][1]] = IF j <= 0 THEN WritesOf(p, t)[j][2] ELSE 0
      <3>1. WritesOf(p, t)[j][1] = Pos(p, l, j) /\ Pos(p, l, j) \in p .. p + 9 + l
        <4>1. WritesOf(p, t)[j][1] = Pos(p, l, j)
          BY <1>8, <1>9, WritesAt
        <4>2. Pos(p, l, j) \in p .. p + 9 + l
          BY <1>8, PosApart
        <4> QED
          BY <4>1, <4>2
      <3>2. WritesOf(p, t)[j][1] \in p .. AreaEnd - 1 /\ ~(j <= 0)
        BY <1>2, <1>8, <1>10, <3>1
      <3> QED
        BY <1>8, <3>2
    <2>2. 0 \in 0 .. 10 + l /\ \A r \in p + 10 + l .. AreaEnd - 1 : A[r] = 0
      BY <1>2, <1>8
    <2> QED
      BY <1>2, <1>8, <1>9, <1>10, <2>1, <2>2, FrontAt
  <1>12. Settled(A, S \cup {f}, p, R)
    <2>1. S \subseteq 0 .. f - 1 /\ 0 \in S \cup {f}
      BY <1>1 DEF Settled
    <2>2. S \cup {f} \subseteq 0 .. p - 1 /\ 0 \in (S \cup {f}) \cup {p}
      BY <1>2, <1>8, <2>1
    <2>3. ASSUME NEW s \in S \cup {f}
          PROVE  LET x == InstanceAt(A, AreaEnd, s)
                 IN  /\ A[s] = Magic /\ x.how = "ended" /\ Fair(x.instance, R)
                     /\ PageAfter(x.row) \in (S \cup {f}) \cup {p}
      <3>1. CASE s = f
        BY <1>4, <1>5, <3>1 DEF at
      <3>2. CASE s \in S
        BY <1>1, <3>2 DEF Settled
      <3> QED
        BY <3>1, <3>2
    <2> QED
      BY <2>2, <2>3 DEF Settled
  <1>13. ASSUME NEW k \in Nat, Long(t, k), 0 = 10 + k PROVE FALSE
    BY <1>13
  <1> QED
    BY <1>11, <1>12, <1>13 DEF Chain

\* The first instance of all.
LEMMA Outset ==
    ASSUME NEW A, ZeroArea(A), NEW R, NEW t, Given(t), Fitting(A, 0, t)
    PROVE  Chain(A, {}, 0, t, 0, R)
  <1>1. AreaRows(A) /\ AreaEnd \in Nat /\ \A r \in 0 .. AreaEnd - 1 : A[r] = 0
    BY WholeArea DEF ZeroArea
  <1>2. PICK l \in Nat \ {0} : Long(t, l)
    BY GivenFacts DEF Long
  <1>3. 0 + 10 + l <= AreaEnd /\ 0 % PageRows = 0
    BY <1>2 DEF Fitting
  <1>4. Front(A, 0, t, 0)
    <2>1. ASSUME NEW j \in 1 .. 10 + l
          PROVE  A[WritesOf(0, t)[j][1]] = IF j <= 0 THEN WritesOf(0, t)[j][2] ELSE 0
      <3>1. WritesOf(0, t)[j][1] = Pos(0, l, j) /\ Pos(0, l, j) \in 0 .. 0 + 9 + l
        BY <1>2, WritesAt, PosApart
      <3>2. WritesOf(0, t)[j][1] \in 0 .. AreaEnd - 1 /\ ~(j <= 0)
        BY <1>1, <1>3, <3>1
      <3> QED
        BY <1>1, <3>2
    <2>2. 0 \in 0 .. 10 + l /\ \A r \in 0 + 10 + l .. AreaEnd - 1 : A[r] = 0
      BY <1>1
    <2> QED
      BY <1>1, <1>2, <1>3, <2>1, <2>2, FrontAt
  <1>5. Settled(A, {}, 0, R)
    BY DEF Settled
  <1>6. ASSUME NEW k \in Nat, Long(t, k), 0 = 10 + k PROVE FALSE
    BY <1>6
  <1> QED
    BY <1>4, <1>5, <1>6 DEF Chain

\* A signature that is recorded stays so.
LEMMA Wider ==
    ASSUME NEW A, NEW S, NEW f, NEW v, NEW m, NEW R, Chain(A, S, f, v, m, R), NEW Q, R \subseteq Q
    PROVE  Chain(A, S, f, v, m, Q)
  <1>1. ASSUME NEW i, Fair(i, R) PROVE Fair(i, Q)
    BY <1>1 DEF Fair
  <1>2. Settled(A, S, f, Q)
    <2>1. Settled(A, S, f, R)
      BY DEF Chain
    <2>2. ASSUME NEW s \in S
          PROVE  LET at == InstanceAt(A, AreaEnd, s)
                 IN  /\ A[s] = Magic /\ at.how = "ended" /\ Fair(at.instance, Q)
                     /\ PageAfter(at.row) \in S \cup {f}
      BY <1>1, <2>1 DEF Settled
    <2> QED
      BY <2>1, <2>2 DEF Settled
  <1> QED
    BY <1>2 DEF Chain

\* What lies behind the front is read as it was while only the front changes.
LEMMA SettledStays ==
    ASSUME NEW A, NEW B, AreaRows(A), AreaRows(B), NEW f \in 0 .. AreaEnd - 1,
           \A r \in 0 .. f - 1 : A[r] = B[r], NEW S, NEW R, Settled(A, S, f, R)
    PROVE  Settled(B, S, f, R)
  <1>1. PICK end \in 1 .. AreaEnd : end = AreaEnd
    BY WholeArea
  <1>2. end \in Nat /\ f \in Nat /\ f <= end - 1
    BY <1>1
  <1>3. S \subseteq 0 .. f - 1 /\ 0 \in S \cup {f}
    BY DEF Settled
  <1>4. ASSUME NEW s \in S
        PROVE  LET at == InstanceAt(B, AreaEnd, s)
               IN  /\ B[s] = Magic /\ at.how = "ended" /\ Fair(at.instance, R)
                   /\ PageAfter(at.row) \in S \cup {f}
    <2> DEFINE at == InstanceAt(A, end, s)
    <2>1. /\ A[s] = Magic /\ at.how = "ended" /\ Fair(at.instance, R)
          /\ PageAfter(at.row) \in S \cup {f}
      BY <1>1 DEF Settled
    <2>2. s \in 0 .. f - 1 /\ s \in 0 .. end - 1
      BY <1>2, <1>3
    <2>3. at.row \in s .. end - 1
      BY <2>2, InstanceRow
    <2>4. PageAfter(at.row) \in at.row + 1 .. end
      <3> HIDE DEF at
      <3>1. at.row \in 0 .. end - 1
        BY <2>2, <2>3
      <3> QED
        BY <1>1, <3>1, WholeArea, PageAfterIn
    <2>5. \A q \in S \cup {f} : q <= f
      BY <1>2, <1>3
    <2>6. at.row < f /\ at.row # end - 1
      <3> HIDE DEF at
      <3>1. PageAfter(at.row) <= f
        BY <2>1, <2>5
      <3> QED
        BY <1>2, <2>2, <2>3, <2>4, <3>1
    <2>7. InstanceAt(A, end, s) = InstanceAt(B, end, s)
      <3>1. /\ end \in 1 .. AreaEnd /\ f \in 0 .. AreaEnd /\ f <= end
            /\ s \in 0 .. f - 1 /\ InstanceAt(A, end, s).how = "ended"
            /\ InstanceAt(A, end, s).row < f /\ InstanceAt(A, end, s).row # end - 1
        BY <1>1, <1>2, <2>1, <2>2, <2>6
      <3> HIDE DEF at
      <3> QED
        BY <3>1, InstanceLocal
    <2>8. B[s] = A[s]
      BY <2>2
    <2> QED
      BY <1>1, <2>1, <2>7, <2>8
  <1> QED
    BY <1>3, <1>4 DEF Settled

\* The next row of the instance is written.
LEMMA Grow ==
    ASSUME NEW A, NEW S, NEW f, NEW v, NEW m, NEW R, Chain(A, S, f, v, m, R),
           NEW n \in Nat, Long(v, n), m < 10 + n, SigOf(v) \in R,
           NEW B, B = [A EXCEPT ![WritesOf(f, v)[m + 1][1]] = WritesOf(f, v)[m + 1][2]]
    PROVE  Chain(B, S, f, v, m + 1, R)
  <1>1. Front(A, f, v, m) /\ Settled(A, S, f, R)
    BY DEF Chain
  <1>2. /\ AreaEnd \in Nat /\ f \in Nat /\ m \in 0 .. 10 + n /\ f + 10 + n <= AreaEnd
        /\ AreaRows(A) /\ Given(v) /\ f % PageRows = 0 /\ AreaEnd \in 1 .. AreaEnd
        /\ \A r \in f + 10 + n .. AreaEnd - 1 : A[r] = 0
    BY <1>1, FrontBounds DEF Long
  <1> DEFINE w == WritesOf(f, v)
  <1>3. \A j \in 1 .. 10 + n : w[j][1] = Pos(f, n, j) /\ w[j][2] \in Nat \ {0}
    BY <1>2, WritesAt
  <1>4. \A j \in 1 .. 10 + n : A[w[j][1]] = IF j <= m THEN w[j][2] ELSE 0
    BY <1>1, <1>2, FrontAt
  <1> HIDE DEF w
  <1>5. PICK k \in 1 .. 10 + n : k = m + 1
    BY <1>2
  <1>6. PICK x \in f .. f + 9 + n : x = w[k][1]
    <2>1. Pos(f, n, k) \in f .. f + 9 + n
      BY <1>2, PosApart
    <2> QED
      BY <1>3, <2>1
  <1>7. B = [A EXCEPT ![x] = w[k][2]]
    BY <1>5, <1>6 DEF w
  <1>8. w[k][2] \in Nat /\ x \in 0 .. AreaEnd - 1
    BY <1>2, <1>3, <1>6
  <1>9. /\ AreaRows(B) /\ B[x] = w[k][2]
        /\ \A r \in 0 .. AreaEnd - 1 : r # x => B[r] = A[r]
    BY <1>2, <1>7, <1>8 DEF AreaRows
  <1>10. Front(B, f, v, k)
    <2>1. ASSUME NEW j \in 1 .. 10 + n
          PROVE  B[w[j][1]] = IF j <= k THEN w[j][2] ELSE 0
      <3>1. CASE j = k
        BY <1>6, <1>9, <3>1
      <3>2. CASE j # k
        <4>1. Pos(f, n, j) \in f .. f + 9 + n /\ Pos(f, n, j) # Pos(f, n, k)
          BY <1>2, <3>2, PosApart
        <4>2. w[j][1] \in 0 .. AreaEnd - 1 /\ w[j][1] # x
          BY <1>2, <1>3, <1>6, <4>1
        <4>3. B[w[j][1]] = A[w[j][1]]
          BY <1>9, <4>2
        <4>4. (j <= m) <=> (j <= k)
          BY <1>2, <1>5, <3>2
        <4> QED
          BY <1>4, <4>3, <4>4
      <3> QED
        BY <3>1, <3>2
    <2>2. \A r \in f + 10 + n .. AreaEnd - 1 : B[r] = 0
      <3> TAKE r \in f + 10 + n .. AreaEnd - 1
      <3>1. r \in 0 .. AreaEnd - 1 /\ r # x
        BY <1>2, <1>6
      <3> QED
        BY <1>2, <1>9, <3>1
    <2>3. k \in 0 .. 10 + n
      BY <1>5
    <2> QED
      BY <1>2, <1>9, <2>1, <2>2, <2>3, Zenon DEF Front, Long, w
  <1>11. Settled(B, S, f, R)
    <2>1. \A r \in 0 .. f - 1 : A[r] = B[r]
      <3> TAKE r \in 0 .. f - 1
      <3>1. r \in 0 .. AreaEnd - 1 /\ r # x
        BY <1>2, <1>6
      <3> QED
        BY <1>9, <3>1
    <2>2. f \in 0 .. AreaEnd - 1
      BY <1>2
    <2>3. AreaRows(A) /\ AreaRows(B) /\ Settled(A, S, f, R)
      BY <1>1, <1>2, <1>9
    <2> QED
      BY <2>1, <2>2, <2>3, SettledStays, Zenon
  <1> QED
    BY <1>5, <1>10, <1>11 DEF Chain

---------------------------------------------------------------------------
\* The values of the area's rows.
AreaOf(rows) == [i \in 0 .. AreaEnd - 1 |-> rows[AreaRow(i)].value]

\* What is read of a board is read of its area.
LEMMA AreaIs == \A rows : Area(rows) = ReadArea(AreaOf(rows))
  BY DEF Area, AreaOf

\* The plan of an instance is its writes.
LEMMA PlanAt ==
    ASSUME NEW b \in Nat, NEW t, Given(t), NEW l, Long(t, l)
    PROVE  /\ DOMAIN InstancePlan(b, t) = 1 .. 10 + l
           /\ \A j \in 1 .. 10 + l :
                InstancePlan(b, t)[j] = [row |-> AreaRow(WritesOf(b, t)[j][1]),
                                         want |-> Exactly(WritesOf(b, t)[j][2])]
           /\ InstanceRowCount(t) = 10 + l
  <1> DEFINE w == WritesOf(b, t)
  <1>1. Layout(w, b, t)
    BY WritesAre
  <1>2. DOMAIN w = 1 .. 10 + l
    BY <1>1, Zenon DEF Layout, Long
  <1>3. InstancePlan(b, t) = [i \in DOMAIN w |-> Write(AreaRow(w[i][1]), Exactly(w[i][2]))]
    BY DEF InstancePlan, WritesOf, SigOf
  <1> HIDE DEF w
  <1>4. DOMAIN InstancePlan(b, t) = 1 .. 10 + l
        /\ \A j \in 1 .. 10 + l :
                InstancePlan(b, t)[j] = [row |-> AreaRow(w[j][1]), want |-> Exactly(w[j][2])]
    BY <1>2, <1>3 DEF Write
  <1>5. InstanceRowCount(t) = 10 + l
    <2>1. SignedLayout(SignedRows(t), t)
      BY SignedAre
    <2>2. Len(SignedRows(t)) = 7 + l
      BY <2>1, Zenon DEF SignedLayout, Long
    <2>3. l \in Nat
      BY GivenFacts DEF Long
    <2> QED
      BY <2>2, <2>3 DEF InstanceRowCount
  <1> QED
    BY <1>4, <1>5 DEF w

\* What FitsAt saw, of each row of the plan.
LEMMA FitsFitting ==
    ASSUME NEW p, NEW t, Given(t), FitsAt(p, t), NEW l, Long(t, l)
    PROVE  /\ p \in 0 .. AreaEnd - 1 /\ p % PageRows = 0 /\ p + 10 + l <= AreaEnd
           /\ \A j \in 1 .. 10 + l :
                /\ WritesOf(p, t)[j][1] \in 0 .. AreaEnd - 1
                /\ Writable(otp[AreaRow(WritesOf(p, t)[j][1])], WritesOf(p, t)[j][2])
  <1>1. p \in 0 .. AreaEnd - 1 /\ p % PageRows = 0 /\ p + InstanceRowCount(t) <= AreaEnd
    BY DEF FitsAt, Fits
  <1>2. p \in Nat /\ l \in Nat \ {0} /\ AreaEnd \in Nat
    BY <1>1, GivenFacts, WholeArea DEF Long
  <1>3. /\ DOMAIN InstancePlan(p, t) = 1 .. 10 + l
        /\ \A j \in 1 .. 10 + l :
             InstancePlan(p, t)[j] = [row |-> AreaRow(WritesOf(p, t)[j][1]),
                                      want |-> Exactly(WritesOf(p, t)[j][2])]
        /\ InstanceRowCount(t) = 10 + l
    BY <1>2, PlanAt
  <1>4. p + 10 + l <= AreaEnd
    BY <1>1, <1>2, <1>3
  <1>5. ASSUME NEW j \in 1 .. 10 + l
        PROVE  /\ WritesOf(p, t)[j][1] \in 0 .. AreaEnd - 1
               /\ Writable(otp[AreaRow(WritesOf(p, t)[j][1])], WritesOf(p, t)[j][2])
    <2>1. WritesOf(p, t)[j][1] \in 0 .. AreaEnd - 1
      <3>1. WritesOf(p, t)[j][1] = Pos(p, l, j)
        BY <1>2, WritesAt
      <3>2. Pos(p, l, j) \in p .. p + 9 + l
        BY <1>2, PosApart
      <3> QED
        BY <1>2, <1>4, <3>1, <3>2
    <2>2. LET w == InstancePlan(p, t)[j] IN Writable(otp[w.row], w.want.value)
      BY <1>3 DEF FitsAt
    <2>3. /\ InstancePlan(p, t)[j].row = AreaRow(WritesOf(p, t)[j][1])
          /\ InstancePlan(p, t)[j].want.value = WritesOf(p, t)[j][2]
      BY <1>3 DEF Exactly
    <2> QED
      BY <2>1, <2>2, <2>3
  <1> QED
    BY <1>1, <1>4, <1>5

---------------------------------------------------------------------------
(* What prepare makes of the area.                                         *)

\* Where an instance fits, every row of it is free or holds what it shall.
LEMMA FittingAt ==
    ASSUME NEW A, A = AreaOf(otp), NEW p, NEW t, Given(t), FitsAt(p, t)
    PROVE  Fitting(A, p, t) /\ p \in 0 .. AreaEnd - 1
  <1>1. p \in 0 .. AreaEnd - 1 /\ p % PageRows = 0
    BY DEF FitsAt, Fits
  <1>2. ASSUME NEW n \in Nat, Long(t, n)
        PROVE  /\ p + 10 + n <= AreaEnd
               /\ \A j \in 1 .. 10 + n : A[WritesOf(p, t)[j][1]] \in {0, WritesOf(p, t)[j][2]}
    <2>1. /\ p + 10 + n <= AreaEnd
          /\ \A j \in 1 .. 10 + n :
                /\ WritesOf(p, t)[j][1] \in 0 .. AreaEnd - 1
                /\ Writable(otp[AreaRow(WritesOf(p, t)[j][1])], WritesOf(p, t)[j][2])
      BY <1>2, FitsFitting
    <2>2. ASSUME NEW j \in 1 .. 10 + n
          PROVE  A[WritesOf(p, t)[j][1]] \in {0, WritesOf(p, t)[j][2]}
      <3>0. PICK val : val = WritesOf(p, t)[j][2]
        OBVIOUS
      <3>1. PICK x \in 0 .. AreaEnd - 1 :
              /\ x = WritesOf(p, t)[j][1] /\ val = WritesOf(p, t)[j][2]
              /\ Writable(otp[AreaRow(x)], val)
        BY <2>1, <3>0
      <3>2. A[x] = otp[AreaRow(x)].value
        BY DEF AreaOf
      <3>3. otp[AreaRow(x)].value \in {0, val}
        BY <3>1 DEF Writable, Holds, Exactly, IsUnwritten
      <3> QED
        BY <3>1, <3>2, <3>3
    <2> QED
      BY <2>1, <2>2
  <1> QED
    BY <1>1, <1>2 DEF Fitting

\* Of the plan, the rows already written hold what they shall.
LEMMA HoldingAt ==
    ASSUME NEW A, A = AreaOf(otp), NEW S, NEW p, NEW t, NEW m, NEW R, Chain(A, S, p, t, m, R),
           FitsAt(p, t), NEW l, Long(t, l), NEW j \in 1 .. 10 + l
    PROVE  Holding(InstancePlan(p, t)[j]) <=> j <= m
  <1>1. Front(A, p, t, m)
    BY DEF Chain
  <1>2. Given(t) /\ p \in Nat /\ l \in Nat
    BY <1>1, FrontBounds DEF Long
  <1>3. InstancePlan(p, t)[j] = [row |-> AreaRow(WritesOf(p, t)[j][1]),
                                 want |-> Exactly(WritesOf(p, t)[j][2])]
    BY <1>2, PlanAt
  <1>4. /\ WritesOf(p, t)[j][1] \in 0 .. AreaEnd - 1
        /\ Writable(otp[AreaRow(WritesOf(p, t)[j][1])], WritesOf(p, t)[j][2])
    BY <1>2, FitsFitting
  <1>5. WritesOf(p, t)[j][2] \in Nat \ {0}
    BY <1>2, WritesAt
  <1>6. A[WritesOf(p, t)[j][1]] = IF j <= m THEN WritesOf(p, t)[j][2] ELSE 0
    BY <1>1, FrontAt
  <1>7. PICK x \in 0 .. AreaEnd - 1, val \in Nat \ {0} :
              x = WritesOf(p, t)[j][1] /\ val = WritesOf(p, t)[j][2]
    BY <1>4, <1>5
  <1>8. A[x] = otp[AreaRow(x)].value
    BY DEF AreaOf
  <1>9. Holding(InstancePlan(p, t)[j]) <=> otp[AreaRow(x)] = Exactly(val)
    BY <1>3, <1>7 DEF Holding
  <1>10. CASE j <= m
    <2>1. otp[AreaRow(x)].value = val
      BY <1>6, <1>7, <1>8, <1>10
    <2>2. otp[AreaRow(x)] = Exactly(val)
      BY <1>4, <1>7, <2>1 DEF Writable, Holds, IsUnwritten
    <2> QED
      BY <1>9, <1>10, <2>2
  <1>11. CASE ~(j <= m)
    <2>1. otp[AreaRow(x)].value = 0
      BY <1>6, <1>7, <1>8, <1>11
    <2>2. otp[AreaRow(x)] # Exactly(val)
      BY <1>7, <2>1 DEF Exactly
    <2> QED
      BY <1>9, <1>11, <2>2
  <1> QED
    BY <1>10, <1>11

\* After the last row written, where that is so near the end of the area, no
\* instance fits.
LEMMA NoneAfter ==
    ASSUME NEW x \in 0 .. AreaEnd - 1, ~IsUnwritten(otp[AreaRow(x)])
    PROVE  AfterLastWritten > x
  <1> DEFINE written == {i \in 0 .. AreaEnd - 1 : ~IsUnwritten(otp[AreaRow(i)])}
             top == CHOOSE i \in written : \A j \in written : j <= i
  <1>1. x \in written /\ AreaEnd \in Nat
    BY WholeArea
  <1>2. top \in written /\ \A j \in written : j <= top
    <2>1. written \in SUBSET (0 .. AreaEnd)
      BY <1>1
    <2> HIDE DEF written
    <2>2. \E i \in written : \A j \in written : j <= i
      BY <1>1, <2>1, Greatest
    <2> QED
      BY <2>2
  <1>3. top \in 0 .. AreaEnd - 1 /\ x <= top
    BY <1>1, <1>2
  <1>4. AfterLastWritten = PageAfter(top)
    BY <1>1, Zenon DEF AfterLastWritten
  <1> HIDE DEF top
  <1>5. PageAfter(top) \in top + 1 .. AreaEnd
    BY <1>3, WholeArea, PageAfterIn
  <1> QED
    BY <1>1, <1>3, <1>4, <1>5

\* An area with an instance begun, whole or not, after those settled.
Begun(A, R) == \E S, f, v, m : Chain(A, S, f, v, m, R) /\ 1 <= m

\* prepare puts a new instance where it goes on from what is there.
LEMMA Placed ==
    ASSUME NEW A, A = AreaOf(otp), NEW R, ZeroArea(A) \/ Begun(A, R),
           NEW t, Given(t), NEW p, p = Place(Area(otp), t), p # NoRow
    PROVE  FitsAt(p, t) /\ \E S, m : Chain(A, S, p, t, m, R)
  <1> DEFINE area == Area(otp)
             last == area.instances[Len(area.instances)].first
  <1>1. area = ReadArea(A)
    BY AreaIs
  <1>2. \/ ~IsAbandoned(area) /\ area.instances # <<>> /\ FitsAt(last, t) /\ p = last
        \/ NextPlace(area) # NoRow /\ FitsAt(NextPlace(area), t) /\ p = NextPlace(area)
    BY Zenon DEF Place
  <1> HIDE DEF area
  <1>3. FitsAt(p, t)
    BY <1>2
  <1>4. Fitting(A, p, t) /\ p \in 0 .. AreaEnd - 1 /\ AreaEnd \in Nat
    BY <1>3, FittingAt, WholeArea
  <1>5. CASE ZeroArea(A)
    <2>1. area.instances = <<>> /\ area.issues = <<>> /\ area.next = 0
      BY <1>1, <1>5, ZeroReads
    <2>2. p = 0
      <3>1. p = NextPlace(area)
        BY <1>2, <2>1
      <3>2. NextPlace(area) = 0
        BY <2>1 DEF NextPlace, NoRow
      <3> QED
        BY <3>1, <3>2
    <2>3. Chain(A, {}, p, t, 0, R)
      BY <1>4, <1>5, <2>2, Outset
    <2> QED
      BY <1>3, <2>3
  <1>6. CASE Begun(A, R)
    <2>1. PICK S, f, v, m : Chain(A, S, f, v, m, R) /\ 1 <= m
      BY <1>6 DEF Begun
    <2> DEFINE at == InstanceAt(A, AreaEnd, f)
    <2>2. PICK x : FrontWalked(x, at) /\ SaysAs(area, x, R)
      BY <1>1, <2>1, ChainArea
    <2>3. Front(A, f, v, m)
      BY <2>1 DEF Chain
    <2>4. PICK n \in Nat \ {0} : Long(v, n) /\ f \in Nat /\ f + 10 + n <= AreaEnd
      BY <2>3, FrontBounds
    <2>5. ReadsAs(A, at, f, v, m, n)
      BY <2>1, <2>3, <2>4, FrontReads
    <2>6. at.how \in {"ended", "lost"} /\ at.instance.first = f
      BY <2>5 DEF ReadsAs
    <2>7. last = f
      <3>1. <<at.instance>>[1] = at.instance
        OBVIOUS
      <3>2. area.instances[Len(area.instances)] = at.instance
        BY <2>2, <3>1 DEF SaysAs, FrontWalked
      <3> QED
        BY <2>6, <3>2
    <2> HIDE DEF last
    <2>8. CASE p = f
      <3>1. Chain(A, S, f, t, m, R)
        BY <1>4, <2>1, <2>8, Refit
      <3> QED
        BY <1>3, <2>8, <3>1
    <2>9. CASE p # f
      <3>1. p = NextPlace(area)
        BY <1>2, <2>7, <2>9
      <3>2. CASE at.how = "ended"
        <4>1. /\ area.issues = <<>>
              /\ area.next = IF PageAfter(at.row) = AreaEnd THEN NoRow ELSE PageAfter(at.row)
          <5> HIDE DEF at
          <5> QED
            BY <2>2, <3>2 DEF SaysAs, FrontWalked
        <4>2. ~IsAbandoned(area)
          BY <4>1 DEF IsAbandoned
        <4>3. p = area.next
          BY <3>1, <4>2 DEF NextPlace
        <4>4. p = PageAfter(at.row)
          BY <4>1, <4>3
        <4>5. Chain(A, S \cup {f}, p, t, 0, R)
          BY <1>4, <2>1, <3>2, <4>4, Onward
        <4> QED
          BY <1>3, <4>5
      <3>3. CASE at.how = "lost"
        <4>1. area.next = NoRow
          <5> HIDE DEF at
          <5> QED
            BY <2>2, <3>3 DEF SaysAs, FrontWalked
        <4>2. p = AfterLastWritten
          BY <3>1, <4>1 DEF NextPlace
        <4>3. f + 11 + n = AreaEnd /\ 8 + n <= m
          <5> HIDE DEF at
          <5> QED
            BY <2>5, <3>3 DEF ReadsAs
        <4>4. A[f + 8 + n] = 1
          <5>1. Shows(A, f, v, m, n)
            BY <2>3, <2>4, FrontShows
          <5> QED
            BY <4>3, <5>1 DEF Shows
        <4>5. PICK i \in 0 .. AreaEnd - 1 : i = f + 8 + n
          BY <1>4, <2>4
        <4>6. ~IsUnwritten(otp[AreaRow(i)])
          BY <4>4, <4>5 DEF AreaOf, IsUnwritten
        <4>7. AfterLastWritten > i
          BY <4>6, NoneAfter
        <4>8. PICK l \in Nat \ {0} : Long(t, l)
          BY GivenFacts DEF Long
        <4>9. p + 10 + l <= AreaEnd
          BY <1>4, <4>8 DEF Fitting
        <4>10. i = AreaEnd - 3
          BY <1>4, <2>4, <4>3, <4>5
        <4>11. p > i
          BY <4>2, <4>7
        <4> QED
          BY <1>4, <4>8, <4>9, <4>10, <4>11
      <3> QED
        BY <2>6, <3>2, <3>3
    <2> QED
      BY <2>8, <2>9
  <1> QED
    BY <1>5, <1>6

---------------------------------------------------------------------------
(* A run under way, and the rows it writes in the area.                    *)

\* What a commissioning under way writes, and whether one is.
RunValues == [who |-> run.req.who, date |-> run.date]
Commissions == run.pc # "idle" /\ run.req.kind = "commission"

\* The area is blank, or holds instances of which the last may be unfinished.
Laid == ZeroArea(AreaOf(otp)) \/ Begun(AreaOf(otp), recorded)

\* The rows a run has left are those of its instance that are not yet written.
Under(S, m) ==
    /\ Chain(AreaOf(otp), S, run.first, RunValues, m, recorded)
    /\ run.plan[Instance] = InstancePlan(run.first, RunValues)
    /\ \A l \in Nat : Long(RunValues, l) =>
         /\ \A j \in 1 .. 10 + l : j > m => <<Instance, j>> \in run.left
         /\ \A at \in run.left : at[1] = Instance =>
              /\ at[2] \in 1 .. 10 + l /\ at[2] > m
              /\ at = <<Instance, at[2]>>

\* A lock of its pages that it has no more to write is written.
LocksWritten ==
    /\ run.plan[Locks] = LockPlan(run.first, RunValues)
    /\ \A i \in DOMAIN run.plan[Locks] :
          <<Locks, i>> \in run.left \/ IsLock(otp[run.plan[Locks][i].row])

\* A commissioning under way takes on the last instance of the area, and writes
\* only once its signature is recorded.
Placing ==
    Commissions =>
      /\ \E S, m : Under(S, m)
      /\ LocksWritten
      /\ run.pc \in {"writing", "done"} => SigOf(RunValues) \in recorded
      /\ run.pc = "done" => run.left = {}

\* Every row left is of the part of OTP that its step writes.
Parts ==
    \A at \in run.left :
      /\ at[1] \in Steps /\ OfStep(at[1], WriteAt(at).row)
      /\ at[1] = Locks => WriteAt(at).want.value = LockWord
      /\ ~Commissions => at[1] \notin {Instance, Locks}

\* A board with an instance of a version not known is never written.
Strange ==
    /\ run.pc = "idle" /\ AreaRows(AreaOf(otp)) /\ ~VersionKnown(Area(otp))
    /\ CompleteIsRecorded

LInv == Strange \/ (Laid /\ Placing /\ Parts)

---------------------------------------------------------------------------
\* A write elsewhere leaves the area as it was.
LEMMA AreaSame ==
    ASSUME TInv, NEW row, row[1] # "area", NEW r, otp' = [otp EXCEPT ![row] = r]
    PROVE  AreaOf(otp') = AreaOf(otp)
  <1>1. ASSUME NEW i \in 0 .. AreaEnd - 1 PROVE otp'[AreaRow(i)] = otp[AreaRow(i)]
    <2>1. AreaRow(i) \in Rows /\ AreaRow(i) # row
      BY Apart DEF Rows
    <2> QED
      BY <2>1 DEF TInv, OtpForm
  <1> QED
    BY <1>1 DEF AreaOf

\* One in it changes that row alone.
LEMMA AreaWritten ==
    ASSUME TInv, NEW x \in 0 .. AreaEnd - 1, NEW r, otp' = [otp EXCEPT ![AreaRow(x)] = r]
    PROVE  AreaOf(otp') = [AreaOf(otp) EXCEPT ![x] = r.value]
  <1>1. AreaRow(x) \in Rows
    BY DEF Rows
  <1>2. otp'[AreaRow(x)] = r
    BY <1>1 DEF TInv, OtpForm
  <1>3. ASSUME NEW i \in 0 .. AreaEnd - 1, i # x PROVE otp'[AreaRow(i)] = otp[AreaRow(i)]
    <2>1. AreaRow(i) \in Rows
      BY DEF Rows
    <2>2. AreaRow(i) # AreaRow(x)
      BY <1>3 DEF AreaRow
    <2> QED
      BY <2>1, <2>2 DEF TInv, OtpForm
  <1> DEFINE A == AreaOf(otp)
             B == [A EXCEPT ![x] = r.value]
  <1>4. A = [i \in 0 .. AreaEnd - 1 |-> otp[AreaRow(i)].value]
    BY DEF AreaOf
  <1>5. AreaOf(otp') = [i \in 0 .. AreaEnd - 1 |-> otp'[AreaRow(i)].value]
    BY DEF AreaOf
  <1>6. ASSUME NEW i \in 0 .. AreaEnd - 1 PROVE otp'[AreaRow(i)].value = B[i]
    BY <1>2, <1>3, <1>4
  <1>7. DOMAIN B = 0 .. AreaEnd - 1 /\ B = [i \in 0 .. AreaEnd - 1 |-> B[i]]
    BY <1>4
  <1> HIDE DEF A, B
  <1>8. AreaOf(otp') = B
    BY <1>5, <1>6, <1>7
  <1> QED
    BY <1>8 DEF A, B

\* The next row of the instance is the first its chain lacks.
LEMMA NextOfInstance ==
    ASSUME NEW S, NEW m, Under(S, m), NEW at, IsNext(at), at[1] = Instance,
           NEW l \in Nat, Long(RunValues, l)
    PROVE  m \in Nat /\ at = <<Instance, m + 1>> /\ m + 1 \in 1 .. 10 + l
  <1>1. m \in 0 .. 10 + l
    <2>1. Front(AreaOf(otp), run.first, RunValues, m)
      BY DEF Under, Chain
    <2> QED
      BY <2>1, FrontBounds DEF Long
  <1>2. /\ at \in run.left /\ at[2] \in 1 .. 10 + l /\ at[2] > m /\ at = <<Instance, at[2]>>
    BY DEF IsNext, Under
  <1>3. PICK k \in 1 .. 10 + l : k = m + 1
    BY <1>1, <1>2
  <1>4. <<Instance, k>> \in run.left
    BY <1>1, <1>3 DEF Under
  <1>5. at[2] <= k
    <2>1. <<Instance, k>>[1] = at[1] /\ <<Instance, k>>[2] = k
      OBVIOUS
    <2>2. at[1] < at[1] \/ at[2] <= k
      BY <1>4, <2>1 DEF IsNext
    <2>3. at[1] \in Nat
      BY DEF Instance
    <2> QED
      BY <2>2, <2>3
  <1>6. at[2] = k
    BY <1>1, <1>2, <1>3, <1>5
  <1> QED
    BY <1>1, <1>2, <1>3, <1>6

\* A row written takes the instance on, or leaves it where it was.
LEMMA WriteChain ==
    ASSUME TInv, Parts, NEW S, NEW m, Under(S, m), SigOf(RunValues) \in recorded,
           NEW at, IsNext(at), NEW r, r.value = WriteAt(at).want.value,
           otp' = [otp EXCEPT ![WriteAt(at).row] = r]
    PROVE  LET k == IF at[1] = Instance THEN m + 1 ELSE m
           IN  Chain(AreaOf(otp'), S, run.first, RunValues, k, recorded)
  <1> DEFINE A == AreaOf(otp)
             v == RunValues
             f == run.first
  <1>1. Chain(A, S, f, v, m, recorded) /\ run.plan[Instance] = InstancePlan(f, v)
    BY DEF Under
  <1>2. Front(A, f, v, m)
    BY <1>1 DEF Chain
  <1>3. PICK l \in Nat \ {0} : /\ Long(v, l) /\ f \in Nat /\ m \in 0 .. 10 + l /\ Given(v)
                               /\ f + 10 + l <= AreaEnd /\ AreaEnd \in Nat
    BY <1>2, FrontBounds
  <1>4. CASE at[1] = Instance
    <2>1. m \in Nat /\ at = <<Instance, m + 1>> /\ m + 1 \in 1 .. 10 + l
      BY <1>3, <1>4, NextOfInstance
    <2>2. PICK k \in 1 .. 10 + l : k = m + 1
      BY <2>1
    <2> DEFINE w == WritesOf(f, v)
    <2>3. WriteAt(at) = [row |-> AreaRow(w[k][1]), want |-> Exactly(w[k][2])]
      <3>1. at[1] = Instance /\ at[2] = k
        BY <2>1, <2>2
      <3>2. WriteAt(at) = InstancePlan(f, v)[k]
        BY <1>1, <3>1 DEF WriteAt
      <3> QED
        BY <1>3, <3>2, PlanAt
    <2>4. PICK x \in 0 .. AreaEnd - 1 : x = w[k][1]
      <3>1. w[k][1] = Pos(f, l, k)
        BY <1>3, WritesAt
      <3>2. Pos(f, l, k) \in f .. f + 9 + l
        BY <1>3, PosApart
      <3> QED
        BY <1>3, <3>1, <3>2
    <2>5. WriteAt(at).row = AreaRow(x) /\ r.value = w[k][2]
      BY <2>3, <2>4 DEF Exactly
    <2>6. AreaOf(otp') = [A EXCEPT ![x] = w[k][2]]
      <3>1. otp' = [otp EXCEPT ![AreaRow(x)] = r]
        BY <2>5
      <3> HIDE DEF A, w
      <3>2. AreaOf(otp') = [AreaOf(otp) EXCEPT ![x] = r.value]
        BY <3>1, AreaWritten
      <3> QED
        BY <2>5, <3>2 DEF A
    <2>7. AreaOf(otp') = [A EXCEPT ![w[m + 1][1]] = w[m + 1][2]]
      BY <2>2, <2>4, <2>6
    <2>8. m < 10 + l
      BY <1>3, <2>2
    <2> HIDE DEF A, v, f
    <2>9. Chain(AreaOf(otp'), S, f, v, m + 1, recorded)
      BY <1>1, <1>3, <2>7, <2>8, Grow DEF v
    <2> QED
      BY <1>4, <2>9 DEF v, f
  <1>5. CASE at[1] # Instance
    <2>1. WriteAt(at).row[1] # "area"
      BY <1>5 DEF Parts, IsNext, OfStep
    <2>2. AreaOf(otp') = A
      BY <2>1, AreaSame
    <2> QED
      BY <1>1, <1>5, <2>2
  <1> QED
    BY <1>4, <1>5

\* So the area stays as it should be whether the run goes on or not.
LEMMA ChainLaid ==
    ASSUME Laid, NEW B, NEW S, NEW f, NEW v, NEW m, Chain(AreaOf(otp), S, f, v, m, recorded),
           NEW k, (k = m /\ B = AreaOf(otp)) \/ k = m + 1,
           Chain(B, S, f, v, k, recorded)
    PROVE  ZeroArea(B) \/ Begun(B, recorded)
  <1>1. CASE B = AreaOf(otp)
    BY <1>1 DEF Laid
  <1>2. CASE k = m + 1
    <2>1. m \in Nat
      <3>1. Front(AreaOf(otp), f, v, m)
        BY DEF Chain
      <3> QED
        BY <3>1, FrontBounds
    <2>2. 1 <= k
      BY <1>2, <2>1
    <2> QED
      BY <2>2 DEF Begun
  <1> QED
    BY <1>1, <1>2

---------------------------------------------------------------------------
(* The steps of a run.                                                     *)

\* What is left of a plan to write.
LEMMA LeftIs ==
    ASSUME NEW plan
    PROVE  /\ \A k \in Steps : \A i \in DOMAIN plan[k] :
                 <<k, i>> \in ToWrite(plan) <=> ~Holding(plan[k][i])
           /\ \A at \in ToWrite(plan) :
                 /\ at[1] \in Steps /\ at[2] \in DOMAIN plan[at[1]]
                 /\ ~Holding(plan[at[1]][at[2]]) /\ at = <<at[1], at[2]>>
  <1>1. ASSUME NEW at \in ToWrite(plan)
        PROVE  /\ at[1] \in Steps /\ at[2] \in DOMAIN plan[at[1]]
               /\ ~Holding(plan[at[1]][at[2]]) /\ at = <<at[1], at[2]>>
    <2>1. PICK k \in Steps : at \in {<<k, i>> : i \in {j \in DOMAIN plan[k] : ~Holding(plan[k][j])}}
      BY DEF ToWrite
    <2>2. PICK i \in DOMAIN plan[k] : at = <<k, i>> /\ ~Holding(plan[k][i])
      BY <2>1
    <2> QED
      BY <2>2
  <1>2. ASSUME NEW k \in Steps, NEW i \in DOMAIN plan[k], ~Holding(plan[k][i])
        PROVE  <<k, i>> \in ToWrite(plan)
    BY <1>2 DEF ToWrite
  <1>3. ASSUME NEW k \in Steps, NEW i \in DOMAIN plan[k], <<k, i>> \in ToWrite(plan)
        PROVE  ~Holding(plan[k][i])
    <2>1. <<k, i>>[1] = k /\ <<k, i>>[2] = i
      OBVIOUS
    <2> QED
      BY <1>1, <1>3, <2>1
  <1> QED
    BY <1>1, <1>2, <1>3

\* A board at rest has nothing under way.
LEMMA AtRest ==
    ASSUME run' = Idle
    PROVE  Placing' /\ Parts'
  <1>1. run'.pc = "idle" /\ run'.left = {}
    BY DEF Idle
  <1> QED
    BY <1>1 DEF Placing, Parts, Commissions

\* An area that is as it was is laid as it was.
LEMMA LaidStays ==
    ASSUME Laid, AreaOf(otp') = AreaOf(otp), recorded \subseteq recorded'
    PROVE  Laid'
  <1>1. CASE ZeroArea(AreaOf(otp))
    BY <1>1 DEF Laid
  <1>2. CASE Begun(AreaOf(otp), recorded)
    <2>1. PICK S, f, v, m : Chain(AreaOf(otp), S, f, v, m, recorded) /\ 1 <= m
      BY <1>2 DEF Begun
    <2>2. Chain(AreaOf(otp), S, f, v, m, recorded')
      BY <2>1, Wider
    <2>3. Begun(AreaOf(otp'), recorded')
      BY <2>1, <2>2 DEF Begun
    <2> QED
      BY <2>3 DEF Laid
  <1> QED
    BY <1>1, <1>2 DEF Laid

\* A request whose values are those of rows of text, and a date as it is read
\* from a board none of whose rows is damaged beyond repair.
Textual(req) == req.who \in Seq(Nat \ {0}) /\ req.who # <<>>

\* What prepare accepts it can have written: the date is one of a calendar.
LEMMA ValuesGiven ==
    ASSUME Damages = {}, NEW area, NEW req, Textual(req), DateAccepted(Values(area, req))
    PROVE  Given(Values(area, req))
  <1> DEFINE values == Values(area, req)
  <1>1. values = [who |-> req.who, date |-> values.date]
    BY DEF Values
  <1>2. values.who = req.who
    BY DEF Values
  <1> HIDE DEF values
  <1>3. PICK d \in 1 .. Days : values.date = <<d>>
    BY DEF DateAccepted, values
  <1>4. d \in Nat \ {0}
    BY DatesAssumption
  <1>5. values = [who |-> values.who, date |-> <<d>>]
    BY <1>1, <1>2, <1>3
  <1>6. Given(values)
    BY <1>2, <1>4, <1>5 DEF Given, Textual
  <1> QED
    BY <1>6 DEF values

\* prepare plans an instance that goes on from what is in the area.
LEMMA CommissionPlaced ==
    ASSUME TInv, Laid, Damages = {}, NEW req \in Requests, Textual(req), PrepareCommission(req)
    PROVE  Laid' /\ Placing' /\ Parts'
  <1> DEFINE area   == Area(otp)
             values == Values(area, req)
             first  == Place(area, values)
             plan   == CommissionPlan(req, first, values)
  <1>1. /\ UNCHANGED <<otp, recorded>>
        /\ run' = [pc |-> "asked", req |-> req, first |-> first, date |-> values.date,
                   plan |-> plan, left |-> ToWrite(plan), step |-> 0]
        /\ SizeAccepted(req) /\ WhiteLabelAccepted(BoardOf(req)) /\ Unlocked(LabelledPlan(req))
        /\ DateAccepted(values) /\ first # NoRow /\ LocksAccepted(first, values)
        /\ req.kind = "commission"
    BY DEF PrepareCommission, CommissionAccepted
  <1>2. Given(values) /\ values.who = req.who
    BY <1>1, ValuesGiven DEF Values
  <1>3. /\ values.who \in Seq(Nat) /\ values.date \in Seq(Nat)
        /\ Signature(TableKey, values) \in Nat
    BY <1>1, ValuesAccepted
  <1>4. values = [who |-> req.who, date |-> values.date]
    BY DEF Values
  <1> HIDE DEF values
  <1>5. FitsAt(first, values) /\ \E S, m : Chain(AreaOf(otp), S, first, values, m, recorded)
    BY <1>1, <1>2, Placed DEF Laid
  <1> HIDE DEF first, area
  <1>6. PICK S, m : Chain(AreaOf(otp), S, first, values, m, recorded)
    BY <1>5
  <1>7. PlannedInstance(first, values)
    BY <1>1, <1>3, <1>5 DEF PlannedInstance
  <1>8. \A k \in Steps : StepGood(plan, k)
    BY <1>1, <1>7, CommissionGood
  <1>9. plan[Instance] = InstancePlan(first, values) /\ plan[Locks] = LockPlan(first, values)
    <2>1. DOMAIN LabelledPlan(req) = Steps
      BY DEF LabelledPlan, SizePlan, NoPlan
    <2> QED
      BY <2>1 DEF CommissionPlan, Instance, Locks, Steps
  <1>10. Instance \in Steps /\ Locks \in Steps /\ Instance # Locks
    BY DEF Instance, Locks, Steps
  <1> HIDE DEF plan
  <1>11. /\ run'.pc = "asked" /\ run'.req = req /\ run'.first = first /\ run'.date = values.date
         /\ run'.plan = plan /\ run'.left = ToWrite(plan)
    BY <1>1
  <1>12. RunValues' = values
    BY <1>4, <1>11 DEF RunValues
  <1>13. Laid'
    BY <1>1, LaidStays
  <1>14. Under(S, m)'
    <2>1. Chain(AreaOf(otp'), S, run'.first, RunValues', m, recorded')
      BY <1>1, <1>6, <1>11, <1>12
    <2>2. run'.plan[Instance] = InstancePlan(run'.first, RunValues')
      BY <1>9, <1>11, <1>12
    <2>3. ASSUME NEW l \in Nat, Long(values, l)
          PROVE  /\ \A j \in 1 .. 10 + l : j > m => <<Instance, j>> \in ToWrite(plan)
                 /\ \A at \in ToWrite(plan) : at[1] = Instance =>
                      at[2] \in 1 .. 10 + l /\ at[2] > m /\ at = <<Instance, at[2]>>
      <3>1. DOMAIN plan[Instance] = 1 .. 10 + l
        <4>1. first \in Nat
          <5>1. Front(AreaOf(otp), first, values, m)
            BY <1>6 DEF Chain
          <5> QED
            BY <5>1 DEF Front
        <4> QED
          BY <1>2, <1>9, <2>3, <4>1, PlanAt
      <3>2. \A j \in 1 .. 10 + l : Holding(plan[Instance][j]) <=> j <= m
        BY <1>5, <1>6, <1>9, <2>3, HoldingAt
      <3>3. m \in Nat
        <4>1. Front(AreaOf(otp), first, values, m)
          BY <1>6 DEF Chain
        <4> QED
          BY <4>1, FrontBounds
      <3>4. ASSUME NEW j \in 1 .. 10 + l, j > m PROVE <<Instance, j>> \in ToWrite(plan)
        <4>1. ~Holding(plan[Instance][j])
          BY <3>2, <3>3, <3>4
        <4> QED
          BY <1>10, <3>1, <4>1, LeftIs
      <3>5. ASSUME NEW at \in ToWrite(plan), at[1] = Instance
            PROVE  at[2] \in 1 .. 10 + l /\ at[2] > m /\ at = <<Instance, at[2]>>
        <4>1. /\ at[2] \in DOMAIN plan[Instance] /\ ~Holding(plan[Instance][at[2]])
              /\ at = <<Instance, at[2]>>
          BY <3>5, LeftIs
        <4>2. at[2] \in 1 .. 10 + l /\ ~(at[2] <= m)
          BY <3>1, <3>2, <4>1
        <4> QED
          BY <3>3, <4>1, <4>2
      <3> QED
        BY <3>4, <3>5
    <2> QED
      BY <1>11, <1>12, <2>1, <2>2, <2>3 DEF Under
  <1>15. LocksWritten'
    <2>1. run'.plan[Locks] = LockPlan(run'.first, RunValues')
      BY <1>9, <1>11, <1>12
    <2>2. ASSUME NEW i \in DOMAIN plan[Locks], <<Locks, i>> \notin ToWrite(plan)
          PROVE  IsLock(otp'[plan[Locks][i].row])
      <3>1. Holding(plan[Locks][i])
        BY <1>10, <2>2, LeftIs
      <3>2. plan[Locks][i].want = Exactly(LockWord)
        BY <1>9 DEF LockPlan, Write
      <3> QED
        BY <1>1, <3>1, <3>2 DEF Holding, IsLock, Exactly
    <2> QED
      BY <1>11, <2>1, <2>2 DEF LocksWritten, IsLock
  <1>16. Placing'
    <2>1. \E T, k : Under(T, k)'
      BY <1>14
    <2> QED
      BY <1>11, <1>15, <2>1 DEF Placing
  <1>17. Parts'
    <2>1. Commissions'
      BY <1>1, <1>11 DEF Commissions
    <2>2. ASSUME NEW at \in ToWrite(plan)
          PROVE  /\ at[1] \in Steps /\ OfStep(at[1], plan[at[1]][at[2]].row)
                 /\ at[1] = Locks => plan[at[1]][at[2]].want.value = LockWord
      <3>1. at[1] \in Steps /\ at[2] \in DOMAIN plan[at[1]]
        BY LeftIs
      <3>2. OfStep(at[1], plan[at[1]][at[2]].row)
        BY <1>8, <3>1 DEF StepGood
      <3>3. at[1] = Locks => plan[at[1]][at[2]].want.value = LockWord
        <4>1. \A i \in DOMAIN plan[Locks] : plan[Locks][i].want = Exactly(LockWord)
          BY <1>9 DEF LockPlan, Write
        <4>2. Exactly(LockWord).value = LockWord
          BY DEF Exactly
        <4>3. at[1] = Locks => plan[at[1]][at[2]].want = Exactly(LockWord)
          BY <3>1, <4>1, Zenon
        <4> QED
          BY <4>2, <4>3
      <3> QED
        BY <3>1, <3>2, <3>3
    <2> QED
      BY <1>11, <2>1, <2>2 DEF Parts, WriteAt
  <1> QED
    BY <1>13, <1>16, <1>17

\* A plan that sets the size has no row of the area.
LEMMA SizePlaced ==
    ASSUME TInv, Laid, NEW req \in Requests, PrepareSize(req)
    PROVE  Laid' /\ Placing' /\ Parts'
  <1> DEFINE plan == SizePlan(req)
  <1>1. /\ UNCHANGED <<otp, recorded>>
        /\ run'.pc = "asked" /\ run'.req = req /\ run'.plan = plan /\ run'.left = ToWrite(plan)
        /\ req.kind = "size"
    BY DEF PrepareSize, Idle
  <1>2. Laid'
    BY <1>1, LaidStays
  <1>3. ~Commissions'
    BY <1>1 DEF Commissions
  <1>4. ASSUME NEW at \in ToWrite(plan)
        PROVE  /\ at[1] \in Steps /\ OfStep(at[1], plan[at[1]][at[2]].row)
               /\ at[1] \notin {Instance, Locks}
    <2>1. at[1] \in Steps /\ at[2] \in DOMAIN plan[at[1]]
      BY LeftIs
    <2>2. OfStep(at[1], plan[at[1]][at[2]].row)
      BY <2>1, SizeApart
    <2>3. ASSUME NEW k \in {Instance, Locks} PROVE DOMAIN plan[k] = {}
      <3>1. NoPlan[k] = <<>> /\ DOMAIN NoPlan = Steps /\ DOMAIN <<>> = {}
        BY DEF NoPlan, Instance, Locks, Steps
      <3>2. plan[k] = <<>>
        BY <3>1 DEF SizePlan, Instance, Locks, FlashDevinfo, BootFlags0, Steps
      <3> QED
        BY <3>1, <3>2
    <2> QED
      BY <2>1, <2>2, <2>3
  <1> HIDE DEF plan
  <1>5. Parts'
    BY <1>1, <1>4 DEF Parts, WriteAt
  <1> QED
    BY <1>2, <1>3, <1>5 DEF Placing

\* A run whose instance and rows to write are as they were is under way as it
\* was, however more is recorded.
LEMMA GoesOn ==
    ASSUME Laid, Placing, Parts, UNCHANGED otp, recorded \subseteq recorded',
           run'.req = run.req, run'.first = run.first, run'.date = run.date,
           run'.plan = run.plan, run'.left = run.left, run.pc # "idle",
           \/ run'.pc = run.pc
           \/ run.pc = "asked" /\ run'.pc = "writing"
              /\ (Commissions => SigOf(RunValues) \in recorded')
    PROVE  Laid' /\ Placing' /\ Parts'
  <1>1. Laid'
    BY LaidStays
  <1>2. run'.pc # "idle" /\ (run'.pc = "done" => run.pc = "done")
    OBVIOUS
  <1>3. Commissions' <=> Commissions
    BY <1>2 DEF Commissions
  <1>4. Parts'
    BY <1>3 DEF Parts, WriteAt
  <1>5. RunValues' = RunValues
    BY DEF RunValues
  <1>6. ASSUME Commissions PROVE Placing'
    <2>1. PICK S, m : Under(S, m)
      BY <1>6 DEF Placing
    <2>2. Chain(AreaOf(otp), S, run.first, RunValues, m, recorded')
      BY <2>1, Wider DEF Under
    <2>3. Under(S, m)'
      BY <1>5, <2>1, <2>2 DEF Under
    <2>4. LocksWritten'
      BY <1>5, <1>6 DEF Placing, LocksWritten
    <2>5. SigOf(RunValues)' = SigOf(RunValues)
      BY <1>5
    <2>6. run'.pc \in {"writing", "done"} => SigOf(RunValues) \in recorded'
      BY <1>6 DEF Placing
    <2>7. run'.pc = "done" => run'.left = {}
      BY <1>2, <1>6 DEF Placing
    <2> QED
      BY <2>3, <2>4, <2>5, <2>6, <2>7 DEF Placing
  <1>7. Placing'
    BY <1>3, <1>6 DEF Placing
  <1> QED
    BY <1>1, <1>4, <1>7

\* The signature is recorded before the first row is written.
LEMMA AgreePlaced == ASSUME Laid, Placing, Parts, Agree PROVE Laid' /\ Placing' /\ Parts'
  <1>1. run.pc = "asked" /\ UNCHANGED otp /\ recorded \subseteq recorded'
    BY DEF Agree
  <1>2. CASE run' = Idle
    BY <1>1, <1>2, LaidStays, AtRest
  <1>3. CASE run' = [run EXCEPT !.pc = "writing"]
                /\ (run.req.kind # "size" => sourceKey = TableKey
                                             /\ recorded' = recorded \cup {RecordedSignature})
    <2>1. /\ run'.req = run.req /\ run'.first = run.first /\ run'.date = run.date
          /\ run'.plan = run.plan /\ run'.left = run.left /\ run'.pc = "writing"
      BY <1>1, <1>3
    <2>2. Commissions => SigOf(RunValues) \in recorded'
      BY <1>3 DEF Commissions, RecordedSignature, SigOf, RunValues
    <2> QED
      BY <1>1, <2>1, <2>2, GoesOn
  <1> QED
    BY <1>2, <1>3 DEF Agree

\* What ends a run, or happens to none, with OTP as it was.
LEMMA QuietPlaced ==
    ASSUME Laid, Placing, Parts, UNCHANGED otp, recorded \subseteq recorded',
           run' = Idle \/ UNCHANGED run
    PROVE  Laid' /\ Placing' /\ Parts'
  <1>1. CASE run' = Idle
    BY <1>1, LaidStays, AtRest
  <1>2. CASE UNCHANGED run /\ run.pc # "idle"
    BY <1>2, GoesOn
  <1>3. CASE UNCHANGED run /\ run.pc = "idle"
    <2>1. ~Commissions /\ ~Commissions'
      BY <1>3 DEF Commissions
    <2>2. Parts'
      BY <1>3, <2>1 DEF Parts, WriteAt
    <2> QED
      BY <2>1, <2>2, LaidStays DEF Placing
  <1> QED
    BY <1>1, <1>2, <1>3

\* The locks of an instance under way are those of its pages, and all of them.
LEMMA PageLocks ==
    ASSUME NEW A, NEW f, NEW v, NEW m, Front(A, f, v, m)
    PROVE  /\ \A i \in DOMAIN LockPlan(f, v) :
                 \E p \in 0 .. LabelPage : LockPlan(f, v)[i] = Write(LockRow(p), Exactly(LockWord))
           /\ \A p \in PagesOf(f, v) :
                 \E i \in DOMAIN LockPlan(f, v) :
                    LockPlan(f, v)[i] = Write(LockRow(p), Exactly(LockWord))
  <1>1. PICK n \in Nat \ {0} : /\ Long(v, n) /\ AreaEnd \in Nat /\ f \in Nat
                               /\ f + 10 + n <= AreaEnd /\ f \in 0 .. AreaEnd - 1
                               /\ Given(v) /\ f % PageRows = 0
    BY FrontBounds
  <1>2. InstanceRowCount(v) = 10 + n
    BY <1>1, PlanAt
  <1>3. PICK c \in Nat \ {0} : c = InstanceRowCount(v) /\ c = 10 + n
    BY <1>2
  <1>4. Fits(f, v)
    BY <1>1, <1>3 DEF Fits
  <1>5. f \in f .. f + InstanceRowCount(v) - 1
    BY <1>1, <1>3
  <1>6. /\ PagesOf(f, v) \subseteq 0 .. AreaPages - 1
        /\ PageOf(f) \in Int /\ PageOf(f + InstanceRowCount(v) - 1) \in Int
    BY <1>3, <1>4, <1>5, PagesIn
  <1>7. PICK a \in Int, b \in Int : a = PageOf(f) /\ b = PageOf(f + InstanceRowCount(v) - 1)
    BY <1>6
  <1>8. PagesOf(f, v) = a .. b
    BY <1>7 DEF PagesOf
  <1>9. Cardinality(a .. b) = IF a > b THEN 0 ELSE b - a + 1
    BY FS_Interval
  <1>10. LockPlan(f, v) = [i \in 1 .. Cardinality(a .. b) |->
                               Write(LockRow(a + i - 1), Exactly(LockWord))]
    BY <1>7, <1>8 DEF LockPlan
  <1>11. 0 .. AreaPages - 1 \subseteq 0 .. LabelPage
    BY AreaAssumption DEF LabelPage
  <1>12. ASSUME NEW i \in DOMAIN LockPlan(f, v)
         PROVE  \E p \in 0 .. LabelPage : LockPlan(f, v)[i] = Write(LockRow(p), Exactly(LockWord))
    <2>1. i \in 1 .. Cardinality(a .. b) /\ LockPlan(f, v)[i] = Write(LockRow(a + i - 1), Exactly(LockWord))
      BY <1>10
    <2>2. a + i - 1 \in a .. b
      BY <1>9, <2>1
    <2>3. a + i - 1 \in 0 .. LabelPage
      BY <1>6, <1>8, <1>11, <2>2
    <2> QED
      BY <2>1, <2>3
  <1>13. ASSUME NEW p \in PagesOf(f, v)
         PROVE  \E i \in DOMAIN LockPlan(f, v) : LockPlan(f, v)[i] = Write(LockRow(p), Exactly(LockWord))
    <2>1. p \in a .. b
      BY <1>8
    <2>2. PICK i \in 1 .. Cardinality(a .. b) : i = p - a + 1
      BY <1>9, <2>1
    <2>3. a + i - 1 = p
      BY <2>1, <2>2
    <2>4. i \in DOMAIN LockPlan(f, v) /\ LockPlan(f, v)[i] = Write(LockRow(a + i - 1), Exactly(LockWord))
      BY <1>10
    <2> QED
      BY <2>3, <2>4
  <1> QED
    BY <1>12, <1>13

\* Whatever row of a plan is written, the area stays as it should be.
LEMMA RowLaid ==
    ASSUME TInv, Laid, Placing, Parts, run.pc = "writing", NEW at, IsNext(at),
           NEW r, r.value = WriteAt(at).want.value,
           otp' = [otp EXCEPT ![WriteAt(at).row] = r], UNCHANGED recorded
    PROVE  Laid'
  <1>1. at \in run.left /\ OfStep(at[1], WriteAt(at).row)
    BY DEF IsNext, Parts
  <1>2. at[1] # Instance => AreaOf(otp') = AreaOf(otp)
    <2>1. at[1] # Instance => WriteAt(at).row[1] # "area"
      BY <1>1 DEF OfStep
    <2> QED
      BY <2>1, AreaSame
  <1>3. CASE Commissions
    <2>1. PICK S, m : Under(S, m)
      BY <1>3 DEF Placing
    <2>2. SigOf(RunValues) \in recorded
      BY <1>3 DEF Placing
    <2>3. PICK k : /\ k = IF at[1] = Instance THEN m + 1 ELSE m
                   /\ Chain(AreaOf(otp'), S, run.first, RunValues, k, recorded)
      BY <2>1, <2>2, WriteChain
    <2>4. Chain(AreaOf(otp), S, run.first, RunValues, m, recorded)
      BY <2>1 DEF Under
    <2>5. (k = m /\ AreaOf(otp') = AreaOf(otp)) \/ k = m + 1
      BY <1>2, <2>3
    <2>6. ZeroArea(AreaOf(otp')) \/ Begun(AreaOf(otp'), recorded)
      BY <2>3, <2>4, <2>5, ChainLaid
    <2> QED
      BY <2>6 DEF Laid
  <1>4. CASE ~Commissions
    <2>1. at[1] # Instance
      BY <1>1, <1>4 DEF Parts
    <2> QED
      BY <1>2, <2>1, LaidStays
  <1> QED
    BY <1>3, <1>4

\* The rows of the instance left once one of the plan is written.
LEMMA WriteUnder ==
    ASSUME NEW S, NEW m, Under(S, m), NEW at, IsNext(at),
           NEW k, k = IF at[1] = Instance THEN m + 1 ELSE m,
           Chain(AreaOf(otp'), S, run.first, RunValues, k, recorded'),
           run'.first = run.first, run'.plan = run.plan, RunValues' = RunValues,
           run'.left = run.left \ {at}
    PROVE  Under(S, k)'
  <1>1. Chain(AreaOf(otp'), S, run'.first, RunValues', k, recorded')
    OBVIOUS
  <1>2. run'.plan[Instance] = InstancePlan(run'.first, RunValues')
    BY DEF Under
  <1>3. ASSUME NEW l \in Nat, Long(RunValues, l)
        PROVE  /\ \A j \in 1 .. 10 + l : j > k => <<Instance, j>> \in run.left \ {at}
               /\ \A o \in run.left \ {at} : o[1] = Instance =>
                    o[2] \in 1 .. 10 + l /\ o[2] > k /\ o = <<Instance, o[2]>>
    <2>1. /\ \A j \in 1 .. 10 + l : j > m => <<Instance, j>> \in run.left
          /\ \A o \in run.left : o[1] = Instance =>
                o[2] \in 1 .. 10 + l /\ o[2] > m /\ o = <<Instance, o[2]>>
      BY <1>3 DEF Under
    <2>2. CASE at[1] = Instance
      <3>1. m \in Nat /\ at = <<Instance, m + 1>>
        BY <1>3, <2>2, NextOfInstance
      <3>2. k = m + 1
        BY <2>2
      <3>3. ASSUME NEW j \in 1 .. 10 + l, j > k PROVE <<Instance, j>> \in run.left \ {at}
        <4>1. j > m /\ j # m + 1
          BY <3>1, <3>2, <3>3
        <4>2. <<Instance, j>> # at
          BY <3>1, <4>1
        <4> QED
          BY <2>1, <4>1, <4>2
      <3>4. ASSUME NEW o \in run.left \ {at}, o[1] = Instance
            PROVE  o[2] \in 1 .. 10 + l /\ o[2] > k /\ o = <<Instance, o[2]>>
        <4>1. o[2] \in 1 .. 10 + l /\ o[2] > m /\ o = <<Instance, o[2]>>
          BY <2>1, <3>4
        <4>2. o[2] # m + 1
          BY <3>1, <4>1
        <4> QED
          BY <1>3, <3>1, <3>2, <4>1, <4>2
      <3> QED
        BY <3>3, <3>4
    <2>3. CASE at[1] # Instance
      <3>1. k = m
        BY <2>3
      <3>2. \A j \in 1 .. 10 + l : <<Instance, j>> # at
        BY <2>3
      <3> QED
        BY <2>1, <3>1, <3>2
    <2> QED
      BY <2>2, <2>3
  <1> QED
    BY <1>1, <1>2, <1>3 DEF Under

\* And of the locks.
LEMMA WriteLocks ==
    ASSUME TInv, Parts, LocksWritten, NEW S, NEW m, Under(S, m), NEW at, IsNext(at),
           otp' = [otp EXCEPT ![WriteAt(at).row] = WriteAt(at).want],
           run'.first = run.first, run'.plan = run.plan, RunValues' = RunValues,
           run'.left = run.left \ {at}
    PROVE  LocksWritten'
  <1>1. Front(AreaOf(otp), run.first, RunValues, m)
    BY DEF Under, Chain
  <1>2. run.plan[Locks] = LockPlan(run.first, RunValues)
    BY DEF LocksWritten
  <1>3. ASSUME NEW i \in DOMAIN run.plan[Locks], <<Locks, i>> \notin run.left \ {at}
        PROVE  IsLock(otp'[run.plan[Locks][i].row])
    <2>1. PICK p \in 0 .. LabelPage : run.plan[Locks][i] = Write(LockRow(p), Exactly(LockWord))
      BY <1>1, <1>2, PageLocks
    <2>2. run.plan[Locks][i].row = LockRow(p)
      BY <2>1 DEF Write
    <2>3. LockRow(p) \in Rows /\ LockRow(p)[1] = "lock"
      BY Apart DEF Rows
    <2>4. at \in run.left /\ OfStep(at[1], WriteAt(at).row)
          /\ (at[1] = Locks => WriteAt(at).want.value = LockWord)
      BY DEF IsNext, Parts
    <2>5. CASE WriteAt(at).row = LockRow(p)
      <3>1. WriteAt(at).want.value = LockWord
        BY <2>3, <2>4, <2>5 DEF OfStep
      <3>2. otp'[LockRow(p)] = WriteAt(at).want
        BY <2>3, <2>5 DEF TInv, OtpForm
      <3> QED
        BY <2>2, <3>1, <3>2 DEF IsLock
    <2>6. CASE WriteAt(at).row # LockRow(p)
      <3>1. otp'[LockRow(p)] = otp[LockRow(p)]
        BY <2>3, <2>6 DEF TInv, OtpForm
      <3>2. <<Locks, i>> # at
        <4>1. WriteAt(<<Locks, i>>) = run.plan[Locks][i]
          BY DEF WriteAt
        <4> QED
          BY <2>2, <2>6, <4>1
      <3>3. IsLock(otp[LockRow(p)])
        BY <1>3, <2>2, <3>2 DEF LocksWritten
      <3> QED
        BY <2>2, <3>1, <3>3 DEF IsLock
    <2> QED
      BY <2>5, <2>6
  <1> QED
    BY <1>2, <1>3 DEF LocksWritten, IsLock

\* Every row written leaves the run as far on as its plan says.
LEMMA WritePlaced ==
    ASSUME TInv, Laid, Placing, Parts, NEW at, WriteRow(at)
    PROVE  Laid' /\ Placing' /\ Parts'
  <1> DEFINE next == [run EXCEPT !.left = @ \ {at}, !.step = at[1],
                              !.pc = IF run.left = {at} THEN "done" ELSE "writing"]
  <1>1. /\ run.pc = "writing" /\ IsNext(at) /\ UNCHANGED recorded
        /\ otp' = [otp EXCEPT ![WriteAt(at).row] = WriteAt(at).want]
        /\ run' = next
    BY DEF WriteRow
  <1>2. /\ next.left = run.left \ {at} /\ next.plan = run.plan /\ next.first = run.first
        /\ next.req = run.req /\ next.date = run.date
        /\ next.pc = IF run.left = {at} THEN "done" ELSE "writing"
    OBVIOUS
  <1> HIDE DEF next
  <1>3. /\ run'.left = run.left \ {at} /\ run'.plan = run.plan /\ run'.first = run.first
        /\ run'.req = run.req /\ run'.date = run.date
        /\ run'.pc = IF run.left = {at} THEN "done" ELSE "writing"
    BY <1>1, <1>2
  <1>4. RunValues' = RunValues /\ (Commissions' <=> Commissions)
    BY <1>1, <1>3 DEF RunValues, Commissions
  <1>5. Laid'
    BY <1>1, RowLaid
  <1>6. Parts'
    BY <1>3, <1>4 DEF Parts, WriteAt
  <1>7. ASSUME Commissions PROVE Placing'
    <2>1. PICK S, m : Under(S, m)
      BY <1>7 DEF Placing
    <2>2. SigOf(RunValues) \in recorded /\ LocksWritten
      BY <1>1, <1>7 DEF Placing
    <2>3. PICK k : /\ k = IF at[1] = Instance THEN m + 1 ELSE m
                   /\ Chain(AreaOf(otp'), S, run.first, RunValues, k, recorded)
      BY <1>1, <2>1, <2>2, WriteChain
    <2>4. Under(S, k)'
      BY <1>1, <1>3, <1>4, <2>1, <2>3, WriteUnder
    <2>5. LocksWritten'
      BY <1>1, <1>3, <1>4, <2>1, <2>2, WriteLocks
    <2>6. SigOf(RunValues') \in recorded'
      BY <1>1, <1>4, <2>2
    <2>7. run'.pc = "done" => run'.left = {}
      BY <1>3
    <2> QED
      BY <2>4, <2>5, <2>6, <2>7 DEF Placing
  <1> QED
    BY <1>4, <1>5, <1>6, <1>7 DEF Placing

\* A write that stops the run: nothing of it is lost that the row did not show.
LEMMA StoppedPlaced ==
    ASSUME TInv, Laid, Placing, Parts, Damages = {}, NEW at,
           WriteInterrupted(at) \/ WriteDamaged(at)
    PROVE  Laid' /\ Placing' /\ Parts'
  <1>1. run.pc = "writing" /\ IsNext(at) /\ UNCHANGED recorded /\ run' = Idle
    BY DEF WriteInterrupted, WriteDamaged, Stopped
  <1>2. \/ UNCHANGED otp
        \/ otp' = [otp EXCEPT ![WriteAt(at).row] = WriteAt(at).want]
        \/ otp' = [otp EXCEPT ![WriteAt(at).row] =
                     [value |-> WriteAt(at).want.value, exact |-> FALSE]]
    BY DEF WriteInterrupted, WriteDamaged
  <1>3. ASSUME UNCHANGED otp PROVE Laid'
    BY <1>1, <1>3, LaidStays
  <1>4. ASSUME NEW r, r.value = WriteAt(at).want.value,
               otp' = [otp EXCEPT ![WriteAt(at).row] = r]
        PROVE  Laid'
    BY <1>1, <1>4, RowLaid
  <1>5. Laid'
    BY <1>2, <1>3, <1>4
  <1> QED
    BY <1>1, <1>5, AtRest

\* What goes wrong with the rows a flag enables is no matter of the area.
LEMMA DecayPlaced ==
    ASSUME TInv, Laid, Placing, Parts, Decay
    PROVE  Laid' /\ Placing' /\ Parts'
  <1>1. UNCHANGED <<recorded, run>> /\ run.pc = "writing"
    BY DEF Decay
  <1>2. PICK row \in LabelRows \cup {Devinfo, SlotSize} : otp' = [otp EXCEPT ![row].exact = FALSE]
    BY DEF Decay
  <1>3. PICK r : otp' = [otp EXCEPT ![row] = r]
    BY <1>2
  <1>4. row[1] \notin {"area", "lock"}
    BY Apart
  <1>5. AreaOf(otp') = AreaOf(otp)
    BY <1>3, <1>4, AreaSame
  <1>6. Laid'
    BY <1>1, <1>5, LaidStays
  <1>7. RunValues' = RunValues /\ (Commissions' <=> Commissions) /\ Parts'
    BY <1>1 DEF RunValues, Commissions, Parts, WriteAt
  <1>8. ASSUME Commissions PROVE Placing'
    <2>1. PICK S, m : Under(S, m)
      BY <1>8 DEF Placing
    <2>2. Under(S, m)'
      BY <1>1, <1>5, <1>7, <2>1 DEF Under
    <2>3. Front(AreaOf(otp), run.first, RunValues, m)
      BY <2>1 DEF Under, Chain
    <2>4. LocksWritten
      BY <1>8 DEF Placing
    <2>5. ASSUME NEW i \in DOMAIN run.plan[Locks]
          PROVE  otp'[run.plan[Locks][i].row] = otp[run.plan[Locks][i].row]
      <3>1. PICK p \in 0 .. LabelPage : run.plan[Locks][i] = Write(LockRow(p), Exactly(LockWord))
        BY <2>3, <2>4, PageLocks DEF LocksWritten
      <3>2. run.plan[Locks][i].row = LockRow(p)
        BY <3>1 DEF Write
      <3>3. LockRow(p) \in Rows /\ LockRow(p) # row
        BY <1>4, Apart DEF Rows
      <3> QED
        BY <1>3, <3>2, <3>3 DEF TInv, OtpForm
    <2>6. LocksWritten'
      BY <1>1, <1>7, <2>4, <2>5 DEF LocksWritten, IsLock
    <2>7. SigOf(RunValues') \in recorded' /\ run'.pc = "writing"
      BY <1>1, <1>7, <1>8 DEF Placing
    <2> QED
      BY <2>2, <2>6, <2>7 DEF Placing
  <1> QED
    BY <1>6, <1>7, <1>8 DEF Placing

---------------------------------------------------------------------------
(* The invariant, over every step.                                         *)

\* The boards the theorems are about: blank in the area, or with what runs
\* leave there, or with an instance of a version the tools do not know.
KnownBoards ==
    \A board \in Boards :
      /\ AreaRows(AreaOf(board))
      /\ \/ ZeroArea(AreaOf(board))
         \/ Begun(AreaOf(board), {Used(i, SigKey)[1] : i \in CompleteIn(Area(board))})
         \/ ~VersionKnown(Area(board))

\* Their requests.
TextualRequests == \A req \in Requests : Textual(req)

\* The invariant holds of the boards of the theorems.
LEMMA LInvInit == ASSUME KnownBoards, Init PROVE LInv
  <1>1. otp \in Boards /\ run = Idle /\ recorded = {Used(i, SigKey)[1] : i \in CompleteIn(Area(otp))}
    BY DEF Init
  <1>2. run.pc = "idle" /\ run.left = {}
    BY <1>1 DEF Idle
  <1>3. CompleteIsRecorded
    BY <1>1 DEF CompleteIsRecorded
  <1>4. CASE ZeroArea(AreaOf(otp))
    BY <1>2, <1>4 DEF LInv, Laid, Placing, Parts, Commissions
  <1>5. CASE ~VersionKnown(Area(otp))
    BY <1>1, <1>2, <1>3, <1>5 DEF LInv, Strange, KnownBoards
  <1>6. CASE Begun(AreaOf(otp), recorded)
    BY <1>2, <1>6 DEF LInv, Laid, Placing, Parts, Commissions
  <1> QED
    BY <1>1, <1>4, <1>5, <1>6 DEF KnownBoards

\* A board the tools do not understand is left alone.
LEMMA StrangeStays == ASSUME Strange, [Next]_vars PROVE Strange'
  <1>1. run.pc = "idle" /\ ~VersionKnown(Area(otp))
    BY DEF Strange
  <1>2. UNCHANGED <<otp, recorded, run>>
    <2>1. ASSUME NEW req \in Requests, PrepareCommission(req) PROVE FALSE
      BY <1>1, <2>1 DEF PrepareCommission, CommissionAccepted
    <2>2. ASSUME NEW req \in Requests, PrepareSize(req) PROVE FALSE
      BY <1>1, <2>2 DEF PrepareSize, SizeRequestAccepted
    <2>3. ~Decline /\ ~Agree /\ ~AgreeReplyLost /\ ~Decay /\ ~Reboot /\ ~ChangeKey
      BY <1>1 DEF Decline, Agree, AgreeReplyLost, Decay, Reboot, ChangeKey
    <2>4. ASSUME NEW at, CheckFails(at) \/ WriteRow(at) \/ WriteInterrupted(at) \/ WriteDamaged(at)
          PROVE  FALSE
      BY <1>1, <2>4 DEF CheckFails, WriteRow, WriteInterrupted, WriteDamaged
    <2>5. PowerCycle \/ NextDay \/ UNCHANGED vars
      BY <2>1, <2>2, <2>3, <2>4 DEF Next
    <2> QED
      BY <2>5 DEF PowerCycle, NextDay, vars
  <1> QED
    BY <1>2 DEF Strange, CompleteIsRecorded

\* Every step keeps it.
LEMMA LInvNext ==
    ASSUME Damages = {}, TextualRequests, TInv, LInv, [Next]_vars
    PROVE  LInv'
  <1>1. CASE Strange
    BY <1>1, StrangeStays DEF LInv
  <1>2. CASE Laid /\ Placing /\ Parts
    <2>1. ASSUME NEW req \in Requests, PrepareCommission(req)
          PROVE  Laid' /\ Placing' /\ Parts'
      BY <1>2, <2>1, CommissionPlaced DEF TextualRequests
    <2>2. ASSUME NEW req \in Requests, PrepareSize(req)
          PROVE  Laid' /\ Placing' /\ Parts'
      BY <1>2, <2>2, SizePlaced
    <2>3. ASSUME Decline \/ AgreeReplyLost \/ Reboot \/ PowerCycle \/ NextDay \/ ChangeKey
                 \/ UNCHANGED vars
          PROVE  Laid' /\ Placing' /\ Parts'
      <3>1. UNCHANGED otp /\ recorded \subseteq recorded' /\ (run' = Idle \/ UNCHANGED run)
        BY <2>3 DEF Decline, AgreeReplyLost, Reboot, PowerCycle, NextDay, ChangeKey, vars
      <3> QED
        BY <1>2, <3>1, QuietPlaced
    <2>4. ASSUME Agree PROVE Laid' /\ Placing' /\ Parts'
      BY <1>2, <2>4, AgreePlaced
    <2>5. ASSUME NEW at, CheckFails(at) PROVE Laid' /\ Placing' /\ Parts'
      BY <1>2, <2>5, QuietPlaced DEF CheckFails, Stopped
    <2>6. ASSUME NEW at, WriteRow(at) PROVE Laid' /\ Placing' /\ Parts'
      BY <1>2, <2>6, WritePlaced
    <2>7. ASSUME NEW at, WriteInterrupted(at) \/ WriteDamaged(at)
          PROVE  Laid' /\ Placing' /\ Parts'
      BY <1>2, <2>7, StoppedPlaced
    <2>8. ASSUME Decay PROVE Laid' /\ Placing' /\ Parts'
      BY <1>2, <2>8, DecayPlaced
    <2>9. Laid' /\ Placing' /\ Parts'
      BY <2>1, <2>2, <2>3, <2>4, <2>5, <2>6, <2>7, <2>8 DEF Next
    <2> QED
      BY <2>9 DEF LInv
  <1> QED
    BY <1>1, <1>2 DEF LInv

---------------------------------------------------------------------------
\* What a board that is laid reads as.
LEMMA LaidReads ==
    ASSUME Laid
    PROVE  /\ \A i \in DOMAIN Area(otp).instances : Fair(Area(otp).instances[i], recorded)
           /\ Area(otp).current # NoInstance => Sound(Area(otp).current)
  <1> DEFINE A == AreaOf(otp)
  <1>1. Area(otp) = ReadArea(A)
    BY AreaIs
  <1>2. CASE ZeroArea(A)
    <2>1. ReadArea(A).instances = <<>> /\ ReadArea(A).current = NoInstance
      BY <1>2, ZeroReads
    <2>2. DOMAIN <<>> = {}
      OBVIOUS
    <2> QED
      BY <1>1, <2>1, <2>2
  <1>3. CASE Begun(A, recorded)
    <2>1. PICK S, f, v, m : Chain(A, S, f, v, m, recorded) /\ 1 <= m
      BY <1>3 DEF Begun
    <2>2. PICK x : SaysAs(ReadArea(A), x, recorded)
      BY <2>1, ChainArea
    <2> QED
      BY <1>1, <2>2 DEF SaysAs
  <1> QED
    BY <1>2, <1>3 DEF Laid

\* It says what is current was signed,
LEMMA LInvVerifies == LInv => CurrentVerifies
  <1> SUFFICES ASSUME LInv, Area(otp).current # NoInstance PROVE Sound(Area(otp).current)
    BY DEF CurrentVerifies, Sound
  <1>1. CASE Strange
    <2>1. Area(otp) = ReadArea(AreaOf(otp))
      BY AreaIs
    <2> QED
      BY <1>1, <2>1, ForeignGone DEF Strange
  <1>2. CASE Laid
    BY <1>2, LaidReads
  <1> QED
    BY <1>1, <1>2 DEF LInv

\* that what is complete is recorded,
LEMMA LInvRecorded == LInv => CompleteIsRecorded
  <1> SUFFICES ASSUME LInv, Laid PROVE CompleteIsRecorded
    BY DEF LInv, Strange
  <1> SUFFICES ASSUME NEW i \in CompleteIn(Area(otp)) PROVE Used(i, SigKey)[1] \in recorded
    BY DEF CompleteIsRecorded
  <1>1. PICK j \in DOMAIN Area(otp).instances : i = Area(otp).instances[j] /\ IsComplete(i)
    BY DEF CompleteIn
  <1> QED
    BY <1>1, LaidReads DEF Fair

\* A run that is done has every row of its instance and every lock written.
LEMMA LInvDone == LInv => DoneMeansCurrent
  <1> DEFINE A == AreaOf(otp)
             f == run.first
             v == RunValues
  <1> SUFFICES ASSUME LInv, run.pc = "done", run.req.kind = "commission"
               PROVE  /\ Area(otp).current.first = f
                      /\ Used(Area(otp).current, WhoKey) = run.req.who
                      /\ Used(Area(otp).current, DateKey) = run.date
                      /\ \A p \in PagesOf(f, v) : IsLock(otp[LockRow(p)])
    BY DEF DoneMeansCurrent, RunValues
  <1>1. Commissions /\ Placing
    BY DEF Commissions, LInv, Strange
  <1>2. PICK S, m : Under(S, m)
    BY <1>1 DEF Placing
  <1>3. run.left = {} /\ LocksWritten
    BY <1>1 DEF Placing
  <1>4. Chain(A, S, f, v, m, recorded) /\ Front(A, f, v, m)
    BY <1>2 DEF Under, Chain
  <1>5. PICK l \in Nat \ {0} : Long(v, l) /\ m \in 0 .. 10 + l /\ Given(v)
    BY <1>4, FrontBounds
  <1>6. m = 10 + l /\ 1 <= m
    <2>1. \A j \in 1 .. 10 + l : j > m => <<Instance, j>> \in run.left
      BY <1>2, <1>5 DEF Under
    <2>2. 10 + l \in 1 .. 10 + l
      BY <1>5
    <2>3. ~(10 + l > m)
      BY <1>3, <2>1, <2>2
    <2> QED
      BY <1>5, <2>3
  <1> HIDE DEF v, f, A
  <1>7. ReadsAs(A, InstanceAt(A, AreaEnd, f), f, v, m, l)
    BY <1>4, <1>5, <1>6, FrontReads
  <1>8. PICK at : at = InstanceAt(A, AreaEnd, f)
    OBVIOUS
  <1>9. at.how = "ended" /\ at.instance = Whole(f, v)
    BY <1>6, <1>7, <1>8 DEF ReadsAs
  <1>10. PICK x : FrontWalked(x, at) /\ SaysAs(ReadArea(A), x, recorded)
    BY <1>4, <1>6, <1>8, ChainArea
  <1>11. x.instances[1] = Whole(f, v) /\ x.abandoned = FALSE
    BY <1>9, <1>10 DEF FrontWalked
  <1>12. Area(otp).current = Whole(f, v)
    <2>1. Area(otp) = ReadArea(A)
      BY AreaIs DEF A
    <2>2. IsComplete(Whole(f, v)) /\ IsValid(Whole(f, v))
      BY <1>5, WholeUsed
    <2> QED
      BY <1>10, <1>11, <2>1, <2>2 DEF SaysAs
  <1>13. /\ Whole(f, v).first = f /\ Used(Whole(f, v), WhoKey) = v.who
         /\ Used(Whole(f, v), DateKey) = v.date
    BY <1>5, WholeUsed
  <1>14. v.who = run.req.who /\ v.date = run.date
    BY DEF v, RunValues
  <1>15. ASSUME NEW p \in PagesOf(f, v) PROVE IsLock(otp[LockRow(p)])
    <2>1. PICK i \in DOMAIN LockPlan(f, v) :
              LockPlan(f, v)[i] = Write(LockRow(p), Exactly(LockWord))
      BY <1>4, PageLocks
    <2>2. run.plan[Locks] = LockPlan(f, v)
      BY <1>3 DEF LocksWritten, f, v
    <2>3. run.plan[Locks][i].row = LockRow(p)
      BY <2>1, <2>2 DEF Write
    <2>4. IsLock(otp[run.plan[Locks][i].row])
      BY <1>3, <2>1, <2>2 DEF LocksWritten
    <2> QED
      BY <2>3, <2>4
  <1> QED
    BY <1>12, <1>13, <1>14, <1>15 DEF f

---------------------------------------------------------------------------
(* What follows of it, where no row is damaged beyond what ECC repairs: a  *)
(* wrong bit, an interrupted write, another request on what is left, more  *)
(* days and a changed key are all among the steps.                         *)

\* So it holds throughout.
LEMMA LSteps ==
    ASSUME Damages = {}, KnownBoards, TextualRequests
    PROVE  Spec => []LInv
  <1>1. Init => LInv
    BY LInvInit
  <1>2. TInv /\ LInv /\ [Next]_vars => LInv'
    BY LInvNext
  <1> QED
    BY <1>1, <1>2, InitInv, NextInv, InitTaken, NextTaken, PTL DEF Spec

\* The instance a board takes as its own is one that was signed for the values
\* read back of it, whichever runs and requests wrote its rows.
THEOREM CurrentIsSigned ==
    ASSUME Damages = {}, KnownBoards, TextualRequests
    PROVE  Spec => []CurrentVerifies
  BY LSteps, LInvVerifies, PTL

\* No instance is complete on a board before its signature is in the public
\* record, wherever its last run stopped and whichever run finished it.
THEOREM RecordedFirst ==
    ASSUME Damages = {}, KnownBoards, TextualRequests
    PROVE  Spec => []CompleteIsRecorded
  BY LSteps, LInvRecorded, PTL

\* A commissioning that ends well has its request read back as the current
\* instance, where it was planned, every page of it locked.
THEOREM DoneIsCurrent ==
    ASSUME Damages = {}, KnownBoards, TextualRequests
    PROVE  Spec => []DoneMeansCurrent
  BY LSteps, LInvDone, PTL

\* The last complete instance of a walk, if there is one.
LEMMA LastComplete ==
    ASSUME NEW A, NEW end, NEW w \in Walks(A, end)
    PROVE  \/ /\ \A j \in DOMAIN w.instances : ~IsComplete(w.instances[j])
              /\ Parsed(w).complete = NoInstance
           \/ \E t \in DOMAIN w.instances :
                /\ IsComplete(w.instances[t]) /\ Parsed(w).complete = w.instances[t]
                /\ \A j \in DOMAIN w.instances : j > t => ~IsComplete(w.instances[j])
  <1> DEFINE complete == {i \in DOMAIN w.instances : IsComplete(w.instances[i])}
             top == CHOOSE i \in complete : \A j \in complete : j <= i
  <1>1. PICK k \in Nat : k = Len(w.instances) /\ DOMAIN w.instances = 1 .. k
    <2>1. w.instances \in Seq(Instances(A, end))
      BY DEF Walks
    <2> QED
      BY <2>1
  <1>2. Parsed(w).complete = IF complete = {} THEN NoInstance ELSE w.instances[top]
    BY Zenon DEF Parsed
  <1>3. complete # {} => top \in complete /\ \A j \in complete : j <= top
    <2>1. complete \in SUBSET (0 .. k)
      BY <1>1
    <2> HIDE DEF complete
    <2>2. complete # {} => \E i \in complete : \A j \in complete : j <= i
      BY <2>1, Greatest
    <2> QED
      BY <2>2
  <1>4. CASE complete = {}
    BY <1>2, <1>4
  <1>5. CASE complete # {}
    <2>1. top \in DOMAIN w.instances /\ IsComplete(w.instances[top])
      BY <1>3, <1>5
    <2>2. \A j \in DOMAIN w.instances : j > top => ~IsComplete(w.instances[j])
      <3> SUFFICES ASSUME NEW j \in complete, j > top PROVE FALSE
        OBVIOUS
      <3>1. j <= top /\ j \in 1 .. k /\ top \in 1 .. k
        BY <1>1, <1>3, <1>5
      <3> HIDE DEF complete, top
      <3> QED
        BY <3>1
    <2> QED
      BY <1>2, <1>5, <2>1, <2>2
  <1> QED
    BY <1>4, <1>5

\* No instance is none that is complete.
LEMMA NotComplete == ~IsComplete(NoInstance)
  BY DEF IsComplete, NoInstance

\* It is the same with an instance before it, and that where there was none.
LEMMA CompleteWith ==
    ASSUME NEW A, NEW end, NEW w \in Walks(A, end), NEW i \in Instances(A, end)
    PROVE  Parsed(With(w, i)).complete =
             IF Parsed(w).complete # NoInstance THEN Parsed(w).complete
             ELSE IF IsComplete(i) THEN i ELSE NoInstance
  <1> DEFINE T == Instances(A, end)
             s == w.instances
             u == <<i>> \o s
             x == With(w, i)
             old == Parsed(w).complete
             new == Parsed(x).complete
  <1>1. x \in Walks(A, end) /\ x.instances = u
    BY WithTyped
  <1>2. s \in Seq(T)
    BY DEF Walks
  <1>3. \/ (\A j \in DOMAIN s : ~IsComplete(s[j])) /\ old = NoInstance
        \/ \E t \in DOMAIN s : /\ IsComplete(s[t]) /\ old = s[t]
                               /\ \A j \in DOMAIN s : j > t => ~IsComplete(s[j])
    BY LastComplete
  <1> HIDE DEF x
  <1>4. \/ (\A j \in DOMAIN u : ~IsComplete(u[j])) /\ new = NoInstance
        \/ \E t \in DOMAIN u : /\ IsComplete(u[t]) /\ new = u[t]
                               /\ \A j \in DOMAIN u : j > t => ~IsComplete(u[j])
    <2>1. x.instances = u
      BY <1>1
    <2> HIDE DEF u
    <2> QED
      BY <1>1, <2>1, LastComplete
  <1> HIDE DEF T, s, old, new
  <1>5. PICK k \in Nat : k = Len(s)
    BY <1>2
  <1>6. <<i>> \in Seq(T) /\ Len(<<i>>) = 1 /\ <<i>>[1] = i
    BY DEF T
  <1>7. Joins(T, u, <<i>>, s, 1, k)
    BY <1>2, <1>5, <1>6, Joined
  <1> HIDE DEF u
  <1>8. u \in Seq(T) /\ Len(u) = 1 + k /\ u[1] = i /\ \A j \in 1 .. k : u[1 + j] = s[j]
    BY <1>6, <1>7 DEF Joins
  <1>9. DOMAIN u = 1 .. 1 + k /\ DOMAIN s = 1 .. k
    BY <1>2, <1>5, <1>8
  <1>10. \A j \in 2 .. 1 + k : j - 1 \in 1 .. k /\ u[j] = s[j - 1]
    <2> TAKE j \in 2 .. 1 + k
    <2>1. j - 1 \in 1 .. k /\ j = 1 + (j - 1)
      OBVIOUS
    <2> QED
      BY <1>8, <2>1
  <1>11. ASSUME old = NoInstance
         PROVE  new = IF old # NoInstance THEN old ELSE IF IsComplete(i) THEN i ELSE NoInstance
    <2>1. \A j \in DOMAIN s : ~IsComplete(s[j])
      BY <1>3, <1>11, NotComplete
    <2>2. \A j \in 2 .. 1 + k : ~IsComplete(u[j])
      BY <1>9, <1>10, <2>1
    <2>3. CASE IsComplete(i)
      <3>1. 1 \in DOMAIN u
        BY <1>9
      <3>2. PICK t \in DOMAIN u : IsComplete(u[t]) /\ new = u[t]
        BY <1>4, <1>8, <2>3, <3>1
      <3>3. t = 1
        BY <1>9, <2>2, <3>2
      <3> QED
        BY <1>8, <1>11, <2>3, <3>2, <3>3
    <2>4. CASE ~IsComplete(i)
      <3>1. \A j \in DOMAIN u : ~IsComplete(u[j])
        <4>1. \A j \in DOMAIN u : j = 1 \/ j \in 2 .. 1 + k
          BY <1>9
        <4> QED
          BY <1>8, <2>2, <2>4, <4>1
      <3> QED
        BY <1>4, <1>11, <2>4, <3>1
    <2> QED
      BY <2>3, <2>4
  <1>12. ASSUME old # NoInstance
         PROVE  new = IF old # NoInstance THEN old ELSE IF IsComplete(i) THEN i ELSE NoInstance
    <2>1. PICK t \in DOMAIN s : /\ IsComplete(s[t]) /\ old = s[t]
                                /\ \A j \in DOMAIN s : j > t => ~IsComplete(s[j])
      BY <1>3, <1>12
    <2>2. t \in 1 .. k /\ 1 + t \in DOMAIN u /\ u[1 + t] = s[t]
      BY <1>8, <1>9, <2>1
    <2>3. PICK r \in DOMAIN u : /\ IsComplete(u[r]) /\ new = u[r]
                                /\ \A j \in DOMAIN u : j > r => ~IsComplete(u[j])
      BY <1>4, <2>1, <2>2
    <2>4. ~(1 + t > r)
      BY <2>1, <2>2, <2>3
    <2>5. r \in 2 .. 1 + k
      BY <1>9, <2>2, <2>3, <2>4
    <2>6. r - 1 \in 1 .. k /\ u[r] = s[r - 1]
      BY <1>10, <2>5
    <2>7. ~(r - 1 > t)
      BY <1>9, <2>1, <2>3, <2>6
    <2>8. r = 1 + t
      BY <2>2, <2>4, <2>5, <2>7
    <2> QED
      BY <1>12, <2>1, <2>2, <2>3, <2>8
  <1> QED
    BY <1>11, <1>12 DEF old, new, x

\* What lies behind the front is read as it was while only the front changes.
LEMMA SettledSame ==
    ASSUME NEW A, NEW B, AreaRows(A), AreaRows(B), NEW f \in 0 .. AreaEnd - 1,
           \A r \in 0 .. f - 1 : A[r] = B[r], NEW S, NEW R, Settled(A, S, f, R), NEW s \in S
    PROVE  InstanceAt(A, AreaEnd, s) = InstanceAt(B, AreaEnd, s) /\ B[s] = A[s]
  <1>1. PICK end \in 1 .. AreaEnd : end = AreaEnd
    BY WholeArea
  <1>2. end \in Nat /\ f \in Nat /\ f <= end - 1
    BY <1>1
  <1>3. S \subseteq 0 .. f - 1
    BY DEF Settled
  <1> DEFINE at == InstanceAt(A, end, s)
  <1>4. at.how = "ended" /\ PageAfter(at.row) \in S \cup {f}
    BY <1>1 DEF Settled
  <1>5. s \in 0 .. f - 1 /\ s \in 0 .. end - 1
    BY <1>2, <1>3
  <1>6. at.row \in s .. end - 1
    BY <1>5, InstanceRow
  <1>7. PageAfter(at.row) \in at.row + 1 .. end
    <2> HIDE DEF at
    <2>1. at.row \in 0 .. end - 1
      BY <1>5, <1>6
    <2> QED
      BY <1>1, <2>1, WholeArea, PageAfterIn
  <1>8. \A q \in S \cup {f} : q <= f
    BY <1>2, <1>3
  <1>9. at.row < f /\ at.row # end - 1
    <2> HIDE DEF at
    <2>1. PageAfter(at.row) <= f
      BY <1>4, <1>8
    <2> QED
      BY <1>2, <1>5, <1>6, <1>7, <2>1
  <1>10. /\ end \in 1 .. AreaEnd /\ f \in 0 .. AreaEnd /\ f <= end
         /\ InstanceAt(A, end, s).how = "ended"
         /\ InstanceAt(A, end, s).row < f /\ InstanceAt(A, end, s).row # end - 1
    BY <1>1, <1>2, <1>4, <1>9
  <1> HIDE DEF at
  <1>11. InstanceAt(A, end, s) = InstanceAt(B, end, s)
    BY <1>5, <1>10, InstanceLocal
  <1> QED
    BY <1>1, <1>5, <1>11

\* It is abandoned where it was.
LEMMA WithAbandoned ==
    ASSUME NEW A, NEW end, NEW w \in Walks(A, end), NEW i
    PROVE  With(w, i).abandoned = w.abandoned
  <1>1. w = [instances |-> w.instances, issues |-> w.issues, next |-> w.next,
             abandoned |-> w.abandoned]
    BY DEF Walks
  <1> QED
    BY <1>1 DEF With

\* What is current of a walk that was not abandoned.
LEMMA CurrentOf ==
    ASSUME NEW w, w.abandoned = FALSE
    PROVE  Parsed(w).current = IF IsValid(Parsed(w).complete) THEN Parsed(w).complete
                               ELSE NoInstance
  <1> DEFINE complete == {i \in DOMAIN w.instances : IsComplete(w.instances[i])}
             last == w.instances[CHOOSE i \in complete : \A j \in complete : j <= i]
  <1>1. /\ Parsed(w).complete = IF complete = {} THEN NoInstance ELSE last
        /\ Parsed(w).current = IF w.abandoned \/ complete = {} THEN NoInstance
                               ELSE IF IsValid(last) THEN last ELSE NoInstance
    BY Zenon DEF Parsed
  <1> HIDE DEF complete, last
  <1> QED
    BY <1>1

\* An instance of the front that would end one row before the area does may be
\* cut off so that it has no room for the end of its list.
Short(f, v) == \A n \in Nat : Long(v, n) => f + 11 + n # AreaEnd

\* Else the walk ends with it, and finds it complete only as a whole.
EndsIn(w, i, m, n) ==
    /\ w.abandoned = FALSE
    /\ Parsed(w).complete = IF m = 10 + n THEN i ELSE NoInstance

\* The walk of the front ends with it, however much of it is written.
LEMMA FrontEnds ==
    ASSUME NEW A, NEW f, NEW v, NEW m, Front(A, f, v, m), Short(f, v),
           NEW n \in Nat, Long(v, n), NEW g, IsWalk(g, A, AreaEnd)
    PROVE  EndsIn(g[f], Whole(f, v), m, n)
  <1> DEFINE at == InstanceAt(A, AreaEnd, f)
  <1>1. /\ AreaEnd \in Nat /\ m \in 0 .. 10 + n /\ f \in 0 .. AreaEnd - 1 /\ AreaRows(A) /\ Given(v)
        /\ n \in Nat \ {0}
    BY FrontBounds DEF Long
  <1>2. ReadTo(AreaEnd) /\ f \in 0 .. AreaEnd /\ f < AreaEnd
    BY <1>1, WholeArea
  <1>3. g[f] \in Walks(A, AreaEnd)
    BY <1>1, <1>2, WalkTyped
  <1>4. CASE m = 0
    <2>1. A[f] = 0
      BY <1>1, <1>4, FrontShows DEF Shows
    <2>2. g[f] = Halt(f, FALSE)
      <3>1. WalkCase(A, AreaEnd, g, f)
        BY <1>1, <1>2, WalkCases
      <3> QED
        BY <1>2, <2>1, <3>1, Zenon DEF WalkCase
    <2>3. g[f].abandoned = FALSE /\ g[f].instances = <<>> /\ DOMAIN <<>> = {}
      BY <2>2 DEF Halt
    <2>4. Parsed(g[f]).complete = NoInstance
      BY <1>3, <2>3, LastComplete
    <2> QED
      BY <1>1, <1>4, <2>3, <2>4 DEF EndsIn
  <1>5. CASE m # 0
    <2>1. 1 <= m
      BY <1>1, <1>5
    <2>2. ReadsAs(A, at, f, v, m, n)
      BY <1>1, <2>1, FrontReads
    <2>3. at.how = "ended"
      BY <1>1, <2>2 DEF ReadsAs, Short
    <2>4. FrontWalked(g[f], at)
      BY <2>1, FrontWalk
    <2>5. g[f].abandoned = FALSE /\ g[f].instances = <<at.instance>>
      BY <2>3, <2>4 DEF FrontWalked
    <2>6. IsComplete(at.instance) => m = 10 + n
      BY <1>1, <2>2 DEF ReadsAs, IsComplete
    <2>7. m = 10 + n => at.instance = Whole(f, v) /\ IsComplete(at.instance)
      BY <1>1, <2>2, WholeUsed DEF ReadsAs
    <2> HIDE DEF at
    <2>8. DOMAIN <<at.instance>> = {1} /\ <<at.instance>>[1] = at.instance
      OBVIOUS
    <2>9. Parsed(g[f]).complete = IF IsComplete(at.instance) THEN at.instance ELSE NoInstance
      BY <1>3, <2>5, <2>8, LastComplete
    <2> QED
      BY <2>5, <2>6, <2>7, <2>9 DEF EndsIn
  <1> QED
    BY <1>4, <1>5

\* A row written of the front leaves current what was, or makes the front so.
LEMMA NextCurrent ==
    ASSUME NEW A, NEW B, NEW S, NEW f, NEW v, NEW m, NEW k, NEW R,
           Chain(A, S, f, v, m, R), Chain(B, S, f, v, k, R), Short(f, v),
           NEW n \in Nat, Long(v, n), m # 10 + n, \A r \in 0 .. f - 1 : A[r] = B[r]
    PROVE  ReadArea(B).current \in {ReadArea(A).current, Whole(f, v)}
  <1> DEFINE end == AreaEnd
  <1>1. Front(A, f, v, m) /\ Settled(A, S, f, R) /\ Front(B, f, v, k)
    BY DEF Chain
  <1>2. end \in Nat /\ f \in 0 .. end - 1 /\ AreaRows(A) /\ AreaRows(B) /\ ReadTo(end) /\ Given(v)
    BY <1>1, FrontBounds, WholeArea
  <1>3. PICK g : IsWalk(g, A, end) /\ Walk(A, end) = g[0]
    BY <1>2, WalkDefined
  <1>4. PICK h : IsWalk(h, B, end) /\ Walk(B, end) = h[0]
    BY <1>2, WalkDefined
  <1> DEFINE Alike(s) == /\ g[s].abandoned = FALSE /\ h[s].abandoned = FALSE
                         /\ Parsed(h[s]).complete \in {Parsed(g[s]).complete, Whole(f, v)}
             T == {s \in S \cup {f} : ~Alike(s)}
  <1>5. Alike(f)
    <2>1. EndsIn(g[f], Whole(f, v), m, n)
      BY <1>1, <1>3, FrontEnds
    <2>2. EndsIn(h[f], Whole(f, v), k, n)
      BY <1>1, <1>4, FrontEnds
    <2> QED
      BY <2>1, <2>2 DEF EndsIn
  <1>6. IsComplete(Whole(f, v)) /\ IsValid(Whole(f, v)) /\ Whole(f, v) # NoInstance
    BY <1>2, WholeUsed, NotComplete
  <1>7. ASSUME NEW s \in S, \A c \in S \cup {f} : c > s => Alike(c)
        PROVE  Alike(s)
    <2> DEFINE at == InstanceAt(A, end, s)
    <2>1. s \in 0 .. f - 1 /\ s \in 0 .. end - 1 /\ s < end
      BY <1>1, <1>2 DEF Settled
    <2>2. A[s] = Magic /\ at.how = "ended" /\ PageAfter(at.row) \in S \cup {f}
      BY <1>1 DEF Settled
    <2>3. InstanceAt(B, end, s) = at /\ B[s] = Magic
      BY <1>1, <1>2, <2>2, SettledSame
    <2>4. at.row \in s .. end - 1
      <3>1. end \in 1 .. AreaEnd
        BY <1>2
      <3> QED
        BY <1>2, <2>1, <3>1, InstanceRow
    <2>5. at.instance \in Instances(A, end) /\ at.instance \in Instances(B, end)
      BY <2>1, <2>3 DEF Instances
    <2> HIDE DEF at
    <2>6. PageAfter(at.row) \in at.row + 1 .. end
      <3>1. at.row \in 0 .. end - 1
        BY <2>1, <2>4
      <3> QED
        BY <1>2, <3>1, PageAfterIn
    <2> DEFINE next == PageAfter(at.row)
    <2>7. next > s /\ next \in 0 .. end /\ s \in 0 .. end
      BY <1>2, <2>1, <2>4, <2>6
    <2>8. WalkCase(A, end, g, s) /\ WalkCase(B, end, h, s)
      BY <1>2, <1>3, <1>4, <2>7, WalkCases
    <2>9. g[s] = With(g[next], at.instance) /\ h[s] = With(h[next], at.instance)
      BY <2>1, <2>2, <2>3, <2>8 DEF WalkCase, at
    <2>10. g[next] \in Walks(A, end) /\ h[next] \in Walks(B, end)
      BY <1>2, <1>3, <1>4, <2>7, WalkTyped
    <2>11. Alike(next)
      BY <1>7, <2>2, <2>7
    <2> HIDE DEF next
    <2>12. g[s].abandoned = g[next].abandoned /\ h[s].abandoned = h[next].abandoned
      BY <2>9, <2>10, WithAbandoned
    <2>13. /\ Parsed(g[s]).complete =
                IF Parsed(g[next]).complete # NoInstance THEN Parsed(g[next]).complete
                ELSE IF IsComplete(at.instance) THEN at.instance ELSE NoInstance
           /\ Parsed(h[s]).complete =
                IF Parsed(h[next]).complete # NoInstance THEN Parsed(h[next]).complete
                ELSE IF IsComplete(at.instance) THEN at.instance ELSE NoInstance
      BY <2>5, <2>9, <2>10, CompleteWith
    <2> QED
      BY <1>6, <2>11, <2>12, <2>13
  <1>8. T = {}
    <2> SUFFICES ASSUME T # {} PROVE FALSE
      OBVIOUS
    <2>1. T \in SUBSET (0 .. end)
      <3>1. S \subseteq 0 .. f - 1
        BY <1>1 DEF Settled
      <3> HIDE DEF Alike, end
      <3>2. 0 .. f - 1 \subseteq 0 .. end /\ f \in 0 .. end
        BY <1>2
      <3>3. S \cup {f} \subseteq 0 .. end
        BY <3>1, <3>2
      <3> QED
        BY <3>3
    <2>2. PICK s \in T : \A y \in T : y <= s
      BY <1>2, <2>1, Greatest
    <2>3. s # f /\ s \in S
      BY <1>5, <2>2
    <2>4. \A c \in S \cup {f} : c > s => c \notin T
      BY <1>2, <2>1, <2>2
    <2> QED
      BY <1>7, <2>2, <2>3, <2>4
  <1>9. Alike(0)
    BY <1>1, <1>8 DEF Settled
  <1>10. ReadArea(A) = Parsed(g[0]) /\ ReadArea(B) = Parsed(h[0])
    BY <1>2, <1>3, <1>4, ReadWhole DEF Parse
  <1> QED
    BY <1>6, <1>9, <1>10, CurrentOf

---------------------------------------------------------------------------
(* The rows outside the area that a plan writes.                           *)

\* Each holds one value a request gives it, and a boot flag keeps its other bits.
Proper(w, req) ==
    \/ w.row = Devinfo /\ req.size = "L" /\ w.want = Exactly(DevinfoValue(BoardOf(req)))
    \/ /\ w.row \in BootRows /\ req.size = "L"
       /\ w.want = [value |-> Flag, exact |-> otp[w.row].exact]
    \/ w.row \in LabelRows /\ w.want = Exactly(LabelValue(BoardOf(req), w.row))
    \/ w.row \in UsbRows /\ w.want = Exactly(Flag)

\* The rest are of the area or the locks of its pages.
Aside(w) ==
    w.row \in {AreaRow(x) : x \in 0 .. AreaEnd - 1} \cup {LockRow(p) : p \in 0 .. AreaPages - 1}

\* What a plan writes outside the area is of that kind.
LEMMA ProperRows ==
    ASSUME NEW req \in Requests, NEW plan \in {SizePlan(req), LabelledPlan(req)},
           NEW k \in Steps, NEW i \in DOMAIN plan[k]
    PROVE  Proper(plan[k][i], req) /\ k \notin {Instance, Locks}
  <1>1. req.size \in {"M", "L"}
    BY RequestsAssumption
  <1>2. DOMAIN NoPlan = Steps /\ NoPlan[k] = <<>> /\ DOMAIN <<>> = {}
    BY DEF NoPlan
  <1>3. ASSUME NEW j \in DOMAIN SizePlan(req)[k]
        PROVE  Proper(SizePlan(req)[k][j], req) /\ k \notin {Instance, Locks}
    <2> DEFINE steps == SizePlan(req)[k]
    <2>1. \/ steps = <<>>
          \/ req.size = "L" /\ k = FlashDevinfo /\ steps = DevinfoPlan(BoardOf(req))
          \/ req.size = "L" /\ k = BootFlags0 /\ steps = BootFlagsPlan
      BY <1>1, <1>2 DEF SizePlan, FlashDevinfo, BootFlags0
    <2> HIDE DEF steps
    <2>2. k \in {FlashDevinfo, BootFlags0} => k \notin {Instance, Locks}
      BY DEF FlashDevinfo, BootFlags0, Instance, Locks
    <2>3. ASSUME req.size = "L", k = FlashDevinfo, steps = DevinfoPlan(BoardOf(req))
          PROVE  Proper(steps[j], req)
      <3>1. j = 1 /\ steps[1] = Write(Devinfo, Exactly(DevinfoValue(BoardOf(req))))
        BY <1>3, <2>3 DEF DevinfoPlan, steps
      <3> QED
        BY <2>3, <3>1 DEF Proper, Write
    <2>4. ASSUME req.size = "L", k = BootFlags0, steps = BootFlagsPlan
          PROVE  Proper(steps[j], req)
      <3>1. j \in Copies
        BY <1>3, <2>4 DEF BootFlagsPlan, steps
      <3>2. steps[j].row = <<"boot", j>>
            /\ steps[j].want = [value |-> Flag, exact |-> otp[<<"boot", j>>].exact]
        BY <2>4, <3>1 DEF BootFlagsPlan, Write
      <3>3. steps[j].row \in BootRows
        BY <3>1, <3>2 DEF BootRows
      <3> QED
        BY <2>4, <3>2, <3>3 DEF Proper
    <2> QED
      BY <1>2, <1>3, <2>1, <2>2, <2>3, <2>4 DEF steps
  <1>4. CASE plan = SizePlan(req)
    BY <1>3, <1>4
  <1>5. CASE plan = LabelledPlan(req)
    <2>1. DOMAIN SizePlan(req) = Steps
      BY DEF SizePlan, NoPlan
    <2>2. plan[k] = IF k = UsbBootFlags THEN UsbPlan
                    ELSE IF k = WhiteLabel THEN WhiteLabelPlan(BoardOf(req))
                    ELSE SizePlan(req)[k]
      BY <1>5, <2>1 DEF LabelledPlan
    <2>3. k \in {UsbBootFlags, WhiteLabel} => k \notin {Instance, Locks}
      BY DEF UsbBootFlags, WhiteLabel, Instance, Locks
    <2>4. ASSUME k = UsbBootFlags PROVE Proper(plan[k][i], req)
      <3>1. i \in Copies /\ plan[k][i] = Write(<<"usb", i>>, Exactly(Flag))
        BY <2>2, <2>4 DEF UsbPlan
      <3> QED
        BY <3>1 DEF Proper, Write, UsbRows
    <2>5. ASSUME k = WhiteLabel PROVE Proper(plan[k][i], req)
      <3> DEFINE b == BoardOf(req)
      <3>1. plan[k] = WhiteLabelPlan(b)
        BY <2>2, <2>5 DEF WhiteLabel, UsbBootFlags
      <3>2. \E r \in LabelRows : plan[k][i] = Write(r, Exactly(LabelValue(b, r)))
        <4> HIDE DEF b
        <4>1. i \in 1 .. 3
          BY <3>1 DEF WhiteLabelPlan
        <4>2. /\ plan[k][1] = Write(<<"label", 1>>, Exactly(LabelValue(b, <<"label", 1>>)))
              /\ plan[k][2] = Write(<<"label", 2>>, Exactly(LabelValue(b, <<"label", 2>>)))
              /\ plan[k][3] = Write(<<"addr", 0>>, Exactly(LabelValue(b, <<"addr", 0>>)))
          BY <3>1 DEF WhiteLabelPlan
        <4>3. <<"label", 1>> \in LabelRows /\ <<"label", 2>> \in LabelRows
              /\ <<"addr", 0>> \in LabelRows
          BY DEF LabelRows
        <4>4. i = 1 \/ i = 2 \/ i = 3
          BY <4>1
        <4> QED
          BY <4>2, <4>3, <4>4
      <3> QED
        BY <3>2 DEF Proper, Write
    <2> QED
      BY <1>3, <2>2, <2>3, <2>4, <2>5
  <1> QED
    BY <1>4, <1>5

\* A row of the board has one of these values for a request.
LEMMA ProperOnce ==
    ASSUME NEW req, NEW w, NEW x, Proper(w, req), Proper(x, req), w.row = x.row
    PROVE  w.want = x.want
  BY Apart DEF Proper

\* They are on two pages of their own.
LEMMA ProperPages ==
    ASSUME NEW req, NEW w, Proper(w, req)
    PROVE  /\ w.row \in Rows /\ w.row[1] \notin {"area", "lock"} /\ w.row # SlotSize
           /\ PageLocking(w.row) \in {BootPage, LabelPage}
  <1>1. w.row \in {Devinfo} \cup BootRows \cup LabelRows \cup UsbRows
    BY DEF Proper
  <1>2. w.row \in Rows
    BY <1>1, AllRows
  <1>3. w.row[1] \in {"devinfo", "boot", "label", "addr", "usb"}
    BY <1>1, Apart
  <1> QED
    BY <1>2, <1>3, Apart DEF PageLocking

---------------------------------------------------------------------------
(* What a run asks of them, as prepare does.                               *)

OwnRows(req) ==
    /\ SizeAccepted(req)
    /\ IF req.kind = "size" THEN Unlocked(SizePlan(req))
       ELSE /\ req.size = "M" /\ ~req.force => NoSecondChip
            /\ WhiteLabelAccepted(BoardOf(req))
            /\ Unlocked(LabelledPlan(req))

\* A row written of a plan.
Written(w, req) ==
    /\ w.row \in Rows /\ (Proper(w, req) \/ Aside(w))
    /\ otp' = [otp EXCEPT ![w.row] = w.want]

\* A row written changes no other; it is never SLOT_SIZE nor the lock of the boot
\* page or of the white label's.
LEMMA WrittenRows ==
    ASSUME OtpForm, NEW req, NEW w, Written(w, req)
    PROVE  /\ \A r \in Rows : otp'[r] = IF r = w.row THEN w.want ELSE otp[r]
           /\ w.row # SlotSize /\ w.row \notin {LockRow(BootPage), LockRow(LabelPage)}
           /\ Aside(w) => w.row[1] \in {"area", "lock"}
  <1>1. \A r \in Rows : otp'[r] = IF r = w.row THEN w.want ELSE otp[r]
    BY DEF OtpForm, Written
  <1>2. Aside(w) => w.row[1] \in {"area", "lock"}
    BY Apart DEF Aside
  <1>3. w.row # SlotSize
    BY <1>2, ProperPages, Apart DEF Written
  <1>4. ASSUME NEW q \in {BootPage, LabelPage}, w.row = LockRow(q) PROVE FALSE
    <2>1. w.row[1] = "lock"
      BY <1>4, Apart
    <2>2. Aside(w)
      BY <2>1, ProperPages DEF Written
    <2>3. w.row \in {LockRow(p) : p \in 0 .. AreaPages - 1}
      BY <2>1, <2>2, Apart DEF Aside
    <2>4. PICK p \in 0 .. AreaPages - 1 : w.row = LockRow(p)
      BY <2>3
    <2>5. p = q
      BY <1>4, <2>4 DEF LockRow
    <2> QED
      BY <2>5, AreaAssumption DEF BootPage, LabelPage
  <1> QED
    BY <1>1, <1>2, <1>3, <1>4

\* Where a flag is set, the size that it enables is one the tools set.
LEMMA SizeKnown == EnabledMeansWritten => Configured \in {"M", "L"}
  <1> DEFINE set == {r \in BootRows : otp[r].value = Flag}
  <1> SUFFICES ASSUME EnabledMeansWritten, Configured # "M" PROVE Configured = "L"
    OBVIOUS
  <1>1. /\ ~(Cardinality(set) < 2)
        /\ Configured = IF otp[Devinfo].value \in DevinfoValues THEN "L" ELSE "other"
    BY Zenon DEF Configured
  <1>2. set # {}
    <2>1. Cardinality({}) = 0
      BY FS_EmptySet
    <2> HIDE DEF set
    <2> QED
      BY <1>1, <2>1
  <1>3. Enabled(otp, BootRows)
    BY <1>2 DEF Enabled
  <1>4. PICK board \in BoardIds : otp[Devinfo] = Exactly(DevinfoValue(board))
    BY <1>3 DEF EnabledMeansWritten, EnabledOnlyWritten, SizeHolds, Holds
  <1>5. otp[Devinfo].value \in DevinfoValues
    BY <1>4 DEF Exactly, DevinfoValues
  <1> QED
    BY <1>1, <1>5

\* Accepted by prepare, a request stays so while its rows are written.
LEMMA SizeStays ==
    ASSUME OtpForm, EnabledMeansWritten', NEW req \in Requests, NEW w, Written(w, req),
           SizeAccepted(req)
    PROVE  SizeAccepted(req)'
  <1>1. \A r \in Rows : otp'[r] = IF r = w.row THEN w.want ELSE otp[r]
    BY WrittenRows
  <1>2. SlotSize \in Rows /\ Devinfo \in Rows /\ BootRows \subseteq Rows /\ w.row # SlotSize
    BY AllRows, WrittenRows
  <1>3. req.size \in {"M", "L"}
    BY RequestsAssumption
  <1>4. CASE req.size = "M"
    <2>1. w.row # Devinfo /\ w.row \notin BootRows
      BY <1>4, WrittenRows, Apart DEF Written, Proper
    <2>2. otp'[Devinfo] = otp[Devinfo] /\ \A r \in BootRows : otp'[r] = otp[r]
      BY <1>1, <1>2, <2>1
    <2>3. {r \in BootRows : otp'[r].value = Flag} = {r \in BootRows : otp[r].value = Flag}
      BY <2>2
    <2>4. Configured' = Configured
      BY <2>2, <2>3 DEF Configured
    <2> QED
      BY <1>4, <2>4 DEF SizeAccepted
  <1>5. CASE req.size = "L"
    <2>1. Configured' \in {"M", req.size}
      <3>1. (EnabledMeansWritten => Configured \in {"M", "L"})'
        BY SizeKnown, PTL
      <3> QED
        BY <1>5, <3>1
    <2>2. otp'[SlotSize].exact
      BY <1>1, <1>2, <1>5 DEF SizeAccepted
    <2>3. Writable(otp'[Devinfo], DevinfoValue(BoardOf(req)))
      <3>1. CASE w.row # Devinfo
        BY <1>1, <1>2, <1>5, <3>1 DEF SizeAccepted
      <3>2. CASE w.row = Devinfo
        <4>1. Proper(w, req)
          BY <3>2, WrittenRows, Apart DEF Written
        <4>2. w.want = Exactly(DevinfoValue(BoardOf(req)))
          BY <3>2, <4>1, Apart DEF Proper
        <4> QED
          BY <1>1, <1>2, <3>2, <4>2 DEF Writable, Holds
      <3> QED
        BY <3>1, <3>2
    <2> QED
      BY <2>1, <2>2, <2>3 DEF SizeAccepted
  <1> QED
    BY <1>3, <1>4, <1>5

\* A board without a second chip is left without one by a request for an M board.
LEMMA ChipStays ==
    ASSUME OtpForm, NEW req, NEW w, Written(w, req), req.size = "M", NoSecondChip
    PROVE  NoSecondChip'
  <1>1. \A r \in Rows : otp'[r] = IF r = w.row THEN w.want ELSE otp[r]
    BY WrittenRows
  <1>2. Devinfo \in Rows /\ BootRows \subseteq Rows
    BY AllRows
  <1>3. w.row # Devinfo /\ w.row \notin BootRows
    BY WrittenRows, Apart DEF Written, Proper
  <1> QED
    BY <1>1, <1>2, <1>3 DEF NoSecondChip, Enabled

\* A row written for the request fits its own white label.
LEMMA LabelStays ==
    ASSUME OtpForm, NEW req, NEW w, Written(w, req), WhiteLabelAccepted(BoardOf(req))
    PROVE  WhiteLabelAccepted(BoardOf(req))'
  <1>1. \A r \in Rows : otp'[r] = IF r = w.row THEN w.want ELSE otp[r]
    BY WrittenRows
  <1>2. LabelRows \subseteq Rows /\ UsbRows \subseteq Rows
    BY AllRows
  <1>3. w.row \in LabelRows \cup UsbRows => Proper(w, req)
    BY WrittenRows, Apart DEF Written
  <1>4. ASSUME NEW r \in LabelRows PROVE Writable(otp'[r], LabelValue(BoardOf(req), r))
    <2>1. CASE w.row # r
      BY <1>1, <1>2, <2>1 DEF WhiteLabelAccepted
    <2>2. CASE w.row = r
      <3>1. w.want = Exactly(LabelValue(BoardOf(req), r))
        BY <1>3, <2>2, Apart DEF Proper
      <3> QED
        BY <1>1, <1>2, <2>2, <3>1 DEF Writable, Holds
    <2> QED
      BY <2>1, <2>2
  <1>5. ASSUME NEW r \in UsbRows PROVE otp'[r] \in {Blank, Exactly(Flag)}
    <2>1. CASE w.row # r
      BY <1>1, <1>2, <2>1 DEF WhiteLabelAccepted
    <2>2. CASE w.row = r
      <3>1. w.want = Exactly(Flag)
        BY <1>3, <2>2, Apart DEF Proper
      <3> QED
        BY <1>1, <1>2, <2>2, <3>1
    <2> QED
      BY <2>1, <2>2
  <1> QED
    BY <1>4, <1>5 DEF WhiteLabelAccepted

\* A plan made of what is there now is the plan that was made.
LEMMA PlanStays ==
    ASSUME OtpForm, NEW req, NEW w, Written(w, req)
    PROVE  SizePlan(req)' = SizePlan(req) /\ LabelledPlan(req)' = LabelledPlan(req)
  <1>1. ASSUME NEW i \in Copies PROVE otp'[<<"boot", i>>].exact = otp[<<"boot", i>>].exact
    <2>1. <<"boot", i>> \in BootRows /\ <<"boot", i>> \in Rows
      BY AllRows DEF BootRows
    <2>2. otp'[<<"boot", i>>] = IF <<"boot", i>> = w.row THEN w.want ELSE otp[<<"boot", i>>]
      BY <2>1, WrittenRows
    <2>3. CASE w.row = <<"boot", i>>
      <3>1. Proper(w, req)
        BY <2>1, <2>3, WrittenRows, Apart DEF Written
      <3>2. w.want = [value |-> Flag, exact |-> otp[w.row].exact]
        BY <2>1, <2>3, <3>1, Apart DEF Proper
      <3> QED
        BY <2>2, <2>3, <3>2
    <2> QED
      BY <2>2, <2>3
  <1>2. BootFlagsPlan' = BootFlagsPlan
    BY <1>1 DEF BootFlagsPlan
  <1>3. SizePlan(req)' = SizePlan(req)
    BY <1>2 DEF SizePlan
  <1> QED
    BY <1>3 DEF LabelledPlan

\* It has no more rows to write, and none on a page since locked.
LEMMA UnlockedStays ==
    ASSUME OtpForm, NEW req \in Requests, NEW w, Written(w, req),
           NEW plan \in {SizePlan(req), LabelledPlan(req)}, Unlocked(plan)
    PROVE  Unlocked(plan)'
  <1>1. \A r \in Rows : otp'[r] = IF r = w.row THEN w.want ELSE otp[r]
    BY WrittenRows
  <1> SUFFICES ASSUME NEW at \in ToWrite(plan)'
               PROVE  ~IsLock(otp'[LockRow(PageLocking(plan[at[1]][at[2]].row))])
    BY DEF Unlocked
  <1>2. PICK k \in Steps : at \in {<<k, i>> : i \in {j \in DOMAIN plan[k] : ~Holding(plan[k][j])'}}
    BY DEF ToWrite
  <1>3. PICK i \in DOMAIN plan[k] : at = <<k, i>> /\ ~Holding(plan[k][i])'
    BY <1>2
  <1>4. PICK x : x = plan[k][i]
    OBVIOUS
  <1>5. Proper(x, req)
    BY <1>4, ProperRows
  <1>6. x.row \in Rows /\ PageLocking(x.row) \in {BootPage, LabelPage}
    BY <1>5, ProperPages
  <1>7. otp'[x.row] # x.want
    BY <1>3, <1>4 DEF Holding
  <1>8. x.row # w.row
    <2> SUFFICES ASSUME x.row = w.row PROVE FALSE
      OBVIOUS
    <2>1. w.row[1] \notin {"area", "lock"}
      BY <1>5, ProperPages
    <2>2. Proper(w, req)
      BY <2>1, WrittenRows DEF Written
    <2>3. x.want = w.want
      BY <1>5, <2>2, ProperOnce
    <2> QED
      BY <1>1, <1>6, <1>7, <2>3
  <1>9. ~Holding(x)
    BY <1>1, <1>6, <1>7, <1>8 DEF Holding
  <1>10. at \in ToWrite(plan) /\ at[1] = k /\ at[2] = i
    BY <1>3, <1>4, <1>9, LeftIs
  <1>11. ~IsLock(otp[LockRow(PageLocking(x.row))])
    BY <1>4, <1>10 DEF Unlocked
  <1>12. LockRow(PageLocking(x.row)) \in Rows
    BY <1>6, AreaAssumption DEF Rows, BootPage, LabelPage
  <1>13. LockRow(PageLocking(x.row)) # w.row
    BY <1>6, WrittenRows
  <1> QED
    BY <1>1, <1>4, <1>10, <1>11, <1>12, <1>13

\* So the rows outside the area are taken again after each that is written.
LEMMA OwnRowsStay ==
    ASSUME OtpForm, EnabledMeansWritten', NEW req \in Requests, NEW w, Written(w, req),
           OwnRows(req)
    PROVE  OwnRows(req)'
  <1>1. SizeAccepted(req)'
    BY SizeStays DEF OwnRows
  <1>2. ASSUME req.kind = "size" PROVE Unlocked(SizePlan(req))'
    <2>1. PICK plan : plan = SizePlan(req)
      OBVIOUS
    <2>2. Unlocked(plan)'
      BY <1>2, <2>1, UnlockedStays DEF OwnRows
    <2>3. plan = SizePlan(req)'
      BY <2>1, PlanStays
    <2> QED
      BY <2>2, <2>3 DEF Unlocked, ToWrite
  <1>3. ASSUME req.kind # "size"
        PROVE  /\ req.size = "M" /\ ~req.force => NoSecondChip'
               /\ WhiteLabelAccepted(BoardOf(req))' /\ Unlocked(LabelledPlan(req))'
    <2>1. PICK plan : plan = LabelledPlan(req)
      OBVIOUS
    <2>2. Unlocked(plan)'
      BY <1>3, <2>1, UnlockedStays DEF OwnRows
    <2>3. plan = LabelledPlan(req)'
      BY <2>1, PlanStays
    <2>4. Unlocked(LabelledPlan(req))'
      BY <2>2, <2>3 DEF Unlocked, ToWrite
    <2> QED
      BY <1>3, <2>4, ChipStays, LabelStays DEF OwnRows
  <1> QED
    BY <1>1, <1>2, <1>3 DEF OwnRows

---------------------------------------------------------------------------
(* What a run asks of the area.                                            *)

InArea(req, first, v) ==
    LET area == Area(otp)
    IN  /\ VersionKnown(area)
        /\ UnknownKeys(area.current) = {}
        /\ area.current # NoInstance /\ ~req.force =>
             Used(area.current, WhoKey) = v.who /\ Used(area.current, DateKey) = v.date
        /\ first # NoRow /\ Place(area, v) = first

AreaKept == \A i \in 0 .. AreaEnd - 1 : otp'[AreaRow(i)] = otp[AreaRow(i)]

\* A plan's instance is in the area, where it fits.
LEMMA FitsRows ==
    ASSUME NEW p, NEW t, Given(t), Fits(p, t)
    PROVE  \A i \in DOMAIN InstancePlan(p, t) :
              \E x \in 0 .. AreaEnd - 1 : InstancePlan(p, t)[i].row = AreaRow(x)
  <1>1. PICK l \in Nat \ {0} : Long(t, l)
    BY GivenFacts DEF Long
  <1>2. p \in 0 .. AreaEnd - 1 /\ p + InstanceRowCount(t) <= AreaEnd /\ AreaEnd \in Nat
    BY WholeArea DEF Fits
  <1>3. p \in Nat
    BY <1>2
  <1>4. /\ DOMAIN InstancePlan(p, t) = 1 .. 10 + l
        /\ \A j \in 1 .. 10 + l :
              InstancePlan(p, t)[j] = [row |-> AreaRow(WritesOf(p, t)[j][1]),
                                       want |-> Exactly(WritesOf(p, t)[j][2])]
        /\ InstanceRowCount(t) = 10 + l
    BY <1>1, <1>3, PlanAt
  <1> SUFFICES ASSUME NEW i \in 1 .. 10 + l
               PROVE  \E x \in 0 .. AreaEnd - 1 : InstancePlan(p, t)[i].row = AreaRow(x)
    BY <1>4
  <1>5. InstancePlan(p, t)[i].row = AreaRow(WritesOf(p, t)[i][1])
    BY <1>4
  <1>6. WritesOf(p, t)[i][1] = Pos(p, l, i)
    BY <1>1, <1>3, WritesAt
  <1>7. Pos(p, l, i) \in p .. p + 9 + l
    BY <1>1, <1>3, PosApart
  <1>8. Pos(p, l, i) \in 0 .. AreaEnd - 1
    BY <1>1, <1>2, <1>4, <1>7
  <1> QED
    BY <1>5, <1>6, <1>8

\* Where an instance fits is no matter of the other rows,
LEMMA FitsSame ==
    ASSUME AreaKept, NEW p, NEW t, Given(t)
    PROVE  FitsAt(p, t)' <=> FitsAt(p, t)
  <1>1. CASE ~Fits(p, t)
    BY <1>1 DEF FitsAt
  <1>2. CASE Fits(p, t)
    <2>1. \A i \in DOMAIN InstancePlan(p, t) :
              otp'[InstancePlan(p, t)[i].row] = otp[InstancePlan(p, t)[i].row]
      BY <1>2, FitsRows DEF AreaKept
    <2> QED
      BY <2>1 DEF FitsAt
  <1> QED
    BY <1>1, <1>2

\* nor is where prepare puts it.
LEMMA PlaceSame ==
    ASSUME AreaKept, NEW t, Given(t), NEW area
    PROVE  Place(area, t)' = Place(area, t)
  <1>1. {i \in 0 .. AreaEnd - 1 : ~IsUnwritten(otp'[AreaRow(i)])}
          = {i \in 0 .. AreaEnd - 1 : ~IsUnwritten(otp[AreaRow(i)])}
    BY DEF AreaKept
  <1>2. AfterLastWritten' = AfterLastWritten
    <2> DEFINE Behind(w) == IF w = {} THEN 0 ELSE PageAfter(CHOOSE i \in w : \A j \in w : j <= i)
               was == {i \in 0 .. AreaEnd - 1 : ~IsUnwritten(otp[AreaRow(i)])}
               is == {i \in 0 .. AreaEnd - 1 : ~IsUnwritten(otp'[AreaRow(i)])}
    <2>1. AfterLastWritten = Behind(was)
      BY Zenon DEF AfterLastWritten
    <2>2. AfterLastWritten' = Behind(is)
      BY Zenon DEF AfterLastWritten
    <2>3. was = is
      BY <1>1
    <2> HIDE DEF Behind, was, is
    <2> QED
      BY <2>1, <2>2, <2>3
  <1>3. NextPlace(area)' = NextPlace(area)
    BY <1>2 DEF NextPlace
  <1>4. PICK last : last = area.instances[Len(area.instances)].first
    OBVIOUS
  <1>5. PICK next : next = NextPlace(area) /\ next = NextPlace(area)'
    BY <1>3
  <1>6. FitsAt(last, t)' <=> FitsAt(last, t)
    BY FitsSame
  <1>7. FitsAt(next, t)' <=> FitsAt(next, t)
    BY FitsSame
  <1>8. Place(area, t) = IF ~IsAbandoned(area) /\ area.instances # <<>> /\ FitsAt(last, t) THEN last
                         ELSE IF next # NoRow /\ FitsAt(next, t) THEN next ELSE NoRow
    BY <1>4, <1>5 DEF Place
  <1>9. Place(area, t)' = IF ~IsAbandoned(area) /\ area.instances # <<>> /\ FitsAt(last, t)' THEN last
                          ELSE IF next # NoRow /\ FitsAt(next, t)' THEN next ELSE NoRow
    BY <1>4, <1>5 DEF Place
  <1> QED
    BY <1>6, <1>7, <1>8, <1>9

\* A row written elsewhere changes none of it.
LEMMA InAreaKept ==
    ASSUME AreaKept, NEW req, NEW first, NEW v, Given(v), InArea(req, first, v)
    PROVE  InArea(req, first, v)'
  <1>1. PICK area : area = Area(otp)
    OBVIOUS
  <1>2. AreaOf(otp') = AreaOf(otp)
    BY DEF AreaKept, AreaOf
  <1>3. area = Area(otp)'
    BY <1>1, <1>2, AreaIs
  <1>4. Place(area, v)' = Place(area, v)
    BY PlaceSame
  <1>5. Place(Area(otp), v)' = Place(area, v)'
    BY <1>3
  <1> QED
    BY <1>1, <1>3, <1>4, <1>5 DEF InArea

\* prepare puts an instance only where it fits.
LEMMA PlaceFits ==
    ASSUME NEW area, NEW t, Place(area, t) # NoRow
    PROVE  FitsAt(Place(area, t), t)
  BY Zenon DEF Place

\* With a row of it written, it still fits,
LEMMA FitsWritten ==
    ASSUME OtpForm, NEW p, NEW t, PlannedInstance(p, t), NEW i \in DOMAIN InstancePlan(p, t),
           InstancePlan(p, t)[i].row \in Rows,
           otp' = [otp EXCEPT ![InstancePlan(p, t)[i].row] = InstancePlan(p, t)[i].want]
    PROVE  /\ FitsAt(p, t)'
           /\ \A j \in DOMAIN InstancePlan(p, t) :
                 Holding(InstancePlan(p, t)[j]) => Holding(InstancePlan(p, t)[j])'
  <1>1. PICK plan : plan = InstancePlan(p, t)
    OBVIOUS
  <1>2. \A j \in DOMAIN plan : plan[j].row = plan[i].row => j = i
    <2>1. /\ DOMAIN InstancePlan(p, t) = 1 .. InstanceRowCount(t)
          /\ \A x, y \in 1 .. InstanceRowCount(t) :
                InstancePlan(p, t)[x].row = InstancePlan(p, t)[y].row => x = y
      BY InstanceRows
    <2> QED
      BY <1>1, <2>1
  <1>3. \A j \in DOMAIN plan : plan[j].want = Exactly(plan[j].want.value)
    BY <1>1 DEF InstancePlan, Write, Exactly
  <1>4. /\ otp'[plan[i].row] = plan[i].want
        /\ \A j \in DOMAIN plan : plan[j].row # plan[i].row => otp'[plan[j].row] = otp[plan[j].row]
    BY <1>1 DEF OtpForm
  <1>5. ASSUME NEW j \in DOMAIN plan, Writable(otp[plan[j].row], plan[j].want.value)
        PROVE  Writable(otp'[plan[j].row], plan[j].want.value)
    <2>1. CASE j = i
      BY <1>3, <1>4, <2>1 DEF Writable, Holds
    <2>2. CASE j # i
      BY <1>2, <1>4, <1>5, <2>2
    <2> QED
      BY <2>1, <2>2
  <1>6. ASSUME NEW j \in DOMAIN plan, otp[plan[j].row] = plan[j].want
        PROVE  otp'[plan[j].row] = plan[j].want
    BY <1>2, <1>4, <1>6
  <1>7. Fits(p, t) /\ \A j \in DOMAIN plan : Writable(otp[plan[j].row], plan[j].want.value)
    BY <1>1 DEF PlannedInstance, FitsAt
  <1>8. FitsAt(p, t)'
    BY <1>1, <1>5, <1>7 DEF FitsAt
  <1> QED
    BY <1>1, <1>6, <1>8 DEF Holding

\* and the area takes it in its place as before.
LEMMA InAreaWritten ==
    ASSUME NEW S, NEW f, NEW v, NEW m, NEW R, Chain(AreaOf(otp), S, f, v, m, R),
           Chain(AreaOf(otp'), S, f, v, m + 1, R), m \in Nat, Short(f, v),
           NEW n \in Nat, Long(v, n), m # 10 + n,
           \A r \in 0 .. f - 1 : AreaOf(otp')[r] = AreaOf(otp)[r],
           FitsAt(f, v)', NEW req, InArea(req, f, v)
    PROVE  InArea(req, f, v)'
  <1>1. PICK A, B : A = AreaOf(otp) /\ B = AreaOf(otp')
    OBVIOUS
  <1>2. Chain(A, S, f, v, m, R) /\ Chain(B, S, f, v, m + 1, R) /\ Front(B, f, v, m + 1)
    BY <1>1 DEF Chain
  <1>3. PICK a, b : a = ReadArea(A) /\ b = ReadArea(B)
    OBVIOUS
  <1>4. a = Area(otp) /\ b = Area(otp)'
    BY <1>1, <1>3, AreaIs
  <1>5. b.current \in {a.current, Whole(f, v)}
    <2>1. \A r \in 0 .. f - 1 : A[r] = B[r]
      BY <1>1
    <2> QED
      BY <1>2, <1>3, <2>1, NextCurrent
  <1>6. PICK at : at = InstanceAt(B, AreaEnd, f)
    OBVIOUS
  <1>7. 1 <= m + 1
    OBVIOUS
  <1>8. PICK x : FrontWalked(x, at) /\ SaysAs(b, x, R)
    BY <1>2, <1>3, <1>6, <1>7, ChainArea
  <1>9. /\ Given(v) /\ n \in Nat \ {0}
    BY <1>2, FrontBounds DEF Long
  <1>10. ReadsAs(B, at, f, v, m + 1, n)
    BY <1>2, <1>6, <1>7, <1>9, FrontReads
  <1>11. at.how = "ended" /\ at.instance.first = f
    BY <1>10 DEF ReadsAs, Short
  <1>12. /\ b.issues = <<>> /\ b.instances # <<>>
         /\ b.instances[Len(b.instances)].first = f
    BY <1>8, <1>11 DEF FrontWalked, SaysAs
  <1>13. VersionKnown(b) /\ ~IsAbandoned(b)
    BY <1>12 DEF VersionKnown, IsAbandoned
  <1>14. Place(b, v)' = f
    BY <1>12, <1>13 DEF Place
  <1>15. Place(Area(otp), v)' = f
    BY <1>4, <1>14
  <1>16. UnknownKeys(Whole(f, v)) = {}
    BY DEF UnknownKeys, Whole
  <1>17. Used(Whole(f, v), WhoKey) = v.who /\ Used(Whole(f, v), DateKey) = v.date
    BY <1>9, WholeUsed
  <1>18. /\ UnknownKeys(b.current) = {}
         /\ b.current # NoInstance /\ ~req.force =>
              Used(b.current, WhoKey) = v.who /\ Used(b.current, DateKey) = v.date
    BY <1>4, <1>5, <1>16, <1>17 DEF InArea
  <1> QED
    BY <1>4, <1>13, <1>15, <1>18 DEF InArea

\* The locks of its pages wait for all of its rows.
LEMMA LocksStand ==
    ASSUME NEW f, NEW v, LocksAccepted(f, v),
           \A j \in DOMAIN InstancePlan(f, v) :
              Holding(InstancePlan(f, v)[j]) => Holding(InstancePlan(f, v)[j])',
           \A p \in PagesOf(f, v) :
              \/ otp'[LockRow(p)] = otp[LockRow(p)]
              \/ /\ otp'[LockRow(p)] = Exactly(LockWord)
                 /\ \A j \in DOMAIN InstancePlan(f, v) : Holding(InstancePlan(f, v)[j])
    PROVE  LocksAccepted(f, v)'
  <1>1. PICK plan : plan = InstancePlan(f, v)
    OBVIOUS
  <1>2. ASSUME NEW p \in PagesOf(f, v)
        PROVE  \/ otp'[LockRow(p)] = Blank
               \/ /\ otp'[LockRow(p)] = Exactly(LockWord)
                  /\ \A i \in DOMAIN plan : PageLocking(plan[i].row) = p => Holding(plan[i])'
    <2>1. \/ otp[LockRow(p)] = Blank
          \/ /\ otp[LockRow(p)] = Exactly(LockWord)
             /\ \A i \in DOMAIN plan : PageLocking(plan[i].row) = p => Holding(plan[i])
      BY <1>1 DEF LocksAccepted
    <2> QED
      BY <1>1, <2>1
  <1> QED
    BY <1>1, <1>2 DEF LocksAccepted

---------------------------------------------------------------------------
(* A run that may be run again.                                            *)

ValuesOf(req, date) == [who |-> req.who, date |-> date]

SameBoard(area, req) ==
    LET who == Used(area.complete, WhoKey)
    IN  area.complete # NoInstance /\ who # NoValue => who[1] = BoardOf(req)

\* prepare would accept the request as it stands, its instance at first.
Ready(req, first, date) ==
    /\ req \in Requests /\ req.kind \in {"size", "commission"}
    /\ OwnRows(req)
    /\ IF req.kind = "size" THEN VersionKnown(Area(otp)) /\ SameBoard(Area(otp), req)
       ELSE /\ DateAccepted(ValuesOf(req, date))
            /\ InArea(req, first, ValuesOf(req, date))
            /\ LocksAccepted(first, ValuesOf(req, date))

\* What such a run writes.
PlanOf(req, first, date) ==
    IF req.kind = "size" THEN SizePlan(req)
    ELSE CommissionPlan(req, first, ValuesOf(req, date))

\* No instance of a request ends a row before a page does: cut off at the end
\* of the area, it would leave no room for the end of its list.
RoomForEnds == \A req \in Requests : (Len(req.who) + 11) % PageRows # 0

\* The instances of such requests end so that the parser finds the end of the list.
LEMMA ShortOf ==
    ASSUME RoomForEnds, NEW req \in Requests, NEW v, v.who = req.who,
           NEW f \in Nat, f % PageRows = 0
    PROVE  Short(f, v)
  <1> SUFFICES ASSUME NEW n \in Nat, Long(v, n), f + 11 + n = AreaEnd PROVE FALSE
    BY DEF Short
  <1>1. (n + 11) % PageRows # 0
    BY DEF Long, RoomForEnds
  <1>2. PICK p \in Nat \ {0}, k \in Nat : p = PageRows /\ AreaEnd = p * k
    BY AreaAssumption DEF AreaEnd
  <1>3. PICK q \in Nat : f = p * q
    <2>1. PICK j \in Nat : j = f \div p
      BY <1>2
    <2>2. PICK r \in 0 .. p - 1 : f = j * p + r /\ r = f % p
      BY <1>2, <2>1
    <2>3. r = 0
      BY <1>2, <2>2
    <2>4. f = p * j
      BY <1>2, <2>2, <2>3
    <2> QED
      BY <2>4
  <1>4. n + 11 = p * (k - q)
    BY <1>2, <1>3
  <1>5. PICK d \in Int : d = k - q
    BY <1>2, <1>3
  <1>6. (p * d) % p = 0
    BY <1>2
  <1> QED
    BY <1>1, <1>2, <1>4, <1>5, <1>6

\* The values of a request whose date is accepted are those an instance holds.
LEMMA GivenOf ==
    ASSUME Damages = {}, NEW req, Textual(req), NEW date, DateAccepted(ValuesOf(req, date))
    PROVE  Given(ValuesOf(req, date))
  <1>1. PICK d \in 1 .. Days : date = <<d>>
    BY DEF DateAccepted, ValuesOf
  <1>2. d \in Nat \ {0}
    BY DatesAssumption
  <1> QED
    BY <1>1, <1>2 DEF Given, Textual, ValuesOf

\* The rows of its plan are those it may write.
LEMMA PlannedOf ==
    ASSUME Damages = {}, NEW req, Textual(req), NEW first, NEW date,
           Ready(req, first, date), req.kind = "commission"
    PROVE  LET v == ValuesOf(req, date)
           IN  Given(v) /\ PlannedInstance(first, v) /\ first \in 0 .. AreaEnd - 1
               /\ first % PageRows = 0
  <1>1. PICK v : v = ValuesOf(req, date)
    OBVIOUS
  <1>2. Given(v) /\ InArea(req, first, v) /\ LocksAccepted(first, v)
    BY <1>1, GivenOf DEF Ready
  <1>3. FitsAt(first, v)
    BY <1>2, PlaceFits DEF InArea
  <1>4. v.who \in Seq(Nat) /\ v.date \in Seq(Nat) /\ SigOf(v) \in Nat
    BY <1>2, GivenFacts
  <1>5. PlannedInstance(first, v)
    BY <1>2, <1>3, <1>4 DEF PlannedInstance, SigOf
  <1>6. first \in 0 .. AreaEnd - 1 /\ first % PageRows = 0
    BY <1>3 DEF FitsAt, Fits
  <1> QED
    BY <1>1, <1>2, <1>5, <1>6

\* The pages of an instance planned are of the area.
LEMMA PlannedPages ==
    ASSUME NEW first, NEW v, PlannedInstance(first, v), NEW p \in PagesOf(first, v)
    PROVE  p \in 0 .. AreaPages - 1
  <1>1. PICK count \in Nat \ {0} : count = InstanceRowCount(v)
    BY InstanceRows
  <1>2. Fits(first, v)
    BY DEF PlannedInstance, FitsAt
  <1>3. first \in first .. first + count - 1
    BY <1>1, <1>2, WholeArea DEF Fits
  <1> QED
    BY <1>1, <1>2, <1>3, PagesIn

\* Each row of its plan is of its step: outside the area one of the request's own
\* values, in it a row of the instance or the lock of one of its pages.
LEMMA PlanOfRows ==
    ASSUME Damages = {}, NEW req, Textual(req), NEW first, NEW date, Ready(req, first, date),
           NEW k \in Steps, NEW i \in DOMAIN PlanOf(req, first, date)[k]
    PROVE  LET w == PlanOf(req, first, date)[k][i]
               v == ValuesOf(req, date)
           IN  /\ w.row \in Rows
               /\ k \notin {Instance, Locks} \/ req.kind = "size" => Proper(w, req)
               /\ k = Instance /\ req.kind = "commission" =>
                    i \in DOMAIN InstancePlan(first, v) /\ w = InstancePlan(first, v)[i] /\ Aside(w)
               /\ k = Locks /\ req.kind = "commission" =>
                    /\ w.want = Exactly(LockWord) /\ Aside(w)
                    /\ \E p \in PagesOf(first, v) : w.row = LockRow(p)
  <1>1. PICK plan, v : plan = PlanOf(req, first, date) /\ v = ValuesOf(req, date)
    OBVIOUS
  <1>2. PICK w : w = plan[k][i]
    OBVIOUS
  <1>3. req \in Requests /\ req.kind \in {"size", "commission"}
    BY DEF Ready
  <1>4. CASE req.kind = "size"
    <2>1. plan = SizePlan(req)
      BY <1>1, <1>4 DEF PlanOf
    <2>2. Proper(w, req)
      BY <1>1, <1>2, <1>3, <2>1, ProperRows
    <2> QED
      BY <1>1, <1>2, <1>4, <2>2, ProperPages
  <1>5. CASE req.kind = "commission"
    <2>1. PlannedInstance(first, v)
      BY <1>1, <1>5, PlannedOf
    <2>2. plan[k] = IF k = Locks THEN LockPlan(first, v)
                    ELSE IF k = Instance THEN InstancePlan(first, v) ELSE LabelledPlan(req)[k]
      <3>1. DOMAIN LabelledPlan(req) = Steps
        BY DEF LabelledPlan, SizePlan, NoPlan
      <3> QED
        BY <1>1, <1>5, <3>1 DEF PlanOf, CommissionPlan
    <2>3. Instance # Locks
      BY DEF Instance, Locks
    <2>4. PICK count \in Nat \ {0} : count = InstanceRowCount(v)
      BY <2>1, InstanceRows
    <2>5. Fits(first, v) /\ \A x \in first .. first + count - 1 : x \in 0 .. AreaEnd - 1
      <3>1. Fits(first, v)
        BY <2>1 DEF PlannedInstance, FitsAt
      <3> QED
        BY <2>4, <3>1, PagesIn
    <2>6. CASE k = Instance
      <3>1. i \in DOMAIN InstancePlan(first, v) /\ w = InstancePlan(first, v)[i]
        BY <1>1, <1>2, <2>2, <2>3, <2>6
      <3>2. PICK x \in first .. first + count - 1 : w.row = AreaRow(x)
        BY <2>1, <2>4, <3>1, InstanceRows
      <3>3. x \in 0 .. AreaEnd - 1
        BY <2>5
      <3>4. w.row \in Rows /\ Aside(w)
        BY <3>2, <3>3 DEF Rows, Aside
      <3> QED
        BY <1>1, <1>2, <1>5, <2>3, <2>6, <3>1, <3>4
    <2>7. CASE k = Locks
      <3>1. i \in DOMAIN LockPlan(first, v) /\ w = LockPlan(first, v)[i]
        BY <1>1, <1>2, <2>2, <2>7
      <3>2. PICK p \in PagesOf(first, v) : /\ p \in 0 .. LabelPage
                                           /\ w.row = LockRow(p) /\ w.want = Exactly(LockWord)
        BY <2>1, <3>1, LockRows
      <3>3. p \in 0 .. AreaPages - 1
        BY <2>1, <3>2, PlannedPages
      <3>4. w.row \in Rows /\ Aside(w)
        BY <3>2, <3>3 DEF Rows, Aside
      <3> QED
        BY <1>1, <1>2, <1>5, <2>3, <2>7, <3>2, <3>4
    <2>8. CASE k \notin {Instance, Locks}
      <3>1. plan[k] = LabelledPlan(req)[k]
        BY <2>2, <2>8
      <3>2. Proper(w, req)
        BY <1>1, <1>2, <1>3, <3>1, ProperRows
      <3> QED
        BY <1>1, <1>2, <1>5, <2>8, <3>2, ProperPages
    <2> QED
      BY <2>6, <2>7, <2>8
  <1> QED
    BY <1>3, <1>4, <1>5

\* A row written of its plan leaves a run as ready as it was: here a row that
\* is not of its instance nor a lock of its pages,
LEMMA ProperReady ==
    ASSUME OtpForm, EnabledMeansWritten', Damages = {}, NEW req, Textual(req),
           NEW first, NEW date, Ready(req, first, date),
           NEW w, Proper(w, req), otp' = [otp EXCEPT ![w.row] = w.want]
    PROVE  Ready(req, first, date)'
  <1>1. Written(w, req) /\ req \in Requests /\ req.kind \in {"size", "commission"}
    BY ProperPages DEF Written, Ready
  <1>2. OwnRows(req)'
    BY <1>1, OwnRowsStay DEF Ready
  <1>3. \A r \in Rows : r[1] \in {"area", "lock"} => otp'[r] = otp[r]
    <2>1. w.row[1] \notin {"area", "lock"}
      BY ProperPages
    <2> QED
      BY <1>1, <2>1, WrittenRows
  <1>4. AreaKept
    BY <1>3, Apart DEF AreaKept, Rows
  <1>5. Area(otp)' = Area(otp)
    <2>1. AreaOf(otp') = AreaOf(otp)
      BY <1>4 DEF AreaKept, AreaOf
    <2> QED
      BY <2>1, AreaIs
  <1>6. CASE req.kind = "size"
    BY <1>1, <1>2, <1>5, <1>6 DEF Ready, SameBoard
  <1>7. CASE req.kind = "commission"
    <2>1. PICK v : v = ValuesOf(req, date)
      OBVIOUS
    <2>2. DateAccepted(v) /\ InArea(req, first, v) /\ LocksAccepted(first, v)
      BY <1>7, <2>1 DEF Ready
    <2>3. Given(v) /\ PlannedInstance(first, v) /\ first \in 0 .. AreaEnd - 1
      BY <1>7, <2>1, PlannedOf
    <2>4. InArea(req, first, v)'
      BY <1>4, <2>2, <2>3, InAreaKept
    <2>5. LocksAccepted(first, v)'
      <3>1. ASSUME NEW j \in DOMAIN InstancePlan(first, v), Holding(InstancePlan(first, v)[j])
            PROVE  Holding(InstancePlan(first, v)[j])'
        <4>1. Fits(first, v)
          BY <2>3 DEF PlannedInstance, FitsAt
        <4>2. PICK x \in 0 .. AreaEnd - 1 : InstancePlan(first, v)[j].row = AreaRow(x)
          BY <2>3, <4>1, FitsRows
        <4> QED
          BY <1>4, <3>1, <4>2 DEF Holding, AreaKept
      <3>2. ASSUME NEW p \in PagesOf(first, v) PROVE otp'[LockRow(p)] = otp[LockRow(p)]
        <4>1. p \in 0 .. AreaPages - 1
          BY <2>3, PlannedPages
        <4>2. LockRow(p) \in Rows
          BY <4>1, AreaAssumption DEF Rows, LabelPage
        <4> QED
          BY <1>3, <4>2, Apart
      <3> QED
        BY <2>2, <3>1, <3>2, LocksStand
    <2> QED
      BY <1>1, <1>2, <1>7, <2>1, <2>2, <2>4, <2>5 DEF Ready, DateAccepted
  <1> QED
    BY <1>1, <1>6, <1>7

\* here a lock of its pages, after all of its instance,
LEMMA LockReady ==
    ASSUME OtpForm, EnabledMeansWritten', Damages = {}, NEW req, Textual(req),
           NEW first, NEW date, Ready(req, first, date), req.kind = "commission",
           NEW v, v = ValuesOf(req, date),
           \A j \in DOMAIN InstancePlan(first, v) : Holding(InstancePlan(first, v)[j]),
           NEW w, Aside(w), w.row \in Rows, w.want = Exactly(LockWord),
           NEW q \in PagesOf(first, v), w.row = LockRow(q),
           otp' = [otp EXCEPT ![w.row] = w.want]
    PROVE  Ready(req, first, date)'
  <1>1. Written(w, req) /\ req \in Requests
    BY DEF Written, Ready
  <1>2. OwnRows(req)'
    BY <1>1, OwnRowsStay DEF Ready
  <1>3. \A r \in Rows : otp'[r] = IF r = w.row THEN w.want ELSE otp[r]
    BY <1>1, WrittenRows
  <1>4. AreaKept
    BY <1>3, Apart DEF AreaKept, Rows
  <1>5. DateAccepted(v) /\ InArea(req, first, v) /\ LocksAccepted(first, v)
    BY DEF Ready
  <1>6. Given(v) /\ PlannedInstance(first, v)
    BY PlannedOf
  <1>7. InArea(req, first, v)'
    BY <1>4, <1>5, <1>6, InAreaKept
  <1>8. LocksAccepted(first, v)'
    <2>1. ASSUME NEW j \in DOMAIN InstancePlan(first, v)
          PROVE  Holding(InstancePlan(first, v)[j])'
      <3>1. Fits(first, v)
        BY <1>6 DEF PlannedInstance, FitsAt
      <3>2. PICK x \in 0 .. AreaEnd - 1 : InstancePlan(first, v)[j].row = AreaRow(x)
        BY <1>6, <3>1, FitsRows
      <3> QED
        BY <1>4, <3>2 DEF Holding, AreaKept
    <2>2. ASSUME NEW p \in PagesOf(first, v)
          PROVE  otp'[LockRow(p)] \in {otp[LockRow(p)], Exactly(LockWord)}
      <3>1. p \in 0 .. AreaPages - 1
        BY <1>6, PlannedPages
      <3>2. LockRow(p) \in Rows
        BY <3>1, AreaAssumption DEF Rows, LabelPage
      <3> QED
        BY <1>3, <3>2
    <2> QED
      BY <1>5, <2>1, <2>2, LocksStand
  <1> QED
    BY <1>1, <1>2, <1>5, <1>7, <1>8 DEF Ready, DateAccepted

\* One more row of an instance that starts at f is in place.
Grown(S, f, v, m, n, R) ==
    /\ Chain(AreaOf(otp), S, f, v, m, R) /\ Chain(AreaOf(otp'), S, f, v, m + 1, R)
    /\ m \in Nat /\ n \in Nat /\ m # 10 + n /\ Short(f, v) /\ Long(v, n)
    /\ \A r \in 0 .. f - 1 : AreaOf(otp')[r] = AreaOf(otp)[r]
    /\ FitsAt(f, v)'

\* What a run asks of the area is still there then.
LEMMA InAreaGrown ==
    ASSUME NEW S, NEW f, NEW v, NEW m, NEW n, NEW R, Grown(S, f, v, m, n, R),
           NEW req, InArea(req, f, v)
    PROVE  InArea(req, f, v)'
  BY InAreaWritten DEF Grown

\* and here a row of its instance.
LEMMA InstanceReady ==
    ASSUME TInv, Parts, EnabledMeansWritten', Damages = {}, RoomForEnds,
           NEW S, NEW m, Under(S, m), SigOf(RunValues) \in recorded,
           NEW at, IsNext(at), at[1] = Instance,
           NEW req, Textual(req), NEW first, NEW date, Ready(req, first, date),
           req.kind = "commission", NEW v, v = ValuesOf(req, date),
           v = RunValues, first = run.first,
           otp' = [otp EXCEPT ![WriteAt(at).row] = WriteAt(at).want]
    PROVE  Ready(req, first, date)'
  <1>1. Given(v) /\ PlannedInstance(first, v) /\ first \in 0 .. AreaEnd - 1 /\ first % PageRows = 0
    BY PlannedOf
  <1>2. PICK n \in Nat \ {0} : Long(v, n)
    BY <1>1, GivenFacts DEF Long
  <1>3. m \in Nat /\ at = <<Instance, m + 1>> /\ m + 1 \in 1 .. 10 + n
    BY <1>2, NextOfInstance
  <1>4. first \in Nat /\ m # 10 + n /\ AreaEnd \in Nat
    BY <1>1, <1>2, <1>3, WholeArea
  <1>5. run.plan[Instance] = InstancePlan(first, v) /\ Chain(AreaOf(otp), S, first, v, m, recorded)
    BY DEF Under
  <1>6. /\ DOMAIN InstancePlan(first, v) = 1 .. 10 + n
        /\ \A j \in 1 .. 10 + n :
             InstancePlan(first, v)[j] = [row |-> AreaRow(WritesOf(first, v)[j][1]),
                                          want |-> Exactly(WritesOf(first, v)[j][2])]
        /\ InstanceRowCount(v) = 10 + n
    BY <1>1, <1>2, <1>4, PlanAt
  <1>7. PICK w : w = WriteAt(at)
    OBVIOUS
  <1>8. PICK x \in Nat : x = WritesOf(first, v)[m + 1][1] /\ x \in first .. first + 9 + n
    <2>1. WritesOf(first, v)[m + 1][1] = Pos(first, n, m + 1)
      BY <1>1, <1>2, <1>3, <1>4, WritesAt
    <2>2. Pos(first, n, m + 1) \in first .. first + 9 + n
      BY <1>2, <1>3, <1>4, PosApart
    <2> QED
      BY <1>2, <1>4, <2>1, <2>2
  <1>9. /\ w = InstancePlan(first, v)[m + 1] /\ w.row = AreaRow(x)
        /\ w.want = Exactly(WritesOf(first, v)[m + 1][2])
    <2>1. at[1] = Instance /\ at[2] = m + 1
      BY <1>3
    <2>2. w = InstancePlan(first, v)[m + 1]
      BY <1>5, <1>7, <2>1 DEF WriteAt
    <2>3. w = [row |-> AreaRow(x), want |-> Exactly(WritesOf(first, v)[m + 1][2])]
      BY <1>3, <1>6, <1>8, <2>2
    <2> QED
      BY <2>2, <2>3
  <1>10. x \in 0 .. AreaEnd - 1
    <2>1. first + 10 + n <= AreaEnd
      BY <1>1, <1>2, <1>4, <1>6 DEF PlannedInstance, FitsAt, Fits
    <2> QED
      BY <1>2, <1>4, <1>8, <2>1
  <1>11. w.row \in Rows /\ Aside(w) /\ otp' = [otp EXCEPT ![w.row] = w.want]
    BY <1>7, <1>9, <1>10 DEF Rows, Aside
  <1>12. Written(w, req) /\ OtpForm /\ req \in Requests
    BY <1>11 DEF Written, TInv, Ready
  <1>13. OwnRows(req)'
    BY <1>12, OwnRowsStay DEF Ready
  <1>14. DateAccepted(v) /\ InArea(req, first, v) /\ LocksAccepted(first, v)
    BY DEF Ready
  <1>15. /\ FitsAt(first, v)'
         /\ \A j \in DOMAIN InstancePlan(first, v) :
               Holding(InstancePlan(first, v)[j]) => Holding(InstancePlan(first, v)[j])'
    <2>1. m + 1 \in DOMAIN InstancePlan(first, v)
      BY <1>3, <1>6
    <2> QED
      BY <1>1, <1>9, <1>11, <1>12, <2>1, FitsWritten
  <1>16. Chain(AreaOf(otp'), S, first, v, m + 1, recorded)
    <2>1. WriteAt(at).want.value = WriteAt(at).want.value
      OBVIOUS
    <2>2. Chain(AreaOf(otp'), S, run.first, RunValues,
                IF at[1] = Instance THEN m + 1 ELSE m, recorded)
      <3>1. PICK r : r = WriteAt(at).want
        OBVIOUS
      <3>2. r.value = WriteAt(at).want.value /\ otp' = [otp EXCEPT ![WriteAt(at).row] = r]
        BY <3>1
      <3> QED
        BY <3>2, WriteChain
    <2> QED
      BY <2>2
  <1>17. \A r \in 0 .. first - 1 : AreaOf(otp')[r] = AreaOf(otp)[r]
    <2>1. AreaOf(otp') = [AreaOf(otp) EXCEPT ![x] = w.want.value]
      <3>1. PICK want : want = w.want
        OBVIOUS
      <3>2. otp' = [otp EXCEPT ![AreaRow(x)] = want]
        BY <1>9, <1>11, <3>1
      <3> QED
        BY <1>10, <3>1, <3>2, AreaWritten
    <2>2. \A r \in 0 .. first - 1 : r # x /\ r \in 0 .. AreaEnd - 1
      BY <1>4, <1>8, <1>10
    <2>3. DOMAIN AreaOf(otp) = 0 .. AreaEnd - 1
      BY DEF AreaOf
    <2> QED
      BY <2>1, <2>2, <2>3
  <1>18. Short(first, v)
    <2>1. v.who = req.who
      BY DEF ValuesOf
    <2> QED
      BY <1>1, <1>4, <1>12, <2>1, ShortOf
  <1>19. InArea(req, first, v)'
    <2>1. PICK R : R = recorded
      OBVIOUS
    <2>2. Chain(AreaOf(otp), S, first, v, m, R) /\ Chain(AreaOf(otp'), S, first, v, m + 1, R)
      BY <1>5, <1>16, <2>1
    <2>3. m \in Nat /\ Short(first, v) /\ n \in Nat /\ Long(v, n) /\ m # 10 + n
      BY <1>2, <1>3, <1>4, <1>18
    <2>4. Grown(S, first, v, m, n, R)
      BY <1>15, <1>17, <2>2, <2>3 DEF Grown
    <2>5. InArea(req, first, v)
      BY <1>14
    <2> QED
      BY <2>4, <2>5, InAreaGrown
  <1>20. LocksAccepted(first, v)'
    <2>1. ASSUME NEW p \in PagesOf(first, v) PROVE otp'[LockRow(p)] = otp[LockRow(p)]
      <3>1. p \in 0 .. AreaPages - 1
        BY <1>1, PlannedPages
      <3>2. LockRow(p) \in Rows
        BY <3>1, AreaAssumption DEF Rows, LabelPage
      <3>3. LockRow(p) # w.row
        BY <1>9, Apart
      <3> QED
        BY <1>12, <3>2, <3>3, WrittenRows
    <2> QED
      BY <1>14, <1>15, <2>1, LocksStand
  <1> QED
    BY <1>12, <1>13, <1>14, <1>19, <1>20 DEF Ready, DateAccepted

---------------------------------------------------------------------------
(* A run, and what is left of it.                                          *)

\* What is to be written is among what the run would plan now.
InPlan(req, first, date) ==
    /\ run.plan = PlanOf(req, first, date)
    /\ \A at \in run.left : at[1] \in Steps /\ at[2] \in DOMAIN run.plan[at[1]]

\* With the locks to write, no row of the instance is.
LEMMA LocksLast ==
    ASSUME NEW S, NEW m, Under(S, m), NEW at, IsNext(at), at[1] = Locks,
           NEW first, first = run.first, NEW v, v = RunValues, FitsAt(first, v)
    PROVE  \A j \in DOMAIN InstancePlan(first, v) : Holding(InstancePlan(first, v)[j])
  <1>1. Chain(AreaOf(otp), S, first, v, m, recorded) /\ Front(AreaOf(otp), first, v, m)
    BY DEF Under, Chain
  <1>2. PICK n \in Nat \ {0} : Long(v, n) /\ m \in 0 .. 10 + n /\ Given(v) /\ first \in Nat
    BY <1>1, FrontBounds
  <1>3. DOMAIN InstancePlan(first, v) = 1 .. 10 + n
    BY <1>2, PlanAt
  <1>4. ASSUME NEW j \in 1 .. 10 + n PROVE j <= m
    <2>1. j > m => <<Instance, j>> \in run.left
      BY <1>2 DEF Under
    <2>2. <<Instance, j>> \notin run.left
      BY DEF IsNext, Instance, Locks
    <2> QED
      BY <1>2, <2>1, <2>2
  <1>5. ASSUME NEW j \in 1 .. 10 + n PROVE Holding(InstancePlan(first, v)[j])
    <2>1. PICK A, R : A = AreaOf(otp) /\ R = recorded
      OBVIOUS
    <2>2. Chain(A, S, first, v, m, R) /\ n \in Nat
      BY <1>1, <1>2, <2>1
    <2> QED
      BY <1>2, <1>4, <2>1, <2>2, HoldingAt
  <1> QED
    BY <1>3, <1>5

\* A run is as ready to be run again after each row it writes.
LEMMA RowReady ==
    ASSUME IInv, TInv, Placing, Parts, Damages = {}, RoomForEnds,
           run.pc = "writing", NEW at, IsNext(at), Checked(at),
           otp' = [otp EXCEPT ![WriteAt(at).row] = WriteAt(at).want],
           NEW req, req = run.req, NEW first, first = run.first, NEW date, date = run.date,
           Textual(req), Ready(req, first, date), InPlan(req, first, date)
    PROVE  Ready(req, first, date)' /\ PlanOf(req, first, date)' = PlanOf(req, first, date)
  <1>1. OtpForm /\ EnabledMeansWritten'
    <2>1. PICK r : r = WriteAt(at).want
      OBVIOUS
    <2> QED
      BY <2>1, RowChanges DEF IInv
  <1>2. PICK w, v : w = WriteAt(at) /\ v = ValuesOf(req, date)
    OBVIOUS
  <1>3. /\ at[1] \in Steps /\ at[2] \in DOMAIN PlanOf(req, first, date)[at[1]]
        /\ w = PlanOf(req, first, date)[at[1]][at[2]]
    BY <1>2 DEF InPlan, IsNext, WriteAt
  <1>4. PICK k : k = at[1]
    OBVIOUS
  <1>5. /\ w.row \in Rows
        /\ k \notin {Instance, Locks} \/ req.kind = "size" => Proper(w, req)
        /\ k = Instance /\ req.kind = "commission" => Aside(w)
        /\ k = Locks /\ req.kind = "commission" =>
             /\ w.want = Exactly(LockWord) /\ Aside(w)
             /\ \E p \in PagesOf(first, v) : w.row = LockRow(p)
    BY <1>2, <1>3, <1>4, PlanOfRows
  <1>6. req.kind \in {"size", "commission"} /\ otp' = [otp EXCEPT ![w.row] = w.want]
    BY <1>2 DEF Ready
  <1>7. Written(w, req)
    BY <1>5, <1>6 DEF Written
  <1>8. PlanOf(req, first, date)' = PlanOf(req, first, date)
    BY <1>1, <1>7, PlanStays DEF PlanOf, CommissionPlan
  <1>9. CASE Proper(w, req)
    BY <1>1, <1>6, <1>8, <1>9, ProperReady
  <1>10. ASSUME req.kind = "commission", k \in {Instance, Locks} PROVE Ready(req, first, date)'
    <2>1. v = RunValues
      BY <1>2 DEF RunValues, ValuesOf
    <2>2. Commissions
      BY <1>10 DEF Commissions
    <2>3. PICK S, m : Under(S, m)
      BY <2>2 DEF Placing
    <2>4. SigOf(RunValues) \in recorded
      BY <2>2 DEF Placing
    <2>5. CASE k = Instance
      BY <1>1, <1>2, <1>4, <1>10, <2>1, <2>3, <2>4, <2>5, InstanceReady
    <2>6. CASE k = Locks
      <3>1. PICK q \in PagesOf(first, v) : w.row = LockRow(q)
        BY <1>5, <1>10, <2>6
      <3>2. FitsAt(first, v)
        BY <1>2, <1>10, PlannedOf DEF PlannedInstance
      <3>3. \A j \in DOMAIN InstancePlan(first, v) : Holding(InstancePlan(first, v)[j])
        BY <1>4, <2>1, <2>3, <2>6, <3>2, LocksLast
      <3>4. Aside(w) /\ w.want = Exactly(LockWord)
        BY <1>5, <1>10, <2>6
      <3> QED
        BY <1>1, <1>2, <1>5, <1>6, <1>10, <3>1, <3>3, <3>4, LockReady
    <2> QED
      BY <1>10, <2>5, <2>6
  <1> QED
    BY <1>5, <1>6, <1>8, <1>9, <1>10

\* What nothing is written to stays as ready.
LEMMA ReadySame ==
    ASSUME UNCHANGED otp, Damages = {}, NEW req, Textual(req), NEW first, NEW date,
           Ready(req, first, date)
    PROVE  Ready(req, first, date)' /\ PlanOf(req, first, date)' = PlanOf(req, first, date)
  <1>1. /\ SizePlan(req)' = SizePlan(req) /\ LabelledPlan(req)' = LabelledPlan(req)
        /\ PlanOf(req, first, date)' = PlanOf(req, first, date)
    <2>1. SizePlan(req)' = SizePlan(req)
      BY DEF SizePlan, BootFlagsPlan
    <2>2. LabelledPlan(req)' = LabelledPlan(req)
      BY <2>1 DEF LabelledPlan
    <2> QED
      BY <2>1, <2>2 DEF PlanOf, CommissionPlan
  <1>2. OwnRows(req)'
    <2>1. SizeAccepted(req)' <=> SizeAccepted(req)
      BY DEF SizeAccepted, Configured
    <2>2. /\ NoSecondChip' <=> NoSecondChip
          /\ WhiteLabelAccepted(BoardOf(req))' <=> WhiteLabelAccepted(BoardOf(req))
      BY DEF NoSecondChip, WhiteLabelAccepted, Enabled
    <2>3. /\ Unlocked(SizePlan(req))' <=> Unlocked(SizePlan(req))
          /\ Unlocked(LabelledPlan(req))' <=> Unlocked(LabelledPlan(req))
      <3>1. PICK a, b : a = SizePlan(req) /\ b = LabelledPlan(req)
        OBVIOUS
      <3>2. a = SizePlan(req)' /\ b = LabelledPlan(req)'
        BY <1>1, <3>1
      <3> QED
        BY <3>1, <3>2 DEF Unlocked, ToWrite, Holding
    <2> QED
      BY <2>1, <2>2, <2>3 DEF OwnRows, Ready
  <1>3. Area(otp)' = Area(otp)
    OBVIOUS
  <1>4. CASE req.kind = "size"
    BY <1>1, <1>2, <1>3, <1>4 DEF Ready, SameBoard
  <1>5. CASE req.kind = "commission"
    <2>1. PICK v : v = ValuesOf(req, date)
      OBVIOUS
    <2>2. Given(v) /\ InArea(req, first, v) /\ LocksAccepted(first, v) /\ DateAccepted(v)
      BY <1>5, <2>1, GivenOf DEF Ready
    <2>3. InArea(req, first, v)'
      BY <2>2, InAreaKept DEF AreaKept
    <2>4. LocksAccepted(first, v)'
      BY <2>2 DEF LocksAccepted, Holding
    <2> QED
      BY <1>1, <1>2, <1>5, <2>1, <2>2, <2>3, <2>4 DEF Ready
  <1> QED
    BY <1>1, <1>4, <1>5 DEF Ready

---------------------------------------------------------------------------
(* The invariant.                                                          *)

\* Between runs what an interrupted one asked can be asked again,
ReadyAgain ==
    run.pc \in {"idle", "asked"} /\ unfinished.req # NoRequest =>
        Ready(unfinished.req, unfinished.first, unfinished.date)

\* and a run could be started again at any of its rows.
ReadyNow ==
    Active => Ready(run.req, run.first, run.date) /\ InPlan(run.req, run.first, run.date)

RInv == ~damaged => ReadyAgain /\ ReadyNow

\* What prepare accepts is ready.
LEMMA PrepareReady ==
    ASSUME Damages = {}, NEW req \in Requests, Textual(req),
           PrepareCommission(req) \/ PrepareSize(req)
    PROVE  ReadyNow' /\ UNCHANGED <<otp, unfinished, damaged>> /\ run.pc = "idle"
  <1>1. /\ UNCHANGED <<otp, unfinished, damaged>> /\ run.pc = "idle"
    BY DEF PrepareCommission, PrepareSize
  <1>2. \E first, date, plan :
           /\ run'.req = req /\ run'.first = first /\ run'.date = date /\ run'.plan = plan
           /\ run'.left = ToWrite(plan)
           /\ Ready(req, first, date) /\ plan = PlanOf(req, first, date)
    <2>1. CASE PrepareCommission(req)
      <3>1. PICK date, first : date = ChooseDate(Area(otp), req)
                               /\ first = Place(Area(otp), Values(Area(otp), req))
        OBVIOUS
      <3>2. Values(Area(otp), req) = ValuesOf(req, date)
        BY <3>1 DEF Values, ValuesOf
      <3>3. PICK v, plan : v = ValuesOf(req, date) /\ plan = CommissionPlan(req, first, v)
        OBVIOUS
      <3>4. /\ run' = [pc |-> "asked", req |-> req, first |-> first, date |-> v.date,
                       plan |-> plan, left |-> ToWrite(plan), step |-> 0]
            /\ req.kind = "commission" /\ CommissionAccepted(Area(otp), req)
        BY <2>1, <3>1, <3>2, <3>3 DEF PrepareCommission
      <3>5. v.date = date /\ v.who = req.who
        BY <3>3 DEF ValuesOf
      <3>6. /\ run'.req = req /\ run'.first = first /\ run'.date = date /\ run'.plan = plan
            /\ run'.left = ToWrite(plan)
        BY <3>4, <3>5
      <3>7. OwnRows(req) /\ DateAccepted(v) /\ LocksAccepted(first, v)
        BY <3>1, <3>2, <3>3, <3>4 DEF CommissionAccepted, OwnRows
      <3>8. InArea(req, first, v)
        BY <3>1, <3>2, <3>3, <3>4, <3>5 DEF CommissionAccepted, InArea, IsCurrentOrForced
      <3>9. Ready(req, first, date)
        BY <3>3, <3>4, <3>7, <3>8 DEF Ready
      <3>10. plan = PlanOf(req, first, date)
        BY <3>3, <3>4 DEF PlanOf
      <3> QED
        BY <3>6, <3>9, <3>10
    <2>2. CASE PrepareSize(req)
      <3>1. PICK plan, date, first : plan = SizePlan(req) /\ date = NoValue /\ first = NoRow
        OBVIOUS
      <3>2. /\ run' = [Idle EXCEPT !.pc = "asked", !.req = req, !.plan = plan,
                                   !.left = ToWrite(plan)]
            /\ req.kind = "size" /\ SizeRequestAccepted(Area(otp), req)
        BY <2>2, <3>1 DEF PrepareSize
      <3>3. /\ run'.req = req /\ run'.first = first /\ run'.date = date /\ run'.plan = plan
            /\ run'.left = ToWrite(plan)
        BY <3>1, <3>2 DEF Idle
      <3>4. Ready(req, first, date)
        BY <3>2 DEF Ready, OwnRows, SizeRequestAccepted, SameBoard
      <3>5. plan = PlanOf(req, first, date)
        BY <3>1, <3>2 DEF PlanOf
      <3> QED
        BY <3>3, <3>4, <3>5
    <2> QED
      BY <2>1, <2>2
  <1>3. PICK first, date, plan :
           /\ run'.req = req /\ run'.first = first /\ run'.date = date /\ run'.plan = plan
           /\ run'.left = ToWrite(plan)
           /\ Ready(req, first, date) /\ plan = PlanOf(req, first, date)
    BY <1>2
  <1>4. Ready(req, first, date)' /\ plan = PlanOf(req, first, date)'
    BY <1>1, <1>3, ReadySame
  <1>5. \A at \in run'.left : at[1] \in Steps /\ at[2] \in DOMAIN run'.plan[at[1]]
    BY <1>3, LeftIs
  <1> QED
    BY <1>1, <1>3, <1>4, <1>5 DEF ReadyNow, InPlan

\* A row written leaves it so, and ready to be asked again where it was the last.
LEMMA WriteReady ==
    ASSUME IInv, TInv, Placing, Parts, Damages = {}, TextualRequests, RoomForEnds, ReadyNow,
           run.pc = "writing", NEW at, IsNext(at), Checked(at),
           otp' = [otp EXCEPT ![WriteAt(at).row] = WriteAt(at).want]
    PROVE  \A req, first, date : req = run.req /\ first = run.first /\ date = run.date =>
              Ready(req, first, date)' /\ run.plan = PlanOf(req, first, date)'
  <1> SUFFICES ASSUME NEW req, NEW first, NEW date,
                      req = run.req, first = run.first, date = run.date
               PROVE  Ready(req, first, date)' /\ run.plan = PlanOf(req, first, date)'
    OBVIOUS
  <1>1. Ready(req, first, date) /\ InPlan(req, first, date)
    BY DEF ReadyNow, Active
  <1>2. Textual(req)
    BY <1>1 DEF Ready, TextualRequests
  <1>3. Ready(req, first, date)' /\ PlanOf(req, first, date)' = PlanOf(req, first, date)
    BY <1>1, <1>2, RowReady
  <1> QED
    BY <1>1, <1>3 DEF InPlan

\* That is so of every request of the theorems.
LEMMA KeptReady ==
    ASSUME Damages = {}, TextualRequests, UNCHANGED otp,
           NEW req, NEW first, NEW date, Ready(req, first, date)
    PROVE  Ready(req, first, date)' /\ PlanOf(req, first, date)' = PlanOf(req, first, date)
  <1>1. Textual(req)
    BY DEF Ready, TextualRequests
  <1> QED
    BY <1>1, ReadySame

\* A run that is as it was has as much to write.
LEMMA QuietReady ==
    ASSUME Damages = {}, TextualRequests, ReadyNow, UNCHANGED otp, Active' => Active,
           /\ run'.req = run.req /\ run'.first = run.first /\ run'.date = run.date
           /\ run'.plan = run.plan /\ run'.left = run.left
    PROVE  ReadyNow'
  <1> SUFFICES ASSUME Active
               PROVE  (Ready(run.req, run.first, run.date) /\ InPlan(run.req, run.first, run.date))'
    BY DEF ReadyNow
  <1>1. PICK req, first, date : req = run.req /\ first = run.first /\ date = run.date
    OBVIOUS
  <1>2. Ready(req, first, date) /\ InPlan(req, first, date)
    BY <1>1 DEF ReadyNow
  <1>3. Ready(req, first, date)' /\ PlanOf(req, first, date)' = PlanOf(req, first, date)
    BY <1>2, KeptReady
  <1>4. InPlan(req, first, date)'
    BY <1>2, <1>3 DEF InPlan
  <1> QED
    BY <1>1, <1>3, <1>4

\* What was left before may be asked again while nothing is written.
LEMMA LeftReady ==
    ASSUME Damages = {}, TextualRequests, ReadyAgain, UNCHANGED <<otp, unfinished>>,
           run.pc \in {"idle", "asked"}
    PROVE  ReadyAgain'
  <1> SUFFICES ASSUME unfinished.req # NoRequest
               PROVE  Ready(unfinished.req, unfinished.first, unfinished.date)'
    BY DEF ReadyAgain
  <1>1. PICK req, first, date :
              req = unfinished.req /\ first = unfinished.first /\ date = unfinished.date
    OBVIOUS
  <1>2. Ready(req, first, date)
    BY <1>1 DEF ReadyAgain
  <1>3. Ready(req, first, date)'
    BY <1>2, KeptReady
  <1>4. req = unfinished'.req /\ first = unfinished'.first /\ date = unfinished'.date
    BY <1>1
  <1> QED
    BY <1>3, <1>4

\* A run that stops leaves what it was asked to be asked again.
LEMMA StopReady ==
    ASSUME Damages = {}, TextualRequests, Stopped,
           \A req, first, date : req = run.req /\ first = run.first /\ date = run.date =>
              Ready(req, first, date)'
    PROVE  ReadyAgain' /\ ReadyNow'
  <1>1. run' = Idle /\ unfinished' = [req |-> run.req, first |-> run.first, date |-> run.date]
    BY DEF Stopped
  <1>2. ReadyNow'
    BY <1>1 DEF ReadyNow, Active, Idle
  <1>3. PICK req, first, date : req = run.req /\ first = run.first /\ date = run.date
    OBVIOUS
  <1>4. Ready(req, first, date)'
    BY <1>3
  <1>5. unfinished'.req = req /\ unfinished'.first = first /\ unfinished'.date = date
    BY <1>1, <1>3
  <1> QED
    BY <1>2, <1>4, <1>5 DEF ReadyAgain

\* There is nothing to be asked again at first.
LEMMA InitReady == Init => RInv
  <1> SUFFICES ASSUME Init PROVE ReadyAgain /\ ReadyNow
    BY DEF RInv
  <1>1. run.pc = "idle" /\ unfinished.req = NoRequest
    BY DEF Init, Idle, NoRun
  <1> QED
    BY <1>1 DEF ReadyAgain, ReadyNow, Active

\* Every step keeps the invariant.
LEMMA NextReady ==
    ASSUME Damages = {}, TextualRequests, RoomForEnds, IInv, TInv, LInv, RInv, [Next]_vars
    PROVE  RInv'
  <1> SUFFICES ASSUME ~damaged' PROVE ReadyAgain' /\ ReadyNow'
    BY DEF RInv
  <1>1. ~damaged /\ ReadyAgain /\ ReadyNow
    <2>1. damaged' = damaged \/ damaged'
      BY DEF Next, vars, PrepareCommission, PrepareSize, Decline, Agree, AgreeReplyLost,
             CheckFails, WriteRow, WriteInterrupted, WriteDamaged, Decay, Reboot, PowerCycle,
             NextDay, ChangeKey
    <2> QED
      BY <2>1 DEF RInv
  <1>2. run.pc = "writing" => Placing /\ Parts
    BY DEF LInv, Strange
  <1>3. ASSUME NEW req \in Requests, PrepareCommission(req) \/ PrepareSize(req)
        PROVE  ReadyAgain' /\ ReadyNow'
    <2>1. Textual(req)
      BY DEF TextualRequests
    <2>2. ReadyNow' /\ UNCHANGED <<otp, unfinished>> /\ run.pc = "idle"
      BY <1>3, <2>1, PrepareReady
    <2> QED
      BY <1>1, <2>2, LeftReady
  <1>4. ASSUME run.pc \in {"idle", "asked"}, UNCHANGED <<otp, unfinished>>, run' = Idle
        PROVE  ReadyAgain' /\ ReadyNow'
    <2>1. ReadyNow'
      BY <1>4 DEF ReadyNow, Active, Idle
    <2> QED
      BY <1>1, <1>4, <2>1, LeftReady
  <1>5. CASE Decline \/ AgreeReplyLost
    BY <1>4, <1>5 DEF Decline, AgreeReplyLost
  <1>6. CASE Agree
    <2>1. run.pc = "asked" /\ UNCHANGED <<otp, unfinished>>
          /\ (run' = Idle \/ run' = [run EXCEPT !.pc = "writing"])
      BY <1>6 DEF Agree
    <2>2. CASE run' = [run EXCEPT !.pc = "writing"]
      <3>1. /\ run'.req = run.req /\ run'.first = run.first /\ run'.date = run.date
            /\ run'.plan = run.plan /\ run'.left = run.left
        BY <2>2
      <3>2. Active
        BY <2>1 DEF Active
      <3>3. ReadyNow'
        BY <1>1, <2>1, <3>1, <3>2, QuietReady
      <3> QED
        BY <1>1, <2>1, <3>3, LeftReady
    <2> QED
      BY <1>4, <2>1, <2>2
  <1>7. ASSUME NEW at \in run.left, CheckFails(at) PROVE ReadyAgain' /\ ReadyNow'
    <2>1. run.pc = "writing" /\ Stopped /\ UNCHANGED otp
      BY <1>7 DEF CheckFails
    <2>2. ASSUME NEW req, NEW first, NEW date,
                 req = run.req, first = run.first, date = run.date
          PROVE  Ready(req, first, date)'
      BY <1>1, <2>1, <2>2, KeptReady DEF ReadyNow, Active
    <2> QED
      BY <2>1, <2>2, StopReady
  <1>8. ASSUME NEW at \in run.left, WriteRow(at) PROVE ReadyAgain' /\ ReadyNow'
    <2>1. /\ run.pc = "writing" /\ IsNext(at) /\ Checked(at)
          /\ otp' = [otp EXCEPT ![WriteAt(at).row] = WriteAt(at).want]
          /\ run' = [run EXCEPT !.left = @ \ {at}, !.step = at[1],
                                !.pc = IF run.left = {at} THEN "done" ELSE "writing"]
      BY <1>8 DEF WriteRow
    <2>2. /\ run'.left = run.left \ {at} /\ run'.plan = run.plan /\ run'.req = run.req
          /\ run'.first = run.first /\ run'.date = run.date
          /\ run'.pc \in {"done", "writing"}
      BY <2>1
    <2>3. PICK req, first, date : req = run.req /\ first = run.first /\ date = run.date
      OBVIOUS
    <2>4. Ready(req, first, date)' /\ run.plan = PlanOf(req, first, date)'
      BY <1>1, <1>2, <2>1, <2>3, WriteReady
    <2>5. InPlan(run.req, run.first, run.date)
      BY <1>1, <2>1 DEF ReadyNow, Active
    <2>6. InPlan(req, first, date)'
      BY <2>2, <2>4, <2>5 DEF InPlan
    <2>7. req = run'.req /\ first = run'.first /\ date = run'.date
      BY <2>2, <2>3
    <2> QED
      BY <2>2, <2>4, <2>6, <2>7 DEF ReadyAgain, ReadyNow
  <1>9. ASSUME NEW at \in run.left, WriteInterrupted(at) PROVE ReadyAgain' /\ ReadyNow'
    <2>1. run.pc = "writing" /\ Stopped /\ IsNext(at) /\ Checked(at)
      BY <1>9 DEF WriteInterrupted
    <2>2. ASSUME NEW req, NEW first, NEW date,
                 req = run.req, first = run.first, date = run.date
          PROVE  Ready(req, first, date)'
      <3>1. CASE UNCHANGED otp
        BY <1>1, <2>1, <2>2, <3>1, KeptReady DEF ReadyNow, Active
      <3>2. CASE otp' = [otp EXCEPT ![WriteAt(at).row] = WriteAt(at).want]
        BY <1>1, <1>2, <2>1, <2>2, <3>2, WriteReady
      <3> QED
        BY <1>9, <3>1, <3>2 DEF WriteInterrupted
    <2> QED
      BY <2>1, <2>2, StopReady
  <1>10. CASE Decay \/ \E at \in run.left : WriteDamaged(at)
    BY <1>10 DEF Decay, WriteDamaged
  <1>11. CASE Reboot
    <2>1. run' = Idle /\ unfinished' = NoRun
      BY <1>11 DEF Reboot
    <2> QED
      BY <2>1 DEF ReadyAgain, ReadyNow, Active, Idle, NoRun
  <1>12. CASE PowerCycle \/ NextDay \/ ChangeKey \/ UNCHANGED vars
    <2>1. UNCHANGED <<otp, run, unfinished>>
      BY <1>12 DEF PowerCycle, NextDay, ChangeKey, vars
    <2>2. Active' <=> Active
      BY <2>1 DEF Active
    <2>3. ReadyNow'
      BY <1>1, <2>1, <2>2, QuietReady
    <2>4. CASE run.pc \in {"idle", "asked"}
      BY <1>1, <2>1, <2>3, <2>4, LeftReady
    <2>5. CASE run.pc \notin {"idle", "asked"}
      BY <2>1, <2>3, <2>5 DEF ReadyAgain
    <2> QED
      BY <2>3, <2>4, <2>5
  <1> QED
    BY <1>3, <1>5, <1>6, <1>7, <1>8, <1>9, <1>10, <1>11, <1>12 DEF Next

\* What is ready is accepted, on a day that gives it its date.
LEMMA ReadyAccepted == RInv => RetryFinishesInPlace
  <1> SUFFICES ASSUME RInv, run.pc = "idle", unfinished.req # NoRequest, ~damaged
               PROVE  LET req  == unfinished.req
                          area == Area(otp)
                      IN  IF req.kind = "size" THEN SizeRequestAccepted(area, req)
                          ELSE ChooseDate(area, req) = unfinished.date =>
                                 /\ CommissionAccepted(area, req)
                                 /\ Place(area, Values(area, req)) = unfinished.first
    BY DEF RetryFinishesInPlace
  <1>1. PICK req, first, date :
              req = unfinished.req /\ first = unfinished.first /\ date = unfinished.date
    OBVIOUS
  <1>2. Ready(req, first, date)
    BY <1>1 DEF RInv, ReadyAgain
  <1>3. CASE req.kind = "size"
    <2>1. SizeRequestAccepted(Area(otp), req)
      BY <1>2, <1>3 DEF Ready, OwnRows, SizeRequestAccepted, SameBoard
    <2> QED
      BY <1>1, <1>3, <2>1
  <1>4. CASE req.kind # "size"
    <2> SUFFICES ASSUME ChooseDate(Area(otp), req) = date
                 PROVE  /\ CommissionAccepted(Area(otp), req)
                        /\ Place(Area(otp), Values(Area(otp), req)) = first
      BY <1>1, <1>4
    <2>1. PICK v : v = ValuesOf(req, date)
      OBVIOUS
    <2>2. Values(Area(otp), req) = v /\ v.who = req.who /\ v.date = date
      BY <2>1 DEF Values, ValuesOf
    <2>3. OwnRows(req) /\ DateAccepted(v) /\ InArea(req, first, v) /\ LocksAccepted(first, v)
      BY <1>2, <1>4, <2>1 DEF Ready
    <2>4. /\ VersionKnown(Area(otp)) /\ UnknownKeys(Area(otp).current) = {}
          /\ first # NoRow /\ Place(Area(otp), v) = first
          /\ Area(otp).current # NoInstance /\ ~req.force =>
               Used(Area(otp).current, WhoKey) = v.who /\ Used(Area(otp).current, DateKey) = v.date
      BY <2>3 DEF InArea
    <2>5. IsCurrentOrForced(Area(otp), req)
      BY <2>2, <2>4 DEF IsCurrentOrForced
    <2>6. /\ SizeAccepted(req) /\ (req.size = "M" /\ ~req.force => NoSecondChip)
          /\ WhiteLabelAccepted(BoardOf(req)) /\ Unlocked(LabelledPlan(req))
      BY <1>4, <2>3 DEF OwnRows
    <2>7. CommissionAccepted(Area(otp), req)
      BY <2>2, <2>3, <2>4, <2>5, <2>6 DEF CommissionAccepted
    <2> QED
      BY <2>2, <2>4, <2>7
  <1> QED
    BY <1>3, <1>4

\* An interrupted run that damaged nothing can be run again, and finishes the
\* instance where it was begun.
THEOREM RetriesFinish ==
    ASSUME Damages = {}, KnownBoards, TextualRequests, RoomForEnds
    PROVE  Spec => []RetryFinishesInPlace
  <1>1. IInv /\ TInv /\ LInv /\ RInv /\ [Next]_vars => RInv'
    BY NextReady
  <1> QED
    BY <1>1, LSteps, InitReady, ReadyAccepted, InitInv, NextInv, InitTaken, NextTaken, PTL DEF Spec

==============================================================================
