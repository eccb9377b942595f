---------------------------- MODULE Commissioning ----------------------------
(***************************************************************************)
(* Commissioning a board and setting its size: rust/app/src/commission.rs, *)
(* driven as rust/cli/src/hardware.rs drives it.  A run reads the board,   *)
(* checks the request, has the instance signed twice (the second signature *)
(* goes into the public record), then writes its rows one by one, reading  *)
(* each back.  Any write may be interrupted, with the row written or not,  *)
(* and the row a write leaves may be damaged.  OTP bits are never cleared: *)
(* what a failed run leaves is there for every later one, of the same      *)
(* request or of another, on the same day or on the next.                  *)
(*                                                                         *)
(* A row is named <<part, number>>.  The parts: "area" the commissioning   *)
(* area, "lock" the LOCK1 word of a page, "label" the bootloader's USB     *)
(* strings (1) and the white label table (2), "addr" USB_WHITE_LABEL_ADDR, *)
(* "usb" USB_BOOT_FLAGS and its copies, "boot" FLASH_DEVINFO_ENABLE in     *)
(* BOOT_FLAGS0 and its copies, "devinfo" FLASH_DEVINFO, "slot"             *)
(* FLASH_PARTITION_SLOT_SIZE.                                              *)
(***************************************************************************)
EXTENDS OtpArea, FiniteSets

CONSTANTS Boards,       \* what OTP may hold before the first run
          Requests,     \* what users ask for
          Days,         \* the last day
          Damages,      \* what ECC may read from a row damaged beyond repair
          MaxRuns,      \* bound on runs that get as far as a plan
          MaxFaults     \* bound on interrupted and damaged writes

VARIABLES otp,          \* row -> [value, exact]
          locked,       \* pages whose lock the last reset loaded
          today,
          sourceKey,    \* the key the signing source signs with
          recorded,     \* signatures in the public record
          run,          \* the command under way
          runs, faults, \* bounds
          damaged,      \* whether any row was ever damaged
          unfinished    \* the last run that stopped while writing

vars == <<otp, locked, today, sourceKey, recorded, run, runs, faults, damaged, unfinished>>

---------------------------------------------------------------------------
(* Rows and pages. *)

BootPage == AreaPages
LabelPage == AreaPages + 1
Copies == 1 .. 3

LabelRows == {<<"label", 1>>, <<"label", 2>>, <<"addr", 0>>}
UsbRows == {<<"usb", i>> : i \in Copies}
BootRows == {<<"boot", i>> : i \in Copies}
Devinfo == <<"devinfo", 0>>
SlotSize == <<"slot", 0>>
AreaRow(i) == <<"area", i>>
LockRow(p) == <<"lock", p>>

Rows == {AreaRow(i) : i \in 0 .. AreaEnd - 1} \cup {LockRow(p) : p \in 0 .. LabelPage}
        \cup LabelRows \cup UsbRows \cup BootRows \cup {Devinfo, SlotSize}

\* The page whose lock refuses a write to the row.
PageLocking(row) ==
    CASE row[1] = "area"  -> PageOf(row[2])
      [] row[1] = "lock"  -> row[2]
      [] row[1] = "label" -> LabelPage
      [] OTHER            -> BootPage

LockWord == 80
Flag == 81
TableKey == 1

\* LOCK_BL has three copies in the word, so one wrong bit does not unlock.
IsLock(r) == r.value = LockWord
LocksIn(rows) == {p \in 0 .. LabelPage : IsLock(rows[LockRow(p)])}

---------------------------------------------------------------------------
(* What a request asks for.  A request's who is the board, then the        *)
(* manufacturer and signer.                                                *)

BoardIds == 1 .. 9
BoardOf(req) == req.who[1]
Today == 0

LabelValue(board, row) ==
    CASE row = <<"label", 1>> -> 40 + board
      [] row = <<"label", 2>> -> 49
      [] OTHER                -> 48
DevinfoValue(board) == 50 + board
DevinfoValues == {DevinfoValue(board) : board \in BoardIds}

\* The rows that USB_BOOT_FLAGS and BOOT_FLAGS0 enable, and whether a copy of
\* either is set.
WhiteLabelHolds(rows, board) ==
    \A r \in LabelRows : Holds(rows[r], LabelValue(board, r))
SizeHolds(rows, board) ==
    Holds(rows[Devinfo], DevinfoValue(board)) /\ rows[SlotSize].exact
Enabled(rows, flags) == \E f \in flags : rows[f].value = Flag

EnabledOnlyWritten(rows) ==
    /\ Enabled(rows, UsbRows) => \E board \in BoardIds : WhiteLabelHolds(rows, board)
    /\ Enabled(rows, BootRows) => \E board \in BoardIds : SizeHolds(rows, board)

ASSUME BoardsAssumption ==
    \A board \in Boards : board = [r \in Rows |-> board[r]] /\ EnabledOnlyWritten(board)
ASSUME RequestsAssumption ==
    \A req \in Requests : /\ BoardOf(req) \in BoardIds /\ req.size \in {"M", "L"}
                          /\ req.who \in Seq(Nat) /\ req.date \in Today .. Days
ASSUME DatesAssumption == Days \in Nat /\ Damages \subseteq Nat

\* Ed25519: one signature for a key and a message.
Signature(key, values) ==
    1000 * key + 100 * values.date[1] + 10 * values.who[1]
               + (IF Len(values.who) > 1 THEN values.who[2] ELSE 0)

---------------------------------------------------------------------------
(* Reading the board and checking a request. *)

Area(rows) == ReadArea([i \in 0 .. AreaEnd - 1 |-> rows[AreaRow(i)].value])

\* A run using today's date finishes a current instance that differs in
\* nothing but its date.
ChooseDate(area, req) ==
    IF /\ req.date = Today
       /\ area.current # NoInstance
       /\ Used(area.current, WhoKey) = req.who
      THEN Used(area.current, DateKey)
      ELSE <<IF req.date = Today THEN today ELSE req.date>>

Values(area, req) == [who |-> req.who, date |-> ChooseDate(area, req)]

\* CommissioningValues::new: a date has its one length and is digits, which one
\* read back from a damaged instance need not have; what ECC makes of a damaged
\* row may be digits all the same.
DateAccepted(values) == \E d \in (1 .. Days) \cup Damages : values.date = <<d>>

\* Mutant: a row holding another value is written over.
Writable_Always(r, v) == TRUE

\* ecc_write: a row may be written where it is unwritten or holds its value.
Writable(r, v) == Holds(r, v) \/ IsUnwritten(r)

VersionKnown(area) == \A i \in DOMAIN area.issues : area.issues[i].issue # "version"

IsCurrentOrForced(area, req) ==
    area.current # NoInstance /\ ~req.force =>
        /\ Used(area.current, WhoKey) = req.who
        /\ Used(area.current, DateKey) = ChooseDate(area, req)

\* board_size: FLASH_DEVINFO counts where two copies of BOOT_FLAGS0 enable it.
Configured ==
    IF Cardinality({r \in BootRows : otp[r].value = Flag}) < 2 THEN "M"
    ELSE IF otp[Devinfo].value \in DevinfoValues THEN "L" ELSE "other"

SizeAccepted(req) ==
    /\ Configured \in {"M", req.size}
    /\ req.size = "L" => /\ otp[SlotSize].exact
                         /\ Writable(otp[Devinfo], DevinfoValue(BoardOf(req)))

NoSecondChip ==
    IsUnwritten(otp[Devinfo]) /\ ~Enabled(otp, BootRows)

WhiteLabelAccepted(board) ==
    /\ \A r \in LabelRows : Writable(otp[r], LabelValue(board, r))
    /\ \A r \in UsbRows : otp[r] \in {Blank, Exactly(Flag)}

---------------------------------------------------------------------------
(* Planning.  A plan is, for each step in the order they are taken, the    *)
(* rows it writes and what each shall hold; a row that already holds it is *)
(* not written.                                                            *)

FlashDevinfo == 1
Instance == 2
Locks == 3
WhiteLabel == 4         \* the strings, the table and the address
UsbBootFlags == 5
BootFlags0 == 6
Steps == 1 .. 6

NoPlan == [k \in Steps |-> <<>>]
Write(row, want) == [row |-> row, want |-> want]

Holding(w) == otp[w.row] = w.want
ToWrite(plan) ==
    UNION {{<<k, i>> : i \in {j \in DOMAIN plan[k] : ~Holding(plan[k][j])}} : k \in Steps}

InstancePlan(first, values) ==
    LET writes == InstanceWrites(first, values, Signature(TableKey, values))
    IN  [i \in DOMAIN writes |-> Write(AreaRow(writes[i][1]), Exactly(writes[i][2]))]

PagesOf(first, values) == PageOf(first) .. PageOf(first + InstanceRowCount(values) - 1)

LockPlan(first, values) ==
    [i \in 1 .. Cardinality(PagesOf(first, values)) |->
        Write(LockRow(PageOf(first) + i - 1), Exactly(LockWord))]

WhiteLabelPlan(board) ==
    LET Label(row) == Write(row, Exactly(LabelValue(board, row)))
    IN  <<Label(<<"label", 1>>), Label(<<"label", 2>>), Label(<<"addr", 0>>)>>

UsbPlan == [i \in Copies |-> Write(<<"usb", i>>, Exactly(Flag))]

DevinfoPlan(board) == <<Write(Devinfo, Exactly(DevinfoValue(board)))>>

\* The other bits of BOOT_FLAGS0 are written back as they were read.
BootFlagsPlan ==
    [i \in Copies |-> 
        Write(<<"boot", i>>, [value |-> Flag, exact |-> otp[<<"boot", i>>].exact])]

\* The part of every plan that sets the size: nothing for an M board.
SizePlan(req) ==
    IF req.size = "M" THEN NoPlan
    ELSE [NoPlan EXCEPT ![FlashDevinfo] = DevinfoPlan(BoardOf(req)),
                        ![BootFlags0]   = BootFlagsPlan]

LabelledPlan(req) ==
    [SizePlan(req) EXCEPT ![WhiteLabel]   = WhiteLabelPlan(BoardOf(req)),
                          ![UsbBootFlags] = UsbPlan]

CommissionPlan(req, first, values) ==
    [LabelledPlan(req) EXCEPT ![Instance] = InstancePlan(first, values),
                              ![Locks]    = LockPlan(first, values)]

\* check_locks: the page lock, as the lock words give it, of a row to write.
Unlocked(plan) ==
    \A at \in ToWrite(plan) : ~IsLock(otp[LockRow(PageLocking(plan[at[1]][at[2]].row))])

FitsAt(first, values) ==
    /\ Fits(first, values)
    /\ \A i \in DOMAIN InstancePlan(first, values) :
          LET w == InstancePlan(first, values)[i] IN Writable(otp[w.row], w.want.value)

AfterLastWritten ==
    LET written == {i \in 0 .. AreaEnd - 1 : ~IsUnwritten(otp[AreaRow(i)])}
    IN  IF written = {} THEN 0
        ELSE PageAfter(CHOOSE i \in written : \A j \in written : j <= i)

NextPlace(area) ==
    IF area.next # NoRow THEN area.next
    ELSE IF IsAbandoned(area) THEN AfterLastWritten ELSE NoRow

\* Mutant: never where an interrupted run left off.
Place_AlwaysNext(area, values) ==
    IF NextPlace(area) # NoRow /\ FitsAt(NextPlace(area), values) THEN NextPlace(area) ELSE NoRow

\* Mutant: finishes an instance the parser found no way past.
Place_Abandoned(area, values) ==
    LET last == area.instances[Len(area.instances)].first
    IN  IF area.instances # <<>> /\ FitsAt(last, values) THEN last
        ELSE IF NextPlace(area) # NoRow /\ FitsAt(NextPlace(area), values) THEN NextPlace(area)
        ELSE NoRow

\* The last instance's row where the new one can take every row there, else
\* the next free page.
Place(area, values) ==
    LET last == area.instances[Len(area.instances)].first
    IN  IF ~IsAbandoned(area) /\ area.instances # <<>> /\ FitsAt(last, values) THEN last
        ELSE IF NextPlace(area) # NoRow /\ FitsAt(NextPlace(area), values) THEN NextPlace(area)
        ELSE NoRow

LocksAccepted(first, values) ==
    \A p \in PagesOf(first, values) :
        \/ otp[LockRow(p)] = Blank
        \/ /\ otp[LockRow(p)] = Exactly(LockWord)
           /\ \A i \in DOMAIN InstancePlan(first, values) :
                 LET w == InstancePlan(first, values)[i]
                 IN  PageLocking(w.row) = p => Holding(w)

\* prepare and Prepared::plan: what either refuses, it refuses before anything
\* is written.
CommissionAccepted(area, req) ==
    LET values == Values(area, req)
        first  == Place(area, values)
    IN  /\ VersionKnown(area)
        /\ UnknownKeys(area.current) = {}
        /\ DateAccepted(values)
        /\ IsCurrentOrForced(area, req)
        /\ SizeAccepted(req)
        /\ req.size = "M" /\ ~req.force => NoSecondChip
        /\ WhiteLabelAccepted(BoardOf(req))
        /\ Unlocked(LabelledPlan(req))
        /\ first # NoRow
        /\ LocksAccepted(first, values)

\* plan_size looks at the board of the last complete instance only.
SizeRequestAccepted(area, req) ==
    /\ VersionKnown(area)
    /\ LET who == Used(area.complete, WhoKey)
       IN  area.complete # NoInstance /\ who # NoValue => who[1] = BoardOf(req)
    /\ SizeAccepted(req)
    /\ Unlocked(SizePlan(req))

---------------------------------------------------------------------------
(* A run. *)

NoRequest == [kind |-> "none", who |-> <<>>, date |-> Today, force |-> FALSE, size |-> "M"]
Idle == [pc |-> "idle", req |-> NoRequest, first |-> NoRow, date |-> NoValue,
         plan |-> NoPlan, left |-> {}, step |-> 0]
NoRun == [req |-> NoRequest, first |-> NoRow, date |-> NoValue]

CompleteIn(area) ==
    {i \in {area.instances[j] : j \in DOMAIN area.instances} : IsComplete(i)}

Init ==
    /\ otp \in Boards
    /\ locked = LocksIn(otp)
    /\ today = 1
    /\ sourceKey = TableKey
    /\ recorded = {Used(i, SigKey)[1] : i \in CompleteIn(Area(otp))}
    /\ run = Idle
    /\ runs = 0 /\ faults = 0
    /\ damaged = FALSE
    /\ unfinished = NoRun

\* The run as it is shown to the user, with a signature that is not recorded
\* and that check_signature has verified against the table's key.
PrepareCommission(req) ==
    LET area   == Area(otp)
        values == Values(area, req)
        plan   == CommissionPlan(req, Place(area, values), values)
    IN  /\ run.pc = "idle" /\ runs < MaxRuns
        /\ req.kind = "commission"
        /\ CommissionAccepted(area, req)
        /\ sourceKey = TableKey
        /\ ToWrite(plan) # {}
        /\ run' = [pc |-> "asked", req |-> req,
                   first |-> Place(area, values), date |-> values.date,
                   plan |-> plan, left |-> ToWrite(plan), step |-> 0]
        /\ runs' = runs + 1
        /\ UNCHANGED <<otp, locked, today, sourceKey, recorded, faults, damaged, unfinished>>

PrepareSize(req) ==
    /\ run.pc = "idle" /\ runs < MaxRuns
    /\ req.kind = "size"
    /\ SizeRequestAccepted(Area(otp), req)
    /\ ToWrite(SizePlan(req)) # {}
    /\ run' = [Idle EXCEPT !.pc = "asked", !.req = req,
                           !.plan = SizePlan(req), !.left = ToWrite(SizePlan(req))]
    /\ runs' = runs + 1
    /\ UNCHANGED <<otp, locked, today, sourceKey, recorded, faults, damaged, unfinished>>

\* The user says no, or the source fails before it records.
Decline ==
    /\ run.pc = "asked"
    /\ run' = Idle
    /\ UNCHANGED <<otp, locked, today, sourceKey, recorded, runs, faults, damaged, unfinished>>

RecordedSignature ==
    Signature(sourceKey, [who |-> run.req.who, date |-> run.date])


\* Mutant: the recorded signature is not compared with the one shown.
Agree_AnySignature ==
    /\ run.pc = "asked"
    /\ run' = [run EXCEPT !.pc = "writing"]
    /\ recorded' = IF run.req.kind = "size" THEN recorded
                   ELSE recorded \cup {RecordedSignature}
    /\ UNCHANGED <<otp, locked, today, sourceKey, runs, faults, damaged, unfinished>>

\* The user agrees.  The source signs again and records what it signed; the
\* run goes on where that is the signature it was shown.
Agree ==
    /\ run.pc = "asked"
    /\ IF run.req.kind = "size"
         THEN run' = [run EXCEPT !.pc = "writing"] /\ UNCHANGED recorded
         ELSE /\ recorded' = recorded \cup {RecordedSignature}
              /\ run' = IF sourceKey = TableKey THEN [run EXCEPT !.pc = "writing"] ELSE Idle
    /\ UNCHANGED <<otp, locked, today, sourceKey, runs, faults, damaged, unfinished>>

\* It is recorded and the reply is lost.
AgreeReplyLost ==
    /\ run.pc = "asked" /\ run.req.kind = "commission"
    /\ recorded' = recorded \cup {RecordedSignature}
    /\ run' = Idle
    /\ UNCHANGED <<otp, locked, today, sourceKey, runs, faults, damaged, unfinished>>

---------------------------------------------------------------------------
(* Writing.  execute checks, before the first row a step writes, the rows  *)
(* that step enables.                                                      *)

IsNext(at) ==
    /\ at \in run.left
    /\ \A other \in run.left : at[1] < other[1] \/ (at[1] = other[1] /\ at[2] <= other[2])

WriteAt(at) == run.plan[at[1]][at[2]]

\* Mutant: nothing is read back before the flags.
CheckEnabled_Never(step) == TRUE

CheckEnabled(step) ==
    /\ step = UsbBootFlags => WhiteLabelHolds(otp, BoardOf(run.req))
    /\ step = BootFlags0 => SizeHolds(otp, BoardOf(run.req))

Checked(at) == at[1] # run.step => CheckEnabled(at[1])

\* The chip sets bits and clears none, on a page that is not locked.
ChipTakes(w) ==
    /\ PageLocking(w.row) \notin locked
    /\ w.row \in BootRows \/ IsUnwritten(otp[w.row])

Stopped ==
    /\ run' = Idle
    /\ unfinished' = [req |-> run.req, first |-> run.first, date |-> run.date]

CheckFails(at) ==
    /\ run.pc = "writing" /\ IsNext(at) /\ ~Checked(at)
    /\ Stopped
    /\ UNCHANGED <<otp, locked, today, sourceKey, recorded, runs, faults, damaged>>

WriteRow(at) ==
    /\ run.pc = "writing" /\ IsNext(at) /\ Checked(at) /\ ChipTakes(WriteAt(at))
    /\ otp' = [otp EXCEPT ![WriteAt(at).row] = WriteAt(at).want]
    /\ run' = [run EXCEPT !.left = @ \ {at}, !.step = at[1],
                          !.pc = IF run.left = {at} THEN "done" ELSE "writing"]
    /\ UNCHANGED <<locked, today, sourceKey, recorded, runs, faults, damaged, unfinished>>

\* The write fails, or its reply or its read back is lost: the row may have
\* been written all the same.  A row the chip refuses is not.
WriteInterrupted(at) ==
    /\ run.pc = "writing" /\ IsNext(at) /\ Checked(at)
    /\ faults < MaxFaults \/ ~ChipTakes(WriteAt(at))
    /\ faults' = IF ChipTakes(WriteAt(at)) THEN faults + 1 ELSE faults
    /\ \/ UNCHANGED otp
       \/ ChipTakes(WriteAt(at)) /\ otp' = [otp EXCEPT ![WriteAt(at).row] = WriteAt(at).want]
    /\ Stopped
    /\ UNCHANGED <<locked, today, sourceKey, recorded, runs, damaged>>

\* The row is left with a wrong bit, or with more than ECC can repair.  It
\* does not read back as written.
WriteDamaged(at) ==
    /\ run.pc = "writing" /\ IsNext(at) /\ Checked(at) /\ ChipTakes(WriteAt(at))
    /\ faults < MaxFaults
    /\ \E v \in Damages \cup {WriteAt(at).want.value} :
          otp' = [otp EXCEPT ![WriteAt(at).row] = [value |-> v, exact |-> FALSE]]
    /\ faults' = faults + 1
    /\ damaged' = TRUE
    /\ Stopped
    /\ UNCHANGED <<locked, today, sourceKey, recorded, runs>>

\* A row that a flag is about to enable goes wrong after it was read.
EnabledBy(row) == IF row \in LabelRows THEN UsbRows ELSE BootRows

Decay ==
    /\ run.pc = "writing" /\ faults < MaxFaults
    /\ \E row \in LabelRows \cup {Devinfo, SlotSize} :
          /\ row # SlotSize => ~IsUnwritten(otp[row])
          /\ otp[row].exact
          /\ ~Enabled(otp, EnabledBy(row))
          /\ otp' = [otp EXCEPT ![row].exact = FALSE]
    /\ faults' = faults + 1
    /\ damaged' = TRUE
    /\ UNCHANGED <<locked, today, sourceKey, recorded, run, runs, unfinished>>

\* The command reboots the board after a run that wrote.
Reboot ==
    /\ run.pc = "done"
    /\ run' = Idle
    /\ locked' = LocksIn(otp)
    /\ unfinished' = NoRun
    /\ UNCHANGED <<otp, today, sourceKey, recorded, runs, faults, damaged>>

PowerCycle ==
    /\ run.pc = "idle" /\ locked # LocksIn(otp)
    /\ locked' = LocksIn(otp)
    /\ UNCHANGED <<otp, today, sourceKey, recorded, run, runs, faults, damaged, unfinished>>

NextDay ==
    /\ run.pc = "idle" /\ today < Days
    /\ today' = today + 1
    /\ UNCHANGED <<otp, locked, sourceKey, recorded, run, runs, faults, damaged, unfinished>>

ChangeKey ==
    /\ run.pc = "asked" /\ sourceKey = TableKey
    /\ sourceKey' = TableKey + 1
    /\ UNCHANGED <<otp, locked, today, recorded, run, runs, faults, damaged, unfinished>>

Next ==
    \/ \E req \in Requests : PrepareCommission(req) \/ PrepareSize(req)
    \/ Decline \/ Agree \/ AgreeReplyLost
    \/ \E at \in run.left :
          CheckFails(at) \/ WriteRow(at) \/ WriteInterrupted(at) \/ WriteDamaged(at)
    \/ Decay
    \/ Reboot \/ PowerCycle \/ NextDay \/ ChangeKey

Spec == Init /\ [][Next]_vars

---------------------------------------------------------------------------
(* Properties. *)

\* A flag that cannot be cleared is set, in any of its copies, only where the
\* rows it enables hold their values: the white label of one board for
\* USB_BOOT_FLAGS, FLASH_DEVINFO and a slot size without a wrong bit for
\* BOOT_FLAGS0, without which the chip would never boot again.
EnabledMeansWritten == EnabledOnlyWritten(otp)

\* The instance One ROM takes as its own is one that was signed: its values,
\* read back, are those its signature covers, though its rows may be the work
\* of several runs and of several requests.
CurrentVerifies ==
    LET current == Area(otp).current
        values  == [who |-> Used(current, WhoKey), date |-> Used(current, DateKey)]
    IN  current # NoInstance =>
          /\ current.signed = SignedRows(values)
          /\ Used(current, SigKey) = <<Signature(TableKey, values)>>

\* An instance is complete on the board only once its signature is in the
\* public record.
CompleteIsRecorded ==
    \A i \in CompleteIn(Area(otp)) : Used(i, SigKey)[1] \in recorded

\* A run that ends well leaves its request as the current instance, whatever
\* earlier runs left in the area, every page of it locked.
DoneMeansCurrent ==
    run.pc = "done" /\ run.req.kind = "commission" =>
        LET current == Area(otp).current
        IN  /\ current.first = run.first
            /\ Used(current, WhoKey) = run.req.who
            /\ Used(current, DateKey) = run.date
            /\ \A p \in PagesOf(run.first, [who |-> run.req.who, date |-> run.date]) :
                  IsLock(otp[LockRow(p)])

\* A run that was interrupted and damaged nothing is finished by running it
\* again on a day that gives it the same date: it is accepted, and its
\* instance goes where the first run had put it.
RetryFinishesInPlace ==
    LET req  == unfinished.req
        area == Area(otp)
    IN  run.pc = "idle" /\ req # NoRequest /\ ~damaged =>
          IF req.kind = "size" THEN SizeRequestAccepted(area, req)
          ELSE ChooseDate(area, req) = unfinished.date =>
                 /\ CommissionAccepted(area, req)
                 /\ Place(area, Values(area, req)) = unfinished.first

\* The chip never refuses a row of a plan: what prepare read is enough to know
\* that every row is free and on a page that is not locked.
NoRefusedWrite ==
    \A at \in run.left : run.pc = "writing" => ChipTakes(WriteAt(at))

==============================================================================
