--------------------------- MODULE RbcpHandshake ---------------------------
(***************************************************************************)
(* The RBCP exchange between a host CPU and the host-control plugin, one   *)
(* bus read and one header byte at a time.                                 *)
(*                                                                         *)
(* The host has one way to speak: it reads ROM addresses.  A DMA channel   *)
(* captures every read into a ring, and the plugin takes command bytes     *)
(* from it.  The plugin has one way to answer: it rewrites bytes of the    *)
(* served image, and the host polls them.  Nothing synchronises the two    *)
(* but the order in which bytes are written and read, which is what this   *)
(* module keeps: cmd_begin and cmd_end write one header byte per step, and *)
(* the host's snapshot / send / poll token / poll progress / read sequence *)
(* is one read per step.                                                   *)
(*                                                                         *)
(* Commands are reduced to the kinds whose processing sequences differ.    *)
(* Bytes carry the serial number of the command they belong to, so that a  *)
(* byte or an answer taken for another command's is visible.               *)
(***************************************************************************)
EXTENDS Naturals, Sequences, FiniteSets

CONSTANTS
  Slots,         \* RAM slots the host may name
  RingEntries,   \* entries in the capture ring (64 in the plugin)
  TokenMod,      \* values of a token byte (256 in the plugin)
  MaxCommands,   \* bound: commands the host issues in a behaviour
  HostLockstep,  \* after SWITCH_SLOT the host waits for the device to idle
  HostArms       \* before SWITCH_SLOT the host pokes the target's token byte

ASSUME RingAssumption  == RingEntries \in Nat /\ RingEntries >= 5
ASSUME TokenAssumption == TokenMod \in Nat /\ TokenMod >= 2
ASSUME SlotAssumption  == Slots # {}

VARIABLES
  served,   \* the RAM slot the PIO serves to the host
  hdr,      \* response header and first data byte of each slot
  ring,     \* captured reads not yet taken, oldest first
  pc, step, \* where the plugin is, and which header byte it writes next
  active,   \* s_state.active
  slot,     \* s_state.active_slot
  token,    \* s_state.token_lsb and token_msb
  cur,      \* the command being run: its bytes and its outcome
  hpc,      \* where the host is
  out,      \* frame bytes the host has still to send
  cmd,      \* the command the host last issued
  before,   \* the token byte it read before sending
  reply,    \* what it read after completion
  session,  \* the host believes command-response mode is on
  issued    \* commands issued so far

devVars  == <<pc, step, active, slot, token, cur>>
hostVars == <<hpc, out, cmd, before, reply, session, issued>>
vars     == <<served, hdr, ring, devVars, hostVars>>

----------------------------------------------------------------------------
(* Commands, bytes and the ring.                                           *)

Kinds    == {"nop", "peek", "switch", "exit_ack", "exit_silent", "enter"}
HasArg   == {"peek", "switch", "enter"}

\* Arguments by what the handler makes of them.
Args(k) ==
  CASE k = "peek"   -> {"good", "bad"}
    [] k = "enter"  -> {"good", "oversize", "discard"}
    [] k = "switch" -> Slots
    [] OTHER        -> {"none"}

NoByte   == [n |-> 0, pos |-> "none", val |-> "none"]
OffPage  == [n |-> 0, pos |-> "off", val |-> "none"]
Knock(n) == [n |-> n, pos |-> "knock", val |-> "none"]

Frame(n, k, a) ==
  (IF k = "enter" THEN <<Knock(n)>> ELSE <<>>)
    \o <<[n |-> n, pos |-> "group", val |-> k], [n |-> n, pos |-> "cmd", val |-> k]>>
    \o (IF k \in HasArg THEN <<[n |-> n, pos |-> "arg", val |-> a]>> ELSE <<>>)

\* The kind GROUP and CMD select; anything else is a command nobody defined.
Decoded(g, c) ==
  IF g.pos = "group" /\ c.pos = "cmd" /\ g.val = c.val THEN g.val ELSE "unknown"

\* A read lands at the DMA's write index.  The ring is empty when the indices
\* are equal, so the entry that laps the reader makes all of them vanish.
Captured(r, b) == IF Len(r) + 1 = RingEntries THEN <<>> ELSE Append(r, b)

\* The device drains the ring faster than the host can lap a command byte:
\* the entry that would lap the reader neither is one nor takes one with it.
KeepsUp(b) ==
  b.pos # "off" \/ (\E i \in DOMAIN ring : ring[i].pos # "off")
    => Len(ring) + 1 < RingEntries

IsSilent_AllExits(k) == k \in {"exit_silent", "exit_ack"}
IsSilent(k) == k = "exit_silent"

----------------------------------------------------------------------------
(* The response header.  progress and response hold what they read as:     *)
(* TRUE for the host's "complete" and "status OK" values.                  *)

HeaderFields == {"progress", "lsb", "msb", "group", "cmd", "response", "data"}

BeginOrder_TokenFirst == <<"lsb", "progress", "msb", "group", "cmd">>
BeginOrder == <<"progress", "lsb", "msb", "group", "cmd">>

EndOrder_ResetLast == <<"response", "progress", "reset ring">>
EndOrder == <<"response", "reset ring", "progress">>

NextToken(t) ==
  LET lsb == (t.lsb + 1) % TokenMod
  IN [lsb |-> lsb, msb |-> IF lsb = 0 THEN (t.msb + 1) % TokenMod ELSE t.msb]

\* What cmd_begin puts in each field.  The token is advanced before its
\* first byte is written, so the second is taken from the new token.
BeginValue_CarryTwice(f) ==
  CASE f = "progress" -> FALSE
    [] f = "lsb"      -> NextToken(token).lsb
    [] f = "msb"      -> NextToken(token).msb
    [] f = "group"    -> cur.group.n
    [] f = "cmd"      -> cur.cmd.n
BeginValue(f) ==
  CASE f = "progress" -> FALSE
    [] f = "lsb"      -> NextToken(token).lsb
    [] f = "msb"      -> token.msb
    [] f = "group"    -> cur.group.n
    [] f = "cmd"      -> cur.cmd.n

HdrWrite(s, f, v) == hdr' = [hdr EXCEPT ![s][f] = v]

----------------------------------------------------------------------------
Idle == [group |-> NoByte, cmd |-> NoByte, arg |-> NoByte,
         wasActive |-> FALSE, ok |-> FALSE]

\* The header bytes of an image are whatever the image holds there.
Init ==
  /\ served \in Slots
  /\ \E p \in [Slots -> BOOLEAN], l \in [Slots -> 0..TokenMod - 1] :
       hdr = [s \in Slots |-> [progress |-> p[s], lsb |-> l[s], msb |-> 0,
                               group |-> 0, cmd |-> 0,
                               response |-> TRUE, data |-> 0]]
  /\ ring = <<>>
  /\ pc = "knock" /\ step = 1
  /\ active = FALSE /\ slot = served
  /\ token = [lsb |-> 0, msb |-> 0]
  /\ cur = Idle
  /\ hpc = "idle" /\ out = <<>> /\ cmd = [kind |-> "nop", arg |-> "none"]
  /\ before = 0 /\ reply = [ok |-> FALSE, data |-> 0]
  /\ session = FALSE /\ issued = 0

----------------------------------------------------------------------------
(* The plugin.                                                             *)

Goto(p) == pc' = p /\ step' = 1

\* wait_for_knock is called with no start position: it listens from the
\* ring's current write position, and what was captured before is gone.
DevListen ==
  /\ pc = "rearm"
  /\ ring' = <<>>
  /\ Goto("knock")
  /\ UNCHANGED <<served, hdr, active, slot, token, cur, hostVars>>

DevKnock ==
  /\ pc = "knock" /\ ring # <<>>
  /\ ring' = Tail(ring)
  /\ IF Head(ring).pos = "knock" THEN Goto("group") ELSE UNCHANGED <<pc, step>>
  /\ UNCHANGED <<served, hdr, active, slot, token, cur, hostVars>>

\* ring_read_byte: in a session a read off the command page is not a byte.
TakeByte ==
  /\ ring # <<>>
  /\ ring' = Tail(ring)
  /\ ~ (active /\ Head(ring).pos = "off")

DevSkip ==
  /\ pc \in {"group", "cmd", "arg"} /\ ring # <<>>
  /\ active /\ Head(ring).pos = "off"
  /\ ring' = Tail(ring)
  /\ UNCHANGED <<served, hdr, devVars, hostVars>>

DevGroup ==
  /\ pc = "group" /\ TakeByte
  /\ cur' = [Idle EXCEPT !.group = Head(ring)]
  /\ Goto("cmd")
  /\ UNCHANGED <<served, hdr, active, slot, token, hostVars>>

\* run_command: the header turns pending before a command is processed,
\* unless there is no session or the command must not touch it.
DevCmd ==
  /\ pc = "cmd" /\ TakeByte
  /\ cur' = [cur EXCEPT !.cmd = Head(ring), !.wasActive = active]
  /\ Goto(IF active /\ ~IsSilent(Decoded(cur.group, Head(ring)))
          THEN "begin" ELSE "dispatch")
  /\ UNCHANGED <<served, hdr, active, slot, token, hostVars>>

DevBegin ==
  /\ pc = "begin"
  /\ LET f == BeginOrder[step] IN
       /\ HdrWrite(slot, f, BeginValue(f))
       /\ token' = IF f = "lsb" THEN NextToken(token) ELSE token
  /\ IF step < Len(BeginOrder)
     THEN step' = step + 1 /\ UNCHANGED pc
     ELSE Goto(IF cur.wasActive THEN "dispatch" ELSE "end")
  /\ UNCHANGED <<served, ring, active, slot, cur, hostVars>>

Kind == Decoded(cur.group, cur.cmd)

\* Where run_command goes once a handler has returned.
AfterHandler == IF cur.wasActive /\ ~IsSilent(Kind) THEN "end"
                ELSE IF active' THEN "group" ELSE "rearm"

DevDispatch ==
  /\ pc = "dispatch"
  /\ IF Kind \in HasArg
     THEN Goto("arg") /\ UNCHANGED <<active, cur>>
     ELSE /\ active' = (active /\ Kind \notin {"exit_ack", "exit_silent"})
          /\ cur' = [cur EXCEPT !.ok = (Kind # "unknown")]
          /\ Goto(AfterHandler)
  /\ UNCHANGED <<served, hdr, ring, slot, token, hostVars>>

DevArg ==
  /\ pc = "arg" /\ TakeByte
  /\ cur' = [cur EXCEPT !.arg = Head(ring)]
  /\ Goto(Kind)
  /\ UNCHANGED <<served, hdr, active, slot, token, hostVars>>

\* SLOT_PEEK stands for the commands that answer in the data section.
DevPeek ==
  /\ pc = "peek"
  /\ LET good == cur.arg.val = "good" /\ active IN
       /\ cur' = [cur EXCEPT !.ok = good]
       /\ IF good THEN HdrWrite(slot, "data", cur.cmd.n) ELSE UNCHANGED hdr
  /\ active' = active
  /\ Goto(AfterHandler)
  /\ UNCHANGED <<served, ring, slot, token, hostVars>>

\* The PIO is switched first; the plugin's own idea of the slot follows.
DevSwitch ==
  /\ pc = "switch"
  /\ LET good == cur.arg.val \in Slots IN
       /\ cur' = [cur EXCEPT !.ok = good]
       /\ served' = IF good THEN cur.arg.val ELSE served
       /\ slot' = IF good THEN cur.arg.val ELSE slot
  /\ active' = active
  /\ Goto(AfterHandler)
  /\ UNCHANGED <<hdr, ring, token, hostVars>>

\* The token goes on from the value the image already holds.
ReadToken_Fresh(s) == [lsb |-> 0, msb |-> 0]
ReadToken(s) == [lsb |-> hdr[s].lsb, msb |-> hdr[s].msb]

\* exec_enter_cmd_resp.  An oversized region is reported through the header
\* and leaves the mode alone; any other fault is discarded in silence.
DevEnter ==
  /\ pc = "enter"
  /\ LET a == cur.arg.val
     IN \/ /\ ~active /\ a \in {"good", "oversize"}
           /\ active' = (a = "good")
           /\ slot' = served
           /\ token' = ReadToken(served)
           /\ cur' = [cur EXCEPT !.ok = (a = "good")]
           /\ Goto("begin")
        \/ /\ active \/ a \notin {"good", "oversize"}
           /\ cur' = [cur EXCEPT !.ok = FALSE]
           /\ active' = active
           /\ Goto(AfterHandler)
           /\ UNCHANGED <<slot, token>>
  /\ UNCHANGED <<served, hdr, ring, hostVars>>

\* cmd_end.  The read index is moved to the DMA's position just before the
\* write that lets the host go on.
DevEnd ==
  /\ pc = "end"
  /\ LET f == EndOrder[step] IN
       /\ IF f = "reset ring" THEN ring' = <<>> ELSE UNCHANGED ring
       /\ CASE f = "response"   -> HdrWrite(slot, f, cur.ok)
            [] f = "progress"   -> HdrWrite(slot, f, TRUE)
            [] f = "reset ring" -> UNCHANGED hdr
  /\ IF step < Len(EndOrder)
     THEN step' = step + 1 /\ UNCHANGED pc
     ELSE Goto(IF active THEN "group" ELSE "rearm")
  /\ UNCHANGED <<served, active, slot, token, cur, hostVars>>

Device ==
  \/ DevListen \/ DevKnock \/ DevSkip \/ DevGroup \/ DevCmd \/ DevBegin
  \/ DevDispatch \/ DevArg \/ DevPeek \/ DevSwitch \/ DevEnter \/ DevEnd

----------------------------------------------------------------------------
(* The host.                                                               *)

\* Every read of the ROM is captured, the reads of the header included.
Read(b) == KeepsUp(b) /\ ring' = Captured(ring, b)

\* A careful host pokes the slot it is about to switch to, so that the token
\* byte there is not the next one.  Its SLOT_POKEs are commands that have
\* completed before the switch, and are part of the step that issues it.
Armed(k, a) ==
  IF k = "switch" /\ HostArms
  THEN [hdr EXCEPT ![a].lsb = (hdr[served].lsb + 1) % TokenMod]
  ELSE hdr

HostIssue(k, a) ==
  /\ hpc = "idle" /\ issued < MaxCommands
  /\ session <=> k # "enter"
  /\ k = "switch" => a # served
  /\ Read(OffPage)
  /\ before' = hdr[served].lsb
  /\ issued' = issued + 1
  /\ cmd' = [kind |-> k, arg |-> a]
  /\ out' = Frame(issued + 1, k, a)
  /\ hpc' = "send"
  /\ hdr' = Armed(k, a)
  /\ UNCHANGED <<served, devVars, reply, session>>

\* What the host does once its last byte is out: some commands answer.
AfterSend == CASE cmd.kind = "exit_silent" -> "idle"
               [] cmd.kind = "switch"      -> "await"
               [] OTHER                    -> "token"

HostSend ==
  /\ hpc = "send"
  /\ Read(Head(out))
  /\ out' = Tail(out)
  /\ hpc' = IF Len(out) = 1 THEN AfterSend ELSE "send"
  /\ session' = (session /\ ~ (Len(out) = 1 /\ cmd.kind = "exit_silent"))
  /\ UNCHANGED <<served, hdr, devVars, cmd, before, reply, issued>>

HostPollToken ==
  /\ hpc = "token" /\ Read(OffPage)
  /\ hpc' = IF hdr[served].lsb # before THEN "progress" ELSE "token"
  /\ UNCHANGED <<served, hdr, devVars, out, cmd, before, reply, session, issued>>

HostPollProgress ==
  /\ hpc = "progress" /\ Read(OffPage)
  /\ hpc' = IF hdr[served].progress THEN "response" ELSE "progress"
  /\ UNCHANGED <<served, hdr, devVars, out, cmd, before, reply, session, issued>>

HostReadResponse ==
  /\ hpc = "response" /\ Read(OffPage)
  /\ reply' = [reply EXCEPT !.ok = hdr[served].response]
  /\ hpc' = "data"
  /\ UNCHANGED <<served, hdr, devVars, out, cmd, before, session, issued>>

HostReadData ==
  /\ hpc = "data" /\ Read(OffPage)
  /\ reply' = [reply EXCEPT !.data = hdr[served].data]
  /\ hpc' = "got"
  /\ UNCHANGED <<served, hdr, devVars, out, cmd, before, session, issued>>

HostDone ==
  /\ hpc = "got"
  /\ hpc' = "idle"
  /\ session' = CASE cmd.kind = "enter"    -> reply.ok
                  [] cmd.kind = "exit_ack" -> FALSE
                  [] OTHER                 -> session
  /\ UNCHANGED <<served, hdr, ring, devVars, out, cmd, before, reply, issued>>

\* The device has run as far as it can and waits for the ring.
DeviceYields == pc \in {"knock", "group", "cmd", "arg"} /\ ring = <<>>

\* After SWITCH_SLOT the host watches a byte that differs between the slots.
HostAwaitSwitch ==
  /\ hpc = "await"
  /\ IF served = cmd.arg /\ (HostLockstep => DeviceYields)
     THEN hpc' = "idle" /\ UNCHANGED ring
     ELSE Read(OffPage) /\ UNCHANGED hpc
  /\ UNCHANGED <<served, hdr, devVars, out, cmd, before, reply, session, issued>>

\* POLL_LIMIT runs out.  It is long enough for any device that did take the
\* command, so it runs out only where the knock was lost or discarded.
HostGiveUp ==
  /\ hpc = "token" /\ pc = "knock"
  /\ \A i \in DOMAIN ring : ring[i].pos = "off"
  /\ hdr[served].lsb = before
  /\ hpc' = "idle" /\ session' = FALSE
  /\ UNCHANGED <<served, hdr, ring, devVars, out, cmd, before, reply, issued>>

HostStep ==
  \/ HostSend \/ HostPollToken \/ HostPollProgress \/ HostReadResponse
  \/ HostReadData \/ HostDone \/ HostAwaitSwitch

Host == HostStep \/ HostGiveUp \/ \E k \in Kinds : \E a \in Args(k) : HostIssue(k, a)

Next == Device \/ Host

Spec == Init /\ [][Next]_vars

\* The plugin never stops and has nothing else to do; a host that has begun
\* an exchange goes on with it, and its poll limit does run out.
FairSpec == Spec /\ WF_vars(Device) /\ WF_vars(HostStep) /\ WF_vars(HostGiveUp)

----------------------------------------------------------------------------
(* Properties.                                                             *)

\* A host that has seen its token move and then progress complete reads the
\* answer to the command it sent: the status the handler returned for that
\* command, and the data that command wrote.  This is what the order of the
\* writes in cmd_begin and cmd_end is for.
ReplyIsOurs ==
  hpc = "got" =>
    /\ cur.cmd.n = issued
    /\ reply.ok = cur.ok
    /\ cmd.kind = "peek" /\ reply.ok => reply.data = issued

\* The device never processes a command the host did not send: GROUP, CMD and
\* argument come from one frame, none of it skipped or taken twice, and the
\* host is still waiting for that command unless it was to be silent.
RunsWhatWasSent ==
  pc \in {"begin", "dispatch", "arg", "peek", "switch", "enter", "end"} =>
    /\ Kind # "unknown" /\ cur.group.n = cur.cmd.n
    /\ pc \in {"peek", "switch", "enter"} => cur.arg.n = cur.cmd.n /\ cur.arg.pos = "arg"
    /\ cur.cmd.n = issued \/ IsSilent(Kind)

\* Moving the read index at completion throws away reads the host made while
\* it polled, and never a byte of a command (hdr_write's reset_ring).
ResetDropsOnlyPolls ==
  [][pc = "end" /\ EndOrder[step] = "reset ring" =>
       \A i \in DOMAIN ring : ring[i].pos = "off"]_<<pc, step>>

\* While the header says complete in a session at rest, the token in it is
\* the one the plugin counts from, so no later command repeats a token the
\* host has in hand.  Through a SWITCH_SLOT the token stays in the old slot.
TokenInStep ==
  active /\ hpc = "got" => hdr[slot].lsb = token.lsb /\ hdr[slot].msb = token.msb

\* Writing the token changes the byte the host snapshotted, whichever slot it
\* is written in: a host that waits for the change is not left waiting.
TokenMoves ==
  [][pc = "begin" /\ BeginOrder[step] = "lsb" /\ hpc = "token" =>
       hdr'[slot].lsb # before]_<<pc, step>>

\* Every poll ends: a host inside a session gets its answer, and one that
\* enters gets it or gives up, never stuck with the token moved and completion
\* never coming.
PollsEnd == /\ (session /\ hpc = "token") ~> (hpc = "got")
            /\ (hpc = "progress") ~> (hpc = "got")

\* The handler of the command the host issued last has run: that of an enter
\* runs before the header is begun.
Ran == /\ cur.cmd.n = issued
       /\ \/ pc \in {"end", "group", "rearm", "knock"}
          \/ pc = "begin" /\ ~cur.wasActive

\* Commands issued and not yet run: the last one, unless it was given up, and
\* before it the silent exit the host did not wait for.
Asked == [n |-> issued, kind |-> cmd.kind, arg |-> cmd.arg]
LeftBehind == [n |-> issued - 1, kind |-> "exit_silent", arg |-> "none"]
Unrun ==
  IF Ran \/ (hpc = "idle" /\ cmd.kind = "enter") THEN <<>>
  ELSE IF active /\ cmd.kind = "enter" THEN <<LeftBehind, Asked>>
  ELSE <<Asked>>

\* What the header holds once the command has run, and what the host read of
\* it; the data counts where the command left some.
NoAnswer == [n |-> 0, status |-> "failed", data |-> 0]
NotAnswered == \/ cmd.kind \in {"exit_silent", "switch"}
               \/ cmd.kind = "enter" /\ cmd.arg = "discard"
Answer ==
  IF ~Ran \/ NotAnswered THEN NoAnswer
  ELSE [n      |-> issued,
        status |-> IF cur.ok THEN "ok" ELSE "failed",
        data   |-> IF cmd.kind = "peek" /\ cur.ok THEN hdr[slot].data ELSE 0]
Told ==
  IF hpc # "got" THEN NoAnswer
  ELSE [n      |-> issued,
        status |-> IF reply.ok THEN "ok" ELSE "failed",
        data   |-> IF cmd.kind = "peek" /\ reply.ok THEN reply.data ELSE 0]

\* With the bytes left out, commands run one at a time and in order, each in
\* the mode it was sent for, and a host is told what its own came to.
Exchange == INSTANCE RbcpExchange WITH
  Commands <- UNION {[kind : {k}, arg : Args(k)] : k \in Kinds},
  asked    <- Asked,
  pending  <- Unrun,
  mode     <- active,
  answer   <- Answer,
  host     <- CASE hpc = "idle" -> "idle" [] hpc = "got" -> "told" [] OTHER -> "waiting",
  told     <- Told
ExchangeSpec == Exchange!Spec
=============================================================================
