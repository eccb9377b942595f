------------------------- MODULE RbcpHandshakeProofs -------------------------
(***************************************************************************)
(* Proofs about RbcpHandshake, for every set of slots, size of the ring,   *)
(* range of the token and number of commands, with a host that waits for   *)
(* SWITCH_SLOT to be over (HostLockstep).                                  *)
(*                                                                         *)
(* The invariant is in two halves.  What is in flight: the ring, and after *)
(* it what the host has still to send, is made of whole frames with polls  *)
(* between them, all of it later than what the plugin has taken.  And what *)
(* each side knows of the other: for each place of the plugin, the command *)
(* it is at and the byte that comes next; for each place of the host, how  *)
(* far the plugin must have got and what the header then says.             *)
(***************************************************************************)
EXTENDS RbcpHandshake, TLAPS

ArgValues == Slots \cup {"none", "good", "bad", "oversize", "discard"}
Bytes == [n : Nat, pos : {"none", "off", "knock", "group", "cmd", "arg"},
          val : Kinds \cup ArgValues]
Tokens == 0 .. TokenMod - 1
Headers == [progress : BOOLEAN, lsb : Tokens, msb : Tokens, group : Nat,
            cmd : Nat, response : BOOLEAN, data : Nat]

Taking == [group : Bytes, cmd : Bytes, arg : Bytes, wasActive : BOOLEAN, ok : BOOLEAN]

PlaceType == /\ pc \in {"rearm", "knock", "group", "cmd", "begin", "dispatch", "arg",
                        "peek", "switch", "enter", "end"}
             /\ step \in 1..5
             /\ pc = "end" => step <= 3
             /\ pc \notin {"begin", "end"} => step = 1
ImageType == /\ served \in Slots /\ slot \in Slots /\ hdr \in [Slots -> Headers]
             /\ token \in [lsb : Tokens, msb : Tokens]
HostType == /\ hpc \in {"idle", "send", "token", "progress", "response", "data", "got",
                        "await"}
            /\ cmd \in [kind : Kinds, arg : ArgValues] /\ cmd.arg \in Args(cmd.kind)
            /\ before \in Tokens /\ reply \in [ok : BOOLEAN, data : Nat]
            /\ session \in BOOLEAN /\ issued \in Nat

TypeOK == /\ ring \in Seq(Bytes) /\ out \in Seq(Bytes)
          /\ active \in BOOLEAN /\ cur \in Taking
          /\ PlaceType /\ ImageType /\ HostType

----------------------------------------------------------------------------
(* What is in flight.                                                      *)

Group(n, k) == [n |-> n, pos |-> "group", val |-> k]
Cmd(n, k) == [n |-> n, pos |-> "cmd", val |-> k]
Arg(n, a) == [n |-> n, pos |-> "arg", val |-> a]

\* A byte's place in the order the host sends them in; polls have none.
Place(b) ==
  CASE b.pos = "knock" -> 1 [] b.pos = "group" -> 2 [] b.pos = "cmd" -> 3
    [] b.pos = "arg" -> 4 [] OTHER -> 0
Rank(b) == 5 * b.n + Place(b)

Off(b) == b.pos = "off"
Final(b) == b.pos = "arg" \/ (b.pos = "cmd" /\ b.val \notin HasArg)

\* What may come right after b.
Linked(b, c) ==
  IF b.pos = "knock" THEN c = Group(b.n, "enter")
  ELSE IF b.pos = "group" THEN c = Cmd(b.n, b.val)
  ELSE IF b.pos = "cmd" /\ b.val \in HasArg THEN c.pos = "arg" /\ c.n = b.n
  ELSE c.pos \in {"off", "knock"} \/ (c.pos = "group" /\ c.val # "enter")

InFrame(b, n, k, a) ==
  \/ k = "enter" /\ b = Knock(n)
  \/ b = Group(n, k)
  \/ b = Cmd(n, k)
  \/ k \in HasArg /\ b = Arg(n, a)

\* Bytes are of the command issued, or of the silent exit a host that now
\* enters did not wait for.
OfIssued(b) == issued > 0 /\ InFrame(b, issued, cmd.kind, cmd.arg)
OfExit(b) == /\ cmd.kind = "enter" /\ issued > 1
             /\ b \in {Group(issued - 1, "exit_silent"), Cmd(issued - 1, "exit_silent")}

\* Later than everything the plugin has taken.
Fresh(b) == /\ Rank(cur.group) < Rank(b)
            /\ Rank(cur.cmd) < Rank(b)
            /\ Rank(cur.arg) < Rank(b)

\* The ring is in the order the host sent it in, and its frames are whole.
Ordered ==
  /\ Len(ring) < RingEntries
  /\ \A i, j \in 1..Len(ring) :
       i < j /\ ~Off(ring[j]) => Rank(ring[i]) < Rank(ring[j])
  /\ \A i \in 1..Len(ring) - 1 : Linked(ring[i], ring[i + 1])
RingInv ==
  /\ Ordered
  /\ \A i \in 1..Len(ring) :
       ring[i] = OffPage \/ ((OfIssued(ring[i]) \/ OfExit(ring[i])) /\ Fresh(ring[i]))

\* What is still to be sent goes on where the ring ends.
OutInv ==
  IF hpc = "send"
  THEN /\ out # <<>>
       /\ \A i \in 1..Len(out) : OfIssued(out[i])
       /\ \A i \in 1..Len(out) - 1 : ~Final(out[i]) /\ Linked(out[i], out[i + 1])
       /\ Final(out[Len(out)])
       /\ \A i \in 1..Len(ring) : ~Off(ring[i]) => Rank(ring[i]) < Rank(out[1])
       /\ ring # <<>> => Linked(ring[Len(ring)], out[1])
       /\ Fresh(out[1])
  ELSE ring # <<>> => Off(ring[Len(ring)]) \/ Final(ring[Len(ring)])

Quiet == \A i \in 1..Len(ring) : Off(ring[i])
InRing(b) == \E i \in 1..Len(ring) : ring[i] = b
ToCome(b) == InRing(b) \/ (hpc = "send" /\ out[1] = b)

\* The next byte the plugin will find.
Upcoming(b) == IF ring # <<>> THEN ring[1] = b ELSE hpc = "send" /\ out[1] = b

----------------------------------------------------------------------------
(* What each side knows of the other.                                      *)

\* The plugin has the command the host issued last; all of it.
Taken == cur.cmd.n = issued
Whole == Taken /\ (cmd.kind \in HasArg => cur.arg.n = issued)
IsTaken == cur.group = Group(issued, cmd.kind) /\ cur.cmd = Cmd(issued, cmd.kind)
ArgTaken == cmd.kind \in HasArg => cur.arg = Arg(issued, cmd.arg)
ArgAhead == cmd.kind \in HasArg => Upcoming(Arg(issued, cmd.arg))

\* Commands the header never answers, and the mode a command leaves.
Unanswered == cmd.kind = "exit_silent" \/ (cmd.kind = "enter" /\ cmd.arg = "discard")
ModeAfter == CASE cmd.kind = "enter" -> cmd.arg = "good"
               [] cmd.kind \in {"exit_ack", "exit_silent"} -> FALSE
               [] OTHER -> TRUE

InSession == active /\ cmd.kind # "enter"
Entering == ~active /\ cmd.kind = "enter"

AtRest == pc \in {"group", "rearm", "knock"}
Done == Whole /\ AtRest

RestInv ==
  /\ pc \in {"rearm", "knock"} => /\ ~active
                               /\ IF Taken THEN Whole ELSE cmd.kind = "enter"
  /\ Done /\ issued > 0 => /\ active = ModeAfter
                           /\ cmd.kind = "enter" => cur.ok = active
  /\ pc = "group" =>
       \/ ~active /\ ~Taken /\ cmd.kind = "enter" /\ hpc \in {"send", "token"}
                  /\ Upcoming(Group(issued, "enter"))
       \/ active /\ Whole /\ cmd.kind \notin {"exit_ack", "exit_silent"}
       \/ InSession /\ ~Taken /\ ToCome(Group(issued, cmd.kind))
       \/ /\ active /\ ~Taken /\ cmd.kind = "enter"
          /\ InRing(Group(issued - 1, "exit_silent"))

CmdInv ==
  /\ pc = "cmd" =>
       /\ ~Taken /\ cur.arg = NoByte
       /\ \/ /\ InSession \/ Entering
             /\ cur.group = Group(issued, cmd.kind)
             /\ Upcoming(Cmd(issued, cmd.kind))
          \/ /\ active /\ cmd.kind = "enter"
             /\ cur.group = Group(issued - 1, "exit_silent")
             /\ Upcoming(Cmd(issued - 1, "exit_silent"))
  /\ pc = "dispatch" =>
       /\ cur.wasActive = active
       /\ \/ (InSession \/ Entering) /\ IsTaken /\ ArgAhead
          \/ /\ active /\ cmd.kind = "enter" /\ issued > 1
             /\ cur.group = Group(issued - 1, "exit_silent")
             /\ cur.cmd = Cmd(issued - 1, "exit_silent")
  /\ pc = "arg" => /\ InSession \/ Entering
                   /\ cur.wasActive = active
                   /\ IsTaken /\ cmd.kind \in HasArg /\ ArgAhead
  /\ pc \in {"peek", "switch", "enter"} =>
       /\ InSession \/ Entering
       /\ cur.wasActive = active
       /\ IsTaken /\ cmd.kind = pc /\ ArgTaken

FrameInv ==
  /\ pc = "begin" =>
       /\ IsTaken
       /\ \/ cur.wasActive /\ InSession /\ cmd.kind # "exit_silent" /\ ArgAhead
          \/ /\ ~cur.wasActive /\ cmd.kind = "enter" /\ ArgTaken
             /\ cmd.arg \in {"good", "oversize"}
             /\ active = ModeAfter /\ cur.ok = active
  /\ pc = "end" =>
       /\ IsTaken /\ ArgTaken /\ ~Unanswered
       /\ active = ModeAfter
       /\ cmd.kind = "enter" => cur.ok = active

DevInv ==
  /\ slot = served
  /\ cur.group.n <= issued /\ cur.cmd.n <= issued /\ cur.arg.n <= issued
  /\ Taken /\ issued > 0 => IsTaken /\ (Whole => ArgTaken)
  /\ pc \notin {"rearm", "knock", "group"} => issued > 0
  /\ RestInv /\ CmdInv /\ FrameInv

\* The token the host waits for has been written.
TokenOut ==
  /\ Taken /\ ~Unanswered
  /\ \/ pc = "begin" /\ step > 2
     \/ pc \in {"dispatch", "arg", "peek", "switch"} /\ cur.wasActive
     \/ pc = "end"
     \/ AtRest

HostInv ==
  /\ hpc # "idle" => issued > 0 /\ session = (cmd.kind # "enter")
  /\ hpc = "idle" =>
       \/ Done /\ session = active
       \/ ~Taken /\ pc \in {"rearm", "knock"} /\ Quiet /\ ~session
       \/ ~session /\ cmd.kind = "exit_silent" /\ issued > 0 /\ active
  /\ hpc = "await" => cmd.kind = "switch"
  /\ hpc \in {"token", "progress", "response", "data", "got"} => cmd.kind # "switch"
  /\ hpc \notin {"idle", "send"} => cmd.kind # "exit_silent"
  /\ hpc \in {"send", "await"} /\ cmd.kind = "switch" =>
       served # cmd.arg \/ (Whole /\ pc \in {"end", "group"})
  /\ hpc \in {"send", "token", "await"} /\ ~TokenOut => hdr[served].lsb = before
  /\ hpc = "progress" => TokenOut
  /\ hpc \in {"response", "data", "got"} => Done /\ TokenOut
  /\ hpc \in {"data", "got"} => reply.ok = cur.ok
  /\ hpc = "got" /\ cmd.kind = "peek" /\ reply.ok => reply.data = issued

\* What the header says of the command issued, at each place.
Pending == \/ pc = "begin" /\ step > 1
           \/ pc \in {"dispatch", "arg", "peek", "switch"} /\ cur.wasActive
           \/ pc = "end"
HeaderInv ==
  hpc # "idle" /\ Taken /\ cmd.kind # "switch" /\ ~Unanswered =>
    /\ Pending => ~hdr[slot].progress
    /\ (pc = "end" /\ step > 1) \/ AtRest => hdr[slot].response = cur.ok
    /\ cmd.kind = "peek" /\ cur.ok /\ (pc = "end" \/ AtRest) => hdr[slot].data = issued
    /\ TokenOut => hdr[slot].lsb = token.lsb
    /\ TokenOut /\ ~(pc = "begin" /\ step = 3) => hdr[slot].msb = token.msb

\* A host that arms the slot it switches to finds the plugin's token there.
ArmInv ==
  HostArms =>
    /\ active \/ pc \in {"begin", "end"} => hdr[slot].lsb = token.lsb
    /\ hpc \in {"send", "await"} /\ cmd.kind = "switch" /\ served # cmd.arg =>
         /\ hdr[cmd.arg].lsb = (before + 1) % TokenMod
         /\ token.lsb = IF TokenOut THEN (before + 1) % TokenMod ELSE before

IInv == TypeOK /\ RingInv /\ OutInv /\ DevInv /\ HostInv /\ HeaderInv /\ ArmInv

----------------------------------------------------------------------------
(* Lemmas about the operators.                                             *)

\* The token stays a token, and its first byte is never the one before.
LEMMA TokenFacts ==
  /\ 0 \in Tokens
  /\ \A t \in Tokens : (t + 1) % TokenMod \in Tokens /\ (t + 1) % TokenMod # t
  <1> SUFFICES ASSUME NEW t \in Tokens
               PROVE  (t + 1) % TokenMod \in Tokens /\ (t + 1) % TokenMod # t
    BY TokenAssumption DEF Tokens
  <1>1. CASE t + 1 < TokenMod
    BY <1>1, TokenAssumption DEF Tokens
  <1>2. CASE t + 1 = TokenMod
    BY <1>2, TokenAssumption DEF Tokens
  <1> QED
    BY <1>1, <1>2, TokenAssumption DEF Tokens

LEMMA NextTokenFacts ==
  ASSUME NEW t \in [lsb : Tokens, msb : Tokens]
  PROVE  /\ NextToken(t) \in [lsb : Tokens, msb : Tokens]
         /\ NextToken(t).lsb = (t.lsb + 1) % TokenMod
         /\ NextToken(t).lsb # t.lsb
  BY TokenFacts DEF NextToken

LEMMA RankFacts ==
  /\ \A n \in Nat : Rank(Knock(n)) = 5 * n + 1
  /\ \A n \in Nat : \A v : /\ Rank(Group(n, v)) = 5 * n + 2
                           /\ Rank(Cmd(n, v)) = 5 * n + 3
                           /\ Rank(Arg(n, v)) = 5 * n + 4
  /\ Rank(OffPage) = 0 /\ Rank(NoByte) = 0
  /\ \A b \in Bytes : Rank(b) \in Nat /\ 5 * b.n <= Rank(b) /\ Rank(b) <= 5 * b.n + 4
  BY DEF Rank, Place, Knock, Group, Cmd, Arg, OffPage, NoByte, Bytes

LEMMA ByteTypes ==
  /\ NoByte \in Bytes /\ OffPage \in Bytes
  /\ \A n \in Nat : Knock(n) \in Bytes
  /\ \A n \in Nat, k \in Kinds : Group(n, k) \in Bytes /\ Cmd(n, k) \in Bytes
  /\ \A n \in Nat, a \in ArgValues : Arg(n, a) \in Bytes
  BY DEF Bytes, NoByte, OffPage, Knock, Group, Cmd, Arg, ArgValues

\* The bytes of a command, in order.
LEMMA FrameIs ==
  ASSUME NEW n \in Nat, NEW k \in Kinds, NEW a \in Args(k)
  PROVE  LET f == Frame(n, k, a) IN
         /\ f \in Seq(Bytes)
         /\ k = "enter" => Len(f) = 4 /\ f[1] = Knock(n) /\ f[2] = Group(n, k)
                                      /\ f[3] = Cmd(n, k) /\ f[4] = Arg(n, a)
         /\ k \in {"peek", "switch"} => Len(f) = 3 /\ f[1] = Group(n, k)
                                      /\ f[2] = Cmd(n, k) /\ f[3] = Arg(n, a)
         /\ k \notin HasArg => Len(f) = 2 /\ f[1] = Group(n, k) /\ f[2] = Cmd(n, k)
  <1> DEFINE p == IF k = "enter" THEN <<Knock(n)>> ELSE <<>>
             q == <<Group(n, k), Cmd(n, k)>>
             r == IF k \in HasArg THEN <<Arg(n, a)>> ELSE <<>>
  <1>1. a \in ArgValues
    BY DEF Args, ArgValues, Kinds
  <1>2. p \in Seq(Bytes) /\ q \in Seq(Bytes) /\ r \in Seq(Bytes)
    BY <1>1, ByteTypes
  <1>3. Frame(n, k, a) = (p \o q) \o r
    BY DEF Frame, Group, Cmd, Arg
  <1>4. /\ p \o q \in Seq(Bytes) /\ Len(p \o q) = Len(p) + 2
        /\ k = "enter" => (p \o q)[1] = Knock(n)
        /\ \A i \in 1..2 : (p \o q)[Len(p) + i] = q[i]
    BY <1>2
  <1> HIDE DEF p, q
  <1>5. /\ (p \o q) \o r \in Seq(Bytes)
        /\ Len((p \o q) \o r) = Len(p) + 2 + Len(r)
        /\ \A i \in 1..Len(p) + 2 : ((p \o q) \o r)[i] = (p \o q)[i]
        /\ k \in HasArg => ((p \o q) \o r)[Len(p) + 3] = Arg(n, a)
    BY <1>2, <1>4
  <1> QED
    BY <1>3, <1>4, <1>5 DEF p, q, HasArg, Kinds

LEMMA ArgTypes ==
  \A k \in Kinds : Args(k) \subseteq ArgValues
  BY DEF Args, ArgValues, Kinds

\* Which bytes a frame has.
LEMMA FrameBytes ==
  ASSUME NEW n \in Nat, NEW k, NEW a, NEW b, InFrame(b, n, k, a)
  PROVE  /\ b.n = n /\ ~Off(b) /\ b # OffPage /\ b # NoByte
         /\ b.pos \in {"knock", "group", "cmd", "arg"}
         /\ b.pos = "knock" => b = Knock(n) /\ k = "enter" /\ Rank(b) = 5 * n + 1
         /\ b.pos = "group" => b = Group(n, k) /\ Rank(b) = 5 * n + 2
         /\ b.pos = "cmd" => b = Cmd(n, k) /\ Rank(b) = 5 * n + 3
         /\ b.pos = "arg" => b = Arg(n, a) /\ k \in HasArg /\ Rank(b) = 5 * n + 4
         /\ Rank(b) \in Nat /\ Rank(b) > 0 /\ Rank(b) > 5 * n
  <1>1. CASE b = Knock(n) /\ k = "enter"
    <2>1. Rank(b) = 5 * n + 1
      BY <1>1, RankFacts
    <2> QED
      BY <1>1, <2>1 DEF Off, Knock, OffPage, NoByte
  <1>2. CASE b = Group(n, k)
    <2>1. Rank(b) = 5 * n + 2
      BY <1>2, RankFacts
    <2> QED
      BY <1>2, <2>1 DEF Off, Group, OffPage, NoByte
  <1>3. CASE b = Cmd(n, k)
    <2>1. Rank(b) = 5 * n + 3
      BY <1>3, RankFacts
    <2> QED
      BY <1>3, <2>1 DEF Off, Cmd, OffPage, NoByte
  <1>4. CASE b = Arg(n, a) /\ k \in HasArg
    <2>1. Rank(b) = 5 * n + 4
      BY <1>4, RankFacts
    <2> QED
      BY <1>4, <2>1 DEF Off, Arg, OffPage, NoByte
  <1> QED
    BY <1>1, <1>2, <1>3, <1>4 DEF InFrame

----------------------------------------------------------------------------
(* What a step does to what is in flight.                                  *)

\* What comes after b is what may: in the ring, or from the host.
Followed(b) == IF ring # <<>> THEN Linked(b, ring[1])
               ELSE IF hpc = "send" THEN Linked(b, out[1])
               ELSE Off(b) \/ Final(b)

\* A byte of the command issued, and one of the exit before it.
LEMMA IssuedByte ==
  ASSUME TypeOK, NEW b, OfIssued(b)
  PROVE  /\ b.n = issued /\ ~Off(b)
         /\ Rank(b) \in Nat /\ Rank(b) > 0 /\ Rank(b) > 5 * issued
         /\ b.pos \in {"knock", "group", "cmd", "arg"}
         /\ b.pos = "knock" => b = Knock(issued) /\ cmd.kind = "enter" /\ Rank(b) = 5 * issued + 1
         /\ b.pos = "group" => b = Group(issued, cmd.kind) /\ Rank(b) = 5 * issued + 2
         /\ b.pos = "cmd" => b = Cmd(issued, cmd.kind) /\ Rank(b) = 5 * issued + 3
         /\ b.pos = "arg" => /\ b = Arg(issued, cmd.arg) /\ cmd.kind \in HasArg
                            /\ Rank(b) = 5 * issued + 4
  <1>1. issued \in Nat
    BY DEF TypeOK, PlaceType, ImageType, HostType, Taking
  <1>2. InFrame(b, issued, cmd.kind, cmd.arg)
    BY DEF OfIssued
  <1> QED
    BY <1>1, <1>2, FrameBytes

LEMMA ExitByte ==
  ASSUME TypeOK, NEW b, OfExit(b)
  PROVE  /\ b.n = issued - 1 /\ ~Off(b)
         /\ Rank(b) \in Nat /\ Rank(b) > 0 /\ Rank(b) < 5 * issued
         /\ cmd.kind = "enter" /\ b.pos \in {"group", "cmd"}
         /\ b.pos = "group" => b = Group(issued - 1, "exit_silent")
         /\ b.pos = "cmd" => b = Cmd(issued - 1, "exit_silent")
  <1>1. issued - 1 \in Nat /\ issued \in Nat
    BY DEF OfExit, TypeOK, PlaceType, ImageType, HostType, Taking
  <1>2. InFrame(b, issued - 1, "exit_silent", "none")
    BY DEF OfExit, InFrame
  <1>3. ~Off(b) /\ b.n = issued - 1
    BY <1>1, <1>2, FrameBytes
  <1>4. b.pos \in {"group", "cmd"}
    BY DEF OfExit, Group, Cmd
  <1>5. /\ b.pos = "group" => b = Group(issued - 1, "exit_silent") /\ Rank(b) = 5 * (issued - 1) + 2
        /\ b.pos = "cmd" => b = Cmd(issued - 1, "exit_silent") /\ Rank(b) = 5 * (issued - 1) + 3
    BY <1>1, <1>2, FrameBytes
  <1> QED
    BY <1>1, <1>3, <1>4, <1>5 DEF OfExit

\* The bytes in flight.
LEMMA InFlight ==
  ASSUME TypeOK, RingInv, NEW i \in 1..Len(ring)
  PROVE  /\ Off(ring[i]) <=> ring[i] = OffPage
         /\ ~Off(ring[i]) =>
              /\ OfIssued(ring[i]) \/ OfExit(ring[i])
              /\ Rank(ring[i]) > 0 /\ Fresh(ring[i])
  <1>1. ring[i] = OffPage \/ ((OfIssued(ring[i]) \/ OfExit(ring[i])) /\ Fresh(ring[i]))
    BY DEF RingInv, Ordered
  <1>2. OfIssued(ring[i]) => ~Off(ring[i]) /\ Rank(ring[i]) > 0
    BY IssuedByte
  <1>3. OfExit(ring[i]) => ~Off(ring[i]) /\ Rank(ring[i]) > 0
    BY ExitByte
  <1> QED
    BY <1>1, <1>2, <1>3 DEF Off, OffPage

\* The plugin takes the oldest byte.
LEMMA Takes ==
  ASSUME TypeOK, RingInv, OutInv, ring # <<>>, ring' = Tail(ring),
         UNCHANGED <<hpc, out, cmd, issued>>,
         cur.group' \in {cur.group, ring[1], NoByte},
         cur.cmd' \in {cur.cmd, ring[1], NoByte},
         cur.arg' \in {cur.arg, ring[1], NoByte}
  PROVE  /\ RingInv' /\ OutInv'
         /\ \A b : b = ring[1] => Followed(b)'
         /\ \A b : InRing(b) /\ b # ring[1] => InRing(b)'
         /\ \A b : ToCome(b) /\ b # ring[1] => ToCome(b)'
         /\ Quiet => Quiet'
  <1>1. /\ Len(ring') = Len(ring) - 1
        /\ \A i \in 1..Len(ring') : ring'[i] = ring[i + 1] /\ i + 1 \in 1..Len(ring)
        /\ 1 \in 1..Len(ring) /\ Len(ring) \in Nat
        /\ \A i \in 2..Len(ring) : i - 1 \in 1..Len(ring') /\ ring'[i - 1] = ring[i]
    BY DEF TypeOK, PlaceType, ImageType, HostType, Taking
  <1>2. Rank(cur.group)' \in {Rank(cur.group), Rank(ring[1]), 0}
        /\ Rank(cur.cmd)' \in {Rank(cur.cmd), Rank(ring[1]), 0}
        /\ Rank(cur.arg)' \in {Rank(cur.arg), Rank(ring[1]), 0}
    BY RankFacts DEF Rank, Place
  <1>3. ASSUME NEW b, Rank(b) > 0, Rank(ring[1]) < Rank(b), Fresh(b)
        PROVE  Fresh(b)'
    BY <1>2, <1>3 DEF Fresh, Rank, Place
  <1>4. \A i \in 1..Len(ring') : \A b : b = ring'[i] =>
          b = OffPage \/ ((OfIssued(b)' \/ OfExit(b)') /\ Fresh(b)')
    <2> SUFFICES ASSUME NEW i \in 1..Len(ring'), NEW b, b = ring'[i]
                 PROVE  b = OffPage \/ ((OfIssued(b)' \/ OfExit(b)') /\ Fresh(b)')
      OBVIOUS
    <2>1. b = ring[i + 1] /\ i + 1 \in 1..Len(ring) /\ 1 < i + 1
      BY <1>1
    <2>2. CASE Off(b)
      BY <2>1, <2>2, InFlight
    <2>3. CASE ~Off(b)
      <3>1. Rank(ring[1]) < Rank(b)
        BY <1>1, <2>1, <2>3 DEF RingInv, Ordered
      <3>2. (OfIssued(b) \/ OfExit(b)) /\ Rank(b) > 0 /\ Fresh(b)
        BY <2>1, <2>3, InFlight
      <3>3. OfIssued(b)' = OfIssued(b) /\ OfExit(b)' = OfExit(b)
        BY DEF OfIssued, OfExit
      <3> QED
        BY <1>3, <3>1, <3>2, <3>3
    <2> QED
      BY <2>2, <2>3
  <1>5. \A i, j \in 1..Len(ring') :
          i < j /\ ~Off(ring'[j]) => Rank(ring'[i]) < Rank(ring'[j])
    BY <1>1 DEF RingInv, Ordered
  <1>6. \A i \in 1..Len(ring') - 1 : Linked(ring'[i], ring'[i + 1])
    BY <1>1 DEF RingInv, Ordered
  <1>7. RingInv'
    <2>1. Len(ring') < RingEntries
      BY <1>1, RingAssumption DEF RingInv, Ordered
    <2> QED
      BY <1>4, <1>5, <1>6, <2>1 DEF RingInv, Ordered, Off, Rank, Place, Linked
  <1>8. OutInv'
    <2>1. CASE hpc = "send"
      <3>1. /\ out # <<>> /\ Final(out[Len(out)])
            /\ \A i \in 1..Len(out) : OfIssued(out[i])
            /\ \A i \in 1..Len(out) - 1 : ~Final(out[i]) /\ Linked(out[i], out[i + 1])
            /\ \A i \in 1..Len(ring) : ~Off(ring[i]) => Rank(ring[i]) < Rank(out[1])
            /\ Linked(ring[Len(ring)], out[1])
            /\ Fresh(out[1])
        BY <2>1 DEF OutInv
      <3>2. \A b : b = out[1] => Fresh(b)'
        <4> SUFFICES ASSUME NEW b, b = out[1] PROVE Fresh(b)'
          OBVIOUS
        <4>1. OfIssued(b) /\ issued \in Nat
          BY <3>1 DEF TypeOK, PlaceType, ImageType, HostType, Taking
        <4>2. ~Off(b) /\ Rank(b) \in Nat /\ Rank(b) > 0
          BY <4>1, IssuedByte
        <4>3. Rank(ring[1]) < Rank(b)
          <5>1. CASE Off(ring[1])
            <6>1. Rank(ring[1]) = 0
              BY <1>1, <5>1, InFlight, RankFacts
            <6> QED
              BY <4>2, <6>1
          <5>2. CASE ~Off(ring[1])
            BY <1>1, <3>1, <5>2
          <5> QED
            BY <5>1, <5>2
        <4> QED
          BY <1>3, <3>1, <4>1, <4>2, <4>3
      <3>3. ring' # <<>> => ring'[Len(ring')] = ring[Len(ring)]
        BY <1>1
      <3>4. \A i \in 1..Len(ring') : ~Off(ring'[i]) => Rank(ring'[i]) < Rank(out[1])
        BY <1>1, <3>1
      <3> QED
        BY <2>1, <3>1, <3>2, <3>3, <3>4 DEF OutInv, OfIssued, Off, Final, Linked, Rank, Place
    <2>2. CASE hpc # "send"
      <3>1. ring' # <<>> => ring'[Len(ring')] = ring[Len(ring)]
        BY <1>1
      <3> QED
        BY <2>2, <3>1 DEF OutInv, Off, Final
    <2> QED
      BY <2>1, <2>2
  <1>9. ASSUME NEW b, b = ring[1] PROVE Followed(b)'
    <2>1. CASE ring' # <<>>
      <3>1. ring'[1] = ring[2] /\ 1 \in 1..Len(ring) - 1
        BY <1>1, <2>1
      <3>2. Linked(b, ring[2])
        BY <1>9, <3>1 DEF RingInv, Ordered
      <3> QED
        BY <2>1, <3>1, <3>2 DEF Followed, Linked
    <2>2. CASE ring' = <<>>
      <3>1. Len(ring) = 1
        BY <1>1, <2>2
      <3> QED
        BY <1>9, <2>2, <3>1 DEF OutInv, Followed, Linked, Off, Final
    <2> QED
      BY <2>1, <2>2
  <1>10. ASSUME NEW b, InRing(b), b # ring[1] PROVE InRing(b)'
    <2>1. PICK i \in 2..Len(ring) : ring[i] = b
      BY <1>1, <1>10 DEF InRing
    <2> QED
      BY <1>1, <2>1 DEF InRing
  <1>11. ASSUME NEW b, ToCome(b), b # ring[1] PROVE ToCome(b)'
    BY <1>10, <1>11 DEF ToCome
  <1>12. Quiet => Quiet'
    BY <1>1 DEF Quiet, Off
  <1> QED
    BY <1>7, <1>8, <1>9, <1>10, <1>11, <1>12


\* Between frames, or at the end of one.
Paused == ring # <<>> => Off(ring[Len(ring)]) \/ Final(ring[Len(ring)])

\* The host reads off the command page.  The entry that laps the plugin makes
\* the ring vanish only where all of it is such reads.
LEMMA Captures ==
  ASSUME TypeOK, Ordered, Paused, Read(OffPage)
  PROVE  /\ Ordered' /\ Paused'
         /\ ring' \in Seq(Bytes)
         /\ \A i \in 1..Len(ring') : ring'[i] = OffPage \/ \E j \in 1..Len(ring) : ring'[i] = ring[j]
         /\ ring' # <<>> => ring'[Len(ring')] = OffPage
         /\ Quiet => Quiet'
         /\ \A b : InRing(b) /\ ~Off(b) => InRing(b)'
         /\ \A b : ring # <<>> /\ ring[1] = b /\ ~Off(b) => ring' # <<>> /\ ring'[1] = b
  <1>1. CASE Len(ring) + 1 = RingEntries
    <2>1. ring' = <<>> /\ Len(ring') = 0
      BY <1>1 DEF Read, Captured
    <2>2. Quiet
      <3>1. \A i \in 1..Len(ring) : Off(ring[i])
        <4> SUFFICES ASSUME NEW i \in 1..Len(ring), ~Off(ring[i]) PROVE FALSE
          OBVIOUS
        <4>1. \E k \in DOMAIN ring : ring[k].pos # "off"
          BY DEF Off, TypeOK, PlaceType, ImageType, HostType, Taking
        <4> QED
          BY <1>1, <4>1, RingAssumption DEF Read, KeepsUp, TypeOK, PlaceType, ImageType, HostType, Taking
      <3> QED
        BY <3>1 DEF Quiet
    <2> QED
      BY <2>1, <2>2, RingAssumption, ByteTypes DEF Ordered, Paused, Quiet, InRing, TypeOK, PlaceType, ImageType, HostType, Taking, Off
  <1>2. CASE Len(ring) + 1 # RingEntries
    <2>1. /\ ring' = Append(ring, OffPage) /\ ring' \in Seq(Bytes)
          /\ Len(ring') = Len(ring) + 1 /\ Len(ring) \in Nat
          /\ \A i \in 1..Len(ring) : ring'[i] = ring[i]
          /\ ring'[Len(ring) + 1] = OffPage
          /\ ring' # <<>>
      BY <1>2, ByteTypes DEF Read, Captured, TypeOK, PlaceType, ImageType, HostType, Taking
    <2>2. Off(OffPage)
      BY DEF Off, OffPage
    <2>3. Ordered'
      <3>1. Len(ring') < RingEntries
        BY <1>2, <2>1, RingAssumption DEF Ordered
      <3>2. \A i, j \in 1..Len(ring') :
              i < j /\ ~Off(ring'[j]) => Rank(ring'[i]) < Rank(ring'[j])
        BY <2>1, <2>2 DEF Ordered
      <3>3. \A i \in 1..Len(ring') - 1 : Linked(ring'[i], ring'[i + 1])
        <4> SUFFICES ASSUME NEW i \in 1..Len(ring) PROVE Linked(ring'[i], ring'[i + 1])
          BY <2>1
        <4>1. CASE i < Len(ring)
          BY <2>1, <4>1 DEF Ordered
        <4>2. CASE i = Len(ring)
          <5>1. Off(ring[i]) \/ Final(ring[i])
            BY <4>2, <2>1 DEF Paused
          <5>2. ring'[i] = ring[i] /\ ring'[i + 1] = OffPage
            BY <2>1, <4>2
          <5> QED
            BY <5>1, <5>2 DEF Linked, Off, Final, OffPage
        <4> QED
          BY <4>1, <4>2, <2>1
      <3> QED
        BY <3>1, <3>2, <3>3 DEF Ordered, Off, Rank, Place, Linked
    <2>4. Quiet => Quiet'
      BY <2>1, <2>2 DEF Quiet, Off
    <2>5. Paused'
      BY <2>1, <2>2 DEF Paused, Off
    <2>6. ASSUME NEW b, InRing(b) PROVE InRing(b)'
      BY <2>1, <2>6 DEF InRing
    <2>7. \A i \in 1..Len(ring') : ring'[i] = OffPage \/ \E j \in 1..Len(ring) : ring'[i] = ring[j]
      BY <2>1
    <2>8. ASSUME NEW b, ring # <<>>, ring[1] = b PROVE ring'[1] = b
      BY <2>1, <2>8
    <2> QED
      BY <2>1, <2>3, <2>4, <2>5, <2>6, <2>7, <2>8
  <1> QED
    BY <1>1, <1>2

\* A host that is not sending reads the header.
LEMMA Polls ==
  ASSUME TypeOK, RingInv, OutInv, hpc # "send", hpc' # "send", Read(OffPage),
         UNCHANGED <<out, cmd, issued, cur>>
  PROVE  /\ RingInv' /\ OutInv' /\ ring' \in Seq(Bytes)
         /\ Quiet => Quiet'
         /\ \A b : InRing(b) /\ ~Off(b) => InRing(b)'
         /\ \A b : ToCome(b) /\ ~Off(b) => ToCome(b)'
         /\ \A b : Upcoming(b) /\ ~Off(b) => Upcoming(b)'
  <1>1. Paused /\ Ordered
    BY DEF OutInv, Paused, RingInv
  <1>2. \A b : (OfIssued(b)' = OfIssued(b)) /\ (OfExit(b)' = OfExit(b)) /\ (Fresh(b)' = Fresh(b))
    BY DEF OfIssued, OfExit, Fresh
  <1>3. ASSUME NEW i \in 1..Len(ring'), NEW b, b = ring'[i]
        PROVE  b = OffPage \/ ((OfIssued(b)' \/ OfExit(b)') /\ Fresh(b)')
    <2>1. b = OffPage \/ \E j \in 1..Len(ring) : b = ring[j]
      BY <1>1, <1>3, Captures
    <2> QED
      BY <1>2, <2>1 DEF RingInv
  <1>4. RingInv'
    BY <1>1, <1>3, Captures DEF RingInv
  <1>5. OutInv'
    BY <1>1, Captures DEF OutInv, Paused
  <1>6. ASSUME NEW b, ToCome(b), ~Off(b) PROVE ToCome(b)'
    BY <1>1, <1>6, Captures DEF ToCome
  <1>7. ASSUME NEW b, Upcoming(b), ~Off(b) PROVE Upcoming(b)'
    BY <1>1, <1>7, Captures DEF Upcoming
  <1> QED
    BY <1>1, <1>4, <1>5, <1>6, <1>7, Captures

\* The bytes of a frame come in order.
LEMMA InOrder ==
  ASSUME TypeOK, NEW b, NEW c, OfIssued(b), OfIssued(c), ~Final(b), Linked(b, c)
  PROVE  Rank(b) < Rank(c)
  <1>1. issued \in Nat
    BY DEF TypeOK, PlaceType, ImageType, HostType, Taking
  <1>2. b.n = issued /\ b.pos \in {"knock", "group", "cmd", "arg"}
    BY IssuedByte
  <1>3. CASE b.pos = "knock"
    <2>1. b = Knock(issued) /\ c = Group(issued, "enter")
      BY <1>2, <1>3, IssuedByte DEF Linked
    <2> QED
      BY <1>1, <2>1, RankFacts
  <1>4. CASE b.pos = "group"
    <2>1. b = Group(issued, cmd.kind) /\ c = Cmd(issued, b.val)
      BY <1>2, <1>4, IssuedByte DEF Linked
    <2> QED
      BY <1>1, <2>1, RankFacts
  <1>5. CASE b.pos = "cmd"
    <2>1. b = Cmd(issued, cmd.kind) /\ c.pos = "arg"
      BY <1>5, IssuedByte DEF Linked, Final
    <2>2. c = Arg(issued, cmd.arg)
      BY <2>1, IssuedByte
    <2> QED
      BY <1>1, <2>1, <2>2, RankFacts
  <1>6. b.pos # "arg"
    BY DEF Final
  <1> QED
    BY <1>2, <1>3, <1>4, <1>5, <1>6

\* The host sends a byte of its command.
LEMMA Sends ==
  ASSUME TypeOK, RingInv, OutInv, HostSend
  PROVE  /\ RingInv' /\ OutInv' /\ ring' \in Seq(Bytes) /\ out' \in Seq(Bytes)
         /\ OfIssued(out[1])
         /\ hpc' = IF Final(out[1]) THEN AfterSend ELSE "send"
         /\ Len(out) = 1 <=> Final(out[1])
         /\ Final(out[1]) => out[1] \in {ring'[i] : i \in 1..Len(ring')}
         /\ \A b : InRing(b) => InRing(b)'
         /\ \A b : ToCome(b) => ToCome(b)'
         /\ \A b : Upcoming(b) => Upcoming(b)'
  <1>a. out \in Seq(Bytes) /\ out # <<>> /\ Len(out) \in Nat /\ Len(out) >= 1
    <2>1. out \in Seq(Bytes) /\ out # <<>>
      BY DEF HostSend, OutInv, TypeOK, PlaceType, ImageType, HostType, Taking
    <2> QED
      BY <2>1
  <1>b. Len(out) = 1 \/ Len(out) > 1
    <2>1. \A n \in Nat : n >= 1 => n = 1 \/ n > 1
      OBVIOUS
    <2> QED
      BY <1>a, <2>1
  <1>1. /\ hpc = "send" /\ out' = Tail(out) /\ Read(out[1])
        /\ UNCHANGED <<cur, cmd, issued>>
    BY <1>a DEF HostSend, devVars
  <1>2. /\ \A i \in 1..Len(out) : OfIssued(out[i])
        /\ \A i \in 1..Len(out) - 1 : ~Final(out[i]) /\ Linked(out[i], out[i + 1])
        /\ Final(out[Len(out)])
        /\ \A i \in 1..Len(ring) : ~Off(ring[i]) => Rank(ring[i]) < Rank(out[1])
        /\ ring # <<>> => Linked(ring[Len(ring)], out[1])
        /\ Fresh(out[1])
    BY <1>1 DEF OutInv
  <1>3. OfIssued(out[1]) /\ ~Off(out[1]) /\ Rank(out[1]) \in Nat /\ Rank(out[1]) > 0
    BY <1>a, <1>2, IssuedByte
  <1>4. Len(out) = 1 <=> Final(out[1])
    <2>1. CASE Len(out) = 1
      BY <1>2, <2>1
    <2>2. CASE Len(out) # 1
      <3>1. Len(out) > 1
        BY <2>2, <1>b
      <3> QED
        BY <1>a, <1>2, <2>2, <3>1
    <2> QED
      BY <2>1, <2>2
  <1>5. hpc' = IF Final(out[1]) THEN AfterSend ELSE "send"
    BY <1>4 DEF HostSend
  <1>6. AfterSend \in {"idle", "await", "token"}
    BY DEF AfterSend
  <1>7. /\ ring' = Append(ring, out[1]) /\ ring' \in Seq(Bytes)
        /\ Len(ring') = Len(ring) + 1 /\ Len(ring) \in Nat
        /\ \A i \in 1..Len(ring) : ring'[i] = ring[i]
        /\ ring'[Len(ring) + 1] = out[1]
        /\ ring' # <<>>
        /\ Len(ring') < RingEntries
    <2>1. Len(ring) + 1 < RingEntries
      BY <1>1, <1>3 DEF Read, KeepsUp, Off
    <2>2. out[1] \in Bytes /\ ring \in Seq(Bytes)
      BY <1>a DEF TypeOK, PlaceType, ImageType, HostType, Taking
    <2>3. ring' = Append(ring, out[1])
      BY <1>1, <2>1, <2>2, RingAssumption DEF Read, Captured
    <2> QED
      BY <2>1, <2>2, <2>3
  <1>8. \A b : (OfIssued(b)' = OfIssued(b)) /\ (OfExit(b)' = OfExit(b)) /\ (Fresh(b)' = Fresh(b))
    BY <1>1 DEF OfIssued, OfExit, Fresh
  <1>9. RingInv'
    <2>1. \A i, j \in 1..Len(ring') :
            i < j /\ ~Off(ring'[j]) => Rank(ring'[i]) < Rank(ring'[j])
      <3> SUFFICES ASSUME NEW i \in 1..Len(ring'), NEW j \in 1..Len(ring'),
                          i < j, ~Off(ring'[j])
                   PROVE  Rank(ring'[i]) < Rank(ring'[j])
        OBVIOUS
      <3>1. CASE j <= Len(ring)
        BY <1>7, <3>1 DEF RingInv, Ordered
      <3>2. CASE j = Len(ring) + 1
        <4>1. i \in 1..Len(ring) /\ ring'[i] = ring[i] /\ ring'[j] = out[1]
          BY <1>7, <3>2
        <4>2. CASE Off(ring[i])
          <5>1. Rank(ring[i]) = 0
            BY <4>1, <4>2, InFlight, RankFacts
          <5> QED
            BY <1>3, <4>1, <5>1
        <4>3. CASE ~Off(ring[i])
          BY <1>2, <4>1, <4>3
        <4> QED
          BY <4>2, <4>3
      <3> QED
        BY <1>7, <3>1, <3>2
    <2>2. \A i \in 1..Len(ring') - 1 : Linked(ring'[i], ring'[i + 1])
      <3> SUFFICES ASSUME NEW i \in 1..Len(ring) PROVE Linked(ring'[i], ring'[i + 1])
        BY <1>7
      <3>1. CASE i < Len(ring)
        BY <1>7, <3>1 DEF RingInv, Ordered
      <3>2. CASE i = Len(ring)
        <4>1. ring'[i] = ring[Len(ring)] /\ ring'[i + 1] = out[1] /\ ring # <<>>
          BY <1>7, <3>2
        <4> QED
          BY <1>2, <4>1
      <3> QED
        BY <1>7, <3>1, <3>2
    <2>3. ASSUME NEW i \in 1..Len(ring'), NEW b, b = ring'[i]
          PROVE  b = OffPage \/ ((OfIssued(b)' \/ OfExit(b)') /\ Fresh(b)')
      <3>1. CASE i <= Len(ring)
        BY <1>7, <1>8, <2>3, <3>1 DEF RingInv
      <3>2. CASE i = Len(ring) + 1
        BY <1>2, <1>3, <1>7, <1>8, <2>3, <3>2
      <3> QED
        BY <1>7, <3>1, <3>2
    <2> QED
      BY <1>7, <2>1, <2>2, <2>3 DEF RingInv, Ordered, Off, Rank, Place, Linked
  <1>10. OutInv'
    <2>1. CASE Final(out[1])
      BY <1>5, <1>6, <1>7, <2>1 DEF OutInv, Off, Final
    <2>2. CASE ~Final(out[1])
      <3>1. /\ out' # <<>> /\ Len(out') = Len(out) - 1 /\ Len(out) > 1
            /\ \A i \in 1..Len(out') : out'[i] = out[i + 1]
            /\ out'[Len(out')] = out[Len(out)]
        <4>1. Len(out) > 1
          BY <1>4, <1>b, <2>2
        <4>2. Len(Tail(out)) = Len(out) - 1 /\ \A i \in 1..Len(out) - 1 : Tail(out)[i] = out[i + 1]
          BY <1>a
        <4> QED
          BY <1>a, <1>1, <4>1, <4>2
      <3>2. OfIssued(out[2]) /\ Linked(out[1], out[2])
        BY <1>2, <3>1
      <3>3. Rank(out[1]) < Rank(out[2])
        BY <1>3, <2>2, <3>2, InOrder
      <3>4. \A b : b = out[2] => Fresh(b)'
        <4>1. Rank(out[2]) \in Nat
          BY <3>2, IssuedByte
        <4>2. Rank(cur.group) \in Nat /\ Rank(cur.cmd) \in Nat /\ Rank(cur.arg) \in Nat
          BY RankFacts DEF TypeOK, PlaceType, ImageType, HostType, Taking
        <4>3. Fresh(out[2])
          BY <1>2, <1>3, <3>3, <4>1, <4>2 DEF Fresh
        <4> QED
          BY <1>8, <4>3
      <3>5. \A i \in 1..Len(ring') : ~Off(ring'[i]) => Rank(ring'[i]) < Rank(out[2])
        <4> SUFFICES ASSUME NEW i \in 1..Len(ring'), ~Off(ring'[i])
                     PROVE  Rank(ring'[i]) < Rank(out[2])
          OBVIOUS
        <4>1. CASE i <= Len(ring)
          <5>1. Rank(ring'[i]) < Rank(out[1]) /\ ring'[i] \in Bytes
            BY <1>2, <1>7, <4>1
          <5>2. Rank(ring'[i]) \in Nat
            BY <5>1, RankFacts
          <5>3. Rank(out[2]) \in Nat
            BY <3>2, IssuedByte
          <5> QED
            BY <1>3, <3>3, <5>1, <5>2, <5>3
        <4>2. CASE i = Len(ring) + 1
          BY <1>7, <3>3, <4>2
        <4> QED
          BY <1>7, <4>1, <4>2
      <3>6. /\ \A i \in 1..Len(out') : OfIssued(out'[i])
            /\ \A i \in 1..Len(out') - 1 : ~Final(out'[i]) /\ Linked(out'[i], out'[i + 1])
            /\ Final(out'[Len(out')]) /\ out'[1] = out[2]
        BY <1>2, <3>1
      <3>7. ring' # <<>> /\ ring'[Len(ring')] = out[1] /\ Linked(out[1], out[2])
        BY <1>7, <3>2
      <3> QED
        BY <1>1, <1>5, <2>2, <3>1, <3>4, <3>5, <3>6, <3>7
           DEF OutInv, OfIssued, Off, Final, Linked, Rank, Place
    <2> QED
      BY <2>1, <2>2
  <1>11. ASSUME NEW b, InRing(b) PROVE InRing(b)'
    BY <1>7, <1>11 DEF InRing
  <1>12. \A b : b = out[1] => InRing(b)'
    BY <1>7 DEF InRing
  <1>13. ASSUME NEW b, ToCome(b) PROVE ToCome(b)'
    BY <1>11, <1>12, <1>13 DEF ToCome
  <1>14. ASSUME NEW b, Upcoming(b) PROVE Upcoming(b)'
    BY <1>7, <1>14 DEF Upcoming
  <1>15. out' \in Seq(Bytes)
    BY <1>a, <1>1
  <1> QED
    BY <1>3, <1>4, <1>5, <1>7, <1>9, <1>10, <1>11, <1>13, <1>14, <1>15


\* A command the plugin has all of has no byte in flight, nor has an earlier one.
LEMMA WholeIsQuiet ==
  ASSUME TypeOK, RingInv, DevInv, Whole \/ issued = 0
  PROVE  Quiet
  <1> SUFFICES ASSUME NEW i \in 1..Len(ring), ~Off(ring[i])
               PROVE  FALSE
    BY DEF Quiet
  <1> DEFINE b == ring[i]
  <1>1. (OfIssued(b) \/ OfExit(b)) /\ Fresh(b)
    BY InFlight
  <1>2. issued > 0 /\ issued \in Nat
    BY <1>1 DEF OfIssued, OfExit, TypeOK, PlaceType, ImageType, HostType, Taking
  <1>3. cur.cmd = Cmd(issued, cmd.kind) /\ ArgTaken
    BY <1>2 DEF DevInv, Whole, IsTaken
  <1>4. Rank(cur.cmd) = 5 * issued + 3 /\ Rank(b) > 5 * issued + 3
    <2>1. Rank(cur.cmd) = 5 * issued + 3
      BY <1>2, <1>3, RankFacts
    <2>2. Rank(b) \in Nat
      BY <1>1, IssuedByte, ExitByte
    <2> QED
      BY <1>1, <1>2, <2>1, <2>2 DEF Fresh
  <1>5. OfIssued(b)
    BY <1>1, <1>2, <1>4, ExitByte
  <1>6. b.pos = "arg" /\ cmd.kind \in HasArg
    <2>1. b.pos # "knock"
      BY <1>2, <1>4, <1>5, IssuedByte
    <2>2. b.pos # "group"
      BY <1>2, <1>4, <1>5, IssuedByte
    <2>3. b.pos # "cmd"
      BY <1>2, <1>4, <1>5, IssuedByte
    <2> QED
      BY <1>5, <2>1, <2>2, <2>3, IssuedByte
  <1>7. b = Arg(issued, cmd.arg) /\ cur.arg = Arg(issued, cmd.arg)
    BY <1>3, <1>5, <1>6, IssuedByte DEF ArgTaken
  <1>8. Rank(b) \in Nat /\ Rank(cur.arg) < Rank(b)
    BY <1>1, <1>5, IssuedByte DEF Fresh
  <1> QED
    BY <1>7, <1>8

\* The bytes of a new command follow one another.
LEMMA NewFrame ==
  ASSUME NEW n \in Nat, NEW k \in Kinds, NEW a \in Args(k),
         NEW f, f = Frame(n, k, a)
  PROVE
         /\ f \in Seq(Bytes) /\ f # <<>> /\ Len(f) \in Nat /\ Len(f) > 1
         /\ \A i \in 1..Len(f) : InFrame(f[i], n, k, a)
         /\ \A i \in 1..Len(f) - 1 : ~Final(f[i]) /\ Linked(f[i], f[i + 1])
         /\ Final(f[Len(f)])
         /\ f[1] = IF k = "enter" THEN Knock(n) ELSE Group(n, k)
  <1>1. f \in Seq(Bytes)
    BY FrameIs
  <1>2. CASE k = "enter"
    <2>1. Len(f) = 4 /\ f[1] = Knock(n) /\ f[2] = Group(n, k) /\ f[3] = Cmd(n, k) /\ f[4] = Arg(n, a)
      BY <1>2, FrameIs
    <2>2. /\ InFrame(f[1], n, k, a) /\ InFrame(f[2], n, k, a)
          /\ InFrame(f[3], n, k, a) /\ InFrame(f[4], n, k, a)
      BY <1>2, <2>1 DEF InFrame, HasArg
    <2>3. /\ ~Final(f[1]) /\ ~Final(f[2]) /\ ~Final(f[3]) /\ Final(f[4])
          /\ Linked(f[1], f[2]) /\ Linked(f[2], f[3]) /\ Linked(f[3], f[4])
      BY <1>2, <2>1 DEF Final, Linked, Knock, Group, Cmd, Arg, HasArg
    <2> QED
      BY <1>1, <1>2, <2>1, <2>2, <2>3
  <1>3. CASE k \in {"peek", "switch"}
    <2>1. Len(f) = 3 /\ f[1] = Group(n, k) /\ f[2] = Cmd(n, k) /\ f[3] = Arg(n, a)
      BY <1>3, FrameIs
    <2>2. InFrame(f[1], n, k, a) /\ InFrame(f[2], n, k, a) /\ InFrame(f[3], n, k, a)
      BY <1>3, <2>1 DEF InFrame, HasArg
    <2>3. /\ ~Final(f[1]) /\ ~Final(f[2]) /\ Final(f[3])
          /\ Linked(f[1], f[2]) /\ Linked(f[2], f[3])
      BY <1>3, <2>1 DEF Final, Linked, Group, Cmd, Arg, HasArg
    <2> QED
      BY <1>1, <1>3, <2>1, <2>2, <2>3
  <1>4. CASE k \notin HasArg
    <2>1. Len(f) = 2 /\ f[1] = Group(n, k) /\ f[2] = Cmd(n, k)
      BY <1>4, FrameIs
    <2>2. InFrame(f[1], n, k, a) /\ InFrame(f[2], n, k, a)
      BY <2>1 DEF InFrame
    <2>3. ~Final(f[1]) /\ Final(f[2]) /\ Linked(f[1], f[2])
      BY <1>4, <2>1 DEF Final, Linked, Group, Cmd
    <2> QED
      BY <1>1, <1>4, <2>1, <2>2, <2>3 DEF HasArg
  <1> QED
    BY <1>2, <1>3, <1>4 DEF HasArg, Kinds

\* The ring is emptied.
LEMMA Clears ==
  ASSUME OutInv, ring' = <<>>, UNCHANGED <<hpc, out, cmd, issued>>,
         cur'.group = cur.group, cur'.cmd = cur.cmd, cur'.arg = cur.arg
  PROVE  RingInv' /\ OutInv' /\ Quiet' /\ ring' \in Seq(Bytes)
  <1>1. Len(ring') = 0 /\ ring' \in Seq(Bytes)
    OBVIOUS
  <1>2. RingInv' /\ Quiet'
    BY <1>1, RingAssumption DEF RingInv, Ordered, Quiet
  <1>3. ASSUME hpc = "send" PROVE OutInv'
    <2>1. \A b : b = out[1] => Fresh(b)'
      BY <1>3 DEF OutInv, Fresh
    <2> QED
      BY <1>1, <1>3, <2>1 DEF OutInv, OfIssued
  <1>4. ASSUME hpc # "send" PROVE OutInv'
    BY <1>1, <1>4 DEF OutInv
  <1>5. OutInv'
    BY <1>3, <1>4
  <1> QED
    BY <1>1, <1>2, <1>5

\* A host issues a command where nothing is in flight, or where it has left
\* its session without waiting for it to end.
LEMMA IdleFlight ==
  ASSUME TypeOK, RingInv, DevInv, HostInv, hpc = "idle"
  PROVE  Quiet \/ (cmd.kind = "exit_silent" /\ ~session /\ active /\ issued > 0)
  <1>1. CASE Done
    BY <1>1, WholeIsQuiet DEF Done
  <1>2. CASE ~Done
    BY <1>2 DEF HostInv
  <1> QED
    BY <1>1, <1>2

LEMMA Issues ==
  ASSUME TypeOK, RingInv, OutInv, DevInv, HostInv,
         NEW k \in Kinds, NEW a \in Args(k), HostIssue(k, a)
  PROVE  /\ RingInv' /\ OutInv' /\ ring' \in Seq(Bytes) /\ out' \in Seq(Bytes)
         /\ out'[1] = IF k = "enter" THEN Knock(issued + 1) ELSE Group(issued + 1, k)
         /\ Quiet => Quiet'
         /\ \A b : InRing(b) /\ ~Off(b) => InRing(b)'
         /\ \A b : ring # <<>> /\ ring[1] = b /\ ~Off(b) => ring' # <<>> /\ ring'[1] = b
  <1>1. /\ hpc = "idle" /\ Read(OffPage) /\ issued \in Nat /\ issued' = issued + 1
        /\ cmd' = [kind |-> k, arg |-> a] /\ cur' = cur /\ hpc' = "send"
        /\ out' = Frame(issued + 1, k, a)
        /\ session <=> k # "enter"
    BY DEF HostIssue, TypeOK, PlaceType, ImageType, HostType, Taking, devVars
  <1>2. Paused /\ Ordered
    BY <1>1 DEF OutInv, Paused, RingInv
  <1>3. /\ Ordered' /\ Paused'
        /\ ring' \in Seq(Bytes)
        /\ \A i \in 1..Len(ring') : ring'[i] = OffPage \/ \E j \in 1..Len(ring) : ring'[i] = ring[j]
        /\ ring' # <<>> => ring'[Len(ring')] = OffPage
        /\ Quiet => Quiet'
        /\ \A b : InRing(b) /\ ~Off(b) => InRing(b)'
        /\ \A b : ring # <<>> /\ ring[1] = b /\ ~Off(b) => ring' # <<>> /\ ring'[1] = b
    BY <1>1, <1>2, Captures
  <1>4. \A b : Fresh(b)' = Fresh(b)
    BY <1>1 DEF Fresh
  <1>5. ASSUME NEW i \in 1..Len(ring), NEW b, b = ring[i], ~Off(b)
        PROVE  OfExit(b)' /\ Fresh(b)
    <2>1. cmd.kind = "exit_silent" /\ k = "enter" /\ issued > 0
      BY <1>1, <1>5, IdleFlight DEF Quiet
    <2>2. (OfIssued(b) \/ OfExit(b)) /\ Fresh(b)
      BY <1>5, InFlight
    <2>3. OfIssued(b)
      BY <2>1, <2>2 DEF OfExit
    <2>4. b \in {Group(issued, "exit_silent"), Cmd(issued, "exit_silent")}
      BY <2>1, <2>3 DEF OfIssued, InFrame, HasArg
    <2>5. issued' - 1 = issued /\ issued' > 1 /\ cmd'.kind = "enter"
      BY <1>1, <2>1
    <2> QED
      BY <2>2, <2>4, <2>5 DEF OfExit
  <1>6. ASSUME NEW i \in 1..Len(ring'), NEW b, b = ring'[i]
        PROVE  b = OffPage \/ (OfExit(b)' /\ Fresh(b)' /\ ~Off(b))
    <2>1. CASE b = OffPage
      BY <2>1
    <2>2. CASE b # OffPage
      <3>1. PICK j \in 1..Len(ring) : b = ring[j]
        BY <1>3, <1>6, <2>2
      <3>2. ~Off(b)
        BY <2>2, <3>1, InFlight
      <3> QED
        BY <1>4, <1>5, <3>1, <3>2
    <2> QED
      BY <2>1, <2>2
  <1>7. RingInv'
    BY <1>3, <1>6 DEF RingInv
  <1>8. /\ out' \in Seq(Bytes) /\ out' # <<>> /\ Len(out') \in Nat /\ Len(out') > 1
        /\ \A i \in 1..Len(out') : InFrame(out'[i], issued + 1, k, a)
        /\ \A i \in 1..Len(out') - 1 : ~Final(out'[i]) /\ Linked(out'[i], out'[i + 1])
        /\ Final(out'[Len(out')])
        /\ out'[1] = IF k = "enter" THEN Knock(issued + 1) ELSE Group(issued + 1, k)
    <2> DEFINE n == issued + 1
    <2>1. n \in Nat /\ out' = Frame(n, k, a)
      BY <1>1
    <2> HIDE DEF n
    <2>2. ASSUME NEW f, f = Frame(n, k, a)
          PROVE  /\ f \in Seq(Bytes) /\ f # <<>> /\ Len(f) \in Nat /\ Len(f) > 1
                 /\ \A i \in 1..Len(f) : InFrame(f[i], n, k, a)
                 /\ \A i \in 1..Len(f) - 1 : ~Final(f[i]) /\ Linked(f[i], f[i + 1])
                 /\ Final(f[Len(f)])
                 /\ f[1] = IF k = "enter" THEN Knock(n) ELSE Group(n, k)
      BY <2>1, <2>2, NewFrame
    <2> QED
      BY <2>1, <2>2 DEF n
  <1>9. OutInv'
    <2>1. /\ issued' > 0
          /\ \A i \in 1..Len(out') : InFrame(out'[i], issued', cmd'.kind, cmd'.arg)
          /\ 1 \in 1..Len(out')
      BY <1>1, <1>8
    <2>2. \A b : b = out'[1] => Rank(b) \in Nat /\ Rank(b) > 5 * (issued + 1)
      <3>1. issued + 1 \in Nat /\ InFrame(out'[1], issued + 1, k, a)
        BY <1>1, <1>8
      <3> QED
        BY <3>1, FrameBytes
    <2>3. \A b : b = out'[1] => Fresh(b)'
      <3>1. /\ Rank(cur.group) <= 5 * issued + 4 /\ Rank(cur.group) \in Nat
            /\ Rank(cur.cmd) <= 5 * issued + 4 /\ Rank(cur.cmd) \in Nat
            /\ Rank(cur.arg) <= 5 * issued + 4 /\ Rank(cur.arg) \in Nat
        <4>1. /\ cur.group \in Bytes /\ cur.cmd \in Bytes /\ cur.arg \in Bytes
              /\ cur.group.n <= issued /\ cur.cmd.n <= issued /\ cur.arg.n <= issued
          BY DEF DevInv, TypeOK, PlaceType, ImageType, HostType, Taking
        <4>2. \A c \in Bytes : c.n <= issued => Rank(c) <= 5 * issued + 4
          BY <1>1, RankFacts DEF Bytes
        <4> QED
          BY <4>1, <4>2, RankFacts
      <3> QED
        BY <1>1, <1>4, <2>2, <3>1 DEF Fresh
    <2>4. \A i \in 1..Len(ring') : ~Off(ring'[i]) => Rank(ring'[i]) < Rank(out'[1])
      <3> SUFFICES ASSUME NEW i \in 1..Len(ring'), NEW b, b = ring'[i], ~Off(b)
                   PROVE  Rank(b) < Rank(out'[1])
        OBVIOUS
      <3>1. b \in {Group(issued, "exit_silent"), Cmd(issued, "exit_silent")}
        <4>1. b # OffPage /\ issued' - 1 = issued
          BY <1>1 DEF Off, OffPage
        <4> QED
          BY <1>6, <4>1 DEF OfExit
      <3>2. Rank(b) \in Nat /\ Rank(b) < 5 * (issued + 1)
        <4>1. b = Group(issued, "exit_silent") => Rank(b) = 5 * issued + 2
          BY <1>1, RankFacts
        <4>2. b = Cmd(issued, "exit_silent") => Rank(b) = 5 * issued + 3
          BY <1>1, RankFacts
        <4> QED
          BY <1>1, <3>1, <4>1, <4>2
      <3> QED
        BY <1>1, <2>2, <3>2
    <2>5. ring' # <<>> => Linked(ring'[Len(ring')], out'[1])
      <3>1. Linked(OffPage, out'[1])
        BY <1>8 DEF Linked, OffPage, Knock, Group
      <3> QED
        BY <1>3, <3>1
    <2> QED
      BY <1>1, <1>8, <2>1, <2>3, <2>4, <2>5
         DEF OutInv, OfIssued, Off, Final, Linked, Rank, Place
  <1> QED
    BY <1>3, <1>7, <1>8, <1>9

----------------------------------------------------------------------------
(* Types.                                                                  *)

LEMMA KindFacts ==
  ASSUME NEW n, NEW k
  PROVE  /\ Decoded(Group(n, k), Cmd(n, k)) = k
         /\ IsTaken => Kind = cmd.kind
         /\ cur.group = Group(n, k) /\ cur.cmd = Cmd(n, k) => Kind = k
  BY DEF Decoded, Group, Cmd, Kind, IsTaken

LEMMA KindType == TypeOK => Kind \in Kinds \cup ArgValues \cup {"unknown"}
  BY DEF Kind, Decoded, TypeOK, PlaceType, ImageType, HostType, Taking, Bytes

\* Writing a header byte keeps the header's type.
LEMMA WriteType ==
  ASSUME TypeOK, NEW s \in Slots, NEW f, NEW v, HdrWrite(s, f, v),
         \/ f \in {"lsb", "msb"} /\ v \in Tokens
         \/ f \in {"progress", "response"} /\ v \in BOOLEAN
         \/ f \in {"group", "cmd", "data"} /\ v \in Nat
  PROVE  hdr' \in [Slots -> Headers]
  BY DEF HdrWrite, TypeOK, PlaceType, ImageType, HostType, Taking, Headers

LEMMA TailBytes ==
  TypeOK /\ ring # <<>> =>
    /\ Tail(ring) \in Seq(Bytes) /\ Head(ring) \in Bytes /\ Head(ring) = ring[1]
    /\ Len(ring) \in Nat /\ 1 \in 1..Len(ring)
  BY DEF TypeOK, PlaceType, ImageType, HostType, Taking

LEMMA InitType == Init => TypeOK
  <1> SUFFICES ASSUME Init PROVE TypeOK
    OBVIOUS
  <1>1. NoByte \in Bytes /\ 0 \in Tokens
    BY ByteTypes, TokenFacts
  <1>2. hdr \in [Slots -> Headers]
    BY <1>1 DEF Init, Headers, Tokens
  <1>3. ring \in Seq(Bytes) /\ out \in Seq(Bytes) /\ active \in BOOLEAN
    <2>1. ring = <<>> /\ out = <<>> /\ active = FALSE
      BY DEF Init
    <2>2. <<>> \in Seq(Bytes)
      OBVIOUS
    <2> QED
      BY <2>1, <2>2
  <1>4. cur \in Taking
    BY <1>1 DEF Init, Idle, Taking
  <1>5. HostType
    <2>1. "none" \in Args("nop") /\ "nop" \in Kinds /\ "none" \in ArgValues
      BY DEF Args, Kinds, ArgValues
    <2> QED
      BY <1>1, <2>1 DEF Init, HostType
  <1> QED
    BY <1>1, <1>2, <1>3, <1>4, <1>5 DEF Init, TypeOK, PlaceType, ImageType

\* Where the plugin goes once a handler has returned.
LEMMA AfterFacts ==
  ASSUME Goto(AfterHandler)
  PROVE  pc' \in {"end", "group", "rearm"} /\ step' = 1
  BY DEF Goto, AfterHandler

\* The other bytes of the header are as they were.
LEMMA Written ==
  ASSUME TypeOK, NEW s \in Slots, NEW f \in HeaderFields, NEW v, HdrWrite(s, f, v)
  PROVE  /\ f = "progress" => hdr'[s].progress = v
         /\ f = "lsb" => hdr'[s].lsb = v
         /\ f = "msb" => hdr'[s].msb = v
         /\ f = "response" => hdr'[s].response = v
         /\ f = "data" => hdr'[s].data = v
         /\ f # "progress" => hdr'[s].progress = hdr[s].progress
         /\ f # "lsb" => hdr'[s].lsb = hdr[s].lsb
         /\ f # "msb" => hdr'[s].msb = hdr[s].msb
         /\ f # "response" => hdr'[s].response = hdr[s].response
         /\ f # "data" => hdr'[s].data = hdr[s].data
         /\ \A r \in Slots : r # s => hdr'[r] = hdr[r]
  BY DEF HdrWrite, TypeOK, ImageType, Headers, HeaderFields

\* cmd_begin and cmd_end, one header byte at a time.
LEMMA BeginSteps ==
  ASSUME DevBegin, step \in 1..5
  PROVE  /\ pc = "begin" /\ UNCHANGED <<served, ring, active, slot, cur, hostVars>>
         /\ step = 1 => HdrWrite(slot, "progress", FALSE) /\ token' = token
         /\ step = 2 => HdrWrite(slot, "lsb", NextToken(token).lsb) /\ token' = NextToken(token)
         /\ step = 3 => HdrWrite(slot, "msb", token.msb) /\ token' = token
         /\ step = 4 => HdrWrite(slot, "group", cur.group.n) /\ token' = token
         /\ step = 5 => HdrWrite(slot, "cmd", cur.cmd.n) /\ token' = token
         /\ IF step < 5 THEN pc' = pc /\ step' = step + 1
            ELSE Goto(IF cur.wasActive THEN "dispatch" ELSE "end")
  <1>1. /\ pc = "begin" /\ UNCHANGED <<served, ring, active, slot, cur, hostVars>>
        /\ HdrWrite(slot, BeginOrder[step], BeginValue(BeginOrder[step]))
        /\ token' = IF BeginOrder[step] = "lsb" THEN NextToken(token) ELSE token
        /\ IF step < 5 THEN step' = step + 1 /\ UNCHANGED pc
           ELSE Goto(IF cur.wasActive THEN "dispatch" ELSE "end")
    BY DEF DevBegin, BeginOrder
  <1>2. /\ BeginOrder[1] = "progress" /\ BeginOrder[2] = "lsb" /\ BeginOrder[3] = "msb"
        /\ BeginOrder[4] = "group" /\ BeginOrder[5] = "cmd"
    BY DEF BeginOrder
  <1>3. /\ BeginValue("progress") = FALSE /\ BeginValue("lsb") = NextToken(token).lsb
        /\ BeginValue("msb") = token.msb /\ BeginValue("group") = cur.group.n
        /\ BeginValue("cmd") = cur.cmd.n
    BY DEF BeginValue
  <1>4. /\ step = 1 => HdrWrite(slot, "progress", FALSE)
        /\ step = 2 => HdrWrite(slot, "lsb", NextToken(token).lsb)
        /\ step = 3 => HdrWrite(slot, "msb", token.msb)
        /\ step = 4 => HdrWrite(slot, "group", cur.group.n)
        /\ step = 5 => HdrWrite(slot, "cmd", cur.cmd.n)
    BY <1>1, <1>2, <1>3, Zenon
  <1>5. token' = IF step = 2 THEN NextToken(token) ELSE token
    <2>1. BeginOrder[step] = "lsb" <=> step = 2
      BY <1>2
    <2> QED
      BY <1>1, <2>1
  <1>6. /\ step = 2 => token' = NextToken(token)
        /\ step \in {1, 3, 4, 5} => token' = token
    BY <1>5
  <1> QED
    BY <1>1, <1>4, <1>6, Zenon

LEMMA EndSteps ==
  ASSUME DevEnd, step \in 1..3
  PROVE  /\ pc = "end" /\ UNCHANGED <<served, active, slot, token, cur, hostVars>>
         /\ step = 1 => HdrWrite(slot, "response", cur.ok) /\ ring' = ring
         /\ step = 2 => ring' = <<>> /\ hdr' = hdr
         /\ step = 3 => HdrWrite(slot, "progress", TRUE) /\ ring' = ring
         /\ IF step < 3 THEN pc' = pc /\ step' = step + 1
            ELSE Goto(IF active THEN "group" ELSE "rearm")
  <1>1. /\ pc = "end" /\ UNCHANGED <<served, active, slot, token, cur, hostVars>>
        /\ IF step < 3 THEN pc' = pc /\ step' = step + 1
           ELSE Goto(IF active THEN "group" ELSE "rearm")
    BY DEF DevEnd, EndOrder
  <1>2. ASSUME step = 1 PROVE HdrWrite(slot, "response", cur.ok) /\ ring' = ring
    BY <1>2 DEF DevEnd, EndOrder
  <1>3. ASSUME step = 2 PROVE ring' = <<>> /\ hdr' = hdr
    BY <1>3 DEF DevEnd, EndOrder
  <1>4. ASSUME step = 3 PROVE HdrWrite(slot, "progress", TRUE) /\ ring' = ring
    BY <1>4 DEF DevEnd, EndOrder
  <1> QED
    BY <1>1, <1>2, <1>3, <1>4, Zenon

LEMMA DeviceType ==
  ASSUME TypeOK, DevInv, Device
  PROVE  TypeOK'
  <1> USE DEF TypeOK, PlaceType, ImageType, Taking, HostType, hostVars, devVars
  <1>1. CASE DevListen
    BY <1>1 DEF DevListen, Goto
  <1>2. CASE DevKnock
    BY <1>2, TailBytes DEF DevKnock, Goto
  <1>3. CASE DevSkip
    BY <1>3, TailBytes DEF DevSkip
  <1>4. CASE DevGroup
    BY <1>4, TailBytes, ByteTypes DEF DevGroup, TakeByte, Idle, Goto
  <1>5. CASE DevCmd
    BY <1>5, TailBytes DEF DevCmd, TakeByte, Goto
  <1>6. CASE DevBegin
    <2>1. NextToken(token) \in [lsb : Tokens, msb : Tokens]
          /\ cur.group.n \in Nat /\ cur.cmd.n \in Nat
      BY NextTokenFacts DEF Bytes
    <2>2. step = 1 \/ step = 2 \/ step = 3 \/ step = 4 \/ step = 5
      OBVIOUS
    <2>3. token' = token \/ token' = NextToken(token)
      BY <1>6, <2>2, BeginSteps, Zenon
    <2>6. hdr' \in [Slots -> Headers]
      <3>1. CASE step = 1
        <4>1. HdrWrite(slot, "progress", FALSE)
          BY <1>6, <3>1, BeginSteps, Zenon
        <4> QED
          BY <4>1, WriteType
      <3>2. CASE step = 2
        <4>1. HdrWrite(slot, "lsb", NextToken(token).lsb)
          BY <1>6, <3>2, BeginSteps, Zenon
        <4> QED
          BY <2>1, <4>1, WriteType
      <3>3. CASE step = 3
        <4>1. HdrWrite(slot, "msb", token.msb)
          BY <1>6, <3>3, BeginSteps, Zenon
        <4> QED
          BY <4>1, WriteType
      <3>4. CASE step = 4
        <4>1. HdrWrite(slot, "group", cur.group.n)
          BY <1>6, <3>4, BeginSteps, Zenon
        <4> QED
          BY <2>1, <4>1, WriteType
      <3>5. CASE step = 5
        <4>1. HdrWrite(slot, "cmd", cur.cmd.n)
          BY <1>6, <3>5, BeginSteps, Zenon
        <4> QED
          BY <2>1, <4>1, WriteType
      <3> QED
        BY <2>2, <3>1, <3>2, <3>3, <3>4, <3>5
    <2>4. /\ IF step < 5 THEN pc' = pc /\ step' = step + 1
             ELSE Goto(IF cur.wasActive THEN "dispatch" ELSE "end")
          /\ pc = "begin" /\ UNCHANGED <<served, ring, active, slot, cur, hostVars>>
      BY <1>6, BeginSteps, Zenon
    <2>5. step' \in 1..5 /\ pc' \in {"begin", "dispatch", "end"} /\ (pc' # "begin" => step' = 1)
      BY <2>4 DEF Goto
    <2> QED
      BY <2>1, <2>3, <2>4, <2>5, <2>6
  <1>7. CASE DevDispatch
    <2>1. pc' \in {"arg", "end", "group", "rearm"} /\ step' = 1
      BY <1>7, AfterFacts DEF DevDispatch, Goto
    <2>2. active' \in BOOLEAN /\ cur' \in Taking
      BY <1>7 DEF DevDispatch
    <2> QED
      BY <1>7, <2>1, <2>2 DEF DevDispatch
  <1>8. CASE DevArg
    <2>1. Kind \in {"peek", "switch", "enter"}
      BY <1>8, KindFacts DEF DevArg, DevInv, CmdInv, HasArg
    <2> QED
      BY <1>8, <2>1, TailBytes DEF DevArg, TakeByte, Goto
  <1>9. CASE DevPeek
    <2>1. hdr' \in [Slots -> Headers]
      BY <1>9, WriteType DEF DevPeek, Bytes
    <2>2. pc' \in {"end", "group", "rearm"} /\ step' = 1
      BY <1>9, AfterFacts DEF DevPeek
    <2>3. cur' \in Taking
      BY <1>9 DEF DevPeek
    <2> QED
      BY <1>9, <2>1, <2>2, <2>3 DEF DevPeek
  <1>10. CASE DevSwitch
    <2>1. pc' \in {"end", "group", "rearm"} /\ step' = 1
      BY <1>10, AfterFacts DEF DevSwitch
    <2>2. cur' \in Taking
      <3> DEFINE good == cur.arg.val \in Slots
      <3>1. cur' = [cur EXCEPT !.ok = good]
        BY <1>10, Zenon DEF DevSwitch
      <3>2. good \in BOOLEAN
        BY SMT
      <3> HIDE DEF good
      <3> QED
        BY <3>1, <3>2
    <2>3. slot' \in Slots /\ served' \in Slots
      BY <1>10 DEF DevSwitch
    <2> QED
      BY <1>10, <2>1, <2>2, <2>3 DEF DevSwitch
  <1>11. CASE DevEnter
    <2>1. pc' \in {"begin", "end", "group", "rearm"} /\ step' = 1
      BY <1>11, AfterFacts DEF DevEnter, Goto
    <2>2. cur' \in Taking /\ slot' \in Slots /\ active' \in BOOLEAN
      BY <1>11 DEF DevEnter
    <2>3. token' \in [lsb : Tokens, msb : Tokens]
      BY <1>11 DEF DevEnter, ReadToken, Headers
    <2> QED
      BY <1>11, <2>1, <2>2, <2>3 DEF DevEnter
  <1>12. CASE DevEnd
    <2>0. pc = "end"
      BY <1>12, Zenon DEF DevEnd
    <2>1. pc = "end" /\ step \in 1..3
      BY <2>0
    <2>6. step = 1 \/ step = 2 \/ step = 3
      BY <2>1
    <2>2. hdr' \in [Slots -> Headers]
      <3>1. CASE step = 1
        <4>1. HdrWrite(slot, "response", cur.ok)
          BY <1>12, <2>1, <3>1, EndSteps, Zenon
        <4> QED
          BY <4>1, WriteType
      <3>2. CASE step = 2
        BY <1>12, <2>1, <3>2, EndSteps
      <3>3. CASE step = 3
        <4>1. HdrWrite(slot, "progress", TRUE)
          BY <1>12, <2>1, <3>3, EndSteps, Zenon
        <4> QED
          BY <4>1, WriteType
      <3> QED
        BY <2>6, <3>1, <3>2, <3>3
    <2>3. /\ IF step < 3 THEN pc' = pc /\ step' = step + 1
             ELSE Goto(IF active THEN "group" ELSE "rearm")
          /\ ring' = ring \/ ring' = <<>>
          /\ UNCHANGED <<served, active, slot, token, cur, hostVars>>
      BY <1>12, <2>1, <2>6, EndSteps, Zenon
    <2>4. step' \in 1..3 /\ pc' \in {"end", "group", "rearm"} /\ (pc' # "end" => step' = 1)
      BY <2>1, <2>3 DEF Goto
    <2>5. ring' \in Seq(Bytes)
      <3>1. <<>> \in Seq(Bytes) /\ ring \in Seq(Bytes)
        OBVIOUS
      <3> QED
        BY <2>3, <3>1, Zenon
    <2> QED
      BY <2>2, <2>3, <2>4, <2>5
  <1> QED
    BY <1>1, <1>2, <1>3, <1>4, <1>5, <1>6, <1>7, <1>8, <1>9, <1>10, <1>11, <1>12
       DEF Device

----------------------------------------------------------------------------
(* What is in flight, through every step.                                  *)

\* Nothing is read, and nothing the plugin holds changes.
LEMMA Stays ==
  ASSUME TypeOK, RingInv, OutInv, UNCHANGED <<ring, out, cmd, issued>>,
         cur'.group = cur.group, cur'.cmd = cur.cmd, cur'.arg = cur.arg,
         hpc' = hpc \/ (hpc # "send" /\ hpc' # "send")
  PROVE  /\ RingInv' /\ OutInv' /\ Quiet' = Quiet
         /\ \A b : /\ InRing(b) => InRing(b)'
                   /\ ToCome(b) => ToCome(b)'
                   /\ Upcoming(b) => Upcoming(b)'
  <1>1. \A b : OfIssued(b)' = OfIssued(b) /\ OfExit(b)' = OfExit(b) /\ Fresh(b)' = Fresh(b)
    BY DEF OfIssued, OfExit, Fresh
  <1>2. RingInv'
    <2>1. Ordered'
      BY DEF RingInv, Ordered
    <2>2. ASSUME NEW i \in 1..Len(ring'), NEW b, b = ring'[i]
          PROVE  b = OffPage \/ ((OfIssued(b)' \/ OfExit(b)') /\ Fresh(b)')
      BY <1>1, <2>2 DEF RingInv
    <2> QED
      BY <2>1, <2>2 DEF RingInv
  <1>3. OutInv'
    <2>1. CASE hpc # "send"
      BY <2>1 DEF OutInv
    <2>2. CASE hpc = "send"
      <3>1. \A b : b = out[1] => Fresh(b)'
        BY <1>1, <2>2 DEF OutInv
      <3> QED
        BY <2>2, <3>1 DEF OutInv, OfIssued
    <2> QED
      BY <2>1, <2>2
  <1>4. Quiet' = Quiet
    BY DEF Quiet
  <1> QED
    BY <1>2, <1>3, <1>4 DEF InRing, ToCome, Upcoming

\* The host's steps that read the header, and those that read nothing.
HostPolls == HostPollToken \/ HostPollProgress \/ HostReadResponse \/ HostReadData
HostWaits == HostAwaitSwitch /\ hpc' = hpc
HostMoves == HostDone \/ HostGiveUp \/ (HostAwaitSwitch /\ hpc' # hpc)

LEMMA PollsFlight ==
  ASSUME TypeOK, RingInv, OutInv, HostPolls \/ HostWaits
  PROVE  /\ RingInv' /\ OutInv' /\ TypeOK'
         /\ UNCHANGED <<served, hdr, devVars, out, cmd, before, session, issued>>
         /\ Quiet => Quiet'
         /\ \A b : InRing(b) /\ ~Off(b) => InRing(b)'
         /\ \A b : ToCome(b) /\ ~Off(b) => ToCome(b)'
         /\ \A b : Upcoming(b) /\ ~Off(b) => Upcoming(b)'
  <1>1. /\ hpc # "send" /\ hpc' # "send" /\ hpc' \in {"token", "progress", "response", "data", "got", "await"}
        /\ UNCHANGED <<served, hdr, devVars, out, cmd, before, session, issued>>
    BY DEF HostPolls, HostWaits, HostPollToken, HostPollProgress, HostReadResponse, HostReadData,
           HostAwaitSwitch
  <1>2. Read(OffPage)
    BY DEF HostPolls, HostWaits, HostPollToken, HostPollProgress, HostReadResponse, HostReadData,
           HostAwaitSwitch
  <1>3. reply' \in [ok : BOOLEAN, data : Nat]
    <2>1. hdr[served] \in Headers /\ reply \in [ok : BOOLEAN, data : Nat]
      BY DEF TypeOK, ImageType, HostType
    <2> QED
      BY <2>1 DEF HostPolls, HostWaits, HostPollToken, HostPollProgress, HostReadResponse,
                  HostReadData, HostAwaitSwitch, Headers
  <1>4. ring' \in Seq(Bytes)
    BY <1>1, <1>2, Polls DEF devVars
  <1>5. TypeOK'
    BY <1>1, <1>3, <1>4 DEF TypeOK, PlaceType, ImageType, HostType, Taking, devVars
  <1> QED
    BY <1>1, <1>2, <1>5, Polls DEF devVars

LEMMA MovesFlight ==
  ASSUME TypeOK, RingInv, OutInv, HostMoves
  PROVE  /\ RingInv' /\ OutInv' /\ TypeOK' /\ hpc' = "idle" /\ hpc # "idle" /\ hpc # "send"
         /\ UNCHANGED <<served, hdr, ring, devVars, out, cmd, before, reply, issued>>
  <1>1. /\ hpc' = "idle" /\ hpc # "idle" /\ hpc # "send"
        /\ UNCHANGED <<served, hdr, ring, devVars, out, cmd, before, reply, issued>>
    BY DEF HostMoves, HostDone, HostGiveUp, HostAwaitSwitch
  <1>2. session' \in BOOLEAN
    BY DEF HostMoves, HostDone, HostGiveUp, HostAwaitSwitch, TypeOK, HostType
  <1>3. RingInv' /\ OutInv'
    BY <1>1, Stays DEF devVars
  <1>4. TypeOK'
    BY <1>1, <1>2 DEF TypeOK, PlaceType, ImageType, HostType, Taking, devVars
  <1> QED
    BY <1>1, <1>3, <1>4

LEMMA SendType ==
  ASSUME TypeOK, RingInv, OutInv, HostSend
  PROVE  TypeOK'
  <1>1. ring' \in Seq(Bytes) /\ out' \in Seq(Bytes)
    BY Sends
  <1>2. hpc' \in {"idle", "send", "token", "await"} /\ session' \in BOOLEAN
    BY DEF HostSend, AfterSend, TypeOK, HostType
  <1> QED
    BY <1>1, <1>2 DEF HostSend, TypeOK, PlaceType, ImageType, HostType, Taking, devVars

LEMMA ArmedFacts ==
  ASSUME TypeOK, NEW k \in Kinds, NEW a \in Args(k)
  PROVE  /\ Armed(k, a) \in [Slots -> Headers]
         /\ k # "switch" \/ ~HostArms => Armed(k, a) = hdr
         /\ \A s \in Slots : k = "switch" /\ s # a => Armed(k, a)[s] = hdr[s]
         /\ k = "switch" /\ HostArms =>
              /\ a \in Slots
              /\ Armed(k, a)[a].lsb = (hdr[served].lsb + 1) % TokenMod
  <1>1. hdr \in [Slots -> Headers] /\ served \in Slots
        /\ (hdr[served].lsb + 1) % TokenMod \in Tokens
    BY TokenFacts DEF TypeOK, ImageType, Headers
  <1>2. CASE k = "switch" /\ HostArms
    <2>1. a \in Slots
      BY <1>2 DEF Args
    <2> QED
      BY <1>1, <1>2, <2>1 DEF Armed, Headers
  <1>3. CASE ~(k = "switch" /\ HostArms)
    BY <1>1, <1>3 DEF Armed
  <1> QED
    BY <1>2, <1>3

LEMMA IssueType ==
  ASSUME TypeOK, RingInv, OutInv, DevInv, HostInv,
         NEW k \in Kinds, NEW a \in Args(k), HostIssue(k, a)
  PROVE  TypeOK'
  <1>1. ring' \in Seq(Bytes) /\ out' \in Seq(Bytes) /\ hdr' \in [Slots -> Headers]
    BY Issues, ArmedFacts DEF HostIssue
  <1>2. cmd' \in [kind : Kinds, arg : ArgValues] /\ cmd'.arg \in Args(cmd'.kind)
    BY ArgTypes DEF HostIssue
  <1>3. before' \in Tokens /\ issued' \in Nat
    BY DEF HostIssue, TypeOK, ImageType, HostType, Headers
  <1>4. UNCHANGED <<served, devVars, reply, session>> /\ hpc' = "send"
    BY DEF HostIssue
  <1> QED
    BY <1>1, <1>2, <1>3, <1>4 DEF TypeOK, PlaceType, ImageType, HostType, Taking, devVars

----------------------------------------------------------------------------
(* What each side knows of the other, through the host's steps.            *)

\* The bytes the plugin looks for are not polls.
LEMMA NotOff == \A n, v : ~Off(Group(n, v)) /\ ~Off(Cmd(n, v)) /\ ~Off(Arg(n, v))
  BY DEF Off, Group, Cmd, Arg

LEMMA DevKept ==
  ASSUME TypeOK, DevInv, UNCHANGED <<served, devVars, cmd, issued>>,
         \A b : InRing(b) /\ ~Off(b) => InRing(b)',
         \A b : ToCome(b) /\ ~Off(b) => ToCome(b)',
         \A b : Upcoming(b) /\ ~Off(b) => Upcoming(b)',
         pc = "group" /\ ~active /\ ~Taken => hpc' \in {"send", "token"}
  PROVE  DevInv'
  <1> USE DEF devVars
  <1>1. /\ Taken' = Taken /\ Whole' = Whole /\ IsTaken' = IsTaken /\ ArgTaken' = ArgTaken
        /\ InSession' = InSession /\ Entering' = Entering /\ Unanswered' = Unanswered
        /\ ModeAfter' = ModeAfter /\ AtRest' = AtRest /\ Done' = Done
    BY DEF Taken, Whole, IsTaken, ArgTaken, InSession, Entering, Unanswered, ModeAfter, AtRest, Done
  <1>2. ArgAhead => ArgAhead'
    BY NotOff DEF ArgAhead
  <1>3. RestInv'
    BY <1>1, NotOff DEF DevInv, RestInv
  <1>4. CmdInv'
    BY <1>1, <1>2, NotOff DEF DevInv, CmdInv
  <1>5. FrameInv'
    BY <1>1, <1>2 DEF DevInv, FrameInv
  <1> QED
    BY <1>1, <1>3, <1>4, <1>5 DEF DevInv

\* A plugin at rest that has begun the command has all of it.
LEMMA RestIsDone ==
  ASSUME DevInv, AtRest, Taken
  PROVE  Done
  BY DEF DevInv, RestInv, AtRest, Done

LEMMA PollsKeeps ==
  ASSUME IInv, HostPolls
  PROVE  IInv'
  <1> USE DEF IInv
  <1>1. /\ RingInv' /\ OutInv' /\ TypeOK'
        /\ UNCHANGED <<served, hdr, devVars, out, cmd, before, session, issued>>
        /\ Quiet => Quiet'
        /\ \A b : InRing(b) /\ ~Off(b) => InRing(b)'
        /\ \A b : ToCome(b) /\ ~Off(b) => ToCome(b)'
        /\ \A b : Upcoming(b) /\ ~Off(b) => Upcoming(b)'
    BY PollsFlight
  <1>2. /\ Taken' = Taken /\ Whole' = Whole /\ Unanswered' = Unanswered /\ AtRest' = AtRest
        /\ Done' = Done /\ TokenOut' = TokenOut /\ Pending' = Pending
    BY <1>1 DEF devVars, Taken, Whole, Unanswered, AtRest, Done, TokenOut, Pending
  <1>3. \/ hpc = "token" /\ hpc' = "token" /\ reply' = reply
        \/ hpc = "token" /\ hpc' = "progress" /\ hdr[served].lsb # before /\ reply' = reply
        \/ hpc = "progress" /\ hpc' = "progress" /\ reply' = reply
        \/ hpc = "progress" /\ hpc' = "response" /\ hdr[served].progress /\ reply' = reply
        \/ hpc = "response" /\ hpc' = "data" /\ reply' = [reply EXCEPT !.ok = hdr[served].response]
        \/ hpc = "data" /\ hpc' = "got" /\ reply' = [reply EXCEPT !.data = hdr[served].data]
    BY DEF HostPolls, HostPollToken, HostPollProgress, HostReadResponse, HostReadData
  <1>4. hpc = "token" /\ hpc' = "progress" => TokenOut
    BY <1>3 DEF HostInv
  <1>5. DevInv'
    <2>1. ASSUME pc = "group", ~active, ~Taken PROVE hpc' \in {"send", "token"}
      <3>1. hpc \in {"send", "token"}
        BY <2>1 DEF DevInv, RestInv, InSession
      <3>2. ~TokenOut
        BY <2>1 DEF TokenOut
      <3> QED
        BY <1>3, <1>4, <3>1, <3>2
    <2> QED
      BY <1>1, <2>1, DevKept
  <1>6. HostInv'
    <2>1. slot = served
      BY DEF DevInv
    <2>2. ASSUME hpc = "progress", hpc' = "response" PROVE Done /\ TokenOut
      <3>1. TokenOut /\ Taken /\ ~Unanswered /\ cmd.kind # "switch"
        BY <2>2 DEF HostInv, TokenOut
      <3>2. hdr[slot].progress
        BY <1>3, <2>1, <2>2
      <3>3. ~Pending
        BY <2>2, <3>1, <3>2 DEF HeaderInv
      <3>4. AtRest
        BY <3>1, <3>3 DEF TokenOut, Pending, TypeOK, PlaceType
      <3> QED
        BY <3>1, <3>4, RestIsDone
    <2>3. ASSUME hpc \in {"response", "data"}
          PROVE  /\ hdr[served].response = cur.ok
                 /\ cmd.kind = "peek" /\ cur.ok => hdr[served].data = issued
      <3>1. Done /\ TokenOut /\ Taken /\ ~Unanswered /\ cmd.kind # "switch"
        BY <2>3 DEF HostInv, TokenOut
      <3> QED
        BY <2>1, <2>3, <3>1 DEF HeaderInv, Done
    <2>4. reply'.ok = IF hpc = "response" THEN hdr[served].response ELSE reply.ok
      BY <1>3 DEF TypeOK, HostType
    <2>5. hpc = "data" => reply'.data = hdr[served].data
      BY <1>3 DEF TypeOK, HostType
    <2>6. hpc' \in {"token", "progress", "response", "data", "got"} /\ hpc # "idle" /\ cmd.kind \notin {"switch", "exit_silent"}
      BY <1>3 DEF HostInv
    <2>7. hpc' = "token" => hpc = "token"
      BY <1>3
    <2>8. hpc' = "progress" => TokenOut
      BY <1>3, <1>4 DEF HostInv
    <2>9. hpc' \in {"response", "data", "got"} => Done /\ TokenOut
      BY <1>3, <2>2 DEF HostInv
    <2>10. hpc' \in {"data", "got"} => reply'.ok = cur.ok
      BY <1>3, <2>3, <2>4 DEF HostInv
    <2>11. hpc' = "got" /\ cmd.kind = "peek" /\ reply'.ok => reply'.data = issued
      BY <1>3, <2>3, <2>5, <2>10
    <2>12. issued > 0 /\ session = (cmd.kind # "enter")
      BY <2>6 DEF HostInv
    <2>13. hpc' = "token" /\ ~TokenOut => hdr[served].lsb = before
      BY <2>7 DEF HostInv
    <2> QED
      BY <1>1, <1>2, <2>6, <2>8, <2>9, <2>10, <2>11, <2>12, <2>13 DEF HostInv, devVars
  <1>7. HeaderInv'
    BY <1>1, <1>2, <1>3 DEF HeaderInv, devVars
  <1>8. ArmInv'
    BY <1>1, <1>2, <1>3 DEF ArmInv, devVars
  <1> QED
    BY <1>1, <1>5, <1>6, <1>7, <1>8

LEMMA WaitsKeeps ==
  ASSUME IInv, HostWaits
  PROVE  IInv'
  <1> USE DEF IInv
  <1>1. /\ RingInv' /\ OutInv' /\ TypeOK'
        /\ UNCHANGED <<served, hdr, devVars, out, cmd, before, session, issued>>
        /\ Quiet => Quiet'
        /\ \A b : InRing(b) /\ ~Off(b) => InRing(b)'
        /\ \A b : ToCome(b) /\ ~Off(b) => ToCome(b)'
        /\ \A b : Upcoming(b) /\ ~Off(b) => Upcoming(b)'
    BY PollsFlight
  <1>2. /\ Taken' = Taken /\ Whole' = Whole /\ Unanswered' = Unanswered /\ AtRest' = AtRest
        /\ Done' = Done /\ TokenOut' = TokenOut /\ Pending' = Pending
    BY <1>1 DEF devVars, Taken, Whole, Unanswered, AtRest, Done, TokenOut, Pending
  <1>3. hpc = "await" /\ hpc' = "await" /\ cmd.kind = "switch"
    BY DEF HostWaits, HostAwaitSwitch, HostInv
  <1>4. DevInv'
    <2>1. ~(pc = "group" /\ ~active /\ ~Taken)
      BY <1>3 DEF DevInv, RestInv, InSession
    <2> QED
      BY <1>1, <2>1, DevKept
  <1>5. HostInv'
    BY <1>1, <1>2, <1>3 DEF HostInv, devVars
  <1>6. HeaderInv'
    BY <1>1, <1>2, <1>3 DEF HeaderInv, devVars
  <1>7. ArmInv'
    BY <1>1, <1>2, <1>3 DEF ArmInv, devVars
  <1> QED
    BY <1>1, <1>4, <1>5, <1>6, <1>7

\* A host that has its answer, or gives up, or sees the slot switched.  With
\* nothing in the ring and the device waiting for it, the switch is over.
LEMMA MovesKeeps ==
  ASSUME HostLockstep, IInv, HostMoves
  PROVE  IInv'
  <1> USE DEF IInv
  <1>1. /\ RingInv' /\ OutInv' /\ TypeOK' /\ hpc' = "idle" /\ hpc # "idle" /\ hpc # "send"
        /\ UNCHANGED <<served, hdr, ring, devVars, out, cmd, before, reply, issued>>
    BY MovesFlight
  <1>2. /\ Taken' = Taken /\ Whole' = Whole /\ Unanswered' = Unanswered /\ AtRest' = AtRest
        /\ Done' = Done /\ TokenOut' = TokenOut /\ Pending' = Pending /\ Quiet' = Quiet
    BY <1>1 DEF devVars, Taken, Whole, Unanswered, AtRest, Done, TokenOut, Pending, Quiet
  <1>3. issued > 0 /\ session = (cmd.kind # "enter") /\ cmd.kind # "exit_silent"
    BY <1>1 DEF HostInv, TypeOK, HostType
  <1>4. \/ Done /\ session' = active
        \/ ~Taken /\ pc \in {"rearm", "knock"} /\ Quiet /\ ~session'
    <2>1. CASE HostDone
      <3>1. Done /\ reply.ok = cur.ok
        BY <2>1 DEF HostDone, HostInv
      <3>2. /\ active = ModeAfter /\ (cmd.kind = "enter" => cur.ok = active)
        BY <1>3, <3>1 DEF DevInv, RestInv
      <3> QED
        BY <1>3, <2>1, <3>1, <3>2 DEF HostDone, ModeAfter
    <2>2. CASE HostGiveUp
      <3>1. pc = "knock" /\ Quiet /\ session' = FALSE /\ hpc = "token" /\ hdr[served].lsb = before
        BY <2>2 DEF HostGiveUp, Quiet, Off, TypeOK
      <3>2. CASE ~Taken
        BY <3>1, <3>2
      <3>3. CASE Taken
        BY <3>1, <3>3, RestIsDone DEF AtRest, DevInv, RestInv, TypeOK
      <3> QED
        BY <3>2, <3>3
    <2>3. CASE HostAwaitSwitch /\ hpc' # hpc
      <3>1. hpc = "await" /\ served = cmd.arg /\ DeviceYields /\ session' = session
        BY <2>3 DEF HostAwaitSwitch
      <3>2. cmd.kind = "switch" /\ Whole /\ pc \in {"end", "group"}
        BY <3>1 DEF HostInv
      <3>3. pc = "group" /\ Done
        BY <3>1, <3>2 DEF DeviceYields, Done, AtRest
      <3>4. active = ModeAfter
        BY <1>3, <3>3 DEF DevInv, RestInv
      <3> QED
        BY <1>3, <3>1, <3>2, <3>3, <3>4 DEF ModeAfter
    <2> QED
      BY <2>1, <2>2, <2>3 DEF HostMoves
  <1>5. DevInv'
    <2>1. ~(pc = "group" /\ ~active /\ ~Taken)
      BY <1>4 DEF Done, Whole
    <2>2. \A b : Upcoming(b) => Upcoming(b)'
      BY <1>1 DEF Upcoming
    <2>3. \A b : InRing(b) => InRing(b)'
      BY <1>1 DEF InRing
    <2>4. \A b : ToCome(b) => ToCome(b)'
      BY <1>1, <2>3 DEF ToCome
    <2> QED
      BY <1>1, <2>1, <2>2, <2>3, <2>4, DevKept
  <1>6. HostInv'
    BY <1>1, <1>2, <1>4 DEF HostInv, devVars
  <1>7. HeaderInv'
    BY <1>1 DEF HeaderInv
  <1>8. ArmInv'
    BY <1>1 DEF ArmInv, devVars
  <1> QED
    BY <1>1, <1>5, <1>6, <1>7, <1>8

LEMMA SendKeeps ==
  ASSUME IInv, HostSend
  PROVE  IInv'
  <1> USE DEF IInv
  <1>1. /\ RingInv' /\ OutInv' /\ TypeOK'
        /\ OfIssued(out[1])
        /\ hpc' = IF Final(out[1]) THEN AfterSend ELSE "send"
        /\ \A b : InRing(b) => InRing(b)'
        /\ \A b : ToCome(b) => ToCome(b)'
        /\ \A b : Upcoming(b) => Upcoming(b)'
        /\ Len(out) = 1 <=> Final(out[1])
    BY Sends, SendType
  <1>2. /\ hpc = "send"
        /\ UNCHANGED <<served, hdr, devVars, cmd, before, reply, issued>>
        /\ session' = (session /\ ~ (Final(out[1]) /\ cmd.kind = "exit_silent"))
    BY <1>1 DEF HostSend
  <1>3. /\ Taken' = Taken /\ Whole' = Whole /\ Unanswered' = Unanswered /\ AtRest' = AtRest
        /\ Done' = Done /\ TokenOut' = TokenOut /\ Pending' = Pending
    BY <1>2 DEF devVars, Taken, Whole, Unanswered, AtRest, Done, TokenOut, Pending
  <1>4. \/ hpc' = "send" /\ session' = session
        \/ hpc' = "idle" /\ session' = FALSE /\ cmd.kind = "exit_silent"
        \/ hpc' = "await" /\ session' = session /\ cmd.kind = "switch"
        \/ hpc' = "token" /\ session' = session /\ cmd.kind \notin {"exit_silent", "switch"}
    BY <1>1, <1>2 DEF AfterSend, TypeOK, HostType
  <1>5. DevInv'
    <2>1. pc = "group" /\ ~active /\ ~Taken => cmd.kind = "enter"
      BY DEF DevInv, RestInv, InSession
    <2>2. pc = "group" /\ ~active /\ ~Taken => hpc' \in {"send", "token"}
      BY <1>4, <2>1
    <2> QED
      BY <1>1, <1>2, <2>2, DevKept
  <1>6. issued > 0 /\ session = (cmd.kind # "enter")
    BY <1>2 DEF HostInv
  <1>7. ASSUME cmd.kind = "exit_silent", hpc' = "idle" PROVE active
    <2>1. out[1].pos = "cmd" /\ Fresh(out[1])
      <3>1. Final(out[1])
        BY <1>1, <1>7
      <3>2. out[1].pos # "arg"
        BY <1>1, <1>7, IssuedByte DEF HasArg
      <3> QED
        BY <1>2, <3>1, <3>2 DEF OutInv, Final
    <2>2. out[1] = Cmd(issued, cmd.kind)
      BY <1>1, <2>1, IssuedByte
    <2>3. ~Taken
      <3>1. cur.cmd # Cmd(issued, cmd.kind)
        <4>1. Rank(cur.cmd) < Rank(out[1])
          BY <2>1 DEF Fresh
        <4>2. Rank(out[1]) \in Nat
          BY <1>1, IssuedByte
        <4> QED
          BY <2>2, <4>1, <4>2
      <3> QED
        BY <1>6, <3>1 DEF DevInv, IsTaken
    <2> QED
      BY <1>7, <2>3 DEF DevInv, RestInv, CmdInv, FrameInv, InSession, Entering, IsTaken, Taken,
                        Cmd, TypeOK, PlaceType, Whole
  <1>8. HostInv'
    BY <1>2, <1>3, <1>4, <1>6, <1>7 DEF HostInv, devVars
  <1>9. HeaderInv'
    BY <1>2, <1>3, <1>4 DEF HeaderInv, devVars
  <1>10. ArmInv'
    BY <1>2, <1>3, <1>4 DEF ArmInv, devVars
  <1> QED
    BY <1>1, <1>5, <1>8, <1>9, <1>10

\* A host issues its next command.  The plugin has not begun it; it is at
\* rest, or it has the silent exit before it still to run.
LEMMA IssueKeeps ==
  ASSUME IInv, NEW k \in Kinds, NEW a \in Args(k), HostIssue(k, a)
  PROVE  IInv'
  <1> USE DEF IInv
  <1>1. /\ RingInv' /\ OutInv' /\ TypeOK'
        /\ out'[1] = IF k = "enter" THEN Knock(issued + 1) ELSE Group(issued + 1, k)
        /\ \A b : InRing(b) /\ ~Off(b) => InRing(b)'
        /\ \A b : ring # <<>> /\ ring[1] = b /\ ~Off(b) => ring' # <<>> /\ ring'[1] = b
    BY Issues, IssueType
  <1>2. /\ hpc = "idle" /\ hpc' = "send" /\ issued' = issued + 1 /\ issued \in Nat
        /\ cmd' = [kind |-> k, arg |-> a] /\ before' = hdr[served].lsb
        /\ session <=> k # "enter"
        /\ k = "switch" => a # served
        /\ hdr' = Armed(k, a)
        /\ UNCHANGED <<served, pc, step, active, slot, token, cur, reply, session>>
    BY DEF HostIssue, devVars, TypeOK, HostType
  <1>3. /\ cur.group.n <= issued /\ cur.cmd.n <= issued /\ cur.arg.n <= issued
        /\ cur.group.n \in Nat /\ cur.cmd.n \in Nat /\ cur.arg.n \in Nat
        /\ slot = served
    BY DEF DevInv, TypeOK, Taking, Bytes
  <1>4. ~Taken' /\ ~TokenOut'
    BY <1>2, <1>3 DEF Taken, TokenOut
  <1>5. \/ active /\ pc = "group" /\ session
        \/ ~active /\ pc \in {"rearm", "knock"} /\ ~session
        \/ /\ active /\ ~session /\ cmd.kind = "exit_silent" /\ issued > 0
           /\ pc \in {"group", "cmd", "dispatch"}
    <2>1. CASE Done /\ session = active
      <3>1. pc = "group" => active
        BY <2>1 DEF DevInv, RestInv, Done, Whole
      <3>2. pc \in {"rearm", "knock"} => ~active
        BY DEF DevInv, RestInv
      <3>3. pc \in {"group", "rearm", "knock"}
        BY <2>1 DEF Done, AtRest
      <3> QED
        BY <2>1, <3>1, <3>2, <3>3
    <2>2. CASE ~Taken /\ pc \in {"rearm", "knock"} /\ Quiet /\ ~session
      BY <2>2 DEF DevInv, RestInv
    <2>3. CASE ~session /\ cmd.kind = "exit_silent" /\ issued > 0 /\ active
      <3>1. pc \notin {"rearm", "knock"}
        BY <2>3 DEF DevInv, RestInv
      <3>2. pc \notin {"arg", "peek", "switch", "enter"}
        BY <2>3 DEF DevInv, CmdInv, HasArg
      <3>3. pc \notin {"begin", "end"}
        BY <2>3 DEF DevInv, FrameInv, Unanswered
      <3> QED
        BY <2>3, <3>1, <3>2, <3>3 DEF TypeOK, PlaceType
    <2> QED
      BY <1>2, <2>1, <2>2, <2>3 DEF HostInv
  <1>6. k \in Kinds /\ (k = "enter" <=> ~session)
    BY <1>2
  <1>7. DevInv'
    <2>1. RestInv'
      <3>1. pc \in {"rearm", "knock"} => ~active /\ k = "enter"
        BY <1>5, <1>6
      <3>2. ~Done' /\ ~Whole'
        BY <1>4 DEF Done, Whole
      <3>3. ASSUME pc = "group"
            PROVE  \/ InSession' /\ out'[1] = Group(issued', k)
                   \/ /\ active /\ k = "enter"
                      /\ \E i \in 1..Len(ring') : ring'[i] = Group(issued, "exit_silent")
        <4>1. CASE active /\ session
          BY <1>1, <1>2, <1>6, <4>1 DEF InSession
        <4>2. CASE active /\ ~session
          <5>1. cmd.kind = "exit_silent" /\ issued > 0
            BY <1>5, <3>3, <4>2
          <5>2. InRing(Group(issued, "exit_silent"))
            BY <1>2, <3>3, <4>2, <5>1 DEF DevInv, RestInv, ToCome
          <5> QED
            BY <1>1, <1>6, <4>2, <5>2, NotOff DEF InRing
        <4> QED
          BY <1>5, <3>3, <4>1, <4>2
      <3>4. issued' - 1 = issued
        BY <1>2
      <3> QED
        BY <1>2, <1>4, <3>1, <3>2, <3>3, <3>4 DEF RestInv, ToCome, InRing
    <2>2. CmdInv'
      <3>1. ASSUME pc = "cmd"
            PROVE  /\ active /\ k = "enter" /\ cur.arg = NoByte
                   /\ cur.group = Group(issued, "exit_silent")
                   /\ ring' # <<>> /\ ring'[1] = Cmd(issued, "exit_silent")
        <4>1. active /\ ~session /\ cmd.kind = "exit_silent"
          BY <1>5, <3>1
        <4>2. /\ cur.group = Group(issued, "exit_silent") /\ cur.arg = NoByte
              /\ Upcoming(Cmd(issued, "exit_silent"))
          BY <3>1, <4>1 DEF DevInv, CmdInv
        <4>3. ring # <<>> /\ ring[1] = Cmd(issued, "exit_silent")
          BY <1>2, <4>2 DEF Upcoming
        <4> QED
          BY <1>1, <1>6, <4>1, <4>2, <4>3, NotOff
      <3>2. ASSUME pc = "dispatch"
            PROVE  /\ active /\ k = "enter" /\ issued > 0 /\ cur.wasActive = active
                   /\ cur.group = Group(issued, "exit_silent")
                   /\ cur.cmd = Cmd(issued, "exit_silent")
        <4>1. active /\ ~session /\ cmd.kind = "exit_silent" /\ issued > 0
          BY <1>5, <3>2
        <4> QED
          BY <1>6, <3>2, <4>1 DEF DevInv, CmdInv, IsTaken
      <3>3. pc \notin {"arg", "peek", "switch", "enter"}
        BY <1>5
      <3>4. issued' - 1 = issued /\ (issued > 0 => issued' > 1)
        BY <1>2
      <3> QED
        BY <1>2, <1>4, <3>1, <3>2, <3>3, <3>4 DEF CmdInv, Upcoming
    <2>3. FrameInv'
      BY <1>2, <1>5 DEF FrameInv
    <2> QED
      BY <1>2, <1>3, <1>4, <2>1, <2>2, <2>3 DEF DevInv
  <1>8. hdr'[served] = hdr[served]
    BY <1>2, ArmedFacts DEF TypeOK, ImageType
  <1>9. HostInv'
    BY <1>2, <1>4, <1>6, <1>8 DEF HostInv, TypeOK, HostType
  <1>10. HeaderInv'
    BY <1>4 DEF HeaderInv
  <1>11. ArmInv'
    <2>1. ASSUME HostArms, active \/ pc \in {"begin", "end"}
          PROVE  hdr'[slot].lsb = token.lsb
      BY <1>3, <1>8, <2>1 DEF ArmInv
    <2>2. ASSUME HostArms, k = "switch"
          PROVE  hdr'[a].lsb = (before' + 1) % TokenMod /\ token.lsb = before'
      <3>1. active
        BY <1>5, <1>6, <2>2
      <3>2. hdr[slot].lsb = token.lsb
        BY <2>2, <3>1 DEF ArmInv
      <3> QED
        BY <1>2, <1>3, <2>2, <3>2, ArmedFacts
    <2> QED
      BY <1>2, <1>4, <2>1, <2>2 DEF ArmInv
  <1> QED
    BY <1>1, <1>7, <1>9, <1>10, <1>11

----------------------------------------------------------------------------
(* What each side knows of the other, through the plugin's steps.          *)

\* The places of the plugin are the same but for what is in the ring.
LEMMA OthersKept ==
  ASSUME HostInv, HeaderInv, ArmInv, UNCHANGED <<served, hdr, devVars, hostVars>>,
         Quiet => Quiet'
  PROVE  HostInv' /\ HeaderInv' /\ ArmInv'
  <1>1. /\ Taken' = Taken /\ Whole' = Whole /\ Unanswered' = Unanswered /\ AtRest' = AtRest
        /\ Done' = Done /\ TokenOut' = TokenOut /\ Pending' = Pending
    BY DEF devVars, hostVars, Taken, Whole, Unanswered, AtRest, Done, TokenOut, Pending
  <1> QED
    BY <1>1 DEF HostInv, HeaderInv, ArmInv, devVars, hostVars

\* The plugin has not begun the command, before the step or after it.
LEMMA NotBegun ==
  ASSUME HostInv, ArmInv, ~Taken, ~Taken', UNCHANGED <<served, hdr, slot, token, hostVars>>,
         active' => active, pc' \notin {"begin", "end"},
         hpc = "idle" => \/ active' /\ cmd.kind = "exit_silent" /\ issued > 0 /\ ~session
                         \/ pc' \in {"rearm", "knock"} /\ Quiet' /\ ~session
  PROVE  HostInv' /\ HeaderInv' /\ ArmInv'
  <1>1. ~TokenOut /\ ~TokenOut' /\ ~Whole /\ ~Done
    BY DEF TokenOut, Whole, Done
  <1> QED
    BY <1>1 DEF HostInv, HeaderInv, ArmInv, hostVars

LEMMA ListenKeeps ==
  ASSUME IInv, DevListen
  PROVE  IInv'
  <1> USE DEF IInv
  <1>1. /\ pc = "rearm" /\ pc' = "knock" /\ step' = 1 /\ ring' = <<>>
        /\ UNCHANGED <<served, hdr, active, slot, token, cur, hostVars>>
    BY DEF DevListen, Goto
  <1>2. TypeOK'
    BY DeviceType DEF Device
  <1>3. RingInv' /\ OutInv' /\ Quiet'
    BY <1>1, Clears DEF hostVars
  <1>4. /\ Taken' = Taken /\ Whole' = Whole /\ Unanswered' = Unanswered /\ AtRest' /\ AtRest
        /\ Done' = Done /\ TokenOut' = TokenOut /\ ~Pending /\ ~Pending'
        /\ IsTaken' = IsTaken /\ ArgTaken' = ArgTaken /\ ModeAfter' = ModeAfter
    BY <1>1 DEF hostVars, Taken, Whole, Unanswered, AtRest, Done, TokenOut, Pending, IsTaken, ArgTaken,
                ModeAfter
  <1>5. DevInv'
    BY <1>1, <1>4 DEF DevInv, RestInv, CmdInv, FrameInv, hostVars
  <1>6. HostInv' /\ HeaderInv' /\ ArmInv'
    BY <1>1, <1>3, <1>4 DEF HostInv, HeaderInv, ArmInv, hostVars
  <1> QED
    BY <1>2, <1>3, <1>5, <1>6

LEMMA SkipKeeps ==
  ASSUME IInv, DevSkip
  PROVE  IInv'
  <1> USE DEF IInv
  <1>1. /\ pc \in {"group", "cmd", "arg"} /\ ring # <<>> /\ active /\ ring' = Tail(ring)
        /\ UNCHANGED <<served, hdr, devVars, hostVars>> /\ Off(ring[1])
    BY TailBytes DEF DevSkip, Off
  <1>2. TypeOK'
    BY DeviceType DEF Device
  <1>3. /\ RingInv' /\ OutInv' /\ (Quiet => Quiet')
        /\ \A b : InRing(b) /\ b # ring[1] => InRing(b)'
        /\ \A b : ToCome(b) /\ b # ring[1] => ToCome(b)'
    BY <1>1, Takes DEF devVars, hostVars
  <1>4. DevInv'
    <2>1. \A b : Upcoming(b) => Off(b)
      BY <1>1 DEF Upcoming
    <2> QED
      BY <1>1, <1>3, <2>1, DevKept DEF hostVars
  <1> QED
    BY <1>1, <1>2, <1>3, <1>4, OthersKept

\* What follows the first byte of the ring is what the plugin takes next.
LEMMA NextUp ==
  ASSUME NEW b, Followed(b), ~Off(b), ~Final(b)
  PROVE  \/ ring # <<>> /\ Linked(b, ring[1]) /\ \A c : c = ring[1] => Upcoming(c)
         \/ ring = <<>> /\ hpc = "send" /\ Linked(b, out[1]) /\ \A c : c = out[1] => Upcoming(c)
  BY DEF Followed, Upcoming

LEMMA KnockKeeps ==
  ASSUME IInv, DevKnock
  PROVE  IInv'
  <1> USE DEF IInv
  <1> DEFINE b == ring[1]
  <1>1. /\ pc = "knock" /\ ring # <<>> /\ ring' = Tail(ring)
        /\ IF b.pos = "knock" THEN pc' = "group" /\ step' = 1 ELSE UNCHANGED <<pc, step>>
        /\ UNCHANGED <<served, hdr, active, slot, token, cur, hostVars>>
    BY TailBytes DEF DevKnock, Goto
  <1>2. TypeOK'
    BY DeviceType DEF Device
  <1>3. /\ RingInv' /\ OutInv' /\ (Quiet => Quiet')
        /\ \A c : c = b => Followed(c)'
    BY <1>1, Takes DEF hostVars
  <1>4. CASE b.pos # "knock"
    <2>1. UNCHANGED devVars
      BY <1>1, <1>4 DEF devVars
    <2>2. /\ Taken' = Taken /\ Whole' = Whole /\ Done' = Done /\ AtRest' = AtRest
          /\ IsTaken' = IsTaken /\ ArgTaken' = ArgTaken /\ ModeAfter' = ModeAfter
      BY <1>1, <2>1 DEF hostVars, devVars, Taken, Whole, AtRest, Done, IsTaken, ArgTaken, ModeAfter
    <2>3. DevInv'
      BY <1>1, <2>1, <2>2 DEF DevInv, RestInv, CmdInv, FrameInv, hostVars, devVars
    <2>4. HostInv' /\ HeaderInv' /\ ArmInv'
      BY <1>1, <1>3, <2>1, OthersKept
    <2> QED
      BY <1>2, <1>3, <2>3, <2>4
  <1>5. CASE b.pos = "knock"
    <2>1. 1 \in 1..Len(ring) /\ ~Off(b)
      BY <1>1, <1>5, TailBytes DEF Off
    <2>2. OfIssued(b) /\ Fresh(b)
      BY <1>5, <2>1, InFlight, ExitByte
    <2>3. b = Knock(issued) /\ cmd.kind = "enter" /\ Rank(b) = 5 * issued + 1 /\ issued > 0
      BY <1>5, <2>2, IssuedByte DEF OfIssued
    <2>4. ~Taken
      <3>1. Rank(cur.cmd) < 5 * issued + 1 /\ issued \in Nat
        BY <2>2, <2>3 DEF Fresh, TypeOK, HostType
      <3>2. Rank(Cmd(issued, cmd.kind)) = 5 * issued + 3
        BY <3>1, RankFacts
      <3>3. cur.cmd # Cmd(issued, cmd.kind)
        BY <3>1, <3>2
      <3> QED
        BY <2>3, <3>3 DEF DevInv, IsTaken
    <2>5. ~Taken' /\ ~Done /\ ~Quiet
      BY <1>1, <2>1, <2>4 DEF Taken, Done, Whole, Quiet, hostVars
    <2>6. hpc \in {"send", "token"}
      <3>1. hpc # "idle"
        BY <2>3, <2>5 DEF HostInv
      <3>2. hpc # "await"
        BY <2>3 DEF HostInv
      <3>3. hpc \notin {"progress", "response", "data", "got"}
        BY <2>4 DEF HostInv, TokenOut
      <3> QED
        BY <3>1, <3>2, <3>3 DEF TypeOK, HostType
    <2>7. \A c : c = Group(issued, "enter") => Upcoming(c)'
      <3>1. ~Final(b)
        BY <1>5 DEF Final
      <3>2. \A c : Linked(b, c) => c = Group(issued, "enter")
        BY <1>5, <2>3 DEF Linked, Knock
      <3>3. \/ ring' # <<>> /\ Linked(b, ring'[1])
            \/ ring' = <<>> /\ hpc' = "send" /\ Linked(b, out'[1])
        BY <1>3, <2>1, <3>1 DEF Followed
      <3> QED
        BY <3>2, <3>3 DEF Upcoming
    <2>8. DevInv'
      <3>1. RestInv'
        <4>1. ~active
          BY <1>1 DEF DevInv, RestInv
        <4> QED
          BY <1>1, <1>5, <2>3, <2>5, <2>6, <2>7, <4>1 DEF RestInv, Done, Whole, Upcoming, hostVars
      <3> QED
        BY <1>1, <1>5, <2>3, <2>5, <3>1 DEF DevInv, CmdInv, FrameInv, hostVars
    <2>9. HostInv' /\ HeaderInv' /\ ArmInv'
      BY <1>1, <1>5, <2>4, <2>5, <2>6, NotBegun
    <2> QED
      BY <1>2, <1>3, <2>8, <2>9
  <1> QED
    BY <1>4, <1>5

\* A byte still to come of a frame no part of which is behind it is the
\* oldest command byte there is.
LEMMA HeadIsGroup ==
  ASSUME TypeOK, RingInv, OutInv, ring # <<>>, ~Off(ring[1]), issued > 0,
         \/ cmd.kind # "enter" /\ ToCome(Group(issued, cmd.kind))
         \/ cmd.kind = "enter" /\ InRing(Group(issued - 1, "exit_silent"))
  PROVE  ring[1] = IF cmd.kind = "enter" THEN Group(issued - 1, "exit_silent")
                   ELSE Group(issued, cmd.kind)
  <1> DEFINE b == ring[1]
  <1>1. /\ 1 \in 1..Len(ring) /\ issued \in Nat
    BY TailBytes DEF TypeOK, HostType
  <1>2. (OfIssued(b) \/ OfExit(b)) /\ Rank(b) > 0
    BY <1>1, InFlight
  <1>3. CASE cmd.kind # "enter"
    <2> DEFINE g == Group(issued, cmd.kind)
    <2>1. OfIssued(b)
      BY <1>2, <1>3, ExitByte
    <2>2. Rank(g) = 5 * issued + 2 /\ ~Off(g)
      BY <1>1, RankFacts, NotOff
    <2>3. b = g \/ Rank(b) < Rank(g)
      <3>1. ASSUME InRing(g) PROVE b = g \/ Rank(b) < Rank(g)
        <4>1. PICK i \in 1..Len(ring) : ring[i] = g
          BY <3>1 DEF InRing
        <4>2. CASE i = 1
          BY <4>1, <4>2
        <4>3. CASE i # 1
          <5>1. 1 < i
            BY <4>3
          <5> QED
            BY <1>1, <2>2, <4>1, <5>1 DEF RingInv, Ordered
        <4> QED
          BY <4>2, <4>3
      <3>2. ASSUME hpc = "send", out[1] = g PROVE Rank(b) < Rank(g)
        BY <1>1, <3>2 DEF OutInv
      <3> QED
        BY <1>3, <3>1, <3>2 DEF ToCome
    <2>4. b.pos # "knock" /\ Rank(b) >= Rank(g)
      BY <1>3, <1>1, <2>1, <2>2, IssuedByte
    <2>5. Rank(b) \in Nat
      BY <2>1, IssuedByte
    <2> QED
      BY <1>1, <1>3, <2>2, <2>3, <2>4, <2>5
  <1>4. CASE cmd.kind = "enter"
    <2> DEFINE g == Group(issued - 1, "exit_silent")
    <2>1. issued - 1 \in Nat
      BY <1>1
    <2>2. Rank(g) = 5 * (issued - 1) + 2 /\ ~Off(g)
      BY <2>1, RankFacts, NotOff
    <2>3. b = g \/ Rank(b) < Rank(g)
      <3>1. PICK i \in 1..Len(ring) : ring[i] = g
        BY <1>4 DEF InRing
      <3>2. CASE i = 1
        BY <3>1, <3>2
      <3>3. CASE i # 1
        <4>1. 1 < i
          BY <3>3
        <4> QED
          BY <1>1, <2>2, <3>1, <4>1 DEF RingInv, Ordered
      <3> QED
        BY <3>2, <3>3
    <2>4. ASSUME b # g PROVE FALSE
      <3>0. Rank(b) \in Nat
        BY <1>2, IssuedByte, ExitByte
      <3>1. Rank(b) < 5 * issued
        BY <1>1, <2>2, <2>3, <2>4, <3>0
      <3>2. OfExit(b)
        BY <1>1, <1>2, <3>1, IssuedByte
      <3>3. b = Cmd(issued - 1, "exit_silent")
        BY <2>4, <3>2 DEF OfExit
      <3>4. Rank(b) = 5 * (issued - 1) + 3
        BY <2>1, <3>3, RankFacts
      <3> QED
        BY <2>1, <2>2, <2>3, <2>4, <3>4
    <2> QED
      BY <1>4, <2>4
  <1> QED
    BY <1>3, <1>4

LEMMA GroupKeeps ==
  ASSUME IInv, DevGroup
  PROVE  IInv'
  <1> USE DEF IInv
  <1> DEFINE b == ring[1]
  <1>1. /\ pc = "group" /\ ring # <<>> /\ ring' = Tail(ring) /\ pc' = "cmd" /\ step' = 1
        /\ ~(active /\ Off(b))
        /\ cur'.group = b /\ cur'.cmd = NoByte /\ cur'.arg = NoByte
        /\ UNCHANGED <<served, hdr, active, slot, token, hostVars>>
    BY TailBytes DEF DevGroup, TakeByte, Goto, Idle, Off
  <1>2. TypeOK'
    BY DeviceType DEF Device
  <1>3. /\ RingInv' /\ OutInv' /\ (Quiet => Quiet')
        /\ \A c : c = b => Followed(c)'
    BY <1>1, Takes DEF hostVars
  <1>4. 1 \in 1..Len(ring) /\ issued \in Nat
    BY <1>1, TailBytes DEF TypeOK, HostType
  <1>5. ~Whole
    <2>1. ASSUME Whole PROVE FALSE
      <3>1. Off(b)
        BY <1>4, <2>1, WholeIsQuiet DEF Quiet
      <3>2. active
        BY <1>1, <2>1 DEF DevInv, RestInv, Whole
      <3> QED
        BY <1>1, <3>1, <3>2
    <2> QED
      BY <2>1
  <1>6. /\ ~Taken /\ issued > 0
        /\ \/ ~active /\ cmd.kind = "enter" /\ Upcoming(Group(issued, "enter"))
           \/ InSession /\ ToCome(Group(issued, cmd.kind))
           \/ active /\ cmd.kind = "enter" /\ InRing(Group(issued - 1, "exit_silent"))
    <2>1. ~Taken
      BY <1>1, <1>5 DEF DevInv, RestInv
    <2>2. issued > 0
      BY <1>4, <2>1 DEF DevInv, Taken, TypeOK, Taking, Bytes
    <2> QED
      BY <1>1, <1>5, <2>1, <2>2 DEF DevInv, RestInv
  <1>7. \/ (InSession \/ Entering) /\ b = Group(issued, cmd.kind)
        \/ active /\ cmd.kind = "enter" /\ b = Group(issued - 1, "exit_silent")
    <2>1. CASE ~active
      BY <1>1, <1>6, <2>1 DEF Upcoming, Entering, InSession
    <2>2. CASE active
      <3>1. ~Off(b)
        BY <1>1, <2>2
      <3> QED
        BY <1>1, <1>6, <2>2, <3>1, HeadIsGroup DEF InSession
    <2> QED
      BY <2>1, <2>2
  <1>8. \A c : c = Cmd(b.n, b.val) => Upcoming(c)'
    <2>1. b.pos = "group" /\ ~Off(b) /\ ~Final(b)
      BY <1>7 DEF Group, Off, Final
    <2>2. \/ ring' # <<>> /\ Linked(b, ring'[1])
          \/ ring' = <<>> /\ hpc' = "send" /\ Linked(b, out'[1])
      BY <1>3, <2>1 DEF Followed
    <2> QED
      BY <2>1, <2>2 DEF Linked, Upcoming
  <1>9. ~Taken' /\ ~Whole'
    BY <1>1, <1>4, <1>6 DEF Taken, Whole, NoByte, hostVars
  <1>10. DevInv'
    <2>1. b.n <= issued
      BY <1>4, <1>7 DEF Group
    <2>2. CmdInv'
      <3>1. InSession' = InSession /\ Entering' = Entering
        BY <1>1 DEF InSession, Entering, hostVars
      <3>2. \/ b = Group(issued, cmd.kind) /\ Cmd(b.n, b.val) = Cmd(issued, cmd.kind)
            \/ /\ b = Group(issued - 1, "exit_silent")
               /\ Cmd(b.n, b.val) = Cmd(issued - 1, "exit_silent")
        BY <1>7 DEF Group
      <3>3. issued' = issued /\ cmd' = cmd /\ active' = active
        BY <1>1 DEF hostVars
      <3>4. CASE (InSession \/ Entering) /\ b = Group(issued, cmd.kind)
        <4>1. \A c : c = Cmd(issued, cmd.kind) => Upcoming(c)'
          BY <1>8, <3>2, <3>4 DEF Group
        <4> QED
          BY <1>1, <1>9, <3>1, <3>3, <3>4, <4>1 DEF CmdInv, Upcoming
      <3>5. CASE active /\ cmd.kind = "enter" /\ b = Group(issued - 1, "exit_silent")
        <4>1. \A c : c = Cmd(issued - 1, "exit_silent") => Upcoming(c)'
          BY <1>8, <3>2, <3>5 DEF Group
        <4> QED
          BY <1>1, <1>9, <3>1, <3>3, <3>5, <4>1 DEF CmdInv, Upcoming
      <3> QED
        BY <1>7, <3>4, <3>5
    <2> QED
      BY <1>1, <1>4, <1>6, <1>9, <2>1, <2>2 DEF DevInv, RestInv, FrameInv, Done, NoByte, hostVars
  <1>11. hpc = "idle" => active /\ cmd.kind = "exit_silent" /\ issued > 0 /\ ~session
    BY <1>1, <1>6 DEF HostInv, Done, Whole
  <1>12. HostInv' /\ HeaderInv' /\ ArmInv'
    BY <1>1, <1>6, <1>9, <1>11, NotBegun
  <1> QED
    BY <1>2, <1>3, <1>10, <1>12

LEMMA CmdKeeps ==
  ASSUME IInv, DevCmd
  PROVE  IInv'
  <1> USE DEF IInv
  <1> DEFINE b == ring[1]
  <1>1. /\ pc = "cmd" /\ ring # <<>> /\ ring' = Tail(ring) /\ step' = 1
        /\ pc' = IF active /\ ~IsSilent(Decoded(cur.group, b)) THEN "begin" ELSE "dispatch"
        /\ cur'.group = cur.group /\ cur'.cmd = b /\ cur'.arg = cur.arg /\ cur'.wasActive = active
        /\ UNCHANGED <<served, hdr, active, slot, token, hostVars>>
    BY TailBytes DEF DevCmd, TakeByte, Goto, TypeOK, Taking
  <1>2. TypeOK'
    BY DeviceType DEF Device
  <1>3. /\ RingInv' /\ OutInv'
        /\ \A c : c = b => Followed(c)'
    BY <1>1, Takes DEF hostVars
  <1>4. 1 \in 1..Len(ring) /\ issued \in Nat /\ issued > 0 /\ cur.arg = NoByte /\ ~Taken
        /\ slot = served
    BY <1>1, TailBytes DEF TypeOK, HostType, DevInv, CmdInv
  <1>5. \/ (InSession \/ Entering) /\ cur.group = Group(issued, cmd.kind) /\ b = Cmd(issued, cmd.kind)
        \/ /\ active /\ cmd.kind = "enter" /\ cur.group = Group(issued - 1, "exit_silent")
           /\ b = Cmd(issued - 1, "exit_silent")
    BY <1>1 DEF DevInv, CmdInv, Upcoming
  <1>6. hpc = "idle" => active /\ cmd.kind = "exit_silent" /\ issued > 0 /\ ~session
    BY <1>1, <1>4 DEF HostInv, Done, Whole
  <1>7. InSession' = InSession /\ Entering' = Entering /\ ~TokenOut /\ ~Done /\ ~Whole
    BY <1>1, <1>4 DEF InSession, Entering, TokenOut, Done, Whole, hostVars
  <1>8. CASE (InSession \/ Entering) /\ cur.group = Group(issued, cmd.kind) /\ b = Cmd(issued, cmd.kind)
    <2>1. Decoded(cur.group, b) = cmd.kind
      BY <1>8, KindFacts
    <2>2. Taken' /\ IsTaken'
      BY <1>1, <1>8 DEF Taken, IsTaken, Cmd, hostVars
    <2>3. pc' = IF active /\ cmd.kind # "exit_silent" THEN "begin" ELSE "dispatch"
      BY <1>1, <2>1 DEF IsSilent
    <2>4. ArgAhead'
      <3> SUFFICES ASSUME cmd.kind \in HasArg
                   PROVE  \A c : c = Arg(issued, cmd.arg) => Upcoming(c)'
        BY <1>1 DEF ArgAhead, hostVars, Upcoming
      <3>1. b.pos = "cmd" /\ b.val \in HasArg /\ b.n = issued /\ ~Off(b) /\ ~Final(b)
        BY <1>8 DEF Cmd, Off, Final
      <3>2. \/ ring' # <<>> /\ Linked(b, ring'[1])
            \/ ring' = <<>> /\ hpc = "send" /\ Linked(b, out[1])
        BY <1>1, <1>3, <3>1 DEF Followed, hostVars
      <3>3. \A c : Linked(b, c) => c.pos = "arg" /\ c.n = issued
        BY <3>1 DEF Linked
      <3>4. CASE ring' # <<>>
        <4>1. \A c : c = ring'[1] => OfIssued(c)' \/ OfExit(c)'
          <5>1. 1 \in 1..Len(ring')
            BY <1>2, <3>4 DEF TypeOK
          <5>2. ring'[1].pos = "arg"
            BY <3>2, <3>3, <3>4
          <5>3. ring'[1] # OffPage
            BY <5>2 DEF OffPage
          <5> QED
            BY <1>3, <5>1, <5>3 DEF RingInv
        <4>2. ring'[1].pos = "arg"
          BY <3>2, <3>3, <3>4
        <4>3. \A c : c.pos = "arg" /\ OfIssued(c)' => c = Arg(issued, cmd.arg)
          <5>1. \A c : OfIssued(c)' = OfIssued(c)
            BY <1>1 DEF OfIssued, hostVars
          <5> QED
            BY <5>1, IssuedByte
        <4>4. \A c : OfExit(c)' => c.pos # "arg"
          BY DEF OfExit, Group, Cmd
        <4> QED
          BY <3>4, <4>1, <4>2, <4>3, <4>4 DEF Upcoming
      <3>5. CASE ring' = <<>>
        <4>1. OfIssued(out[1]) /\ out[1].pos = "arg"
          <5>1. 1 \in 1..Len(out)
            BY <3>2, <3>5 DEF OutInv, TypeOK
          <5> QED
            BY <3>2, <3>3, <3>5, <5>1 DEF OutInv
        <4>2. out[1] = Arg(issued, cmd.arg)
          BY <4>1, IssuedByte
        <4> QED
          BY <1>1, <3>2, <3>5, <4>2 DEF Upcoming, hostVars
      <3> QED
        BY <3>4, <3>5
    <2>5. cmd.kind \in HasArg => ~Whole'
      BY <1>1, <1>4 DEF Whole, NoByte, hostVars
    <2>6. DevInv'
      <3>1. RestInv'
        BY <2>3 DEF RestInv, Done, AtRest
      <3>2. CmdInv'
        BY <1>1, <1>7, <1>8, <2>2, <2>3, <2>4 DEF CmdInv
      <3>3. FrameInv'
        BY <1>1, <1>7, <1>8, <2>2, <2>3, <2>4 DEF FrameInv, Entering, hostVars
      <3>4. b.n <= issued
        BY <1>4, <1>8 DEF Cmd
      <3>5. ArgTaken' \/ cmd'.kind \in HasArg
        BY DEF ArgTaken
      <3> QED
        BY <1>1, <1>4, <2>2, <2>5, <3>1, <3>2, <3>3, <3>4, <3>5 DEF DevInv, hostVars
    <2>7. (~TokenOut' /\ ~Pending') \/ Unanswered'
      BY <1>1, <2>3 DEF TokenOut, Pending, AtRest, Unanswered, hostVars
    <2>8. ~TokenOut' /\ ~AtRest'
      BY <2>3, <2>7 DEF TokenOut, AtRest
    <2>9. HostInv'
      BY <1>1, <1>4, <1>6, <1>7, <2>8 DEF HostInv, hostVars
    <2>10. HeaderInv'
      BY <2>3, <2>7, <2>8 DEF HeaderInv
    <2>11. ArmInv'
      BY <1>1, <1>7, <2>3, <2>8 DEF ArmInv, hostVars
    <2> QED
      BY <1>2, <1>3, <2>6, <2>9, <2>10, <2>11
  <1>9. CASE /\ active /\ cmd.kind = "enter" /\ cur.group = Group(issued - 1, "exit_silent")
             /\ b = Cmd(issued - 1, "exit_silent")
    <2>1. Decoded(cur.group, b) = "exit_silent"
      BY <1>9, KindFacts
    <2>2. pc' = "dispatch"
      BY <1>1, <2>1 DEF IsSilent
    <2>3. issued > 1 /\ b.n = issued - 1
      <3>1. ~Off(b) /\ b.n = issued - 1
        BY <1>9, NotOff DEF Cmd
      <3>2. OfIssued(b) \/ OfExit(b)
        BY <1>4, <3>1, InFlight
      <3>3. ~OfIssued(b)
        BY <1>4, <3>1, IssuedByte
      <3> QED
        BY <3>1, <3>2, <3>3 DEF OfExit
    <2>4. ~Taken' /\ ~Whole'
      BY <1>1, <1>4, <2>3 DEF Taken, Whole, hostVars
    <2>5. DevInv'
      <3>1. CmdInv'
        BY <1>1, <1>9, <2>2, <2>3 DEF CmdInv, hostVars
      <3> QED
        BY <1>1, <1>4, <2>2, <2>3, <2>4, <3>1 DEF DevInv, RestInv, FrameInv, Done, AtRest, hostVars
    <2>6. HostInv' /\ HeaderInv' /\ ArmInv'
      BY <1>1, <1>4, <1>6, <2>2, <2>4, NotBegun
    <2> QED
      BY <1>2, <1>3, <2>5, <2>6
  <1> QED
    BY <1>5, <1>8, <1>9

LEMMA ArgKeeps ==
  ASSUME IInv, DevArg
  PROVE  IInv'
  <1> USE DEF IInv
  <1> DEFINE b == ring[1]
  <1>1. /\ pc = "arg" /\ ring # <<>> /\ ring' = Tail(ring) /\ step' = 1 /\ pc' = Kind
        /\ cur'.group = cur.group /\ cur'.cmd = cur.cmd /\ cur'.arg = b
        /\ cur'.wasActive = cur.wasActive /\ cur'.ok = cur.ok
        /\ UNCHANGED <<served, hdr, active, slot, token, hostVars>>
    BY TailBytes DEF DevArg, TakeByte, Goto, TypeOK, Taking
  <1>2. TypeOK'
    BY DeviceType DEF Device
  <1>3. RingInv' /\ OutInv'
    BY <1>1, Takes DEF hostVars
  <1>4. /\ InSession \/ Entering
        /\ cur.wasActive = active /\ IsTaken /\ cmd.kind \in HasArg
        /\ b = Arg(issued, cmd.arg) /\ issued > 0 /\ slot = served
    BY <1>1 DEF DevInv, CmdInv, ArgAhead, Upcoming
  <1>5. pc' = cmd.kind
    BY <1>1, <1>4, KindFacts
  <1>6. /\ Taken' = Taken /\ Taken /\ IsTaken' /\ ArgTaken' /\ Whole' /\ Unanswered' = Unanswered
        /\ InSession' = InSession /\ Entering' = Entering /\ ~Done
    BY <1>1, <1>4 DEF Taken, IsTaken, ArgTaken, Whole, Unanswered, InSession, Entering, Done, AtRest,
                      Arg, Cmd, hostVars
  <1>7. DevInv'
    <2>1. b.n <= issued
      BY <1>4 DEF Arg, TypeOK, HostType
    <2>2. CmdInv'
      BY <1>1, <1>4, <1>5, <1>6 DEF CmdInv, HasArg, hostVars
    <2>3. RestInv' /\ FrameInv'
      BY <1>4, <1>5 DEF RestInv, FrameInv, Done, AtRest, HasArg
    <2> QED
      BY <1>1, <1>4, <1>6, <2>1, <2>2, <2>3 DEF DevInv, hostVars
  <1>8. TokenOut' = TokenOut /\ Pending' = Pending /\ ~AtRest' /\ ~AtRest
    BY <1>1, <1>4, <1>5, <1>6 DEF TokenOut, Pending, AtRest, InSession, Entering, HasArg
  <1>9. HostInv'
    BY <1>1, <1>4, <1>6, <1>8 DEF HostInv, hostVars
  <1>10. HeaderInv'
    BY <1>1, <1>4, <1>5, <1>6, <1>8 DEF HeaderInv, HasArg, hostVars
  <1>11. ArmInv'
    BY <1>1, <1>4, <1>5, <1>8 DEF ArmInv, HasArg, hostVars
  <1> QED
    BY <1>2, <1>3, <1>7, <1>9, <1>10, <1>11

\* A header byte is written before a command is processed.
LEMMA BeginKeeps ==
  ASSUME IInv, DevBegin
  PROVE  IInv'
  <1> USE DEF IInv
  <1>1. step \in 1..5 /\ slot = served /\ slot \in Slots
    BY DEF TypeOK, PlaceType, ImageType, DevInv
  <1>2. /\ pc = "begin" /\ UNCHANGED <<served, ring, active, slot, cur, hostVars>>
        /\ \/ step < 5 /\ pc' = "begin" /\ step' = step + 1
           \/ step = 5 /\ step' = 1 /\ pc' = IF cur.wasActive THEN "dispatch" ELSE "end"
    <2>1. /\ pc = "begin" /\ UNCHANGED <<served, ring, active, slot, cur, hostVars>>
          /\ IF step < 5 THEN pc' = pc /\ step' = step + 1
             ELSE Goto(IF cur.wasActive THEN "dispatch" ELSE "end")
      BY <1>1, BeginSteps, Zenon
    <2> QED
      BY <1>1, <2>1 DEF Goto
  <1>3. TypeOK'
    BY DeviceType DEF Device
  <1>4. /\ RingInv' /\ OutInv'
        /\ \A c : Upcoming(c) => Upcoming(c)'
    BY <1>2, Stays DEF hostVars
  <1>5. /\ IsTaken /\ Taken /\ issued > 0 /\ ~Unanswered
        /\ \/ cur.wasActive /\ InSession /\ cmd.kind # "exit_silent" /\ ArgAhead
           \/ /\ ~cur.wasActive /\ cmd.kind = "enter" /\ ArgTaken
              /\ cmd.arg \in {"good", "oversize"}
              /\ active = ModeAfter /\ cur.ok = active
    BY <1>2 DEF DevInv, FrameInv, IsTaken, Taken, Cmd, Unanswered, InSession
  <1>6. /\ Taken' /\ IsTaken' /\ ~Unanswered' /\ InSession' = InSession /\ Entering' = Entering
        /\ ArgTaken' = ArgTaken /\ Whole' = Whole /\ ModeAfter' = ModeAfter
        /\ ~AtRest /\ ~AtRest' /\ ~Done /\ ~Done'
    BY <1>2, <1>5 DEF Taken, IsTaken, Unanswered, InSession, Entering, ArgTaken, Whole, ModeAfter,
                      AtRest, Done, hostVars
  <1>7. ArgAhead => ArgAhead'
    BY <1>2, <1>4 DEF ArgAhead, hostVars
  <1>8. DevInv'
    <2>1. FrameInv'
      BY <1>2, <1>5, <1>6, <1>7 DEF FrameInv, hostVars
    <2>2. CmdInv'
      BY <1>2, <1>5, <1>6, <1>7 DEF CmdInv, InSession, TypeOK
    <2>3. RestInv'
      BY <1>2, <1>6 DEF RestInv
    <2> QED
      BY <1>1, <1>2, <1>5, <1>6, <2>1, <2>2, <2>3 DEF DevInv, hostVars
  <1>9. /\ TokenOut <=> step > 2
        /\ step >= 2 => TokenOut'
        /\ step = 1 => ~TokenOut'
        /\ Pending <=> step > 1
    BY <1>1, <1>2, <1>5, <1>6 DEF TokenOut, Pending, AtRest
  <1>10. \* what is written
    /\ step = 1 => ~hdr'[slot].progress
    /\ step > 1 => hdr'[slot].progress = hdr[slot].progress
    /\ IF step = 2 THEN token' = NextToken(token) /\ hdr'[slot].lsb = token'.lsb
       ELSE token' = token /\ hdr'[slot].lsb = hdr[slot].lsb
    /\ IF step = 3 THEN hdr'[slot].msb = token.msb ELSE hdr'[slot].msb = hdr[slot].msb
    /\ \A s \in Slots : s # slot => hdr'[s] = hdr[s]
    <2>1. {"progress", "lsb", "msb", "group", "cmd"} \subseteq HeaderFields
      BY DEF HeaderFields
    <2>2. CASE step = 1
      <3>1. HdrWrite(slot, "progress", FALSE) /\ token' = token
        BY <1>1, <2>2, BeginSteps, Zenon
      <3>2. /\ hdr'[slot].progress = FALSE
            /\ hdr'[slot].lsb = hdr[slot].lsb /\ hdr'[slot].msb = hdr[slot].msb
            /\ \A s \in Slots : s # slot => hdr'[s] = hdr[s]
        BY <1>1, <3>1 DEF HdrWrite, TypeOK, ImageType, Headers
      <3> QED
        BY <2>2, <3>1, <3>2
    <2>3. CASE step = 2
      <3>1. HdrWrite(slot, "lsb", NextToken(token).lsb) /\ token' = NextToken(token)
        BY <1>1, <2>3, BeginSteps, Zenon
      <3> QED
        BY <1>1, <2>1, <2>3, <3>1, Written
    <2>4. CASE step = 3
      <3>1. HdrWrite(slot, "msb", token.msb) /\ token' = token
        BY <1>1, <2>4, BeginSteps, Zenon
      <3> QED
        BY <1>1, <2>1, <2>4, <3>1, Written
    <2>5. CASE step = 4
      <3>1. HdrWrite(slot, "group", cur.group.n) /\ token' = token
        BY <1>1, <2>5, BeginSteps, Zenon
      <3> QED
        BY <1>1, <2>1, <2>5, <3>1, Written
    <2>6. CASE step = 5
      <3>1. HdrWrite(slot, "cmd", cur.cmd.n) /\ token' = token
        BY <1>1, <2>6, BeginSteps, Zenon
      <3> QED
        BY <1>1, <2>1, <2>6, <3>1, Written
    <2> QED
      BY <1>1, <2>2, <2>3, <2>4, <2>5, <2>6
  <1>11. hpc # "idle"
    BY <1>5, <1>6, <1>2 DEF HostInv
  <1>12. HostInv'
    <2>1. ~TokenOut' => hdr'[served].lsb = hdr[served].lsb /\ ~TokenOut
      BY <1>1, <1>9, <1>10
    <2> QED
      BY <1>2, <1>6, <1>9, <1>11, <2>1 DEF HostInv, hostVars
  <1>13. HeaderInv'
    <2> SUFFICES ASSUME cmd.kind # "switch"
                 PROVE  /\ ~hdr'[slot].progress
                        /\ TokenOut' => hdr'[slot].lsb = token'.lsb
                        /\ TokenOut' /\ ~(pc' = "begin" /\ step' = 3) => hdr'[slot].msb = token'.msb
                        /\ ~(pc' = "end" /\ step' > 1)
                        /\ ~(cmd.kind = "peek" /\ pc' = "end")
      BY <1>2, <1>6 DEF HeaderInv, hostVars
    <2>1. /\ Pending => ~hdr[slot].progress
          /\ TokenOut => hdr[slot].lsb = token.lsb
          /\ TokenOut /\ step # 3 => hdr[slot].msb = token.msb
      BY <1>2, <1>5, <1>11 DEF HeaderInv
    <2>2. ~hdr'[slot].progress
      BY <1>1, <1>9, <1>10, <2>1
    <2>3. TokenOut' => hdr'[slot].lsb = token'.lsb
      BY <1>1, <1>9, <1>10, <2>1
    <2>4. TokenOut' /\ ~(pc' = "begin" /\ step' = 3) => hdr'[slot].msb = token'.msb
      BY <1>1, <1>2, <1>9, <1>10, <2>1
    <2>5. ~(pc' = "end" /\ step' > 1) /\ ~(cmd.kind = "peek" /\ pc' = "end")
      BY <1>1, <1>2, <1>5
    <2> QED
      BY <2>2, <2>3, <2>4, <2>5
  <1>14. ArmInv'
    <2>1. NextToken(token).lsb = (token.lsb + 1) % TokenMod
      BY NextTokenFacts DEF TypeOK, ImageType
    <2>2. ASSUME HostArms PROVE hdr'[slot].lsb = token'.lsb
      BY <1>2, <1>10, <2>2 DEF ArmInv
    <2>3. ASSUME HostArms, hpc \in {"send", "await"}, cmd.kind = "switch", served # cmd.arg
          PROVE  /\ hdr'[cmd.arg].lsb = (before + 1) % TokenMod
                 /\ token'.lsb = IF TokenOut' THEN (before + 1) % TokenMod ELSE before
      <3>1. cmd.arg \in Slots
        BY <2>3 DEF TypeOK, HostType, Args
      <3> QED
        BY <1>1, <1>9, <1>10, <2>1, <2>3, <3>1 DEF ArmInv
    <2> QED
      BY <1>2, <2>2, <2>3 DEF ArmInv, hostVars
  <1> QED
    BY <1>3, <1>4, <1>8, <1>12, <1>13, <1>14

\* The command is run, where it has no argument; the silent exit a host that
\* now enters did not wait for is run here too.
LEMMA DispatchKeeps ==
  ASSUME IInv, DevDispatch
  PROVE  IInv'
  <1> USE DEF IInv
  <1>1. /\ pc = "dispatch" /\ step' = 1
        /\ UNCHANGED <<served, hdr, ring, slot, token, hostVars>>
        /\ IF Kind \in HasArg
           THEN pc' = "arg" /\ active' = active /\ cur' = cur
           ELSE /\ active' = (active /\ Kind \notin {"exit_ack", "exit_silent"})
                /\ cur' = [cur EXCEPT !.ok = (Kind # "unknown")]
                /\ pc' = AfterHandler
    BY DEF DevDispatch, Goto
  <1>2. /\ cur'.group = cur.group /\ cur'.cmd = cur.cmd /\ cur'.arg = cur.arg
        /\ cur'.wasActive = cur.wasActive
    BY <1>1 DEF TypeOK, Taking
  <1>3. TypeOK'
    BY DeviceType DEF Device
  <1>4. /\ RingInv' /\ OutInv'
        /\ \A c : Upcoming(c) => Upcoming(c)'
    BY <1>1, <1>2, Stays DEF hostVars
  <1>5. /\ issued > 0 /\ slot = served /\ cur.wasActive = active /\ active \in BOOLEAN
        /\ \/ (InSession \/ Entering) /\ IsTaken /\ ArgAhead
           \/ /\ active /\ cmd.kind = "enter" /\ issued > 1
              /\ cur.group = Group(issued - 1, "exit_silent")
              /\ cur.cmd = Cmd(issued - 1, "exit_silent")
    BY <1>1 DEF DevInv, CmdInv, TypeOK
  <1>6. ~Done /\ ~AtRest
    BY <1>1 DEF Done, AtRest
  <1>7. CASE /\ active /\ cmd.kind = "enter" /\ issued > 1
             /\ cur.group = Group(issued - 1, "exit_silent")
             /\ cur.cmd = Cmd(issued - 1, "exit_silent")
    <2>1. Kind = "exit_silent"
      BY <1>7, KindFacts
    <2>2. active' = FALSE /\ pc' = "rearm"
      BY <1>1, <2>1 DEF AfterHandler, IsSilent, HasArg
    <2>3. ~Taken /\ ~Taken' /\ ~Whole'
      BY <1>1, <1>2, <1>7 DEF Taken, Whole, Cmd, hostVars, TypeOK, HostType
    <2>4. DevInv'
      BY <1>1, <1>2, <1>7, <2>2, <2>3 DEF DevInv, RestInv, CmdInv, FrameInv, Done, hostVars
    <2>5. hpc # "idle"
      BY <1>1, <1>6, <1>7 DEF HostInv
    <2>6. HostInv' /\ HeaderInv' /\ ArmInv'
      BY <1>1, <2>2, <2>3, <2>5, NotBegun
    <2> QED
      BY <1>3, <1>4, <2>4, <2>6
  <1>8. CASE (InSession \/ Entering) /\ IsTaken /\ ArgAhead
    <2>1. Kind = cmd.kind /\ cmd.kind \in Kinds
      BY <1>8, KindFacts DEF TypeOK, HostType
    <2>2. /\ Taken /\ Taken' /\ IsTaken' /\ ArgTaken' = ArgTaken /\ Whole' = Whole
          /\ Unanswered' = Unanswered /\ ModeAfter' = ModeAfter
      BY <1>1, <1>2, <1>8 DEF Taken, IsTaken, ArgTaken, Whole, Unanswered, ModeAfter, Cmd, hostVars
    <2>3. CASE cmd.kind \in HasArg
      <3>1. pc' = "arg" /\ active' = active /\ cur' = cur
        BY <1>1, <2>1, <2>3
      <3>2. ArgAhead'
        BY <1>1, <1>4, <1>8 DEF ArgAhead, hostVars
      <3>3. InSession' = InSession /\ Entering' = Entering
        BY <1>1, <3>1 DEF InSession, Entering, hostVars
      <3>4. TokenOut' = TokenOut /\ Pending' = Pending /\ ~AtRest' /\ ~Done'
        BY <1>1, <2>2, <3>1 DEF TokenOut, Pending, AtRest, Done, hostVars
      <3>5. DevInv'
        <4>1. CmdInv'
          BY <1>1, <1>5, <1>8, <2>2, <2>3, <3>1, <3>2, <3>3 DEF CmdInv, hostVars
        <4>2. RestInv' /\ FrameInv'
          BY <3>1, <3>4 DEF RestInv, FrameInv
        <4> QED
          BY <1>1, <1>5, <2>2, <3>1, <4>1, <4>2 DEF DevInv, hostVars
      <3>6. HostInv'
        BY <1>1, <1>6, <2>2, <3>1, <3>4 DEF HostInv, hostVars
      <3>7. HeaderInv'
        BY <1>1, <1>6, <2>2, <3>1, <3>4 DEF HeaderInv, hostVars
      <3>8. ArmInv'
        BY <1>1, <3>1, <3>4 DEF ArmInv, hostVars
      <3> QED
        BY <1>3, <1>4, <3>5, <3>6, <3>7, <3>8
    <2>4. CASE cmd.kind \notin HasArg
      <3>1. /\ active /\ cmd.kind \in {"nop", "exit_ack", "exit_silent"}
            /\ active' = (cmd.kind = "nop") /\ Whole /\ ArgTaken
            /\ pc' = IF cmd.kind = "exit_silent" THEN "rearm" ELSE "end"
        <4>1. active /\ cmd.kind \in {"nop", "exit_ack", "exit_silent"}
          BY <1>8, <2>1, <2>4 DEF InSession, Entering, Kinds, HasArg
        <4>2. active' = (cmd.kind = "nop")
          BY <1>1, <2>1, <2>4, <4>1
        <4>3. pc' = IF cmd.kind = "exit_silent" THEN "rearm" ELSE "end"
          BY <1>1, <1>5, <2>1, <2>4, <4>1, <4>2 DEF AfterHandler, IsSilent
        <4> QED
          BY <2>2, <2>4, <4>1, <4>2, <4>3 DEF Whole, ArgTaken
      <3>2. active' = ModeAfter /\ cmd.kind # "enter"
        BY <3>1 DEF ModeAfter
      <3>3. /\ cmd.kind = "exit_silent" => ~TokenOut /\ ~TokenOut' /\ Unanswered
            /\ cmd.kind # "exit_silent" => TokenOut /\ TokenOut' /\ Pending
        BY <1>1, <1>5, <2>2, <3>1 DEF TokenOut, Pending, Unanswered, hostVars
      <3>4. DevInv'
        <4>1. RestInv'
          BY <1>1, <2>2, <3>1, <3>2 DEF RestInv, Done, hostVars
        <4>2. FrameInv'
          BY <1>1, <2>2, <3>1, <3>2 DEF FrameInv, Unanswered, hostVars
        <4>3. CmdInv'
          BY <3>1 DEF CmdInv
        <4> QED
          BY <1>1, <1>2, <1>5, <2>2, <3>1, <4>1, <4>2, <4>3 DEF DevInv, hostVars
      <3>5. hpc = "idle" => cmd.kind = "exit_silent" /\ ~session
        BY <1>1, <1>6 DEF HostInv
      <3>6. HostInv'
        <4>1. hpc = "idle" => Done' /\ session = active'
          BY <1>1, <2>2, <3>1, <3>5 DEF Done, AtRest, TypeOK, HostType
        <4> QED
          BY <1>1, <1>6, <2>2, <3>1, <3>3, <4>1 DEF HostInv, hostVars
      <3>7. HeaderInv'
        BY <1>1, <1>2, <1>6, <2>2, <3>1, <3>3 DEF HeaderInv, AtRest, hostVars
      <3>8. ArmInv'
        BY <1>1, <1>5, <3>1, <3>3 DEF ArmInv, hostVars
      <3> QED
        BY <1>3, <1>4, <3>4, <3>6, <3>7, <3>8
    <2> QED
      BY <2>3, <2>4
  <1> QED
    BY <1>5, <1>7, <1>8

LEMMA PeekKeeps ==
  ASSUME IInv, DevPeek
  PROVE  IInv'
  <1> USE DEF IInv
  <1> DEFINE good == cur.arg.val = "good" /\ active
  <1>1. /\ pc = "peek" /\ step' = 1 /\ pc' = AfterHandler /\ active' = active
        /\ UNCHANGED <<served, ring, slot, token, hostVars>>
        /\ cur' = [cur EXCEPT !.ok = good]
        /\ IF good THEN HdrWrite(slot, "data", cur.cmd.n) ELSE hdr' = hdr
    BY DEF DevPeek, Goto
  <1>2. /\ cur'.group = cur.group /\ cur'.cmd = cur.cmd /\ cur'.arg = cur.arg
        /\ cur'.wasActive = cur.wasActive /\ cur'.ok = good
    BY <1>1 DEF TypeOK, Taking
  <1> HIDE DEF good
  <1>3. TypeOK'
    BY DeviceType DEF Device
  <1>4. RingInv' /\ OutInv'
    BY <1>1, <1>2, Stays DEF hostVars
  <1>5. /\ issued > 0 /\ slot = served /\ slot \in Slots
        /\ active /\ cmd.kind = "peek" /\ cur.wasActive /\ IsTaken /\ ArgTaken
    BY <1>1 DEF DevInv, CmdInv, InSession, Entering, TypeOK, ImageType
  <1>6. pc' = "end"
    <2>1. Kind = "peek"
      BY <1>5, KindFacts
    <2> QED
      BY <1>1, <1>5, <2>1 DEF AfterHandler, IsSilent
  <1>7. /\ Taken /\ Taken' /\ IsTaken' /\ ArgTaken' /\ Whole' = Whole /\ ~Unanswered /\ ~Unanswered'
        /\ ModeAfter' = TRUE /\ ~Done /\ ~Done' /\ ~AtRest /\ ~AtRest'
        /\ TokenOut /\ TokenOut' /\ Pending
        /\ cur.cmd.n = issued
    BY <1>1, <1>2, <1>5, <1>6 DEF Taken, IsTaken, ArgTaken, Whole, Unanswered, ModeAfter, Done, AtRest,
       TokenOut, Pending, Cmd, hostVars
  <1>8. /\ hdr'[slot].progress = hdr[slot].progress
        /\ hdr'[slot].lsb = hdr[slot].lsb /\ hdr'[slot].msb = hdr[slot].msb
        /\ good => hdr'[slot].data = issued
        /\ \A s \in Slots : s # slot => hdr'[s] = hdr[s]
    <2>1. CASE good
      <3>1. "data" \in HeaderFields
        BY DEF HeaderFields
      <3> QED
        BY <1>1, <1>5, <1>7, <2>1, <3>1, Written
    <2>2. CASE ~good
      BY <1>1, <2>2
    <2> QED
      BY <2>1, <2>2
  <1>9. DevInv'
    <2>1. RestInv' /\ CmdInv'
      BY <1>6, <1>7 DEF RestInv, CmdInv
    <2>2. FrameInv'
      BY <1>1, <1>5, <1>6, <1>7 DEF FrameInv, hostVars
    <2> QED
      BY <1>1, <1>2, <1>5, <1>7, <2>1, <2>2 DEF DevInv, hostVars
  <1>10. HostInv'
    <2>1. hpc # "idle" /\ cmd.kind # "switch"
      BY <1>1, <1>5, <1>7 DEF HostInv
    <2>2. hpc \notin {"response", "data", "got"}
      BY <1>7 DEF HostInv
    <2> QED
      BY <1>1, <1>7, <2>1, <2>2 DEF HostInv, hostVars
  <1>11. HeaderInv'
    BY <1>1, <1>2, <1>6, <1>7, <1>8 DEF HeaderInv, hostVars
  <1>12. ArmInv'
    BY <1>1, <1>5, <1>8 DEF ArmInv, hostVars
  <1> QED
    BY <1>3, <1>4, <1>9, <1>10, <1>11, <1>12

LEMMA SwitchKeeps ==
  ASSUME IInv, DevSwitch
  PROVE  IInv'
  <1> USE DEF IInv
  <1>1. /\ pc = "switch" /\ step' = 1 /\ pc' = AfterHandler /\ active' = active
        /\ UNCHANGED <<hdr, ring, token, hostVars>>
        /\ cur.arg.val \in Slots => served' = cur.arg.val /\ slot' = cur.arg.val
    BY DEF DevSwitch, Goto
  <1>2. /\ cur'.group = cur.group /\ cur'.cmd = cur.cmd /\ cur'.arg = cur.arg
        /\ cur'.wasActive = cur.wasActive
    <2> DEFINE good == cur.arg.val \in Slots
    <2>1. cur' = [cur EXCEPT !.ok = good]
      BY Zenon DEF DevSwitch
    <2> HIDE DEF good
    <2> QED
      BY <2>1 DEF TypeOK, Taking
  <1>3. TypeOK'
    BY DeviceType DEF Device
  <1>4. RingInv' /\ OutInv'
    BY <1>1, <1>2, Stays DEF hostVars
  <1>5. /\ issued > 0 /\ slot = served
        /\ active /\ cmd.kind = "switch" /\ cur.wasActive /\ IsTaken /\ ArgTaken
        /\ cmd.arg \in Slots
    BY <1>1 DEF DevInv, CmdInv, InSession, Entering, TypeOK, HostType, Args
  <1>6. pc' = "end" /\ served' = cmd.arg /\ slot' = cmd.arg
    <2>1. Kind = "switch"
      BY <1>5, KindFacts
    <2>2. cur.arg.val = cmd.arg
      BY <1>5 DEF ArgTaken, HasArg, Arg
    <2> QED
      BY <1>1, <1>5, <2>1, <2>2 DEF AfterHandler, IsSilent
  <1>7. /\ Taken /\ Taken' /\ IsTaken' /\ ArgTaken' /\ Whole' /\ ~Unanswered /\ ~Unanswered'
        /\ ModeAfter' = TRUE /\ ~Done /\ ~Done' /\ ~AtRest /\ ~AtRest'
        /\ TokenOut /\ TokenOut'
    BY <1>1, <1>2, <1>5, <1>6 DEF Taken, IsTaken, ArgTaken, Whole, Unanswered, ModeAfter, Done, AtRest,
       TokenOut, Cmd, Arg, hostVars
  <1>8. hpc \in {"send", "await"} /\ served # cmd.arg
    <2>1. hpc # "idle"
      BY <1>1, <1>5, <1>7 DEF HostInv
    <2>2. hpc \in {"send", "await"}
      BY <1>5, <2>1 DEF HostInv, TypeOK, HostType
    <2> QED
      BY <1>1, <1>5, <2>2 DEF HostInv
  <1>9. DevInv'
    <2>1. RestInv' /\ CmdInv'
      BY <1>6, <1>7 DEF RestInv, CmdInv
    <2>2. FrameInv'
      BY <1>1, <1>5, <1>6, <1>7 DEF FrameInv, hostVars
    <2>3. cur.group.n <= issued /\ cur.cmd.n <= issued /\ cur.arg.n <= issued
      BY DEF DevInv
    <2> QED
      BY <1>1, <1>2, <1>5, <1>6, <1>7, <2>1, <2>2, <2>3 DEF DevInv, hostVars
  <1>10. HostInv'
    BY <1>1, <1>5, <1>6, <1>7, <1>8 DEF HostInv, hostVars
  <1>11. HeaderInv'
    BY <1>1, <1>5 DEF HeaderInv, hostVars
  <1>12. ArmInv'
    <2>1. HostArms => hdr[cmd.arg].lsb = token.lsb
      BY <1>5, <1>7, <1>8 DEF ArmInv
    <2> QED
      BY <1>1, <1>6, <2>1 DEF ArmInv, hostVars
  <1> QED
    BY <1>3, <1>4, <1>9, <1>10, <1>11, <1>12

LEMMA EnterKeeps ==
  ASSUME IInv, DevEnter
  PROVE  IInv'
  <1> USE DEF IInv
  <1>1. /\ pc = "enter" /\ step' = 1
        /\ UNCHANGED <<served, hdr, ring, hostVars>>
        /\ \/ /\ ~active /\ cur.arg.val \in {"good", "oversize"}
              /\ active' = (cur.arg.val = "good")
              /\ slot' = served /\ token' = ReadToken(served)
              /\ cur' = [cur EXCEPT !.ok = (cur.arg.val = "good")]
              /\ pc' = "begin"
           \/ /\ active \/ cur.arg.val \notin {"good", "oversize"}
              /\ cur' = [cur EXCEPT !.ok = FALSE]
              /\ active' = active /\ pc' = AfterHandler /\ UNCHANGED <<slot, token>>
    BY DEF DevEnter, Goto
  <1>2. /\ cur'.group = cur.group /\ cur'.cmd = cur.cmd /\ cur'.arg = cur.arg
        /\ cur'.wasActive = cur.wasActive
        /\ cur'.ok = (cur.arg.val = "good" /\ ~active)
    BY <1>1 DEF TypeOK, Taking
  <1>3. TypeOK'
    BY DeviceType DEF Device
  <1>4. RingInv' /\ OutInv'
    BY <1>1, <1>2, Stays DEF hostVars
  <1>5. /\ issued > 0 /\ slot = served /\ served \in Slots
        /\ active = FALSE /\ cmd.kind = "enter" /\ cur.wasActive = FALSE /\ IsTaken /\ ArgTaken
        /\ cmd.arg \in {"good", "oversize", "discard"}
    BY <1>1 DEF DevInv, CmdInv, InSession, Entering, TypeOK, ImageType, HostType, Args
  <1>6. cur.arg.val = cmd.arg
    BY <1>5 DEF ArgTaken, HasArg, Arg
  <1>7. /\ Taken /\ Taken' /\ IsTaken' /\ ArgTaken' /\ Whole' /\ Unanswered' = Unanswered
        /\ ModeAfter' = (cmd.arg = "good") /\ ~Done /\ ~AtRest /\ ~TokenOut
    BY <1>1, <1>2, <1>5 DEF Taken, IsTaken, ArgTaken, Whole, Unanswered, ModeAfter, Done, AtRest,
       TokenOut, Cmd, Arg, HasArg, hostVars
  <1>8. hpc # "idle" /\ hpc # "await" /\ hpc \notin {"progress", "response", "data", "got"}
    BY <1>1, <1>5, <1>7 DEF HostInv
  <1>9. CASE cmd.arg \in {"good", "oversize"}
    <2>1. /\ pc' = "begin" /\ active' = (cmd.arg = "good") /\ slot' = served
          /\ token' = ReadToken(served) /\ cur'.ok = active'
      BY <1>1, <1>2, <1>5, <1>6, <1>9
    <2>2. DevInv'
      <3>1. RestInv' /\ CmdInv'
        BY <1>7, <2>1 DEF RestInv, CmdInv, Done, AtRest
      <3>2. FrameInv'
        BY <1>1, <1>2, <1>5, <1>7, <1>9, <2>1 DEF FrameInv, hostVars
      <3> QED
        BY <1>1, <1>2, <1>5, <1>7, <2>1, <3>1, <3>2 DEF DevInv, hostVars
    <2>3. ~TokenOut' /\ ~Pending' /\ ~AtRest'
      BY <1>1, <2>1 DEF TokenOut, Pending, AtRest
    <2>4. HostInv'
      BY <1>1, <1>5, <1>7, <1>8, <2>1, <2>3 DEF HostInv, hostVars
    <2>5. HeaderInv'
      BY <2>1, <2>3 DEF HeaderInv
    <2>6. ArmInv'
      BY <1>1, <1>5, <2>1 DEF ArmInv, ReadToken, hostVars
    <2> QED
      BY <1>3, <1>4, <2>2, <2>4, <2>5, <2>6
  <1>10. CASE cmd.arg = "discard"
    <2>1. /\ pc' = "rearm" /\ active' = FALSE /\ slot' = slot /\ token' = token /\ cur'.ok = FALSE
      BY <1>1, <1>2, <1>5, <1>6, <1>10 DEF AfterHandler
    <2>2. DevInv'
      <3>1. RestInv'
        BY <1>5, <1>7, <1>10, <2>1 DEF RestInv, hostVars
      <3>2. CmdInv' /\ FrameInv'
        BY <2>1 DEF CmdInv, FrameInv
      <3> QED
        BY <1>1, <1>2, <1>5, <1>7, <2>1, <3>1, <3>2 DEF DevInv, hostVars
    <2>3. Unanswered' /\ ~TokenOut'
      BY <1>5, <1>7, <1>10 DEF Unanswered, TokenOut
    <2>4. HostInv'
      BY <1>1, <1>5, <1>7, <1>8, <2>1, <2>3 DEF HostInv, hostVars
    <2>5. HeaderInv'
      BY <2>3 DEF HeaderInv
    <2>6. ArmInv'
      BY <1>1, <1>5, <2>1 DEF ArmInv, hostVars
    <2> QED
      BY <1>3, <1>4, <2>2, <2>4, <2>5, <2>6
  <1> QED
    BY <1>5, <1>9, <1>10

LEMMA EndKeeps ==
  ASSUME IInv, DevEnd
  PROVE  IInv'
  <1> USE DEF IInv
  <1>1. pc = "end" /\ slot = served /\ slot \in Slots
    BY DEF DevEnd, TypeOK, ImageType, DevInv
  <1>2. step \in 1..3
    BY <1>1 DEF TypeOK, PlaceType
  <1>3. /\ UNCHANGED <<served, active, slot, token, cur, hostVars>>
        /\ \/ step < 3 /\ pc' = "end" /\ step' = step + 1
           \/ step = 3 /\ step' = 1 /\ pc' = IF active THEN "group" ELSE "rearm"
    <2>1. /\ UNCHANGED <<served, active, slot, token, cur, hostVars>>
          /\ IF step < 3 THEN pc' = pc /\ step' = step + 1
             ELSE Goto(IF active THEN "group" ELSE "rearm")
      BY <1>2, EndSteps, Zenon
    <2> QED
      BY <1>1, <1>2, <2>1 DEF Goto
  <1>4. TypeOK'
    BY DeviceType DEF Device
  <1>5. ring' = ring \/ ring' = <<>>
    <2>1. step = 1 \/ step = 2 \/ step = 3
      BY <1>2
    <2> QED
      BY <1>2, <2>1, EndSteps, Zenon
  <1>6. RingInv' /\ OutInv'
    <2>1. CASE ring' = ring
      BY <1>3, <2>1, Stays DEF hostVars
    <2>2. CASE ring' = <<>>
      BY <1>3, <2>2, Clears DEF hostVars
    <2> QED
      BY <1>5, <2>1, <2>2
  <1>7. /\ IsTaken /\ ArgTaken /\ ~Unanswered /\ active = ModeAfter
        /\ cmd.kind = "enter" => cur.ok = active
        /\ issued > 0
    BY <1>1 DEF DevInv, FrameInv
  <1>8. /\ Taken /\ Taken' /\ IsTaken' /\ ArgTaken' /\ Whole /\ Whole' /\ ~Unanswered'
        /\ ModeAfter' = ModeAfter /\ TokenOut /\ Pending /\ ~Done /\ ~AtRest
    BY <1>1, <1>3, <1>7 DEF Taken, IsTaken, ArgTaken, Whole, Unanswered, ModeAfter, TokenOut, Pending,
       Done, AtRest, Cmd, Arg, hostVars
  <1>9. TokenOut'
    BY <1>3, <1>8 DEF TokenOut, AtRest
  <1>10. /\ hdr'[slot].lsb = hdr[slot].lsb /\ hdr'[slot].msb = hdr[slot].msb
         /\ hdr'[slot].data = hdr[slot].data
         /\ step < 3 => hdr'[slot].progress = hdr[slot].progress
         /\ IF step = 1 THEN hdr'[slot].response = cur.ok
            ELSE hdr'[slot].response = hdr[slot].response
         /\ \A s \in Slots : s # slot => hdr'[s] = hdr[s]
    <2>1. hdr \in [Slots -> Headers]
      BY DEF TypeOK, ImageType
    <2>2. CASE step = 1
      <3>1. HdrWrite(slot, "response", cur.ok)
        BY <1>2, <2>2, EndSteps, Zenon
      <3> QED
        BY <1>1, <2>1, <2>2, <3>1 DEF HdrWrite, Headers
    <2>3. CASE step = 2
      <3>1. hdr' = hdr
        BY <1>2, <2>3, EndSteps, Zenon
      <3> QED
        BY <2>3, <3>1
    <2>4. CASE step = 3
      <3>1. HdrWrite(slot, "progress", TRUE)
        BY <1>2, <2>4, EndSteps, Zenon
      <3> QED
        BY <1>1, <2>1, <2>4, <3>1 DEF HdrWrite, Headers
    <2> QED
      BY <1>2, <2>2, <2>3, <2>4
  <1>11. cmd.kind = "switch" => ModeAfter
    BY DEF ModeAfter
  <1>12. hpc # "idle" /\ hpc \notin {"response", "data", "got"}
    BY <1>1, <1>7, <1>8 DEF HostInv, Unanswered
  <1>13. DevInv'
    <2>1. pc' = "group" => cmd.kind \notin {"exit_ack", "exit_silent"}
      BY <1>3, <1>7 DEF ModeAfter
    <2>2. RestInv'
      BY <1>3, <1>7, <1>8, <2>1 DEF RestInv, hostVars
    <2>3. FrameInv'
      BY <1>3, <1>7, <1>8 DEF FrameInv, hostVars
    <2>4. CmdInv'
      BY <1>3 DEF CmdInv
    <2> QED
      BY <1>3, <1>7, <1>8, <2>2, <2>3, <2>4 DEF DevInv, hostVars
  <1>14. HostInv'
    <2>1. cmd.kind = "switch" => pc' \in {"end", "group"}
      BY <1>3, <1>7, <1>11
    <2> QED
      BY <1>3, <1>8, <1>9, <1>12, <2>1 DEF HostInv, hostVars
  <1>15. HeaderInv'
    <2> SUFFICES ASSUME cmd.kind # "switch"
                 PROVE  /\ Pending' => ~hdr'[slot].progress
                        /\ (pc' = "end" /\ step' > 1) \/ AtRest' => hdr'[slot].response = cur.ok
                        /\ cmd.kind = "peek" /\ cur.ok => hdr'[slot].data = issued
                        /\ hdr'[slot].lsb = token.lsb /\ hdr'[slot].msb = token.msb
      BY <1>3 DEF HeaderInv, hostVars
    <2>1. /\ ~hdr[slot].progress
          /\ step > 1 => hdr[slot].response = cur.ok
          /\ cmd.kind = "peek" /\ cur.ok => hdr[slot].data = issued
          /\ hdr[slot].lsb = token.lsb /\ hdr[slot].msb = token.msb
      BY <1>1, <1>7, <1>8, <1>12 DEF HeaderInv
    <2>2. Pending' => step < 3
      BY <1>2, <1>3 DEF Pending
    <2>3. hdr'[slot].response = cur.ok
      BY <1>2, <1>10, <2>1
    <2> QED
      BY <1>10, <2>1, <2>2, <2>3
  <1>16. ArmInv'
    <2>1. cmd.kind = "switch" => cmd.arg \in Slots
      BY DEF TypeOK, HostType, Args
    <2> QED
      BY <1>1, <1>3, <1>8, <1>9, <1>10, <2>1 DEF ArmInv, hostVars
  <1> QED
    BY <1>4, <1>6, <1>13, <1>14, <1>15, <1>16

----------------------------------------------------------------------------
(* The invariant holds, and what follows from it.                          *)

LEMMA InitInv == Init => IInv
  <1> SUFFICES ASSUME Init PROVE IInv
    OBVIOUS
  <1>1. TypeOK
    BY InitType
  <1>2. /\ ring = <<>> /\ pc = "knock" /\ step = 1 /\ active = FALSE /\ slot = served
        /\ cur = Idle /\ hpc = "idle" /\ cmd = [kind |-> "nop", arg |-> "none"]
        /\ session = FALSE /\ issued = 0
    BY DEF Init
  <1>3. RingInv /\ OutInv /\ Quiet
    <2>1. Len(ring) = 0
      BY <1>2
    <2> QED
      BY <1>2, <2>1, RingAssumption DEF RingInv, Ordered, OutInv, Quiet
  <1>4. Taken /\ Whole /\ AtRest /\ Done
    BY <1>2 DEF Taken, Whole, AtRest, Done, Idle, NoByte, HasArg
  <1>5. DevInv
    BY <1>2, <1>4 DEF DevInv, RestInv, CmdInv, FrameInv, Idle, NoByte
  <1>6. HostInv
    BY <1>2, <1>4 DEF HostInv
  <1>7. HeaderInv /\ ArmInv
    BY <1>2 DEF HeaderInv, ArmInv
  <1> QED
    BY <1>1, <1>3, <1>5, <1>6, <1>7 DEF IInv

LEMMA DeviceKeeps ==
  ASSUME IInv, Device
  PROVE  IInv'
  BY ListenKeeps, KnockKeeps, SkipKeeps, GroupKeeps, CmdKeeps, BeginKeeps, DispatchKeeps, ArgKeeps,
     PeekKeeps, SwitchKeeps, EnterKeeps, EndKeeps DEF Device

LEMMA HostKeeps ==
  ASSUME HostLockstep, IInv, Host
  PROVE  IInv'
  <1>1. CASE HostStep
    BY <1>1, SendKeeps, PollsKeeps, WaitsKeeps, MovesKeeps
       DEF HostStep, HostPolls, HostWaits, HostMoves
  <1>2. CASE HostGiveUp
    BY <1>2, MovesKeeps DEF HostMoves
  <1>3. ASSUME NEW k \in Kinds, NEW a \in Args(k), HostIssue(k, a)
        PROVE  IInv'
    BY <1>3, IssueKeeps
  <1> QED
    BY <1>1, <1>2, <1>3 DEF Host

LEMMA StutterKeeps ==
  ASSUME IInv, UNCHANGED vars
  PROVE  IInv'
  <1> USE DEF vars, devVars, hostVars
  <1>1. TypeOK'
    BY DEF IInv, TypeOK, PlaceType, ImageType, HostType, Taking
  <1>2. RingInv' /\ OutInv' /\ Quiet' = Quiet
    BY Stays DEF IInv
  <1>3. DevInv'
    <2>1. pc = "group" /\ ~active /\ ~Taken => hpc \in {"send", "token"}
      BY DEF IInv, DevInv, RestInv, Whole, InSession
    <2> QED
      BY <2>1, Stays, DevKept DEF IInv
  <1>4. HostInv' /\ HeaderInv' /\ ArmInv'
    BY <1>2, OthersKept DEF IInv
  <1> QED
    BY <1>1, <1>2, <1>3, <1>4 DEF IInv

\* Whatever the slots, the ring, the token's range and the host's commands:
\* the exchange between a host that waits for a switch to be over and the
\* plugin keeps the invariant.
THEOREM Invariance == HostLockstep => (Spec => []IInv)
  <1> SUFFICES ASSUME HostLockstep PROVE Spec => []IInv
    OBVIOUS
  <1>1. Init => IInv
    BY InitInv
  <1>2. IInv /\ [Next]_vars => IInv'
    BY DeviceKeeps, HostKeeps, StutterKeeps DEF Next
  <1> QED
    BY <1>1, <1>2, PTL DEF Spec

\* The status and the data a host reads after completion are those of the
\* command it sent (order of the writes in cmd_begin and cmd_end).
THEOREM RepliesAreOurs == HostLockstep => (Spec => []ReplyIsOurs)
  <1> SUFFICES ASSUME HostLockstep PROVE Spec => []ReplyIsOurs
    OBVIOUS
  <1>1. IInv => ReplyIsOurs
    BY DEF IInv, HostInv, ReplyIsOurs, Done, Whole, Taken
  <1> QED
    BY <1>1, Invariance, PTL

\* The plugin runs the command whose bytes the host sent last, whole, and a
\* silent exit not waited for is the only one it may still be at.
THEOREM OnlyWhatWasSent == HostLockstep => (Spec => []RunsWhatWasSent)
  <1> SUFFICES ASSUME HostLockstep PROVE Spec => []RunsWhatWasSent
    OBVIOUS
  <1>1. IInv => RunsWhatWasSent
    <2> SUFFICES ASSUME IInv, pc \in {"begin", "dispatch", "arg", "peek", "switch", "enter", "end"}
                 PROVE  /\ Kind # "unknown" /\ cur.group.n = cur.cmd.n
                        /\ pc \in {"peek", "switch", "enter"} =>
                             cur.arg.n = cur.cmd.n /\ cur.arg.pos = "arg"
                        /\ cur.cmd.n = issued \/ IsSilent(Kind)
      BY DEF RunsWhatWasSent
    <2>1. CASE IsTaken
      <3>1. Kind = cmd.kind /\ cmd.kind \in Kinds
        BY <2>1, KindFacts DEF IInv, TypeOK, HostType
      <3>2. pc \in {"peek", "switch", "enter"} => cur.arg = Arg(issued, cmd.arg)
        BY DEF IInv, DevInv, CmdInv, ArgTaken, HasArg
      <3> QED
        BY <2>1, <3>1, <3>2 DEF IsTaken, Group, Cmd, Arg, Kinds
    <2>2. CASE ~IsTaken
      <3>1. /\ pc = "dispatch"
            /\ cur.group = Group(issued - 1, "exit_silent")
            /\ cur.cmd = Cmd(issued - 1, "exit_silent")
        BY <2>2 DEF IInv, DevInv, CmdInv, FrameInv
      <3>2. Kind = "exit_silent"
        BY <3>1, KindFacts
      <3> QED
        BY <3>1, <3>2 DEF Group, Cmd, IsSilent
    <2> QED
      BY <2>1, <2>2
  <1> QED
    BY <1>1, Invariance, PTL

\* The token a host has seen is the one the plugin counts on from.
THEOREM TokensInStep == HostLockstep => (Spec => []TokenInStep)
  <1> SUFFICES ASSUME HostLockstep PROVE Spec => []TokenInStep
    OBVIOUS
  <1>1. IInv => TokenInStep
    <2> SUFFICES ASSUME IInv, active, hpc = "got"
                 PROVE  hdr[slot].lsb = token.lsb /\ hdr[slot].msb = token.msb
      BY DEF TokenInStep
    <2>1. TokenOut /\ Done /\ cmd.kind # "switch"
      BY DEF IInv, HostInv
    <2>2. Taken /\ ~Unanswered /\ pc # "begin"
      BY <2>1 DEF TokenOut, Done, AtRest
    <2> QED
      BY <2>1, <2>2 DEF IInv, HeaderInv
  <1> QED
    BY <1>1, Invariance, PTL

\* Where cmd_end moves the read index there is no byte of a command to lose.
THEOREM ResetsDropOnlyPolls == HostLockstep => (Spec => ResetDropsOnlyPolls)
  <1> SUFFICES ASSUME HostLockstep PROVE Spec => ResetDropsOnlyPolls
    OBVIOUS
  <1>1. IInv /\ [Next]_vars =>
          [pc = "end" /\ EndOrder[step] = "reset ring" =>
             \A i \in DOMAIN ring : ring[i].pos = "off"]_<<pc, step>>
    <2> SUFFICES ASSUME IInv, pc = "end"
                 PROVE  \A i \in DOMAIN ring : ring[i].pos = "off"
      OBVIOUS
    <2>1. IsTaken /\ ArgTaken
      BY DEF IInv, DevInv, FrameInv
    <2>2. Whole
      BY <2>1 DEF Whole, Taken, IsTaken, ArgTaken, Cmd, Arg
    <2>3. Quiet
      BY <2>2, WholeIsQuiet DEF IInv
    <2> QED
      BY <2>3 DEF Quiet, Off, IInv, TypeOK
  <1> QED
    BY <1>1, Invariance, PTL DEF Spec, ResetDropsOnlyPolls

\* Where the host arms the slots it switches to, each command it waits on
\* changes the byte it watches, whatever the images held there.
THEOREM TokensMove == HostLockstep /\ HostArms => (Spec => TokenMoves)
  <1> SUFFICES ASSUME HostLockstep, HostArms PROVE Spec => TokenMoves
    OBVIOUS
  <1>1. IInv /\ [Next]_vars =>
          [pc = "begin" /\ BeginOrder[step] = "lsb" /\ hpc = "token" =>
             hdr'[slot].lsb # before]_<<pc, step>>
    <2> SUFFICES ASSUME IInv, [Next]_vars, pc = "begin", BeginOrder[step] = "lsb", hpc = "token",
                        ~UNCHANGED <<pc, step>>
                 PROVE  hdr'[slot].lsb # before
      OBVIOUS
    <2>1. step = 2 /\ slot = served /\ slot \in Slots
      BY DEF BeginOrder, IInv, TypeOK, PlaceType, ImageType, DevInv
    <2>2. DevBegin
      <3>1. ~Host
        BY DEF Host, HostStep, HostSend, HostPollToken, HostPollProgress, HostReadResponse,
               HostReadData, HostDone, HostAwaitSwitch, HostGiveUp, HostIssue, devVars
      <3>2. ~UNCHANGED vars
        BY DEF vars, devVars
      <3> QED
        BY <3>1, <3>2 DEF Next, Device, DevListen, DevKnock, DevSkip, DevGroup, DevCmd, DevDispatch,
           DevArg, DevPeek, DevSwitch, DevEnter, DevEnd
    <2>3. HdrWrite(slot, "lsb", NextToken(token).lsb)
      BY <2>1, <2>2, BeginSteps
    <2>4. hdr'[slot].lsb = NextToken(token).lsb
      BY <2>1, <2>3, Written DEF HeaderFields, IInv
    <2>5. hdr[slot].lsb = token.lsb
      BY DEF IInv, ArmInv
    <2>6. hdr[served].lsb = before
      <3>1. ~TokenOut
        BY <2>1 DEF TokenOut, AtRest
      <3> QED
        BY <3>1 DEF IInv, HostInv
    <2>7. NextToken(token).lsb # token.lsb
      BY NextTokenFacts DEF IInv, TypeOK, ImageType
    <2> QED
      BY <2>1, <2>4, <2>5, <2>6, <2>7
  <1> QED
    BY <1>1, Invariance, PTL DEF Spec, TokenMoves

----------------------------------------------------------------------------
(* The byte-level exchange implements RbcpExchange, for a host that waits  *)
(* out a switch and arms the slot it switches to.                          *)
(*                                                                         *)
(* A handler is the step at which its command runs; every other step of    *)
(* the plugin is one the host cannot tell from none.  A host that reads    *)
(* the data byte is told; one whose poll limit runs out is right to give   *)
(* up, because the token of a command that ran has moved.                  *)

\* The token a host has still to see is not the one it snapshotted.
Moved == HostArms /\ hpc \in {"send", "token"} /\ cmd.kind # "switch" /\ TokenOut =>
           hdr[served].lsb # before

\* A step that neither writes the token's first byte nor starts a command.
LEMMA MovedStays ==
  ASSUME Moved, UNCHANGED <<cmd, before>>,
         hpc' \in {"send", "token"} => hpc \in {"send", "token"},
         TokenOut' => TokenOut,
         cmd.kind # "switch" => hdr'[served'].lsb = hdr[served].lsb
  PROVE  Moved'
  BY DEF Moved

\* What cmd_begin writes, and what it leaves.
LEMMA BeginBytes ==
  ASSUME TypeOK, DevBegin
  PROVE  /\ hdr'[slot].lsb = IF step = 2 THEN NextToken(token).lsb ELSE hdr[slot].lsb
         /\ hdr'[slot].data = hdr[slot].data
  <1>1. step \in 1..5 /\ slot \in Slots
    BY DEF TypeOK, PlaceType, ImageType
  <1>2. /\ step = 1 => HdrWrite(slot, "progress", FALSE)
        /\ step = 2 => HdrWrite(slot, "lsb", NextToken(token).lsb)
        /\ step = 3 => HdrWrite(slot, "msb", token.msb)
        /\ step = 4 => HdrWrite(slot, "group", cur.group.n)
        /\ step = 5 => HdrWrite(slot, "cmd", cur.cmd.n)
    BY <1>1, BeginSteps, Zenon
  <1>3. CASE step = 1
    BY <1>1, <1>2, <1>3, Written DEF HeaderFields
  <1>4. CASE step = 2
    BY <1>1, <1>2, <1>4, Written DEF HeaderFields
  <1>5. CASE step = 3
    BY <1>1, <1>2, <1>5, Written DEF HeaderFields
  <1>6. CASE step = 4
    BY <1>1, <1>2, <1>6, Written DEF HeaderFields
  <1>7. CASE step = 5
    BY <1>1, <1>2, <1>7, Written DEF HeaderFields
  <1> QED
    BY <1>1, <1>3, <1>4, <1>5, <1>6, <1>7

\* cmd_end writes neither the token nor the data.
LEMMA EndBytes ==
  ASSUME TypeOK, DevEnd
  PROVE  hdr'[slot].lsb = hdr[slot].lsb /\ hdr'[slot].data = hdr[slot].data
  <1>1. pc = "end"
    BY DEF DevEnd
  <1>2. step \in 1..3 /\ slot \in Slots
    BY <1>1 DEF TypeOK, PlaceType, ImageType
  <1>3. /\ step = 1 => HdrWrite(slot, "response", cur.ok)
        /\ step = 2 => hdr' = hdr
        /\ step = 3 => HdrWrite(slot, "progress", TRUE)
    BY <1>2, EndSteps, Zenon
  <1>4. CASE step = 1
    BY <1>2, <1>3, <1>4, Written DEF HeaderFields
  <1>5. CASE step = 2
    BY <1>3, <1>5
  <1>6. CASE step = 3
    BY <1>2, <1>3, <1>6, Written DEF HeaderFields
  <1> QED
    BY <1>2, <1>4, <1>5, <1>6

\* The plugin changes nothing of the host's.
LEMMA HostKept == Device => UNCHANGED hostVars
  <1>1. DevListen \/ DevKnock \/ DevSkip \/ DevGroup \/ DevCmd \/ DevArg => UNCHANGED hostVars
    BY DEF DevListen, DevKnock, DevSkip, DevGroup, DevCmd, DevArg
  <1>2. DevPeek \/ DevSwitch => UNCHANGED hostVars
    BY DEF DevPeek, DevSwitch
  <1>3. DevDispatch => UNCHANGED hostVars
    BY DEF DevDispatch
  <1>4. DevBegin => UNCHANGED hostVars
    BY DEF DevBegin
  <1>5. DevEnter => UNCHANGED hostVars
    BY DEF DevEnter
  <1>6. DevEnd => UNCHANGED hostVars
    BY DEF DevEnd
  <1> QED
    BY <1>1, <1>2, <1>3, <1>4, <1>5, <1>6 DEF Device

\* A silent exit never moves the token.
SilentDispatch == pc = "dispatch" /\ IsSilent(Kind)

\* A command that is dispatched silently has no token under way.
LEMMA SilentIsQuiet == IInv /\ SilentDispatch => ~TokenOut
  <1> SUFFICES ASSUME IInv, pc = "dispatch", IsSilent(Kind), Taken PROVE Unanswered
    BY DEF TokenOut, SilentDispatch
  <1>1. CmdInv /\ issued \in Nat
    BY DEF IInv, DevInv, TypeOK, HostType
  <1>2. IsTaken
    BY <1>1 DEF CmdInv, Taken, Cmd
  <1>3. Kind = cmd.kind
    BY <1>2, KindFacts
  <1> QED
    BY <1>3 DEF IsSilent, Unanswered

\* Only a header write brings the token out.
LEMMA DeviceMoves ==
  ASSUME IInv, Moved, Device PROVE Moved'
  <1> USE DEF hostVars
  <1>1. /\ TypeOK /\ PlaceType /\ slot = served /\ slot \in Slots
        /\ CmdInv /\ FrameInv /\ RestInv /\ issued \in Nat
    <2>1. TypeOK /\ DevInv
      BY DEF IInv
    <2> QED
      BY <2>1 DEF TypeOK, ImageType, DevInv, HostType
  <1>2. UNCHANGED <<cmd, before, hpc, issued>>
    BY HostKept
  <1>3. CASE DevListen \/ DevKnock \/ DevSkip
    <2>1. /\ UNCHANGED <<hdr, served, cur, slot>>
          /\ pc' = pc \/ (AtRest /\ AtRest')
          /\ pc' = pc => step' = step
      BY <1>1, <1>3 DEF DevListen, DevKnock, DevSkip, Goto, AtRest, devVars, PlaceType
    <2>2. TokenOut' => TokenOut
      BY <1>2, <2>1 DEF TokenOut, AtRest, Taken, Unanswered
    <2> QED
      BY <1>2, <2>1, <2>2, MovedStays
  <1>4. CASE DevGroup
    <2>1. UNCHANGED <<hdr, served>> /\ pc' = "cmd"
      BY <1>4 DEF DevGroup, Goto
    <2>2. ~TokenOut'
      BY <2>1 DEF TokenOut, AtRest
    <2> QED
      BY <1>2, <2>1, <2>2, MovedStays
  <1>5. CASE DevCmd
    <2>1. UNCHANGED <<hdr, served>> /\ cur'.wasActive = active /\ step' = 1 /\ cur'.cmd = Head(ring)
          /\ IF active /\ ~IsSilent(Decoded(cur.group, Head(ring)))
             THEN pc' = "begin" ELSE pc' = "dispatch"
          /\ cur'.group = cur.group
      BY <1>1, <1>5 DEF DevCmd, Goto, TypeOK, Taking
    <2>2. ~TokenOut'
      <3> SUFFICES ASSUME TokenOut' PROVE FALSE
        OBVIOUS
      <3>1. pc' = "dispatch" /\ active /\ IsSilent(Decoded(cur.group, Head(ring)))
        BY <2>1 DEF TokenOut, AtRest
      <3>2. SilentDispatch'
        BY <2>1, <3>1 DEF Kind, SilentDispatch
      <3>3. IInv'
        BY <1>5, CmdKeeps
      <3>4. IInv' /\ SilentDispatch' => ~TokenOut'
        BY SilentIsQuiet, PTL
      <3> QED
        BY <3>1, <3>2, <3>3, <3>4
    <2> QED
      BY <1>2, <2>1, <2>2, MovedStays
  <1>6. CASE DevBegin
    <2>1. /\ pc = "begin" /\ step \in 1..5 /\ UNCHANGED <<served, active, slot, cur>>
          /\ IF step < 5 THEN pc' = pc /\ step' = step + 1
             ELSE Goto(IF cur.wasActive THEN "dispatch" ELSE "end")
      <3>1. step \in 1..5
        BY <1>1 DEF PlaceType
      <3> QED
        BY <1>6, <3>1, BeginSteps, Zenon
    <2>2. CASE step = 2
      <3>1. hdr'[slot].lsb = NextToken(token).lsb
        BY <1>1, <1>6, <2>2, BeginBytes
      <3>2. NextToken(token).lsb # token.lsb
        BY <1>1, NextTokenFacts DEF TypeOK, ImageType
      <3>3. HostArms => hdr[slot].lsb = token.lsb
        BY <2>1 DEF IInv, ArmInv
      <3>4. hpc \in {"send", "token"} => hdr[served].lsb = before
        <4>1. ~TokenOut
          BY <2>1, <2>2 DEF TokenOut, AtRest
        <4> QED
          BY <4>1 DEF IInv, HostInv
      <3>5. ASSUME HostArms, hpc \in {"send", "token"} PROVE hdr'[served'].lsb # before'
        BY <1>1, <1>2, <2>1, <3>1, <3>2, <3>3, <3>4, <3>5
      <3> QED
        BY <1>2, <3>5 DEF Moved
    <2>3. CASE step # 2
      <3>1. hdr'[slot].lsb = hdr[slot].lsb
        BY <1>1, <1>6, <2>3, BeginBytes
      <3>2. TokenOut' => TokenOut
        <4>1. cur' = cur /\ UNCHANGED <<cmd, issued>>
          BY <1>2, <2>1
        <4>2. step = 1 => ~TokenOut'
          BY <2>1 DEF TokenOut, AtRest
        <4>3. step > 2 /\ Taken /\ ~Unanswered => TokenOut
          BY <2>1 DEF TokenOut
        <4> QED
          BY <2>1, <2>3, <4>1, <4>2, <4>3 DEF TokenOut, Taken, Unanswered
      <3> QED
        BY <1>1, <1>2, <2>1, <3>1, <3>2, MovedStays
    <2> QED
      BY <2>2, <2>3
  <1>7. CASE DevDispatch
    <2>1. /\ pc = "dispatch" /\ UNCHANGED <<hdr, served>>
          /\ cur'.cmd = cur.cmd /\ cur'.wasActive = cur.wasActive
          /\ pc' = "arg" \/ pc' = AfterHandler
      BY <1>1, <1>7 DEF DevDispatch, Goto, TypeOK, Taking
    <2>2. TokenOut' => TokenOut
      <3>1. cur.wasActive /\ Taken /\ ~Unanswered => TokenOut
        BY <2>1 DEF TokenOut
      <3>2. ~cur.wasActive /\ TokenOut' => FALSE
        <4> SUFFICES ASSUME ~cur.wasActive, TokenOut' PROVE FALSE
          OBVIOUS
        <4>1. pc' # "arg"
          BY <2>1 DEF TokenOut, AtRest
        <4>2. ~active /\ IsTaken /\ cmd.kind = "enter"
          BY <1>1, <2>1 DEF CmdInv, InSession, Entering, TypeOK, Taking
        <4>3. Kind = "enter"
          BY <4>2, KindFacts
        <4> QED
          BY <1>7, <4>1, <4>3 DEF DevDispatch, HasArg, Goto
      <3> QED
        BY <1>2, <2>1, <3>1, <3>2 DEF TokenOut, Taken, Unanswered
    <2> QED
      BY <1>2, <2>1, <2>2, MovedStays
  <1>8. CASE DevArg
    <2>1. /\ pc = "arg" /\ UNCHANGED <<hdr, served>>
          /\ cur'.cmd = cur.cmd /\ cur'.wasActive = cur.wasActive
          /\ pc' = Kind /\ Kind = cmd.kind /\ cmd.kind \in HasArg
      BY <1>1, <1>8, KindFacts DEF DevArg, Goto, TypeOK, Taking, CmdInv
    <2>2. TokenOut' => TokenOut
      BY <1>2, <2>1 DEF TokenOut, Taken, Unanswered, AtRest, HasArg
    <2> QED
      BY <1>2, <2>1, <2>2, MovedStays
  <1>9. CASE DevPeek \/ DevSwitch
    <2>1. /\ pc \in {"peek", "switch"} /\ cmd.kind = pc /\ cur.wasActive
          /\ cur'.cmd = cur.cmd
      BY <1>1, <1>9 DEF DevPeek, DevSwitch, CmdInv, InSession, Entering, TypeOK, Taking
    <2>2. TokenOut' => TokenOut
      BY <1>2, <2>1 DEF TokenOut, Taken, Unanswered
    <2>3. cmd.kind # "switch" => served' = served /\ hdr'[served].lsb = hdr[served].lsb
      <3> SUFFICES ASSUME pc = "peek"
                   PROVE  served' = served /\ hdr'[served].lsb = hdr[served].lsb
        BY <2>1
      <3>1. DevPeek
        BY <1>9 DEF DevSwitch
      <3>2. served' = served /\ (HdrWrite(slot, "data", cur.cmd.n) \/ hdr' = hdr)
        BY <3>1 DEF DevPeek
      <3>3. HdrWrite(slot, "data", cur.cmd.n) => hdr'[slot].lsb = hdr[slot].lsb
        BY <1>1, Written DEF HeaderFields
      <3> QED
        BY <1>1, <3>2, <3>3
    <2> QED
      BY <1>2, <2>2, <2>3, MovedStays
  <1>10. CASE DevEnter
    <2>1. /\ pc = "enter" /\ UNCHANGED <<hdr, served>> /\ ~active /\ ~cur.wasActive
          /\ cmd.kind = "enter" /\ cur.arg = Arg(issued, cmd.arg)
          /\ \/ pc' = "begin" /\ step' = 1
             \/ cur.arg.val \notin {"good", "oversize"} /\ pc' = AfterHandler
      BY <1>1, <1>10
         DEF DevEnter, Goto, CmdInv, InSession, Entering, ArgTaken, HasArg, TypeOK, Taking
    <2>2. ~TokenOut'
      <3>1. cmd.arg \in {"good", "oversize", "discard"}
        BY <1>1, <2>1 DEF TypeOK, HostType, Args
      <3>2. pc' = AfterHandler /\ pc' # "begin" => Unanswered'
        BY <1>2, <2>1, <3>1 DEF Unanswered, Arg
      <3> QED
        BY <2>1, <3>2 DEF TokenOut, AtRest, AfterHandler
    <2> QED
      BY <1>2, <2>1, <2>2, MovedStays
  <1>11. CASE DevEnd
    <2>1. pc = "end" /\ UNCHANGED <<served, slot, cur>>
      BY <1>11 DEF DevEnd
    <2>2. hdr'[slot].lsb = hdr[slot].lsb
      BY <1>1, <1>11, EndBytes
    <2>3. TokenOut' => TokenOut
      BY <1>2, <2>1 DEF TokenOut, Taken, Unanswered
    <2> QED
      BY <1>1, <1>2, <2>1, <2>2, <2>3, MovedStays
  <1> QED
    BY <1>3, <1>4, <1>5, <1>6, <1>7, <1>8, <1>9, <1>10, <1>11 DEF Device

\* A host that issues a command has it all ahead of it.
LEMMA HostStepMoves ==
  ASSUME IInv, Moved, Host PROVE Moved'
  <1> USE DEF devVars
  <1>1. CASE HostStep \/ HostGiveUp
    <2>1. /\ UNCHANGED <<cmd, before, hdr, served, devVars, issued>>
          /\ hpc' \in {"send", "token"} => hpc \in {"send", "token"}
      BY <1>1 DEF HostStep, HostSend, HostPollToken, HostPollProgress, HostReadResponse, HostReadData,
                  HostDone, HostAwaitSwitch, HostGiveUp, AfterSend
    <2>2. TokenOut' => TokenOut
      BY <2>1 DEF TokenOut, Taken, Unanswered, AtRest
    <2> QED
      BY <2>1, <2>2, MovedStays
  <1>2. ASSUME NEW k \in Kinds, NEW a \in Args(k), HostIssue(k, a) PROVE Moved'
    <2>1. issued \in Nat /\ cur.cmd.n <= issued /\ cur.cmd.n \in Nat
      BY DEF IInv, TypeOK, HostType, DevInv, Taking, Bytes
    <2>2. ~Taken'
      BY <1>2, <2>1 DEF HostIssue, Taken
    <2> QED
      BY <2>2 DEF Moved, TokenOut
  <1> QED
    BY <1>1, <1>2 DEF Host

\* Both halves together are inductive.
LEMMA MovedInvariance == HostLockstep => (Spec => [](IInv /\ Moved))
  <1> SUFFICES ASSUME HostLockstep PROVE Spec => [](IInv /\ Moved)
    OBVIOUS
  <1>1. Init => Moved
    BY DEF Init, Moved
  <1>2. IInv /\ Moved /\ [Next]_vars => Moved'
    <2>1. Moved /\ UNCHANGED vars => Moved'
      BY DEF Moved, TokenOut, Taken, Unanswered, AtRest, vars, devVars, hostVars
    <2> QED
      BY <2>1, DeviceMoves, HostStepMoves DEF Next
  <1> QED
    BY <1>1, <1>2, Invariance, PTL DEF Spec

\* What a step must leave as it was for RbcpExchange not to see it.
LEMMA Unseen ==
  ASSUME UNCHANGED <<issued, cmd, active, served, session, slot>>,
         Ran' <=> Ran, Ran => cur' = cur /\ hdr'[slot].data = hdr[slot].data,
         hpc' = "idle" <=> hpc = "idle", hpc' = "got" <=> hpc = "got",
         hpc = "got" => reply' = reply
  PROVE  UNCHANGED Exchange!vars
  <1>1. Asked' = Asked /\ LeftBehind' = LeftBehind
    BY DEF Asked, LeftBehind
  <1>2. Unrun' = Unrun
    BY <1>1 DEF Unrun
  <1>3. Answer' = Answer
    BY DEF Answer, NotAnswered, NoAnswer
  <1>4. Told' = Told
    BY DEF Told, NoAnswer
  <1> QED
    BY <1>1, <1>2, <1>3, <1>4 DEF Exchange!vars

\* Where the invariant is used: the host rests only where nothing runs, and
\* has read an answer only of a command that ran.
LEMMA RanFacts ==
  ASSUME IInv
  PROVE  /\ hpc \in {"response", "data", "got"} => Ran /\ ~NotAnswered
         /\ pc \in {"dispatch", "arg", "peek", "switch", "enter"} /\ cmd.kind = "enter" =>
              hpc # "idle"
         /\ hpc = "await" /\ served = cmd.arg => Ran
  <1>1. HostInv
    BY DEF IInv
  <1>2. hpc \in {"response", "data", "got"} => Ran /\ ~NotAnswered
    BY <1>1 DEF HostInv, Done, Whole, Taken, AtRest, Ran, TokenOut, Unanswered, NotAnswered
  <1>3. pc \in {"dispatch", "arg", "peek", "switch", "enter"} /\ cmd.kind = "enter" => hpc # "idle"
    BY <1>1 DEF HostInv, Done, AtRest
  <1>4. hpc = "await" /\ served = cmd.arg => Ran
    BY <1>1 DEF HostInv, Whole, Taken, Ran
  <1> QED
    BY <1>2, <1>3, <1>4

\* A step of the plugin other than a handler.
LEMMA DeviceUnseen ==
  ASSUME IInv, Device,
         UNCHANGED <<active, served, slot>>,
         Ran' <=> Ran, Ran => cur' = cur /\ hdr'[slot].data = hdr[slot].data
  PROVE  UNCHANGED Exchange!vars
  BY Unseen, HostKept DEF hostVars

\* The command the plugin is at: the last one, or before an enter the silent
\* exit that was left behind.
Good == cmd.kind \in {"peek", "enter"} => cmd.arg = "good"

\* A handler that has run the command issued last.
LEMMA Runs ==
  ASSUME IInv, UNCHANGED hostVars,
         pc \in {"dispatch", "peek", "switch", "enter"}, ~Ran, Ran',
         active <=> cmd.kind # "enter",
         active' = IF cmd.kind = "enter" THEN cmd.arg = "good"
                   ELSE cmd.kind \notin {"exit_ack", "exit_silent"},
         served' = IF cmd.kind = "switch" THEN cmd.arg ELSE served,
         ~NotAnswered => (cur'.ok <=> Good),
         cmd.kind = "peek" /\ cmd.arg = "good" => hdr'[slot'].data = issued
  PROVE  Exchange!Run
  <1>1. hpc \notin {"response", "data", "got"} /\ (cmd.kind = "enter" => hpc # "idle")
    BY RanFacts
  <1>2. Asked' = Asked /\ Told' = Told /\ Told = NoAnswer
    BY <1>1 DEF Asked, Told, NoAnswer, hostVars
  <1>3. Unrun = <<Asked>> /\ Unrun' = <<>>
    BY <1>1 DEF Unrun
  <1>4. Head(Unrun) = Asked /\ Tail(Unrun) = <<>> /\ Unrun # <<>>
    BY <1>3
  <1>5. Answer' = Exchange!Answer(Asked)
    <2>1. Asked.n = issued /\ Asked.kind = cmd.kind /\ Asked.arg = cmd.arg
      BY DEF Asked
    <2>2. Exchange!Unanswered(Asked) <=> NotAnswered
      BY <2>1 DEF Exchange!Unanswered, NotAnswered
    <2>3. Exchange!Succeeds(Asked) <=> Good
      BY <2>1 DEF Exchange!Succeeds, Good
    <2>4. NotAnswered' <=> NotAnswered
      BY DEF NotAnswered, hostVars
    <2>5. CASE NotAnswered
      BY <2>2, <2>4, <2>5 DEF Answer, NoAnswer, Exchange!Answer, Exchange!NoAnswer
    <2>6. CASE ~NotAnswered
      <3>1. Answer' = [n |-> issued, status |-> IF cur'.ok THEN "ok" ELSE "failed",
                       data |-> IF cmd.kind = "peek" /\ cur'.ok THEN hdr'[slot'].data ELSE 0]
        BY <2>4, <2>6 DEF Answer, hostVars
      <3>2. Exchange!Answer(Asked) =
              [n |-> issued, status |-> IF Good THEN "ok" ELSE "failed",
               data |-> IF cmd.kind = "peek" /\ Good THEN issued ELSE 0]
        BY <2>1, <2>2, <2>3, <2>6 DEF Exchange!Answer
      <3>3. cur'.ok <=> Good
        BY <2>6
      <3>4. cmd.kind = "peek" /\ Good => hdr'[slot'].data = issued
        BY DEF Good
      <3> QED
        BY <3>1, <3>2, <3>3, <3>4
    <2> QED
      BY <2>5, <2>6
  <1> QED
    BY <1>2, <1>3, <1>4, <1>5 DEF Exchange!Run, Asked, hostVars

\* The plugin's steps, one by one.
LEMMA DeviceExchanges ==
  ASSUME IInv, Device PROVE [Exchange!Next]_(Exchange!vars)
  <1>1. /\ TypeOK /\ PlaceType /\ slot = served /\ slot \in Slots /\ DevInv
        /\ CmdInv /\ FrameInv /\ RestInv /\ issued \in Nat
        /\ cmd.kind \in Kinds /\ cmd.arg \in Args(cmd.kind)
    <2>1. TypeOK /\ DevInv
      BY DEF IInv
    <2> QED
      BY <2>1 DEF TypeOK, ImageType, DevInv, HostType
  <1>2. UNCHANGED hostVars /\ UNCHANGED <<cmd, hpc, issued>>
    BY HostKept DEF hostVars
  <1>3. CASE DevListen \/ DevKnock \/ DevSkip
    <2>1. /\ UNCHANGED <<hdr, served, active, cur, slot>>
          /\ pc' = pc \/ (AtRest /\ AtRest')
      BY <1>1, <1>3 DEF DevListen, DevKnock, DevSkip, Goto, AtRest, devVars
    <2>2. Ran' <=> Ran
      BY <1>2, <2>1 DEF Ran, AtRest
    <2> QED
      BY <2>1, <2>2, DeviceUnseen
  <1>4. CASE DevGroup
    <2>1. /\ pc = "group" /\ UNCHANGED <<hdr, served, active, slot>> /\ pc' = "cmd"
          /\ cur'.cmd = NoByte
      BY <1>4 DEF DevGroup, Goto, Idle
    <2>2. ~Ran'
      BY <2>1 DEF Ran
    <2>3. ~Ran
      <3> SUFFICES ASSUME Taken PROVE FALSE
        BY DEF Ran, Taken
      <3>1. active /\ Whole
        BY <1>1, <2>1 DEF RestInv
      <3>2. Quiet
        BY <3>1, WholeIsQuiet DEF IInv
      <3>3. ring # <<>> /\ ~Off(Head(ring)) /\ ring \in Seq(Bytes)
        BY <1>1, <1>4, <3>1 DEF DevGroup, TakeByte, Off, TypeOK
      <3> QED
        BY <3>2, <3>3 DEF Quiet
    <2> QED
      BY <2>1, <2>2, <2>3, DeviceUnseen
  <1>5. CASE DevCmd
    <2>1. /\ pc = "cmd" /\ UNCHANGED <<hdr, served, active, slot>> /\ cur'.wasActive = active
          /\ pc' = "dispatch" \/ (active /\ pc' = "begin")
      BY <1>1, <1>5 DEF DevCmd, Goto, TypeOK, Taking
    <2>2. ~Ran /\ ~Ran'
      BY <2>1 DEF Ran
    <2> QED
      BY <2>1, <2>2, DeviceUnseen
  <1>6. CASE DevBegin
    <2>1. step \in 1..5
      BY <1>1 DEF PlaceType
    <2>2. /\ pc = "begin" /\ UNCHANGED <<served, active, slot, cur>>
          /\ IF step < 5 THEN pc' = pc /\ step' = step + 1
             ELSE Goto(IF cur.wasActive THEN "dispatch" ELSE "end")
      BY <1>6, <2>1, BeginSteps, Zenon
    <2>3. pc' = pc \/ pc' = IF cur.wasActive THEN "dispatch" ELSE "end"
      BY <2>2 DEF Goto
    <2>4. Ran' <=> Ran
      BY <1>2, <2>2, <2>3 DEF Ran
    <2>5. hdr'[slot].data = hdr[slot].data
      BY <1>1, <1>6, BeginBytes
    <2> QED
      BY <2>2, <2>4, <2>5, DeviceUnseen
  <1>7. CASE DevDispatch
    <2>1. /\ pc = "dispatch" /\ UNCHANGED <<served, hdr, slot>>
          /\ IF Kind \in HasArg
             THEN pc' = "arg" /\ active' = active /\ cur' = cur
             ELSE /\ active' = (active /\ Kind \notin {"exit_ack", "exit_silent"})
                  /\ cur' = [cur EXCEPT !.ok = (Kind # "unknown")]
                  /\ pc' = AfterHandler
      BY <1>7 DEF DevDispatch, Goto
    <2>2. ~Ran
      BY <2>1 DEF Ran
    <2>3. \/ (InSession \/ Entering) /\ IsTaken
          \/ /\ active /\ cmd.kind = "enter" /\ issued > 1
             /\ cur.group = Group(issued - 1, "exit_silent")
             /\ cur.cmd = Cmd(issued - 1, "exit_silent")
      BY <1>1, <2>1 DEF CmdInv
    <2>4. CASE Kind \in HasArg
      <3>1. ~Ran'
        BY <2>1, <2>4 DEF Ran
      <3> QED
        BY <2>1, <2>2, <2>4, <3>1, DeviceUnseen
    <2>5. CASE IsTaken /\ Kind \notin HasArg
      <3>1. Kind = cmd.kind /\ cmd.kind \in {"nop", "exit_ack", "exit_silent"}
        BY <1>1, <2>5, KindFacts DEF Kinds, HasArg
      <3>2. active
        BY <2>3, <2>5, <3>1 DEF InSession, Entering
      <3>3. cur'.cmd = cur.cmd /\ cur'.ok = TRUE /\ pc' \in {"end", "group", "rearm"}
        BY <1>1, <2>1, <2>5, <3>1 DEF AfterHandler, TypeOK, Taking
      <3>4. Ran'
        BY <1>2, <2>5, <3>3 DEF Ran, IsTaken, Cmd
      <3>5. active' = IF cmd.kind = "enter" THEN cmd.arg = "good"
                      ELSE cmd.kind \notin {"exit_ack", "exit_silent"}
        BY <2>1, <2>5, <3>1, <3>2
      <3>6. Good /\ cmd.kind \notin {"enter", "switch", "peek"}
        BY <3>1 DEF Good
      <3>7. Exchange!Run
        BY <1>2, <2>1, <2>2, <3>2, <3>3, <3>4, <3>5, <3>6, Runs
      <3> QED
        BY <3>7 DEF Exchange!Next
    <2>6. CASE ~IsTaken
      <3>1. /\ active /\ cmd.kind = "enter" /\ issued > 1
            /\ cur.group = Group(issued - 1, "exit_silent")
            /\ cur.cmd = Cmd(issued - 1, "exit_silent")
        BY <2>3, <2>6
      <3>2. Kind = "exit_silent"
        BY <3>1, KindFacts
      <3>3. active' = FALSE /\ cur'.cmd = cur.cmd
        BY <1>1, <2>1, <3>2 DEF HasArg, TypeOK, Taking
      <3>4. ~Ran'
        BY <1>1, <1>2, <3>1, <3>3 DEF Ran, Cmd
      <3>5. hpc \notin {"idle", "got"}
        BY <2>1, <2>2, <3>1, RanFacts
      <3>6. Unrun = <<LeftBehind, Asked>> /\ Unrun' = <<Asked>>
        BY <1>2, <2>2, <3>1, <3>3, <3>4, <3>5 DEF Unrun, Asked
      <3>7. Head(Unrun) = LeftBehind /\ Tail(Unrun) = Unrun' /\ Unrun # <<>>
        BY <3>6
      <3>8. Answer' = NoAnswer
        BY <3>4 DEF Answer, NoAnswer
      <3>9. Exchange!Answer(LeftBehind) = NoAnswer /\ LeftBehind.kind = "exit_silent"
        BY DEF Exchange!Answer, Exchange!Unanswered, Exchange!NoAnswer, LeftBehind, NoAnswer
      <3>10. Asked' = Asked /\ Told' = Told /\ UNCHANGED <<hpc, session, served>>
        BY <1>2, <2>1 DEF Asked, Told, NoAnswer, hostVars
      <3> QED
        BY <3>1, <3>3, <3>7, <3>8, <3>9, <3>10 DEF Exchange!Run, Exchange!Next
    <2> QED
      BY <2>4, <2>5, <2>6, Runs DEF Exchange!Next
  <1>8. CASE DevArg
    <2>1. /\ pc = "arg" /\ UNCHANGED <<hdr, served, active, slot>> /\ pc' = Kind
          /\ Kind = cmd.kind /\ cmd.kind \in HasArg
      BY <1>1, <1>8, KindFacts DEF DevArg, Goto, CmdInv
    <2>2. ~Ran /\ ~Ran'
      BY <2>1 DEF Ran, HasArg
    <2> QED
      BY <2>1, <2>2, DeviceUnseen
  <1>9. CASE DevPeek
    <2> DEFINE good == cur.arg.val = "good" /\ active
    <2>1. /\ pc = "peek" /\ pc' = AfterHandler /\ UNCHANGED <<active, served, slot>>
          /\ cur' = [cur EXCEPT !.ok = good]
          /\ IF good THEN HdrWrite(slot, "data", cur.cmd.n) ELSE hdr' = hdr
      BY <1>9 DEF DevPeek, Goto
    <2>2. cur'.cmd = cur.cmd /\ cur'.ok = good
      BY <1>1, <2>1 DEF TypeOK, Taking
    <2>3. /\ active /\ IsTaken /\ cmd.kind = "peek" /\ cur.arg = Arg(issued, cmd.arg)
      BY <1>1, <2>1 DEF CmdInv, InSession, Entering, ArgTaken, HasArg
    <2>4. good <=> Good
      BY <2>3 DEF Good, Arg
    <2>5. cmd.arg = "good" => hdr'[slot'].data = issued
      <3> SUFFICES ASSUME cmd.arg = "good" PROVE hdr'[slot].data = issued
        BY <2>1
      <3>1. HdrWrite(slot, "data", cur.cmd.n) /\ cur.cmd.n = issued
        BY <2>1, <2>3 DEF IsTaken, Arg, Cmd
      <3> QED
        BY <1>1, <3>1, Written DEF HeaderFields
    <2> HIDE DEF good
    <2>6. ~Ran /\ Ran'
      BY <1>2, <2>1, <2>2, <2>3, AfterFacts DEF Ran, IsTaken, Cmd, AfterHandler
    <2>7. Exchange!Run
      BY <1>2, <2>1, <2>2, <2>3, <2>4, <2>5, <2>6, Runs
    <2> QED
      BY <2>7 DEF Exchange!Next
  <1>10. CASE DevSwitch
    <2>1. /\ pc = "switch" /\ pc' = AfterHandler /\ active' = active
          /\ cur'.cmd = cur.cmd
          /\ served' = IF cur.arg.val \in Slots THEN cur.arg.val ELSE served
      BY <1>1, <1>10 DEF DevSwitch, Goto, TypeOK, Taking
    <2>2. /\ active /\ IsTaken /\ cmd.kind = "switch" /\ cur.arg.val = cmd.arg /\ cmd.arg \in Slots
      BY <1>1, <2>1 DEF CmdInv, InSession, Entering, ArgTaken, HasArg, Arg, Args
    <2>3. ~Ran /\ Ran'
      BY <1>2, <2>1, <2>2 DEF Ran, IsTaken, Cmd, AfterHandler
    <2>4. Exchange!Run
      BY <1>2, <2>1, <2>2, <2>3, Runs DEF NotAnswered
    <2> QED
      BY <2>4 DEF Exchange!Next
  <1>11. CASE DevEnter
    <2>1. /\ pc = "enter" /\ ~active /\ ~cur.wasActive /\ IsTaken /\ cmd.kind = "enter"
          /\ cur.arg.val = cmd.arg /\ cmd.arg \in {"good", "oversize", "discard"}
      BY <1>1, <1>11 DEF DevEnter, CmdInv, InSession, Entering, ArgTaken, HasArg, Arg, Args,
                         TypeOK, Taking
    <2>2. /\ served' = served /\ cur'.cmd = cur.cmd /\ cur'.wasActive = cur.wasActive
          /\ \/ /\ cmd.arg \in {"good", "oversize"} /\ pc' = "begin"
                /\ active' = (cmd.arg = "good") /\ cur'.ok = (cmd.arg = "good")
             \/ /\ cmd.arg = "discard" /\ pc' = AfterHandler /\ active' = active
      BY <1>1, <1>11, <2>1 DEF DevEnter, Goto, TypeOK, Taking
    <2>3. ~Ran /\ Ran'
      BY <1>2, <2>1, <2>2 DEF Ran, IsTaken, Cmd, AfterHandler
    <2>4. active' = (cmd.arg = "good")
      BY <1>1, <2>1, <2>2 DEF TypeOK
    <2>5. ~NotAnswered => (cur'.ok <=> Good)
      BY <2>1, <2>2 DEF NotAnswered, Good
    <2>6. Exchange!Run
      BY <1>2, <2>1, <2>2, <2>3, <2>4, <2>5, Runs
    <2> QED
      BY <2>6 DEF Exchange!Next
  <1>12. CASE DevEnd
    <2>1. /\ pc = "end" /\ UNCHANGED <<served, active, slot, cur>>
          /\ pc' \in {"end", "group", "rearm"}
      BY <1>12 DEF DevEnd, Goto
    <2>2. hdr'[slot].data = hdr[slot].data
      BY <1>1, <1>12, EndBytes
    <2>3. Ran' <=> Ran
      BY <1>2, <2>1 DEF Ran
    <2> QED
      BY <2>1, <2>2, <2>3, DeviceUnseen
  <1> QED
    BY <1>3, <1>4, <1>5, <1>6, <1>7, <1>8, <1>9, <1>10, <1>11, <1>12 DEF Device

\* A host out of its session that rests before the plugin is out of it has
\* sent a silent exit, which has still to run.
LEMMA ExitLeft ==
  ASSUME IInv, hpc = "idle", active, ~session
  PROVE  cmd.kind = "exit_silent" /\ cmd.arg = "none" /\ ~Ran
  <1>1. DevInv /\ HostInv /\ TypeOK
    BY DEF IInv
  <1>2. cmd.kind = "exit_silent" /\ issued > 0
    BY <1>1 DEF HostInv, DevInv, RestInv
  <1>3. cmd.arg = "none"
    BY <1>1, <1>2 DEF TypeOK, HostType, Args
  <1>4. ASSUME Ran PROVE FALSE
    <2>1. Unanswered /\ ModeAfter = FALSE /\ Taken
      BY <1>2, <1>4 DEF Unanswered, ModeAfter, Ran, Taken
    <2>2. pc # "end" /\ (pc = "begin" => cur.wasActive)
      BY <1>1, <1>2, <2>1 DEF DevInv, FrameInv
    <2>3. AtRest
      BY <1>4, <2>2 DEF Ran, AtRest
    <2>4. Done
      BY <1>1, <2>1, <2>3, RestIsDone
    <2> QED
      BY <1>1, <1>2, <2>1, <2>4 DEF DevInv, RestInv
  <1> QED
    BY <1>2, <1>3, <1>4

\* A command issued goes behind the silent exit, if that has not run.
LEMMA Asks ==
  ASSUME IInv, NEW k \in Kinds, NEW a \in Args(k), HostIssue(k, a) PROVE Exchange!Ask
  <1>1. /\ TypeOK /\ DevInv /\ HostInv /\ hpc = "idle" /\ (session <=> k # "enter")
        /\ issued' = issued + 1 /\ cmd' = [kind |-> k, arg |-> a] /\ hpc' = "send"
        /\ UNCHANGED <<served, pc, cur, active, slot, session>>
    BY DEF IInv, HostIssue, devVars
  <1>2. issued \in Nat /\ cur.cmd.n <= issued /\ cur.cmd.n \in Nat
    BY <1>1 DEF TypeOK, HostType, DevInv, Taking, Bytes
  <1>3. ~Ran'
    BY <1>1, <1>2 DEF Ran
  <1>4. Asked' = [n |-> issued + 1, kind |-> k, arg |-> a] /\ Asked.n = issued
    BY <1>1 DEF Asked
  <1>5. Unrun' = Append(Unrun, Asked')
    <2>1. CASE active /\ k = "enter"
      <3>1. cmd.kind = "exit_silent" /\ cmd.arg = "none" /\ ~Ran
        BY <1>1, <2>1, ExitLeft
      <3>3. Unrun = <<Asked>> /\ Asked = [n |-> issued, kind |-> "exit_silent", arg |-> "none"]
        BY <3>1 DEF Unrun, Asked
      <3>4. Unrun' = <<LeftBehind', Asked'>>
        BY <1>1, <1>3, <2>1 DEF Unrun
      <3>5. LeftBehind' = Asked
        BY <1>1, <1>2, <3>3 DEF LeftBehind
      <3> QED
        BY <3>3, <3>4, <3>5
    <2>2. CASE ~(active /\ k = "enter")
      <3>1. Unrun' = <<Asked'>>
        BY <1>1, <1>3, <2>2 DEF Unrun
      <3>2. Unrun = <<>>
        <4>1. CASE Done
          BY <4>1 DEF Done, Whole, Taken, AtRest, Ran, Unrun
        <4>2. CASE ~Done
          <5>1. ~session
            BY <1>1, <4>2 DEF HostInv
          <5>2. ~active
            BY <1>1, <2>2, <5>1
          <5>3. ~Taken /\ pc \in {"rearm", "knock"}
            BY <1>1, <4>2, <5>2 DEF HostInv
          <5>4. cmd.kind = "enter"
            BY <1>1, <5>3 DEF DevInv, RestInv
          <5> QED
            BY <1>1, <5>4 DEF Unrun
        <4> QED
          BY <4>1, <4>2
      <3> QED
        BY <3>1, <3>2
    <2> QED
      BY <2>1, <2>2
  <1>6. Answer' = NoAnswer /\ Told' = Told
    BY <1>1, <1>3 DEF Answer, Told, NoAnswer
  <1>7. \E c \in UNION {[kind : {i}, arg : Args(i)] : i \in Kinds} :
          Asked' = [n |-> Asked.n + 1, kind |-> c.kind, arg |-> c.arg]
    <2>1. [kind |-> k, arg |-> a] \in UNION {[kind : {i}, arg : Args(i)] : i \in Kinds}
      OBVIOUS
    <2>2. Asked' = [n |-> Asked.n + 1, kind |-> [kind |-> k, arg |-> a].kind,
                    arg |-> [kind |-> k, arg |-> a].arg]
      BY <1>4
    <2> QED
      BY <2>1, <2>2
  <1>8. session <=> Asked'.kind # "enter"
    BY <1>1, <1>4
  <1> QED
    BY <1>1, <1>5, <1>6, <1>7, <1>8 DEF Exchange!Ask, Exchange!NoAnswer, NoAnswer

\* A host that gives up is right to: the plugin listens for a knock, so what
\* it has of the command is all of an enter it discarded, or nothing.
LEMMA GivesUp ==
  ASSUME IInv, Moved, HostArms, HostGiveUp PROVE Exchange!GiveUp
  <1>1. /\ hpc = "token" /\ pc = "knock" /\ hdr[served].lsb = before
        /\ hpc' = "idle" /\ session' = FALSE
        /\ UNCHANGED <<served, hdr, active, slot, pc, cur, cmd, issued>>
        /\ DevInv /\ HostInv
    BY DEF HostGiveUp, devVars, IInv
  <1>2. ~active /\ AtRest /\ cmd.kind \notin {"switch", "exit_silent"}
    BY <1>1 DEF DevInv, RestInv, HostInv, AtRest
  <1>3. ~TokenOut
    BY <1>1, <1>2 DEF Moved
  <1>4. cmd.kind = "enter" /\ (Taken => cmd.arg = "discard")
    <2>1. CASE Taken
      <3>1. Unanswered
        BY <1>2, <1>3, <2>1 DEF TokenOut
      <3> QED
        BY <1>2, <3>1 DEF Unanswered
    <2>2. CASE ~Taken
      BY <1>1, <2>2 DEF DevInv, RestInv
    <2> QED
      BY <2>1, <2>2
  <1>5. Ran <=> Taken
    BY <1>2, <1>1 DEF Ran, Taken
  <1>6. Answer = NoAnswer /\ Answer' = Answer
    <2>1. ~Ran \/ NotAnswered
      BY <1>4, <1>5 DEF NotAnswered
    <2>2. (~Ran \/ NotAnswered)'
      BY <1>1, <2>1 DEF Ran, NotAnswered
    <2> QED
      BY <2>1, <2>2 DEF Answer, NoAnswer
  <1>7. Unrun \in {<<>>, <<Asked>>} /\ Unrun' = <<>>
    BY <1>1, <1>2, <1>4 DEF Unrun
  <1>8. Asked' = Asked /\ Told' = Told /\ Asked.kind = "enter"
    BY <1>1, <1>4 DEF Asked, Told, NoAnswer
  <1> QED
    BY <1>1, <1>2, <1>6, <1>7, <1>8 DEF Exchange!GiveUp, Exchange!NoAnswer, NoAnswer

\* The host's steps within an exchange.
LEMMA HostExchanges ==
  ASSUME IInv, HostStep PROVE [Exchange!Next]_(Exchange!vars)
  <1>1. /\ UNCHANGED <<served, hdr, devVars, cmd, before, issued>>
        /\ DevInv /\ HostInv /\ slot = served
    BY DEF HostStep, HostSend, HostPollToken, HostPollProgress, HostReadResponse, HostReadData,
           HostDone, HostAwaitSwitch, IInv, DevInv
  <1>2. /\ UNCHANGED <<active, slot, pc, cur>> /\ (Ran' <=> Ran) /\ Asked' = Asked
        /\ Answer' = Answer
    <2>1. UNCHANGED <<active, slot, pc, cur>>
      BY <1>1 DEF devVars
    <2>2. Ran' <=> Ran
      BY <1>1, <2>1 DEF Ran
    <2>3. (NotAnswered' <=> NotAnswered) /\ Asked' = Asked
      BY <1>1 DEF NotAnswered, Asked
    <2> QED
      BY <1>1, <2>1, <2>2, <2>3 DEF Answer, NoAnswer
  <1>3. /\ hpc' \notin {"idle", "got"} /\ hpc \notin {"idle", "got"} /\ session' = session =>
             UNCHANGED Exchange!vars
    BY <1>1, <1>2, Unseen
  <1>4. CASE HostPollToken \/ HostPollProgress \/ HostReadResponse
    BY <1>3, <1>4 DEF HostPollToken, HostPollProgress, HostReadResponse
  <1>5. CASE HostSend
    <2>1. /\ hpc = "send"
          /\ hpc' = IF Len(out) = 1 THEN AfterSend ELSE "send"
          /\ session' = (session /\ ~(Len(out) = 1 /\ cmd.kind = "exit_silent"))
          /\ session \in BOOLEAN
      BY <1>5 DEF HostSend, IInv, TypeOK, HostType
    <2>2. CASE Len(out) = 1 /\ cmd.kind = "exit_silent"
      <3>1. hpc' = "idle" /\ session' = FALSE
        BY <2>1, <2>2 DEF AfterSend
      <3>2. Unrun' = Unrun /\ Told' = Told
        BY <1>1, <1>2, <2>1, <2>2, <3>1 DEF Unrun, Told, NoAnswer, LeftBehind
      <3>3. Exchange!Leave
        BY <1>1, <1>2, <2>1, <2>2, <3>1, <3>2 DEF Exchange!Leave, Asked
      <3> QED
        BY <3>3 DEF Exchange!Next
    <2>3. CASE ~(Len(out) = 1 /\ cmd.kind = "exit_silent")
      <3>1. hpc' \notin {"idle", "got"} /\ session' = session
        BY <2>1, <2>3 DEF AfterSend
      <3> QED
        BY <1>3, <2>1, <3>1
    <2> QED
      BY <2>2, <2>3
  <1>6. CASE HostReadData
    <2>1. /\ hpc = "data" /\ hpc' = "got" /\ session' = session
          /\ reply' = [reply EXCEPT !.data = hdr[served].data]
          /\ reply \in [ok : BOOLEAN, data : Nat] /\ reply.ok = cur.ok
      BY <1>1, <1>6 DEF HostReadData, IInv, TypeOK, HostType, HostInv
    <2>2. reply'.ok = cur.ok /\ reply'.data = hdr[slot].data
      BY <1>1, <2>1
    <2>3. Ran /\ ~NotAnswered
      BY <2>1, RanFacts
    <2>4. Answer = [n |-> issued, status |-> IF cur.ok THEN "ok" ELSE "failed",
                    data |-> IF cmd.kind = "peek" /\ cur.ok THEN hdr[slot].data ELSE 0]
      BY <2>3 DEF Answer
    <2>5. Told' = [n |-> issued, status |-> IF reply'.ok THEN "ok" ELSE "failed",
                   data |-> IF cmd.kind = "peek" /\ reply'.ok THEN reply'.data ELSE 0]
      BY <1>1, <2>1 DEF Told
    <2>6. Told' = Answer /\ Answer.n = Asked.n
      BY <2>2, <2>4, <2>5 DEF Asked
    <2>7. Unrun' = Unrun
      BY <1>1, <1>2, <2>1, <2>3 DEF Unrun
    <2>8. Exchange!Tell
      BY <1>1, <1>2, <2>1, <2>6, <2>7 DEF Exchange!Tell
    <2> QED
      BY <2>8 DEF Exchange!Next
  <1>7. CASE HostDone
    <2>1. /\ hpc = "got" /\ hpc' = "idle" /\ Ran
          /\ session' = CASE cmd.kind = "enter"    -> reply.ok
                          [] cmd.kind = "exit_ack" -> FALSE
                          [] OTHER                 -> session
          /\ session \in BOOLEAN /\ reply.ok \in BOOLEAN
      BY <1>7, RanFacts DEF HostDone, IInv, TypeOK, HostType
    <2>2. Told.status = "ok" <=> reply.ok
      BY <2>1 DEF Told
    <2>3. Unrun' = Unrun /\ Told' = NoAnswer
      BY <1>1, <1>2, <2>1 DEF Unrun, Told, NoAnswer
    <2>4. session' = IF Asked.kind = "enter" THEN Told.status = "ok"
                     ELSE session /\ Asked.kind # "exit_ack"
      BY <2>1, <2>2 DEF Asked
    <2>5. Exchange!Believe
      BY <1>1, <1>2, <2>1, <2>3, <2>4 DEF Exchange!Believe, Exchange!NoAnswer, NoAnswer
    <2> QED
      BY <2>5 DEF Exchange!Next
  <1>8. CASE HostAwaitSwitch
    <2>1. /\ hpc = "await" /\ session' = session
          /\ hpc' = hpc \/ (hpc' = "idle" /\ served = cmd.arg)
      BY <1>8 DEF HostAwaitSwitch
    <2>2. CASE hpc' = hpc
      BY <1>3, <2>1, <2>2
    <2>3. CASE hpc' = "idle" /\ served = cmd.arg
      <3>1. Ran /\ cmd.kind = "switch"
        BY <1>1, <2>1, <2>3, RanFacts DEF HostInv
      <3>2. Unrun = <<>> /\ Unrun' = Unrun /\ Told' = Told
        BY <1>1, <1>2, <2>1, <2>3, <3>1 DEF Unrun, Told, NoAnswer
      <3>3. Exchange!Moved
        BY <1>1, <1>2, <2>1, <2>3, <3>1, <3>2 DEF Exchange!Moved, Asked
      <3> QED
        BY <3>3 DEF Exchange!Next
    <2> QED
      BY <2>1, <2>2, <2>3
  <1> QED
    BY <1>4, <1>5, <1>6, <1>7, <1>8 DEF HostStep

\* With the bytes left out, commands run one at a time, each once and in the
\* order and the mode they were sent in, and a host is told what its own came
\* to or gives up on one that did nothing (send_cmd, run_command, poll).
THEOREM Refinement == HostLockstep /\ HostArms => (Spec => ExchangeSpec)
  <1> SUFFICES ASSUME HostLockstep, HostArms PROVE Spec => ExchangeSpec
    OBVIOUS
  <1>1. Init => Exchange!Init
    <2> SUFFICES ASSUME Init PROVE Exchange!Init
      OBVIOUS
    <2>1. Ran /\ ~NotAnswered /\ ~cur.ok
      BY DEF Init, Ran, NotAnswered, Idle, NoByte
    <2>2. Unrun = <<>> /\ Told = NoAnswer
      BY <2>1 DEF Init, Unrun, Told
    <2>3. Answer = NoAnswer
      BY <2>1 DEF Init, Answer, NoAnswer
    <2> QED
      BY <2>2, <2>3 DEF Init, Exchange!Init, Exchange!NoAnswer, NoAnswer, Asked
  <1>2. IInv /\ Moved /\ [Next]_vars => [Exchange!Next]_(Exchange!vars)
    <2>1. IInv /\ UNCHANGED vars => UNCHANGED Exchange!vars
      <3> SUFFICES ASSUME UNCHANGED vars PROVE UNCHANGED Exchange!vars
        OBVIOUS
      <3>1. Ran' <=> Ran
        BY DEF vars, devVars, hostVars, Ran
      <3> QED
        BY <3>1, Unseen DEF vars, devVars, hostVars
    <2>2. ASSUME IInv, Moved, Host PROVE [Exchange!Next]_(Exchange!vars)
      BY <2>2, HostExchanges, GivesUp, Asks DEF Host, Exchange!Next
    <2> QED
      BY <2>1, <2>2, DeviceExchanges DEF Next
  <1> QED
    BY <1>1, <1>2, MovedInvariance, PTL DEF Spec, ExchangeSpec, Exchange!Spec

\* Where nothing is under way the host knows whether a session is on.
SessionKnown == hpc = "idle" /\ Unrun = <<>> => (session <=> active)

\* A host that rests, with nothing of its own still to run, believes itself in
\* a session exactly when the plugin is in one, after lost enters, discarded
\* ones and silent exits too (s_state.active, the driver's session).
THEOREM SessionsAgree == HostLockstep => (Spec => []SessionKnown)
  <1> SUFFICES ASSUME HostLockstep PROVE Spec => []SessionKnown
    OBVIOUS
  <1>1. IInv => SessionKnown
    <2> SUFFICES ASSUME IInv, hpc = "idle", Unrun = <<>> PROVE session <=> active
      BY DEF SessionKnown
    <2>1. Ran \/ cmd.kind = "enter"
      BY DEF Unrun
    <2>2. active => session
      BY <2>1, ExitLeft
    <2>3. session => active
      BY DEF IInv, HostInv
    <2> QED
      BY <2>2, <2>3
  <1> QED
    BY <1>1, Invariance, PTL
=============================================================================
