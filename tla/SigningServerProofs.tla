------------------------- MODULE SigningServerProofs -------------------------
(***************************************************************************)
(* Whatever commands fail, whenever clients go and the server stops, and   *)
(* however late a killed push arrives, the remotes keep the promise of     *)
(* SignatureRecord and have no line twice; for any number of clients and   *)
(* any values.                                                             *)
(***************************************************************************)
EXTENDS SigningServer, TLAPS

AnyLine == Requests \cup [kind : {"signature"}, values : Values] \cup {Other, Malformed}
Trees == Seq(AnyLine)
Clones == [upstream : Trees, branch : Trees, index : Trees, work : Trees, stuck : BOOLEAN]
Turns == [client : Clients, req : Requests, record : Records,
          at : Commands \cup {"sign", "read", "push", "reply"}]

Typed ==
    /\ remote \in [Records -> Trees]
    /\ clone \in [Records -> Clones]
    /\ late \in SUBSET [record : Records, base : Trees, tip : Trees]
    /\ request \in [Clients -> {NoRequest} \cup [req : Requests, ticket : Nat]]
    /\ turn \in {Free} \cup Turns
    /\ returned \in SUBSET Requests
    /\ asked \in Nat

\* A tree has the server's own lines once.
Distinct(tree) ==
    \A i, j \in DOMAIN tree : i # j /\ tree[i] = tree[j] => tree[i] \in {Other, Malformed}

\* What fetch last read of a remote is still in it: a branch never goes back.
Followed ==
    \A r \in Records :
        /\ LinesOf(clone[r].upstream) \subseteq LinesOf(remote[r])
        /\ Distinct(clone[r].upstream)
        /\ Distinct(remote[r])

\* A live request's line is in the private record.
Recorded(req) == req.kind = "live" /\ req \in LinesOf(remote["private"])

\* One more line, new to the tree.
Adds(tree, to, line) == tree = Append(to, line) /\ line \notin LinesOf(to)

\* The clone of the record being added to, by the command under way.
InTurn ==
    turn # Free =>
        /\ At("clean") => /\ Cl.index = Cl.upstream
                          /\ Cl.work = Cl.upstream \/ Cl.index = <<>>
        /\ At("read") => Cl.index = Cl.upstream /\ Cl.work = Cl.upstream
        /\ At("add") => Adds(Cl.work, Cl.upstream, TheLine)
        /\ At("commit") => Adds(Cl.index, Cl.upstream, TheLine)
        /\ At("push") => Adds(Cl.branch, Cl.upstream, TheLine)
        /\ turn.record = "public" => Recorded(turn.req)
        /\ At("reply") =>
              /\ turn.req \in LinesOf(remote["private"])
              /\ turn.req.kind = "live" =>
                    Line("public", turn.req) \in LinesOf(remote["public"])

\* A push that may still land adds one line, and to the public record only one
\* whose private line is there.
LateAdds ==
    \A p \in late : \E req \in Requests :
        /\ Adds(p.tip, p.base, Line(p.record, req))
        /\ p.record = "public" => Recorded(req)

IInv == Typed /\ Followed /\ InTurn /\ LateAdds

---------------------------------------------------------------------------
(* Trees. *)

\* Appending a line to a record file keeps the lines it has and adds the one.
LEMMA AppendLines ==
    ASSUME NEW s \in Trees, NEW x \in AnyLine
    PROVE  /\ Append(s, x) \in Trees
           /\ LinesOf(Append(s, x)) = LinesOf(s) \cup {x}
  <1>1. /\ Append(s, x) \in Trees
        /\ Len(Append(s, x)) = Len(s) + 1
        /\ \A i \in 1 .. Len(s) : Append(s, x)[i] = s[i]
        /\ Append(s, x)[Len(s) + 1] = x
    BY DEF Trees
  <1>2. DOMAIN s = 1 .. Len(s) /\ Len(s) \in Nat
    BY DEF Trees
  <1>3. DOMAIN Append(s, x) = 1 .. Len(s) + 1
    BY <1>1 DEF Trees
  <1>4. DOMAIN Append(s, x) = (DOMAIN s) \cup {Len(s) + 1}
    BY <1>2, <1>3
  <1> QED BY <1>1, <1>2, <1>4 DEF LinesOf

\* A line that is new to a record file, or that is not the server's, leaves
\* the server's own lines there once each.
LEMMA AppendDistinct ==
    ASSUME NEW s \in Trees, NEW x \in AnyLine, Distinct(s),
           x \notin LinesOf(s) \/ x \in {Other, Malformed}
    PROVE  Distinct(Append(s, x))
  <1>1. /\ Len(Append(s, x)) = Len(s) + 1 /\ Len(s) \in Nat
        /\ \A i \in 1 .. Len(s) : Append(s, x)[i] = s[i]
        /\ Append(s, x)[Len(s) + 1] = x
        /\ DOMAIN s = 1 .. Len(s)
        /\ DOMAIN Append(s, x) = 1 .. Len(s) + 1
    BY DEF Trees
  <1>2. SUFFICES ASSUME NEW i \in 1 .. Len(s) + 1, NEW j \in 1 .. Len(s) + 1, i # j,
                        Append(s, x)[i] = Append(s, x)[j]
                 PROVE  Append(s, x)[i] \in {Other, Malformed}
    BY <1>1 DEF Distinct
  <1>3. CASE i \in 1 .. Len(s) /\ j \in 1 .. Len(s)
    BY <1>1, <1>2, <1>3 DEF Distinct
  <1>4. CASE i \in 1 .. Len(s) /\ j = Len(s) + 1
    <2>1. x = s[i] /\ x \in LinesOf(s)
      BY <1>1, <1>2, <1>4 DEF LinesOf
    <2> QED BY <2>1, <1>1, <1>4
  <1>5. CASE j \in 1 .. Len(s) /\ i = Len(s) + 1
    <2>1. x = s[j] /\ x \in LinesOf(s)
      BY <1>1, <1>2, <1>5 DEF LinesOf
    <2> QED BY <2>1, <1>1, <1>5
  <1> QED BY <1>1, <1>2, <1>3, <1>4, <1>5

\* A remote takes a push on top of its head only: what it had, it keeps.
LEMMA AncestorLines ==
    ASSUME NEW s \in Trees, NEW t \in Trees, IsAncestor(s, t)
    PROVE  LinesOf(s) \subseteq LinesOf(t)
  <1>1. Len(s) \in Nat /\ Len(t) \in Nat /\ Len(s) <= Len(t) /\ s = SubSeq(t, 1, Len(s))
    BY DEF Trees, IsAncestor
  <1>2. \A i \in 1 .. Len(s) : s[i] = t[i]
    BY <1>1 DEF Trees
  <1>3. DOMAIN s = 1 .. Len(s) /\ DOMAIN t = 1 .. Len(t)
    BY DEF Trees
  <1> QED BY <1>1, <1>2, <1>3 DEF LinesOf

\* What the server writes to either record is a line of that record.
LEMMA LineTyped ==
    ASSUME NEW record \in Records, NEW req \in Requests
    PROVE  Line(record, req) \in AnyLine /\ Line(record, req) \notin {Other, Malformed}
  BY DEF Line, AnyLine, Requests, Records, Other, Malformed

---------------------------------------------------------------------------
(* Steps that leave what was fetched as it was. *)

RemoteGrows ==
    \A r \in Records : LinesOf(remote[r]) \subseteq LinesOf(remote'[r]) /\ Distinct(remote'[r])
UpstreamKept == \A r \in Records : clone'[r].upstream = clone[r].upstream

\* A remote that only grows still has all that was fetched from it and all
\* that a late push relies on.
LEMMA GrowthKeeps ==
    ASSUME Followed, LateAdds, RemoteGrows, UpstreamKept, late' \subseteq late
    PROVE  Followed' /\ LateAdds'
  <1>1. Followed'
    BY DEF Followed, RemoteGrows, UpstreamKept
  <1>2. \A req : Recorded(req) => Recorded(req)'
    BY DEF Recorded, RemoteGrows, Records
  <1>3. LateAdds'
    BY <1>2 DEF LateAdds
  <1> QED BY <1>1, <1>3

\* The command under way finds its clone as it was, whatever others do.
LEMMA TurnKept ==
    ASSUME Typed, InTurn, RemoteGrows, UNCHANGED <<clone, turn>>
    PROVE  InTurn'
  <1>1. \A req : Recorded(req) => Recorded(req)'
    BY DEF Recorded, RemoteGrows, Records
  <1>2. \A l, r : r \in Records /\ l \in LinesOf(remote[r]) => l \in LinesOf(remote'[r])
    BY DEF RemoteGrows
  <1> QED BY <1>1, <1>2 DEF InTurn, At, Cl, TheLine, Records

\* Nothing moves: the remotes have grown by nothing.
LEMMA StillGrows ==
    ASSUME Followed, UNCHANGED remote
    PROVE  RemoteGrows
  BY DEF Followed, RemoteGrows

---------------------------------------------------------------------------
(* Every action keeps the invariant. *)

\* A server that starts has fetched nothing and signed nothing.
LEMMA InitInv == Init => IInv
  <1> SUFFICES ASSUME Init PROVE IInv
    OBVIOUS
  <1>1. <<>> \in Trees /\ DOMAIN <<>> = {} /\ LinesOf(<<>>) = {} /\ Distinct(<<>>)
    BY DEF Trees, LinesOf, Distinct
  <1>2. FreshClone \in Clones /\ FreshClone.upstream = <<>>
    BY <1>1 DEF FreshClone, Clones
  <1>3. Typed
    BY <1>1, <1>2 DEF Init, Typed
  <1>4. Followed
    BY <1>1, <1>2 DEF Init, Followed
  <1>5. InTurn /\ LateAdds
    BY DEF Init, InTurn, LateAdds
  <1> QED BY <1>3, <1>4, <1>5 DEF IInv

\* With the lock held, the holder's request, its record, the clone of that and
\* the line for it are of their types.
LEMMA Holding ==
    ASSUME Typed, turn # Free
    PROVE  /\ turn \in Turns
           /\ turn.client \in Clients /\ turn.req \in Requests /\ turn.record \in Records
           /\ Cl \in Clones
           /\ TheLine \in AnyLine /\ TheLine \notin {Other, Malformed}
  <1>1. turn \in Turns
    BY DEF Typed
  <1>2. turn.client \in Clients /\ turn.req \in Requests /\ turn.record \in Records
    BY <1>1 DEF Turns
  <1>3. Cl \in Clones
    BY <1>2 DEF Cl, Typed
  <1> QED BY <1>1, <1>2, <1>3, LineTyped DEF TheLine

\* Requests come, wait, and get the lock.
LEMMA WaitingInv ==
    ASSUME IInv, NEW c \in Clients, Ask(c) \/ WaiterGoes(c) \/ TakeTurn(c)
    PROVE  IInv'
  <1> USE DEF IInv
  <1>1. UNCHANGED <<remote, clone, late, returned>>
    BY DEF Ask, WaiterGoes, TakeTurn
  <1>2. Followed' /\ LateAdds'
    BY <1>1, StillGrows, GrowthKeeps DEF UpstreamKept
  <1>3. CASE Ask(c)
    <2>1. Typed'
      BY <1>1, <1>3 DEF Ask, Typed
    <2>2. InTurn'
      BY <1>1, <1>3, StillGrows, TurnKept DEF Ask
    <2> QED BY <1>2, <2>1, <2>2
  <1>4. CASE WaiterGoes(c)
    <2>1. Typed'
      BY <1>1, <1>4 DEF WaiterGoes, Typed
    <2>2. InTurn'
      BY <1>1, <1>4, StillGrows, TurnKept DEF WaiterGoes
    <2> QED BY <1>2, <2>1, <2>2
  <1>5. CASE TakeTurn(c)
    <2>1. request[c] \in [req : Requests, ticket : Nat]
      BY <1>5 DEF TakeTurn, IsFirst, Typed
    <2>2. turn' \in Turns /\ turn'.record = "private" /\ turn'.at = "sign"
      BY <1>5, <2>1 DEF TakeTurn, Turns, Records
    <2>3. Typed'
      BY <1>1, <1>5, <2>2 DEF TakeTurn, Typed
    <2>4. InTurn'
      BY <2>2 DEF InTurn, At
    <2> QED BY <1>2, <2>3, <2>4
  <1> QED BY <1>3, <1>4, <1>5

\* A step that gives the lock back leaves nothing to say of the turn.
LEMMA FreedInv ==
    ASSUME IInv, Typed', RemoteGrows, UpstreamKept, late' \subseteq late, turn' = Free
    PROVE  IInv'
  BY GrowthKeeps DEF IInv, InTurn

\* The request is refused or answered.
LEMMA AnsweredInv ==
    ASSUME IInv, SignRefused \/ PushRejected \/ IndexLocked \/ Reply
    PROVE  IInv'
  <1>1. turn # Free
    BY DEF SignRefused, PushRejected, IndexLocked, Reply, At, Free, LocksIndex
  <1>2. Answered /\ UNCHANGED <<remote, clone>> /\ returned' \in {returned, returned \cup {turn.req}}
    BY DEF SignRefused, PushRejected, IndexLocked, Reply, Refused
  <1>3. Typed'
    BY <1>1, <1>2, Holding DEF IInv, Typed, Answered
  <1> QED BY <1>2, <1>3, StillGrows, FreedInv DEF IInv, Answered, UpstreamKept

\* A git command leaves its clone in the form the next one counts on: from
\* the reset on, the upstream branch and at most one line more.
LEMMA GitInv ==
    ASSUME IInv, Git
    PROVE  IInv'
  <1> DEFINE new == After(turn.at)
             r0  == turn.record
  <1>1. turn # Free /\ turn.at \in Commands
    BY DEF Git, Commands, Free
  <1>2. /\ turn \in Turns /\ turn.req \in Requests /\ r0 \in Records
        /\ Cl \in Clones /\ TheLine \in AnyLine
    BY <1>1, Holding DEF IInv
  <1>3. /\ Cl.upstream \in Trees /\ Cl.branch \in Trees /\ Cl.index \in Trees
        /\ Cl.work \in Trees /\ Cl.stuck \in BOOLEAN
        /\ remote[r0] \in Trees /\ <<>> \in Trees
    BY <1>2 DEF Clones, IInv, Typed, Trees
  <1>4. UNCHANGED <<remote, late, request, returned, asked>>
    BY DEF Git
  <1>5. /\ clone' = [clone EXCEPT ![r0] = new]
        /\ turn' = [turn EXCEPT !.at = NextStep(@)]
    BY DEF Git
  <1>6. /\ turn'.at = NextStep(turn.at) /\ turn'.req = turn.req /\ turn'.record = r0
        /\ turn'.client = turn.client
        /\ NextStep(turn.at) \in {"reset", "clean", "read", "commit", "push"}
    BY <1>1, <1>2, <1>5 DEF Turns, NextStep, Commands
  <1>7. new \in Clones
    BY <1>1, <1>2, <1>3 DEF After, Commands, Fetched, WasReset, Cleaned, Staged, Committed, Clones
  <1>8. turn' \in Turns
    BY <1>2, <1>5, <1>6 DEF Turns, Commands
  <1>9. clone \in [Records -> Clones] /\ clone'[r0] = new
        /\ \A r \in Records : r # r0 => clone'[r] = clone[r]
    BY <1>2, <1>5 DEF IInv, Typed
  <1>10. Typed'
    BY <1>4, <1>5, <1>7, <1>8, <1>9 DEF IInv, Typed
  <1>11. new.upstream = Cl.upstream \/ new.upstream = remote[r0]
    BY <1>1, <1>2 DEF After, Commands, Fetched, WasReset, Cleaned, Staged, Committed, Clones
  <1>12. Followed'
    <2>1. \A r \in Records : r # r0 =>
             /\ LinesOf(clone'[r].upstream) \subseteq LinesOf(remote'[r])
             /\ Distinct(clone'[r].upstream) /\ Distinct(remote'[r])
      BY <1>4, <1>9 DEF IInv, Followed
    <2>2. /\ LinesOf(new.upstream) \subseteq LinesOf(remote'[r0])
          /\ Distinct(new.upstream) /\ Distinct(remote'[r0])
      BY <1>2, <1>4, <1>11 DEF IInv, Followed, Cl
    <2> QED BY <1>9, <2>1, <2>2 DEF Followed
  <1>13. LateAdds'
    BY <1>4 DEF IInv, LateAdds, Recorded
  <1>14. Cl' = new /\ TheLine' = TheLine
    BY <1>2, <1>6, <1>9 DEF Cl, TheLine
  <1>15. turn.record = "public" => Recorded(turn.req)'
    BY <1>1, <1>4, <1>6 DEF IInv, InTurn, Recorded
  <1>16. InTurn'
    <2>1. CASE turn.at = "fetch"
      <3>1. turn'.at = "reset"
        BY <2>1, <1>6 DEF NextStep
      <3> QED BY <3>1, <1>6, <1>15 DEF InTurn, At
    <2>2. CASE turn.at = "reset"
      <3>1. turn'.at = "clean"
        BY <2>2, <1>6 DEF NextStep
      <3>2. /\ new.index = new.upstream
            /\ new.work = new.upstream \/ new.index = <<>>
        BY <2>2, <1>2 DEF After, WasReset, Clones
      <3> QED BY <3>1, <3>2, <1>6, <1>14, <1>15 DEF InTurn, At
    <2>3. CASE turn.at = "clean"
      <3>1. turn'.at = "read"
        BY <2>3, <1>6 DEF NextStep
      <3>2. /\ Cl.index = Cl.upstream
            /\ Cl.work = Cl.upstream \/ Cl.index = <<>>
        BY <2>3, <1>1 DEF IInv, InTurn, At
      <3>3. new.index = new.upstream /\ new.work = new.upstream
        BY <2>3, <3>2, <1>2 DEF After, Cleaned, Untracked, Clones
      <3> QED BY <3>1, <3>3, <1>6, <1>14, <1>15 DEF InTurn, At
    <2>4. CASE turn.at = "add"
      <3>1. turn'.at = "commit"
        BY <2>4, <1>6 DEF NextStep
      <3>2. Adds(Cl.work, Cl.upstream, TheLine)
        BY <2>4, <1>1 DEF IInv, InTurn, At
      <3>3. new.upstream = Cl.upstream /\ new.index = Cl.work
        BY <2>4, <1>2 DEF After, Staged, Clones
      <3>4. Adds(new.index, new.upstream, TheLine)
        BY <3>2, <3>3
      <3> QED BY <3>1, <3>4, <1>6, <1>14, <1>15 DEF InTurn, At, Adds
    <2>5. CASE turn.at = "commit"
      <3>1. turn'.at = "push"
        BY <2>5, <1>6 DEF NextStep
      <3>2. Adds(Cl.index, Cl.upstream, TheLine)
        BY <2>5, <1>1 DEF IInv, InTurn, At
      <3>3. new.upstream = Cl.upstream /\ new.branch = Cl.index
        BY <2>5, <1>2 DEF After, Committed, Clones
      <3>4. Adds(new.branch, new.upstream, TheLine)
        BY <3>2, <3>3
      <3> QED BY <3>1, <3>4, <1>6, <1>14, <1>15 DEF InTurn, At, Adds
    <2> QED BY <1>1, <2>1, <2>2, <2>3, <2>4, <2>5 DEF Commands
  <1> QED BY <1>10, <1>12, <1>13, <1>16 DEF IInv

\* A line found in the record, or pushed to it, is what the next step counts
\* on: the public record after a live request's private line, or the reply.
LEMMA AddedInv ==
    ASSUME IInv, turn # Free, Added, Typed', RemoteGrows,
           TheLine \in LinesOf(remote'[turn.record])
    PROVE  InTurn'
  <1>1. /\ turn \in Turns /\ turn.req \in Requests /\ turn.record \in Records
    BY Holding DEF IInv
  <1>2. turn.record = "public" => Recorded(turn.req)
    BY DEF IInv, InTurn
  <1>3. turn.record = "public" => turn.req.kind = "live" /\ turn.req \in LinesOf(remote'["private"])
    BY <1>2 DEF Recorded, RemoteGrows, Records
  <1>4. CASE turn.record = "private" /\ turn.req.kind = "live"
    <2>1. turn'.record = "public" /\ turn'.at = "fetch" /\ turn'.req = turn.req
      BY <1>1, <1>4 DEF Added, Turns
    <2>2. turn.req \in LinesOf(remote'["private"])
      BY <1>4 DEF TheLine, Line
    <2> QED BY <1>4, <2>1, <2>2 DEF InTurn, At, Recorded
  <1>5. CASE ~(turn.record = "private" /\ turn.req.kind = "live")
    <2>1. turn'.record = turn.record /\ turn'.at = "reply" /\ turn'.req = turn.req
      BY <1>1, <1>5 DEF Added, Turns
    <2>2. turn.req \in LinesOf(remote'["private"])
      BY <1>1, <1>3 DEF TheLine, Line, Records
    <2>3. turn.req.kind = "live" => Line("public", turn.req) \in LinesOf(remote'["public"])
      BY <1>1, <1>5 DEF TheLine, Records
    <2>4. turn.record = "public" => Recorded(turn.req)'
      BY <1>3, <2>1 DEF Recorded
    <2> QED BY <2>1, <2>2, <2>3, <2>4 DEF InTurn, At
  <1> QED BY <1>4, <1>5

\* The turn after Added is of its type.
LEMMA AddedTyped ==
    ASSUME IInv, turn # Free, Added
    PROVE  turn' \in Turns
  <1>1. turn \in Turns
    BY Holding DEF IInv
  <1> QED BY <1>1 DEF Added, Turns, Commands, Records

\* The file read after clean is the remote's as last fetched, so a line found
\* there is recorded and a line not found there is new.
LEMMA ReadInv ==
    ASSUME IInv, Read
    PROVE  IInv'
  <1> DEFINE r0 == turn.record
  <1>1. turn # Free /\ turn.at = "read"
    BY DEF Read, At, Free
  <1>2. /\ turn \in Turns /\ turn.req \in Requests /\ r0 \in Records
        /\ turn.client \in Clients
        /\ Cl \in Clones /\ TheLine \in AnyLine
    BY <1>1, Holding DEF IInv
  <1>3. Cl.work = Cl.upstream /\ Cl.upstream \in Trees
    BY <1>1, <1>2 DEF IInv, InTurn, At, Clones
  <1>4. LinesOf(Cl.work) \subseteq LinesOf(remote[r0])
    BY <1>2, <1>3 DEF IInv, Followed, Cl
  <1>5. UNCHANGED <<remote, faults>>
    BY DEF Read
  <1>6. RemoteGrows
    BY <1>5, StillGrows DEF IInv
  <1>7. CASE Refused /\ UNCHANGED clone
    <2>1. Typed'
      BY <1>2, <1>5, <1>7 DEF IInv, Typed, Refused, Answered
    <2> QED BY <1>6, <1>7, <2>1, FreedInv DEF Refused, Answered, UpstreamKept
  <1>8. CASE IsThere(TheLine, LinesOf(Cl.work)) /\ Added /\ UNCHANGED clone
    <2>1. turn' \in Turns
      BY <1>1, <1>8, AddedTyped
    <2>2. Typed'
      BY <1>5, <1>8, <2>1 DEF IInv, Typed, Added
    <2>3. TheLine \in LinesOf(remote'[r0])
      BY <1>4, <1>5, <1>8 DEF IsThere
    <2>4. InTurn'
      BY <1>1, <1>6, <1>8, <2>2, <2>3, AddedInv
    <2>5. Followed' /\ LateAdds'
      BY <1>6, <1>8, GrowthKeeps DEF IInv, UpstreamKept, Added
    <2> QED BY <2>2, <2>4, <2>5 DEF IInv
  <1>9. CASE /\ ~IsThere(TheLine, LinesOf(Cl.work))
             /\ clone' = [clone EXCEPT ![r0].work = Append(@, TheLine)]
             /\ turn' = [turn EXCEPT !.at = "add"]
             /\ UNCHANGED <<late, request, returned, asked, foreign>>
    <2> DEFINE new == [Cl EXCEPT !.work = Append(Cl.work, TheLine)]
    <2>1. new \in Clones
      BY <1>2, <1>3, AppendLines DEF Clones
    <2>2. clone \in [Records -> Clones] /\ clone'[r0] = new
          /\ \A r \in Records : r # r0 => clone'[r] = clone[r]
      BY <1>2, <1>9 DEF IInv, Typed, Cl
    <2>3. clone' \in [Records -> Clones]
      <3>1. clone' = [clone EXCEPT ![r0] = new]
        BY <1>2, <1>9 DEF Cl, IInv, Typed
      <3> QED BY <1>2, <2>1, <2>2, <3>1
    <2>4. turn' \in Turns /\ turn'.at = "add" /\ turn'.req = turn.req /\ turn'.record = r0
      BY <1>2, <1>9 DEF Turns, Commands
    <2>5. Typed'
      BY <1>5, <1>9, <2>3, <2>4 DEF IInv, Typed
    <2>6. new.upstream = Cl.upstream /\ new.work = Append(Cl.upstream, TheLine)
      BY <1>2, <1>3 DEF Clones
    <2>7. UpstreamKept
      BY <2>2, <2>6 DEF UpstreamKept, Cl
    <2>8. Followed' /\ LateAdds'
      BY <1>6, <1>9, <2>7, GrowthKeeps DEF IInv
    <2>9. Cl' = new /\ TheLine' = TheLine
      BY <2>2, <2>4 DEF Cl, TheLine
    <2>10. Adds(new.work, new.upstream, TheLine)
      BY <1>3, <1>9, <2>6 DEF Adds, IsThere
    <2>11. turn.record = "public" => Recorded(turn.req)'
      BY <1>1, <1>5, <2>4 DEF IInv, InTurn, Recorded
    <2>12. InTurn'
      BY <2>4, <2>9, <2>10, <2>11 DEF InTurn, At, Adds
    <2> QED BY <2>5, <2>8, <2>12 DEF IInv
  <1> QED BY <1>7, <1>8, <1>9 DEF Read, Appends

\* A push adds the one new line to what was fetched, and the remote takes it
\* only where that is all it has.
LEMMA PushInv ==
    ASSUME IInv, Push
    PROVE  IInv'
  <1> DEFINE r0 == turn.record
  <1>1. turn # Free /\ turn.at = "push"
    BY DEF Push, At, Free
  <1>2. /\ turn \in Turns /\ turn.req \in Requests /\ r0 \in Records
        /\ Cl \in Clones /\ TheLine \in AnyLine
    BY <1>1, Holding DEF IInv
  <1>3. /\ Cl.branch = Append(Cl.upstream, TheLine) /\ TheLine \notin LinesOf(Cl.upstream)
        /\ Cl.upstream \in Trees /\ Cl.branch \in Trees
    BY <1>1, <1>2 DEF IInv, InTurn, At, Adds, Clones
  <1>4. Distinct(Cl.upstream)
    BY <1>2 DEF IInv, Followed, Cl
  <1>5. Distinct(Cl.branch) /\ TheLine \in LinesOf(Cl.branch)
    BY <1>2, <1>3, <1>4, AppendDistinct, AppendLines
  <1>6. LinesOf(remote[r0]) \subseteq LinesOf(Cl.branch)
    BY <1>2, <1>3, AncestorLines DEF Push, IInv, Typed
  <1> DEFINE new == [Cl EXCEPT !.upstream = Cl.branch]
  <1>7. new \in Clones /\ new.upstream = Cl.branch
    BY <1>2, <1>3 DEF Clones
  <1>8. /\ remote' = [remote EXCEPT ![r0] = Cl.branch]
        /\ clone' = [clone EXCEPT ![r0] = new]
        /\ Added
    BY <1>2 DEF Push, Cl, IInv, Typed
  <1>9. /\ remote'[r0] = Cl.branch /\ clone'[r0] = new
        /\ \A r \in Records : r # r0 => remote'[r] = remote[r] /\ clone'[r] = clone[r]
    BY <1>2, <1>8 DEF IInv, Typed
  <1>10. RemoteGrows
    BY <1>5, <1>6, <1>9 DEF RemoteGrows, IInv, Followed
  <1>11. turn' \in Turns
    BY <1>1, <1>8, AddedTyped
  <1>12. Typed'
    BY <1>2, <1>3, <1>7, <1>8, <1>11 DEF IInv, Typed, Added
  <1>13. InTurn'
    BY <1>1, <1>5, <1>8, <1>9, <1>10, <1>12, AddedInv
  <1>14. Followed'
    BY <1>2, <1>5, <1>7, <1>9 DEF IInv, Followed
  <1>15. LateAdds'
    <2>1. \A req : Recorded(req) => Recorded(req)'
      BY <1>10 DEF Recorded, RemoteGrows, Records
    <2> QED BY <1>8, <2>1 DEF IInv, LateAdds, Added
  <1> QED BY <1>12, <1>13, <1>14, <1>15 DEF IInv

\* A command that fails or is killed leaves a clone the next request starts
\* over from, and at most a push of the one new line under way.
LEMMA CutShortInv ==
    ASSUME IInv, CutShort, turn' = Free,
           request' \in [Clients -> {NoRequest} \cup [req : Requests, ticket : Nat]]
    PROVE  IInv'
  <1> DEFINE r0 == turn.record
  <1>1. UNCHANGED <<remote, returned, asked>>
    BY DEF CutShort
  <1>2. InTurn'
    BY DEF InTurn
  <1>3. \A req : Recorded(req)' = Recorded(req)
    BY <1>1 DEF Recorded
  <1>4. CASE UNCHANGED <<clone, late>>
    <2>1. Typed'
      BY <1>1, <1>4 DEF IInv, Typed
    <2> QED BY <1>1, <1>4, <2>1, StillGrows, FreedInv DEF IInv, UpstreamKept
  <1>5. CASE /\ turn.at \in Commands
             /\ clone' = [clone EXCEPT ![r0] = After(turn.at)]
             /\ UNCHANGED late
    <2>1. turn # Free
      BY <1>5 DEF Commands, Free
    <2>2. r0 \in Records /\ Cl \in Clones
      BY <2>1, Holding DEF IInv
    <2>3. /\ Cl.upstream \in Trees /\ Cl.branch \in Trees /\ Cl.index \in Trees
          /\ Cl.work \in Trees /\ Cl.stuck \in BOOLEAN
          /\ remote[r0] \in Trees /\ <<>> \in Trees
      BY <2>2 DEF Clones, IInv, Typed, Trees
    <2>4. After(turn.at) \in Clones
      BY <1>5, <2>2, <2>3 DEF After, Commands, Fetched, WasReset, Cleaned, Staged, Committed, Clones
    <2>5. \/ After(turn.at).upstream = Cl.upstream
          \/ After(turn.at).upstream = remote[r0]
      BY <1>5, <2>2 DEF After, Commands, Fetched, WasReset, Cleaned, Staged, Committed, Clones
    <2>6. /\ clone' \in [Records -> Clones] /\ clone'[r0] = After(turn.at)
          /\ \A r \in Records : r # r0 => clone'[r] = clone[r]
      BY <1>5, <2>2, <2>4 DEF IInv, Typed
    <2>7. Typed'
      BY <1>1, <1>5, <2>6 DEF IInv, Typed
    <2>8. Followed'
      <3>1. \A r \in Records : r # r0 =>
               /\ LinesOf(clone'[r].upstream) \subseteq LinesOf(remote'[r])
               /\ Distinct(clone'[r].upstream) /\ Distinct(remote'[r])
        BY <1>1, <2>6 DEF IInv, Followed
      <3>2. /\ LinesOf(After(turn.at).upstream) \subseteq LinesOf(remote'[r0])
            /\ Distinct(After(turn.at).upstream) /\ Distinct(remote'[r0])
        BY <1>1, <2>2, <2>5 DEF IInv, Followed, Cl
      <3> QED BY <2>6, <3>1, <3>2 DEF Followed
    <2>9. LateAdds'
      BY <1>3, <1>5 DEF IInv, LateAdds
    <2> QED BY <1>2, <2>7, <2>8, <2>9 DEF IInv
  <1>6. CASE /\ turn.at \in LocksIndex
             /\ clone' = [clone EXCEPT ![r0].stuck = TRUE]
             /\ UNCHANGED late
    <2>1. turn # Free
      BY <1>6 DEF LocksIndex, Free
    <2>2. r0 \in Records /\ Cl \in Clones
      BY <2>1, Holding DEF IInv
    <2>3. [Cl EXCEPT !.stuck = TRUE] \in Clones /\ [Cl EXCEPT !.stuck = TRUE].upstream = Cl.upstream
      BY <2>2 DEF Clones
    <2>4. clone' = [clone EXCEPT ![r0] = [Cl EXCEPT !.stuck = TRUE]]
      BY <1>6, <2>2 DEF Cl, IInv, Typed
    <2>5. Typed'
      BY <1>1, <1>6, <2>2, <2>3, <2>4 DEF IInv, Typed
    <2>6. UpstreamKept
      BY <2>2, <2>3, <2>4 DEF UpstreamKept, Cl, IInv, Typed
    <2> QED BY <1>1, <1>6, <2>5, <2>6, StillGrows, FreedInv DEF IInv
  <1>7. CASE /\ At("push")
             /\ late' = late \cup {[record |-> r0, base |-> Cl.upstream, tip |-> Cl.branch]}
             /\ UNCHANGED clone
    <2> DEFINE push == [record |-> r0, base |-> Cl.upstream, tip |-> Cl.branch]
    <2>1. turn # Free
      BY <1>7 DEF At, Free
    <2>2. r0 \in Records /\ Cl \in Clones /\ turn.req \in Requests
      BY <2>1, Holding DEF IInv
    <2>3. Cl.upstream \in Trees /\ Cl.branch \in Trees
      BY <2>2 DEF Clones
    <2>4. Typed'
      BY <1>1, <1>7, <2>2, <2>3 DEF IInv, Typed
    <2>5. Followed'
      BY <1>1, <1>7 DEF IInv, Followed
    <2>6. /\ Adds(push.tip, push.base, Line(push.record, turn.req))
          /\ push.record = "public" => Recorded(turn.req)
      BY <1>7, <2>1 DEF IInv, InTurn, TheLine
    <2>7. LateAdds'
      BY <1>3, <1>7, <2>2, <2>6 DEF IInv, LateAdds
    <2> QED BY <1>2, <2>4, <2>5, <2>7 DEF IInv
  <1>8. ASSUME Appends, UNCHANGED late, NEW line \in {TheLine, Malformed},
               clone' = [clone EXCEPT ![r0].work = Append(@, line)]
        PROVE  IInv'
    <2>1. turn # Free
      BY <1>8 DEF Appends, At, Free
    <2>2. r0 \in Records /\ Cl \in Clones /\ TheLine \in AnyLine
      BY <2>1, Holding DEF IInv
    <2>3. line \in AnyLine
      BY <1>8, <2>2 DEF AnyLine
    <2> DEFINE new == [Cl EXCEPT !.work = Append(Cl.work, line)]
    <2>4. new \in Clones /\ new.upstream = Cl.upstream
      BY <2>2, <2>3, AppendLines DEF Clones
    <2>5. clone' = [clone EXCEPT ![r0] = new]
      BY <1>8, <2>2 DEF Cl, IInv, Typed
    <2>6. Typed'
      BY <1>1, <1>8, <2>2, <2>4, <2>5 DEF IInv, Typed
    <2>7. UpstreamKept
      BY <2>2, <2>4, <2>5 DEF UpstreamKept, Cl, IInv, Typed
    <2> QED BY <1>1, <1>8, <2>6, <2>7, StillGrows, FreedInv DEF IInv
  <1> QED BY <1>4, <1>5, <1>6, <1>7, <1>8 DEF CutShort

\* Whoever cuts it short: git, the client or the end of the server.
LEMMA FailureInv ==
    ASSUME IInv, CommandFails \/ HolderGoes \/ Restart
    PROVE  IInv'
  <1>1. CutShort /\ turn' = Free
    BY DEF CommandFails, HolderGoes, Restart
  <1>2. request' \in [Clients -> {NoRequest} \cup [req : Requests, ticket : Nat]]
    BY DEF CommandFails, HolderGoes, Restart, IInv, Typed
  <1> QED BY <1>1, <1>2, CutShortInv

\* A late push finds the head it was made on and adds its one line, or is
\* turned away.
LEMMA LateInv ==
    ASSUME IInv, NEW push \in late, LandLate(push)
    PROVE  IInv'
  <1>1. UNCHANGED <<clone, turn, request, returned, asked>> /\ late' \subseteq late
    BY DEF LandLate
  <1>2. push.record \in Records /\ push.tip \in Trees /\ push.base \in Trees
    BY DEF IInv, Typed
  <1>3. PICK req \in Requests : Adds(push.tip, push.base, Line(push.record, req))
    BY DEF IInv, LateAdds
  <1>4. Line(push.record, req) \in AnyLine
    BY <1>2, LineTyped
  <1>5. CASE remote[push.record] = push.base
    <2>1. remote' = [remote EXCEPT ![push.record] = push.tip]
      BY <1>5 DEF LandLate
    <2>2. Distinct(push.base)
      BY <1>2, <1>5 DEF IInv, Followed
    <2>3. Distinct(push.tip) /\ LinesOf(push.base) \subseteq LinesOf(push.tip)
      BY <1>2, <1>3, <1>4, <2>2, AppendDistinct, AppendLines DEF Adds
    <2>4. RemoteGrows
      BY <1>2, <1>5, <2>1, <2>3 DEF RemoteGrows, IInv, Followed, Typed
    <2>5. Typed'
      BY <1>1, <1>2, <2>1 DEF IInv, Typed
    <2>6. InTurn'
      BY <1>1, <2>4, TurnKept DEF IInv
    <2> QED BY <1>1, <2>4, <2>5, <2>6, GrowthKeeps DEF IInv, UpstreamKept
  <1>6. CASE remote[push.record] # push.base
    <2>1. UNCHANGED remote
      BY <1>6 DEF LandLate
    <2>2. RemoteGrows
      BY <2>1, StillGrows DEF IInv
    <2>3. Typed'
      BY <1>1, <2>1 DEF IInv, Typed
    <2>4. InTurn'
      BY <1>1, <2>2, TurnKept DEF IInv
    <2> QED BY <1>1, <2>2, <2>3, <2>4, GrowthKeeps DEF IInv, UpstreamKept
  <1> QED BY <1>5, <1>6

\* Somebody else's push adds a line that is not the server's.
LEMMA ForeignInv ==
    ASSUME IInv, NEW r \in Records, NEW line \in {Other, Malformed}, PushForeign(r, line)
    PROVE  IInv'
  <1>1. UNCHANGED <<clone, late, turn, request, returned, asked>>
        /\ remote' = [remote EXCEPT ![r] = Append(@, line)]
    BY DEF PushForeign
  <1>2. line \in AnyLine /\ remote[r] \in Trees /\ Distinct(remote[r])
    BY DEF AnyLine, IInv, Typed, Followed
  <1>3. /\ Append(remote[r], line) \in Trees
        /\ LinesOf(remote[r]) \subseteq LinesOf(Append(remote[r], line))
        /\ Distinct(Append(remote[r], line))
    BY <1>2, AppendLines, AppendDistinct
  <1>4. remote' \in [Records -> Trees]
        /\ remote'[r] = Append(remote[r], line)
        /\ \A s \in Records : s # r => remote'[s] = remote[s]
    BY <1>1, <1>3 DEF IInv, Typed
  <1>5. RemoteGrows
    BY <1>3, <1>4 DEF RemoteGrows, IInv, Followed
  <1>6. Typed'
    BY <1>1, <1>4 DEF IInv, Typed
  <1>7. InTurn'
    BY <1>1, <1>5, TurnKept DEF IInv
  <1> QED BY <1>1, <1>5, <1>6, <1>7, GrowthKeeps DEF IInv, UpstreamKept

\* Sign only moves the turn on.
LEMMA SignInv ==
    ASSUME IInv, Sign
    PROVE  IInv'
  <1>1. turn # Free /\ UNCHANGED <<remote, clone, late, request, returned, asked>>
    BY DEF Sign, At, Free
  <1>2. turn \in Turns
    BY <1>1, Holding DEF IInv
  <1>3. turn' \in Turns /\ turn'.at = "fetch" /\ turn'.req = turn.req /\ turn'.record = turn.record
    BY <1>2 DEF Sign, Turns, Commands
  <1>4. Typed'
    BY <1>1, <1>3 DEF IInv, Typed
  <1>5. Followed' /\ LateAdds'
    BY <1>1, StillGrows, GrowthKeeps DEF IInv, UpstreamKept
  <1>6. InTurn'
    BY <1>1, <1>3 DEF IInv, InTurn, At, Recorded
  <1> QED BY <1>4, <1>5, <1>6 DEF IInv

\* Every step of the server, its clients, git and other people.
LEMMA NextInv == IInv /\ [Next]_vars => IInv'
  <1> SUFFICES ASSUME IInv, [Next]_vars PROVE IInv'
    OBVIOUS
  <1>1. ASSUME NEW c \in Clients, Ask(c) \/ WaiterGoes(c) \/ TakeTurn(c) PROVE IInv'
    BY <1>1, WaitingInv
  <1>2. CASE SignRefused \/ PushRejected \/ IndexLocked \/ Reply
    BY <1>2, AnsweredInv
  <1>3. CASE CommandFails \/ HolderGoes \/ Restart
    BY <1>3, FailureInv
  <1>4. CASE Sign
    BY <1>4, SignInv
  <1>5. CASE Git
    BY <1>5, GitInv
  <1>6. CASE Read
    BY <1>6, ReadInv
  <1>7. CASE Push
    BY <1>7, PushInv
  <1>8. ASSUME NEW push \in late, LandLate(push) PROVE IInv'
    BY <1>8, LateInv
  <1>9. ASSUME NEW r \in Records, NEW line \in {Other, Malformed}, PushForeign(r, line)
        PROVE  IInv'
    BY <1>9, ForeignInv
  <1>10. CASE UNCHANGED vars
    BY <1>10 DEF vars, IInv, Typed, Followed, InTurn, LateAdds, At, Cl, TheLine, Recorded
  <1> QED
    BY <1>1, <1>2, <1>3, <1>4, <1>5, <1>6, <1>7, <1>8, <1>9, <1>10 DEF Next, Serve

\* The invariant of the server, its clones and the pushes still under way.
THEOREM Invariance == Spec => []IInv
  BY InitInv, NextInv, PTL DEF Spec

\* No line of the server is twice in a record, however often requests are
\* repeated and pushes killed.
THEOREM LinesAreOnce == Spec => []NoDuplicates
  <1>1. IInv => NoDuplicates
    BY DEF IInv, Followed, Distinct, NoDuplicates
  <1> QED BY <1>1, Invariance, PTL

---------------------------------------------------------------------------
(* The remotes keep the promise. *)

\* One more of the server's lines at a remote is a step of the promise.
LEMMA LineAdded ==
    ASSUME NEW r \in Records, NEW req \in Requests,
           LinesOf(remote'[r]) = LinesOf(remote[r]) \cup {Line(r, req)},
           \A s \in Records : s # r => LinesOf(remote'[s]) = LinesOf(remote[s]),
           r = "public" => Recorded(req),
           UNCHANGED returned
    PROVE  Promise!Next
  <1>1. CASE r = "private"
    <2>1. Line(r, req) = req
      BY <1>1 DEF Line
    <2>2. RecordedPrivately' = RecordedPrivately \cup {req}
      BY <1>1, <2>1 DEF RecordedPrivately
    <2>3. Published' = Published
      BY <1>1 DEF Published, Records
    <2>4. Promise!RecordPrivately(req)
      BY <2>2, <2>3 DEF Promise!RecordPrivately
    <2> QED BY <2>4 DEF Promise!Next
  <1>2. CASE r = "public"
    <2>1. Line(r, req) = [kind |-> "signature", values |-> req.values] /\ req.values \in Values
      BY <1>2 DEF Line, Requests
    <2>2. RecordedPrivately' = RecordedPrivately
      BY <1>2 DEF RecordedPrivately, Records
    <2>3. Published' = Published \cup {req.values}
      <3>1. \A v \in Values :
              [kind |-> "signature", values |-> v] \in LinesOf(remote'["public"])
                <=> [kind |-> "signature", values |-> v] \in LinesOf(remote["public"]) \/ v = req.values
        BY <1>2, <2>1
      <3> QED BY <2>1, <3>1 DEF Published
    <2>4. req.kind = "live" /\ req \in RecordedPrivately
      BY <1>2 DEF Recorded, RecordedPrivately
    <2>5. Promise!Publish(req)
      BY <2>2, <2>3, <2>4 DEF Promise!Publish
    <2> QED BY <2>5 DEF Promise!Next
  <1> QED BY <1>1, <1>2 DEF Records

\* A step that leaves the remotes' lines and what was returned is none of the
\* promise's.
LEMMA Stutters ==
    ASSUME UNCHANGED <<remote, returned>>
    PROVE  UNCHANGED Promise!vars
  BY DEF Promise!vars, RecordedPrivately, Published

\* The push that succeeds.
LEMMA PushPromised ==
    ASSUME IInv, Push
    PROVE  Promise!Next
  <1> DEFINE r0 == turn.record
  <1>1. turn # Free /\ turn.at = "push"
    BY DEF Push, At, Free
  <1>2. /\ turn.req \in Requests /\ r0 \in Records /\ Cl \in Clones /\ TheLine \in AnyLine
    BY <1>1, Holding DEF IInv
  <1>3. /\ Cl.branch = Append(Cl.upstream, TheLine)
        /\ Cl.upstream \in Trees /\ Cl.branch \in Trees
    BY <1>1, <1>2 DEF IInv, InTurn, At, Adds, Clones
  <1>4. LinesOf(Cl.branch) = LinesOf(Cl.upstream) \cup {TheLine}
    BY <1>2, <1>3, AppendLines
  <1>5. LinesOf(Cl.upstream) \subseteq LinesOf(remote[r0])
    BY <1>2 DEF IInv, Followed, Cl
  <1>6. LinesOf(remote[r0]) \subseteq LinesOf(Cl.branch)
    BY <1>2, <1>3, AncestorLines DEF Push, IInv, Typed
  <1>7. remote'[r0] = Cl.branch /\ \A s \in Records : s # r0 => remote'[s] = remote[s]
    BY <1>2 DEF Push, IInv, Typed
  <1>8. LinesOf(remote'[r0]) = LinesOf(remote[r0]) \cup {Line(r0, turn.req)}
    BY <1>4, <1>5, <1>6, <1>7 DEF TheLine
  <1>9. r0 = "public" => Recorded(turn.req)
    BY <1>1 DEF IInv, InTurn
  <1>10. UNCHANGED returned
    BY DEF Push, Added
  <1> QED BY <1>2, <1>7, <1>8, <1>9, <1>10, LineAdded

\* The push that lands late.
LEMMA LatePromised ==
    ASSUME IInv, NEW push \in late, LandLate(push)
    PROVE  Promise!Next \/ UNCHANGED Promise!vars
  <1>1. UNCHANGED returned
    BY DEF LandLate
  <1>2. push.record \in Records /\ push.tip \in Trees /\ push.base \in Trees
    BY DEF IInv, Typed
  <1>3. PICK req \in Requests : /\ Adds(push.tip, push.base, Line(push.record, req))
                                /\ push.record = "public" => Recorded(req)
    BY DEF IInv, LateAdds
  <1>4. LinesOf(push.tip) = LinesOf(push.base) \cup {Line(push.record, req)}
    BY <1>2, <1>3, LineTyped, AppendLines DEF Adds
  <1>5. CASE remote[push.record] = push.base
    <2>1. /\ remote'[push.record] = push.tip
          /\ \A s \in Records : s # push.record => remote'[s] = remote[s]
      BY <1>2, <1>5 DEF LandLate, IInv, Typed
    <2>2. LinesOf(remote'[push.record]) = LinesOf(remote[push.record]) \cup {Line(push.record, req)}
      BY <1>4, <1>5, <2>1
    <2> QED BY <1>1, <1>2, <1>3, <2>1, <2>2, LineAdded
  <1>6. CASE remote[push.record] # push.base
    BY <1>1, <1>6, Stutters DEF LandLate
  <1> QED BY <1>5, <1>6

\* The signature is returned with its lines in the records.
LEMMA ReplyPromised ==
    ASSUME IInv, Reply
    PROVE  Promise!Next
  <1>1. turn # Free /\ At("reply")
    BY DEF Reply, At, Free
  <1>2. turn.req \in Requests
    BY <1>1, Holding DEF IInv
  <1>3. /\ turn.req \in LinesOf(remote["private"])
        /\ turn.req.kind = "live" => Line("public", turn.req) \in LinesOf(remote["public"])
    BY <1>1 DEF IInv, InTurn
  <1>4. Line("public", turn.req) = [kind |-> "signature", values |-> turn.req.values]
        /\ turn.req.values \in Values
    BY <1>2 DEF Line, Requests
  <1>5. /\ turn.req \in RecordedPrivately
        /\ turn.req.kind = "live" => turn.req.values \in Published
    BY <1>2, <1>3, <1>4 DEF RecordedPrivately, Published
  <1>6. returned' = returned \cup {turn.req} /\ UNCHANGED <<RecordedPrivately, Published>>
    BY DEF Reply, RecordedPrivately, Published
  <1>7. Promise!Return(turn.req)
    BY <1>5, <1>6 DEF Promise!Return
  <1> QED BY <1>2, <1>7 DEF Promise!Next

\* Somebody else's line is none the promise is about.
LEMMA ForeignPromised ==
    ASSUME IInv, NEW r \in Records, NEW line \in {Other, Malformed}, PushForeign(r, line)
    PROVE  UNCHANGED Promise!vars
  <1>1. remote' = [remote EXCEPT ![r] = Append(@, line)] /\ UNCHANGED returned
    BY DEF PushForeign
  <1>2. line \in AnyLine /\ remote[r] \in Trees
    BY DEF AnyLine, IInv, Typed
  <1>3. /\ LinesOf(remote'[r]) = LinesOf(remote[r]) \cup {line}
        /\ \A s \in Records : s # r => remote'[s] = remote[s]
    BY <1>1, <1>2, AppendLines DEF IInv, Typed
  <1>4. \A req \in Requests : req # line
    BY DEF Requests, Other, Malformed
  <1>5. \A v \in Values : [kind |-> "signature", values |-> v] # line
    BY DEF Other, Malformed
  <1>6. UNCHANGED RecordedPrivately
    BY <1>3, <1>4 DEF RecordedPrivately, Records
  <1>7. UNCHANGED Published
    BY <1>3, <1>5 DEF Published, Records
  <1> QED BY <1>1, <1>6, <1>7 DEF Promise!vars

\* Whatever fails, the remotes keep the promise the signing server makes of its
\* records: a signature is returned only when it is recorded, and published
\* only after its private line.
THEOREM Refinement == Spec => RecordSpec
  <1>1. Init => Promise!Init
    <2>1. LinesOf(<<>>) = {}
      BY DEF LinesOf
    <2> QED BY <2>1 DEF Init, Promise!Init, RecordedPrivately, Published, Records
  <1>2. IInv /\ [Next]_vars => [Promise!Next]_(Promise!vars)
    <2> SUFFICES ASSUME IInv, [Next]_vars PROVE Promise!Next \/ UNCHANGED Promise!vars
      OBVIOUS
    <2>1. ASSUME NEW c \in Clients, Ask(c) \/ WaiterGoes(c) \/ TakeTurn(c)
          PROVE  UNCHANGED <<remote, returned>>
      BY <2>1 DEF Ask, WaiterGoes, TakeTurn
    <2>2. CASE SignRefused \/ PushRejected \/ IndexLocked
      BY <2>2, Stutters DEF SignRefused, PushRejected, IndexLocked, Refused
    <2>3. CASE CommandFails \/ HolderGoes \/ Restart
      BY <2>3, Stutters DEF CommandFails, HolderGoes, Restart, CutShort
    <2>4. CASE Sign \/ Git
      BY <2>4, Stutters DEF Sign, Git
    <2>5. CASE Read
      BY <2>5, Stutters DEF Read, Appends, Refused, Added
    <2>6. CASE Push
      BY <2>6, PushPromised
    <2>7. CASE Reply
      BY <2>7, ReplyPromised
    <2>8. ASSUME NEW push \in late, LandLate(push) PROVE Promise!Next \/ UNCHANGED Promise!vars
      BY <2>8, LatePromised
    <2>9. ASSUME NEW r \in Records, NEW line \in {Other, Malformed}, PushForeign(r, line)
          PROVE  UNCHANGED Promise!vars
      BY <2>9, ForeignPromised
    <2>10. CASE UNCHANGED vars
      BY <2>10, Stutters DEF vars
    <2> QED
      BY <2>1, <2>2, <2>3, <2>4, <2>5, <2>6, <2>7, <2>8, <2>9, <2>10, Stutters DEF Next, Serve
  <1> QED BY <1>1, <1>2, Invariance, PTL DEF Spec, RecordSpec, Promise!Spec

==============================================================================
