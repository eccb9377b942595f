---------------------------- MODULE SigningServer ----------------------------
(***************************************************************************)
(* The signing server (rust/signing-server): each /sign request waits for  *)
(* its turn, is signed, and has a line added to the private record and,    *)
(* when it is live, to the public one.  A record is a git repository that  *)
(* the server has a clone of; adding a line is a fixed series of git       *)
(* commands, any of which may fail, run out of time, or be killed because  *)
(* the client went away or the server stopped.  A push that was killed may *)
(* still reach the remote later.                                           *)
(*                                                                         *)
(* A tree is the one key's record file, as its sequence of lines; no lines *)
(* is no file.  Only requests that pass the checks that come before the    *)
(* lock are here: the others change nothing.                               *)
(***************************************************************************)
EXTENDS Naturals, Sequences

CONSTANTS Clients, Values,
          MaxRequests, MaxFaults, MaxForeign     \* bounds

VARIABLES remote,       \* record -> the tree at the head of its branch
          clone,        \* record -> the server's clone of it
          late,         \* killed pushes that may still reach a remote
          request,      \* client -> its request and when it came, or NoRequest
          turn,         \* the request that holds the lock, and its command
          returned,     \* requests whose signature was returned
          asked, faults, foreign    \* bounds

vars == <<remote, clone, late, request, turn, returned, asked, faults, foreign>>

Records == {"private", "public"}
Requests == [kind : {"live", "dry-run"}, values : Values]

\* The public record has a hash of the signature, which the key and the values
\* determine.
Line(record, req) ==
    IF record = "private" THEN req ELSE [kind |-> "signature", values |-> req.values]

\* Lines others push: a record line of theirs, and one that is no record line.
Other == [kind |-> "other", values |-> "none"]
Malformed == [kind |-> "malformed", values |-> "none"]

LinesOf(tree) == {tree[i] : i \in DOMAIN tree}
IsAncestor(tree, of) == Len(tree) <= Len(of) /\ tree = SubSeq(of, 1, Len(tree))

Nothing == [kind |-> "none", values |-> "none"]
NoRequest == [req |-> Nothing, ticket |-> 0]
Free == [client |-> "nobody", req |-> Nothing, record |-> "private", at |-> "free"]

\* The clone's remote-tracking branch, branch, index and work tree.  stuck: git
\* was killed holding index.lock.
FreshClone == [upstream |-> <<>>, branch |-> <<>>, index |-> <<>>, work |-> <<>>,
               stuck |-> FALSE]

Init ==
    /\ remote = [r \in Records |-> <<>>]
    /\ clone = [r \in Records |-> FreshClone]
    /\ late = {}
    /\ request = [c \in Clients |-> NoRequest]
    /\ turn = Free
    /\ returned = {}
    /\ asked = 0 /\ faults = 0 /\ foreign = 0

---------------------------------------------------------------------------
(* Requests and turns.  tokio's Mutex is handed out in the order of lock(). *)

Ask(c) ==
    /\ request[c] = NoRequest /\ asked < MaxRequests
    /\ \E req \in Requests : request' = [request EXCEPT ![c] = [req |-> req, ticket |-> asked + 1]]
    /\ asked' = asked + 1
    /\ UNCHANGED <<remote, clone, late, turn, returned, faults, foreign>>

IsFirst(c) ==
    /\ request[c] # NoRequest
    /\ \A d \in Clients : request[d] = NoRequest \/ request[c].ticket <= request[d].ticket

TakeTurn(c) ==
    /\ turn = Free /\ IsFirst(c)
    /\ turn' = [client |-> c, req |-> request[c].req, record |-> "private", at |-> "sign"]
    /\ UNCHANGED <<remote, clone, late, request, returned, asked, faults, foreign>>

Answered ==
    /\ turn' = Free
    /\ request' = [request EXCEPT ![turn.client] = NoRequest]
    /\ UNCHANGED <<late, asked, foreign>>

Refused == Answered /\ UNCHANGED returned

---------------------------------------------------------------------------
(* Adding a line: Repository::add.  Each git command, by what it does to   *)
(* the clone.                                                              *)

At(step) == turn.at = step
Cl == clone[turn.record]
TheLine == Line(turn.record, turn.req)

\* A file git does not track stays where reset finds none to put there.
Untracked == Cl.index = <<>>

Fetched == [Cl EXCEPT !.upstream = remote[turn.record]]
WasReset ==
    [Cl EXCEPT !.branch = Cl.upstream, !.index = Cl.upstream,
               !.work = IF Untracked /\ Cl.upstream = <<>> THEN Cl.work ELSE Cl.upstream]

\* Mutant: clean is left out.
Cleaned_Never == Cl

Cleaned == IF Untracked THEN [Cl EXCEPT !.work = <<>>] ELSE Cl
Staged == [Cl EXCEPT !.index = Cl.work]
Committed == [Cl EXCEPT !.branch = Cl.index]

\* What a command leaves when it succeeds.
Commands == {"fetch", "reset", "clean", "add", "commit"}
After(command) ==
    CASE command = "fetch"  -> Fetched
      [] command = "reset"  -> WasReset
      [] command = "clean"  -> Cleaned
      [] command = "add"    -> Staged
      [] command = "commit" -> Committed
LocksIndex == {"reset", "add", "commit"}

NextStep(step) ==
    CASE step = "fetch"  -> "reset"
      [] step = "reset"  -> "clean"
      [] step = "clean"  -> "read"
      [] step = "add"    -> "commit"
      [] step = "commit" -> "push"

Sign ==
    /\ At("sign")
    /\ turn' = [turn EXCEPT !.at = "fetch"]
    /\ UNCHANGED <<remote, clone, late, request, returned, asked, faults, foreign>>

\* A wrong PIN, or key files that do not match.
SignRefused ==
    /\ At("sign") /\ Refused
    /\ UNCHANGED <<remote, clone, faults>>

Git ==
    /\ turn.at \in Commands
    /\ ~(Cl.stuck /\ turn.at \in LocksIndex)
    /\ clone' = [clone EXCEPT ![turn.record] = After(turn.at)]
    /\ turn' = [turn EXCEPT !.at = NextStep(@)]
    /\ UNCHANGED <<remote, late, request, returned, asked, faults, foreign>>

\* The line is in the record: a live request goes on to the public record.
Added ==
    /\ turn' = IF turn.record = "private" /\ turn.req.kind = "live"
                 THEN [turn EXCEPT !.record = "public", !.at = "fetch"]
                 ELSE [turn EXCEPT !.at = "reply"]
    /\ UNCHANGED <<late, request, returned, asked, foreign>>

\* Mutant: the line is added whether or not it is there.
IsThere_Never(line, lines) == FALSE

IsThere(line, lines) == line \in lines

Appends ==
    /\ At("read")
    /\ Malformed \notin LinesOf(Cl.work)
    /\ ~IsThere(TheLine, LinesOf(Cl.work))

\* Reads the file and appends the line, unless it is there.  A file that is
\* not a record is left as it is.
Read ==
    /\ At("read")
    /\ \/ /\ Malformed \in LinesOf(Cl.work)
          /\ Refused
          /\ UNCHANGED clone
       \/ /\ Malformed \notin LinesOf(Cl.work)
          /\ IsThere(TheLine, LinesOf(Cl.work))
          /\ Added
          /\ UNCHANGED clone
       \/ /\ Appends
          /\ clone' = [clone EXCEPT ![turn.record].work = Append(@, TheLine)]
          /\ turn' = [turn EXCEPT !.at = "add"]
          /\ UNCHANGED <<late, request, returned, asked, foreign>>
    /\ UNCHANGED <<remote, faults>>

\* The remote takes a push only on top of the head it has.
Push ==
    /\ At("push") /\ IsAncestor(remote[turn.record], Cl.branch)
    /\ remote' = [remote EXCEPT ![turn.record] = Cl.branch]
    /\ clone' = [clone EXCEPT ![turn.record].upstream = Cl.branch]
    /\ Added
    /\ UNCHANGED faults

\* And refuses one where somebody has pushed since the fetch.  An identical line
\* that landed late is such a push, unless its commit is identical too: same
\* parent, same message, same second.
PushRejected ==
    /\ At("push")
    /\ \/ ~IsAncestor(remote[turn.record], Cl.branch)
       \/ remote[turn.record] # Cl.upstream
    /\ Refused
    /\ UNCHANGED <<remote, clone, faults>>

Reply ==
    /\ At("reply") /\ Answered
    /\ returned' = returned \cup {turn.req}
    /\ UNCHANGED <<remote, clone, faults>>

\* index.lock was left behind: git refuses until someone removes it.
IndexLocked ==
    /\ turn.at \in LocksIndex /\ Cl.stuck
    /\ Refused
    /\ UNCHANGED <<remote, clone, faults>>

---------------------------------------------------------------------------
(* Failures. *)

\* The command or file operation under way fails, or is killed before, in the
\* middle of or after what it does.  What a killed push has sent may still
\* arrive.  A file that was being written is written by then, whole or torn:
\* the thread that writes it is not outrun by the next request's fetch.
CutShort ==
    /\ faults < MaxFaults /\ faults' = faults + 1
    /\ \/ UNCHANGED <<clone, late>>
       \/ /\ turn.at \in Commands
          /\ ~(Cl.stuck /\ turn.at \in LocksIndex)
          /\ clone' = [clone EXCEPT ![turn.record] = After(turn.at)]
          /\ UNCHANGED late
       \/ /\ Appends
          /\ \E line \in {TheLine, Malformed} :
                clone' = [clone EXCEPT ![turn.record].work = Append(@, line)]
          /\ UNCHANGED late
       \/ /\ turn.at \in LocksIndex
          /\ clone' = [clone EXCEPT ![turn.record].stuck = TRUE]
          /\ UNCHANGED late
       \/ /\ At("push")
          /\ late' = late \cup {[record |-> turn.record, base |-> Cl.upstream, tip |-> Cl.branch]}
          /\ UNCHANGED clone
    /\ UNCHANGED <<remote, returned, asked, foreign>>

\* GIT_TIMEOUT, git's own failure or the file's: 503.
CommandFails ==
    /\ turn.at \in Commands \cup {"read", "push"}
    /\ CutShort
    /\ turn' = Free
    /\ request' = [request EXCEPT ![turn.client] = NoRequest]

\* Mutant: the lock is not given back when a request is dropped.
HolderGoes_KeepsLock ==
    /\ turn # Free
    /\ CutShort
    /\ request' = [request EXCEPT ![turn.client] = NoRequest]
    /\ turn' = [turn EXCEPT !.at = "dropped"]

\* The client closes its connection: its request's future is dropped, which
\* kills the command and gives the lock back.
HolderGoes ==
    /\ turn # Free
    /\ CutShort
    /\ request' = [request EXCEPT ![turn.client] = NoRequest]
    /\ turn' = Free

WaiterGoes(c) ==
    /\ request[c] # NoRequest /\ turn.client # c
    /\ request' = [request EXCEPT ![c] = NoRequest]
    /\ UNCHANGED <<remote, clone, late, turn, returned, asked, faults, foreign>>

\* The server stops, in the middle of anything, and is started again.
Restart ==
    /\ CutShort
    /\ request' = [c \in Clients |-> NoRequest]
    /\ turn' = Free

\* A push that was killed reaches the remote after all, or too late.
LandLate(push) ==
    /\ late' = late \ {push}
    /\ remote' = IF remote[push.record] = push.base
                   THEN [remote EXCEPT ![push.record] = push.tip] ELSE remote
    /\ UNCHANGED <<clone, request, turn, returned, asked, faults, foreign>>

\* Somebody else pushes.
PushForeign(r, line) ==
    /\ foreign < MaxForeign /\ foreign' = foreign + 1
    /\ remote' = [remote EXCEPT ![r] = Append(@, line)]
    /\ UNCHANGED <<clone, late, request, turn, returned, asked, faults>>

---------------------------------------------------------------------------
Serve ==
    \/ \E c \in Clients : TakeTurn(c)
    \/ Sign \/ SignRefused \/ Git \/ Read \/ Push \/ PushRejected \/ IndexLocked
    \/ Reply \/ CommandFails

Next ==
    \/ Serve
    \/ \E c \in Clients : Ask(c) \/ WaiterGoes(c)
    \/ HolderGoes \/ Restart
    \/ \E push \in late : LandLate(push)
    \/ \E r \in Records, line \in {Other, Malformed} : PushForeign(r, line)

Spec == Init /\ [][Next]_vars

\* The runtime goes on with the request whose turn it is, and GIT_TIMEOUT bounds
\* every command.
FairSpec == Spec /\ WF_vars(Serve)

---------------------------------------------------------------------------
(* Properties. *)

\* A record never has the same line of the server twice, however often a
\* request is repeated and whatever became of the pushes that were killed.
NoDuplicates ==
    \A r \in Records : \A i, j \in DOMAIN remote[r] :
        i # j /\ remote[r][i] = remote[r][j] => remote[r][i] \in {Other, Malformed}

\* Every request is answered or its client has gone: a request that fails or is
\* dropped, in its turn or waiting, does not keep the others out.
EveryRequestEnds ==
    \A c \in Clients : (request[c] # NoRequest) ~> (request[c] = NoRequest)

\* The remotes, through every failure, are the records of the server's
\* promise: nothing is returned that they do not have, and nothing is public
\* before it is in the private record.
RecordedPrivately == {req \in Requests : req \in LinesOf(remote["private"])}
Published == {v \in Values : [kind |-> "signature", values |-> v] \in LinesOf(remote["public"])}

Promise == INSTANCE SignatureRecord
             WITH private <- RecordedPrivately, public <- Published
RecordSpec == Promise!Spec

==============================================================================
