--------------------------- MODULE RbcpExchange ---------------------------
(***************************************************************************)
(* What the exchange between a host and the plugin comes to when the bytes *)
(* are left out: commands run one at a time, each once, in the order they  *)
(* were issued and in the mode the host sent them for, and a host that     *)
(* waits for an answer is told that of its own command or none.            *)
(*                                                                         *)
(* Two commands can be under way at once, for a host does not wait for a   *)
(* silent exit before it enters again.                                     *)
(***************************************************************************)
EXTENDS Naturals, Sequences

CONSTANTS
  Slots,      \* RAM slots
  Commands    \* what a host may ask for: [kind, arg]

VARIABLES
  asked,     \* the command issued last: [n, kind, arg]
  pending,   \* commands issued and not yet run, oldest first
  mode,      \* command-response mode is on
  served,    \* the slot the host reads
  answer,    \* what the command last run answers the host with
  host,      \* "idle", "waiting" or "told"
  told,      \* what the host was told
  session    \* the host believes the mode is on

vars == <<asked, pending, mode, served, answer, host, told, session>>

\* The answer of no command.
NoAnswer == [n |-> 0, status |-> "failed", data |-> 0]

Init ==
  /\ asked = [n |-> 0, kind |-> "nop", arg |-> "none"]
  /\ pending = <<>> /\ mode = FALSE /\ served \in Slots
  /\ answer = NoAnswer /\ host = "idle" /\ told = NoAnswer /\ session = FALSE

\* A host asks for nothing but a session outside of one.
Ask ==
  /\ host = "idle"
  /\ \E c \in Commands : asked' = [n |-> asked.n + 1, kind |-> c.kind, arg |-> c.arg]
  /\ session <=> asked'.kind # "enter"
  /\ pending' = Append(pending, asked')
  /\ answer' = NoAnswer
  /\ host' = "waiting"
  /\ UNCHANGED <<mode, served, told, session>>

Unanswered(c) == \/ c.kind \in {"exit_silent", "switch"}
                 \/ c.kind = "enter" /\ c.arg = "discard"

Succeeds(c) == CASE c.kind \in {"peek", "enter"} -> c.arg = "good"
                 [] OTHER                        -> TRUE

\* What command c answers, with data of its own if it has any.
Answer(c) ==
  IF Unanswered(c) THEN NoAnswer
  ELSE [n      |-> c.n,
        status |-> IF Succeeds(c) THEN "ok" ELSE "failed",
        data   |-> IF c.kind = "peek" /\ Succeeds(c) THEN c.n ELSE 0]

\* The oldest command runs, whole, in the mode it was sent for.
Run ==
  /\ pending # <<>>
  /\ LET c == Head(pending) IN
       /\ mode <=> c.kind # "enter"
       /\ mode' = IF c.kind = "enter" THEN c.arg = "good"
                  ELSE c.kind \notin {"exit_ack", "exit_silent"}
       /\ served' = IF c.kind = "switch" THEN c.arg ELSE served
       /\ answer' = Answer(c)
  /\ pending' = Tail(pending)
  /\ UNCHANGED <<asked, host, told, session>>

\* The host reads the answer: that of the command it asked for.
Tell ==
  /\ host = "waiting" /\ answer.n = asked.n
  /\ told' = answer /\ host' = "told"
  /\ UNCHANGED <<asked, pending, mode, served, answer, session>>

\* It goes on, with what it was told.
Believe ==
  /\ host = "told"
  /\ session' = IF asked.kind = "enter" THEN told.status = "ok"
                ELSE session /\ asked.kind # "exit_ack"
  /\ told' = NoAnswer /\ host' = "idle"
  /\ UNCHANGED <<asked, pending, mode, served, answer>>

\* A silent exit is not waited for, run or not.
Leave ==
  /\ host = "waiting" /\ asked.kind = "exit_silent"
  /\ session' = FALSE /\ host' = "idle"
  /\ UNCHANGED <<asked, pending, mode, served, answer, told>>

\* A switch is told by the image.
Moved ==
  /\ host = "waiting" /\ asked.kind = "switch"
  /\ pending = <<>> /\ served = asked.arg
  /\ host' = "idle"
  /\ UNCHANGED <<asked, pending, mode, served, answer, told, session>>

\* A host gives up on an enter that was never run, and never will be, or was
\* discarded; not on one that opened a session.
GiveUp ==
  /\ host = "waiting" /\ asked.kind = "enter"
  /\ answer = NoAnswer /\ ~mode
  /\ pending \in {<<>>, <<asked>>}
  /\ pending' = <<>>
  /\ session' = FALSE /\ host' = "idle"
  /\ UNCHANGED <<asked, mode, served, answer, told>>

Next == Ask \/ Run \/ Tell \/ Believe \/ Leave \/ Moved \/ GiveUp

Spec == Init /\ [][Next]_vars
=============================================================================
