------------------------------ MODULE MCRttRing ------------------------------
EXTENDS RttRing, TLC

CONSTANTS m0, h0, m1, h1, p, a, b, c, z

MCCore == m0 :> 0 @@ h0 :> 0 @@ m1 :> 1 @@ h1 :> 1 @@ p :> 2

\* The longest is one byte more than the ring takes.
MCRecords == {<<a>>, <<b, c>>, <<a, b, a>>}

Use(ws, rs) == [writers |-> ws, readers |-> rs, wild |-> "none"]

\* The log of one core and its handlers, drained by a plugin or by a probe;
\* a terminal's input, from the USB plugin or from a probe.
OneWriter == {Use({m0, h0}, {m1}), Use({m0, h0}, {p}),
              Use({m1}, {m0}), Use({p}, {m0, h0})}

\* A probe leaves what it likes in an offset of a channel two plugins use.
Confused == {[writers |-> {m0}, readers |-> {m1}, wild |-> w] : w \in {"rd", "wr"}}

MCRoles == OneWriter \cup Confused
=============================================================================
