--------------------------- MODULE MCCommissioning ---------------------------
(***************************************************************************)
(* Commissioning on areas of five pages of eight rows.  An instance takes  *)
(* two pages, so a third one no longer fits after two partial ones.        *)
(***************************************************************************)
EXTENDS Commissioning

With(rows) == [r \in Rows |-> IF r \in DOMAIN rows THEN rows[r] ELSE Blank]
Inexact(v) == [value |-> v, exact |-> FALSE]

\* A board with a bit set by the factory in rows that are written, one whose
\* slot size has a wrong bit, and one with an instance of a version the tools
\* do not know.
FactoryBits == With([r \in {AreaRow(3), <<"label", 1>>, Devinfo} |-> Inexact(0)])
BadSlot == With([r \in {SlotSize} |-> Inexact(0)])
Newer == With([r \in {AreaRow(0), AreaRow(1)} |->
                IF r = AreaRow(0) THEN Exactly(Magic) ELSE Exactly(Version + 1)])

MCBoards == {FactoryBits, BadSlot, Newer}

Commission(who, date, force, size) ==
    [kind |-> "commission", who |-> who, date |-> date, force |-> force, size |-> size]
SetSize(board) ==
    [kind |-> "size", who |-> <<board>>, date |-> Today, force |-> FALSE, size |-> "L"]

MCRequests ==
    { Commission(<<1>>, Today, FALSE, "L"),
      Commission(<<1, 7>>, Today, TRUE, "M"),
      Commission(<<1>>, 2, FALSE, "M"),
      SetSize(1), SetSize(2) }

==============================================================================
