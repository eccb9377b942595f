------------------------------- MODULE OtpArea -------------------------------
(***************************************************************************)
(* The commissioning area of an RP2350's OTP: what a row holds, the rows   *)
(* of a commissioning instance, and the parser that finds the instances    *)
(* again.  rust/metadata/src/otp.rs, with the row tests of                 *)
(* rust/app/src/otp/mod.rs and the bootrom's rules as                      *)
(* rust/app/src/otp/memory.rs gives them.                                  *)
(*                                                                         *)
(* A row is the value an ECC read of it returns and whether its 24 bits    *)
(* are an exact codeword.  A row with one bit set by the factory is 0 and  *)
(* inexact; a written row with one wrong bit keeps its value and is        *)
(* inexact; a row with more damage reads as another value.                 *)
(*                                                                         *)
(* The instance's board, manufacturer and signer are one entry, WhoKey:    *)
(* the code builds, compares and parses the three alike.  A length counts  *)
(* rows, not bytes.                                                        *)
(***************************************************************************)
EXTENDS Integers, Sequences

CONSTANTS PageRows,     \* rows in an OTP page
          AreaPages     \* pages in the commissioning area

ASSUME AreaAssumption == PageRows \in Nat \ {0} /\ AreaPages \in Nat \ {0}

AreaEnd == PageRows * AreaPages
PageOf(row) == row \div PageRows
PageAfter(row) == (PageOf(row) + 1) * PageRows

\* Values of rows.  A row of a value is above them all.
Magic == 90
Version == 91
NoKey == 0
WhoKey == 1
DateKey == 2
SigKey == 3

---------------------------------------------------------------------------
(* Rows. *)

Blank == [value |-> 0, exact |-> TRUE]
Exactly(v) == [value |-> v, exact |-> TRUE]

Holds(r, v) == r = Exactly(v)
IsUnwritten(r) == r.value = 0

---------------------------------------------------------------------------
(* The rows an instance writes, as <<row, value>> in the order they are    *)
(* written: magic, version, then each entry with its key row last.         *)

EntryRows(key, value) == <<key, Len(value)>> \o value

\* Mutant: the key row is written before the value.
EntryWrites_KeyFirst(first, key, value) ==
    [i \in 1 .. Len(value) + 2 |-> <<first + i - 1, EntryRows(key, value)[i]>>]

EntryWrites(first, key, value) ==
    LET rows == EntryRows(key, value)
        n    == Len(rows)
    IN  [i \in 1 .. n |-> IF i < n THEN <<first + i, rows[i + 1]>>
                                   ELSE <<first, rows[1]>>]

\* values is [who, date], each a sequence of rows, and sig is one row.
SignedRows(values) ==
    <<Magic, Version>> \o EntryRows(WhoKey, values.who)
                       \o EntryRows(DateKey, values.date)

InstanceRowCount(values) == Len(SignedRows(values)) + 3

InstanceWrites(first, values, sig) ==
    LET date == first + 4 + Len(values.who)
    IN  << <<first, Magic>>, <<first + 1, Version>> >>
        \o EntryWrites(first + 2, WhoKey, values.who)
        \o EntryWrites(date, DateKey, values.date)
        \o EntryWrites(date + 2 + Len(values.date), SigKey, <<sig>>)

Fits(first, values) ==
    /\ first \in 0 .. AreaEnd - 1
    /\ first % PageRows = 0
    /\ first + InstanceRowCount(values) <= AreaEnd

---------------------------------------------------------------------------
(* The parser.  rows are the values ECC reads return, and end is where     *)
(* what was read of them ends.                                             *)

NoRow == -1
NoValue == << >>

Entry(rows, row) ==
    [key   |-> rows[row],
     row   |-> row,
     value |-> [i \in 1 .. rows[row + 1] |-> rows[row + 1 + i]]]

\* The list of entries from row first: how it ended and its last row, or the
\* row where the parser lost its place.
EntriesFrom(rows, end, first) ==
    LET Ends(how, row) == [entries |-> <<>>, how |-> how, row |-> row, sig |-> NoRow]
        list[row \in first .. end] ==
          IF row = end THEN Ends("terminated", row - 1)
          ELSE IF row + 1 = end THEN Ends("lost", row)
          ELSE IF rows[row] = NoKey /\ rows[row + 1] = 0 THEN Ends("terminated", row + 1)
          ELSE LET next == row + 2 + rows[row + 1]
               IN  IF next > end THEN Ends("lost", row)
                   ELSE LET rest == IF rows[row] = SigKey
                                      THEN [Ends("signature", next - 1) EXCEPT !.sig = row]
                                      ELSE list[next]
                        IN  [rest EXCEPT !.entries = <<Entry(rows, row)>> \o @]
    IN  list[first]

\* An instance's value for a key: that of the last entry with it.  The
\* signature has one length, and at another it is unreadable.
Used(instance, key) ==
    LET at == {i \in DOMAIN instance.entries : instance.entries[i].key = key}
        last == CHOOSE i \in at : \A j \in at : j <= i
        value == instance.entries[last].value
    IN  IF at = {} \/ (key = SigKey /\ Len(value) # 1) THEN NoValue ELSE value

IsComplete(instance) == instance.signed # <<>>
IsValid(instance) == \A key \in {WhoKey, DateKey, SigKey} : Used(instance, key) # NoValue

UnknownKeys(instance) ==
    {e \in {instance.entries[i] : i \in DOMAIN instance.entries} :
        e.key \notin {NoKey, WhoKey, DateKey, SigKey}}

InstanceAt(rows, end, first) ==
    LET Bare(how, row) ==
            [how |-> how, row |-> row,
             instance |-> [first |-> first, entries |-> <<>>, signed |-> <<>>]]
        With(list) ==
            [how |-> IF list.how = "lost" THEN "lost" ELSE "ended",
             row |-> list.row,
             instance |->
               [first   |-> first,
                entries |-> list.entries,
                signed  |-> IF list.how # "signature" THEN <<>>
                            ELSE [i \in 1 .. list.sig - first |-> rows[first + i - 1]]]]
    IN  IF first + 1 = end THEN Bare("lost", first)
        ELSE IF rows[first + 1] = 0 THEN Bare("ended", first + 1)
        ELSE IF rows[first + 1] # Version THEN Bare("unknown", first)
        ELSE With(EntriesFrom(rows, end, first + 2))

\* The page boundaries after row holding the magic value.
InstancesAfter(rows, end, row) ==
    {b \in PageAfter(row) .. end - 1 : b % PageRows = 0 /\ rows[b] = Magic}

Walk(rows, end) ==
    LET Stop(next, abandoned) ==
            [instances |-> <<>>, issues |-> <<>>, next |-> next, abandoned |-> abandoned]
        walk[b \in 0 .. end] ==
          LET Again(later) ==
                IF later = {} THEN Stop(NoRow, TRUE)
                ELSE walk[CHOOSE c \in later : \A d \in later : c <= d]
              LostAt(row) ==
                [Again(InstancesAfter(rows, end, row))
                   EXCEPT !.issues = <<[issue |-> "lost", row |-> row]>> \o @]
              Found(at) ==
                IF at.how = "unknown"
                  THEN [Stop(NoRow, TRUE) EXCEPT !.issues = <<[issue |-> "version", row |-> b]>>]
                ELSE LET rest == IF at.how = "lost" THEN LostAt(at.row)
                                                    ELSE walk[PageAfter(at.row)]
                     IN  [rest EXCEPT !.instances = <<at.instance>> \o @]
          IN  IF b = end THEN Stop(NoRow, FALSE)
              ELSE IF rows[b] = 0 THEN Stop(b, FALSE)
              ELSE IF rows[b] # Magic THEN LostAt(b)
              ELSE Found(InstanceAt(rows, end, b))
    IN  walk[0]

NoInstance == [first |-> NoRow, entries |-> <<>>, signed |-> <<>>]

\* The last complete instance, where it is valid and the walk was not abandoned.
Parsed(w) ==
    LET complete == {i \in DOMAIN w.instances : IsComplete(w.instances[i])}
        last == w.instances[CHOOSE i \in complete : \A j \in complete : j <= i]
    IN  [instances |-> w.instances,
         issues    |-> w.issues,
         next      |-> w.next,
         complete  |-> IF complete = {} THEN NoInstance ELSE last,
         current   |-> IF w.abandoned \/ complete = {} THEN NoInstance
                       ELSE IF IsValid(last) THEN last ELSE NoInstance]

Parse(rows, end) == Parsed(Walk(rows, end))

\* The area is read a page at a time, and no further than the page that shows
\* where the next instance goes.
ReadArea(rows) ==
    LET Enough(p, area) == p = AreaPages \/ (area.next # NoRow /\ area.issues = <<>>)
        read[p \in 1 .. AreaPages] ==
          LET OrMore(area) == IF Enough(p, area) THEN area ELSE read[p + 1]
          IN  OrMore(Parse(rows, p * PageRows))
    IN  read[1]

\* Whether the parser lost its place and found no later instance.
IsAbandoned(area) ==
    /\ area.issues # <<>>
    /\ LET issue == area.issues[Len(area.issues)]
       IN  /\ issue.issue = "lost"
           /\ \/ area.instances = <<>>
              \/ area.instances[Len(area.instances)].first <= issue.row

===========================================================================
