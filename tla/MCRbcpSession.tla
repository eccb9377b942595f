--------------------------- MODULE MCRbcpSession ---------------------------
EXTENDS RbcpSession

\* One place for the back-channel: a byte for each part of the header the
\* properties tell apart, and one of the data section.
MCRegions == {[tok |-> 0, ans |-> 1, data |-> 2]}
=============================================================================
