----------------------------- MODULE MCLogClaims -----------------------------
EXTENDS LogClaims, TLC

CONSTANTS m0, h0, m1, h1, n

MCCore == m0 :> 0 @@ h0 :> 0 @@ m1 :> 1 @@ h1 :> 1
=============================================================================
