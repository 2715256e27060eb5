--------------------------- MODULE MCOutreaches ---------------------------
EXTENDS Outreaches

CONSTANTS c1, c2, s1, s2, d1, d2, f1, f2

MCClients == {c1, c2}
MCSourceIds == {s1, s2}
MCDetails == {d1, d2}
MCFiles == {f1, f2}
==============================================================================
