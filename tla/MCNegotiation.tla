---------------------------- MODULE MCNegotiation ----------------------------
\* Two requests and one envelope of the agent's own.  A price of 100.00 has a
\* floor of 94.00: the target 92.00 leads to an offer of 96.00, which is taken
\* and lowers the floor to 90.24; the target 82.00 to one of 91.00, which is
\* taken only after that.
EXTENDS Negotiation, TLC

Symmetric == Permutations(Request)
=============================================================================
