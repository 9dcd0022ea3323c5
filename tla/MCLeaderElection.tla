--------------------------- MODULE MCLeaderElection ---------------------------
EXTENDS LeaderElection

CONSTANTS h1, h2

=============================================================================
