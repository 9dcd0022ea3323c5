---------------------------- MODULE MCScalingQueue ----------------------------
EXTENDS ScalingQueue

CONSTANTS e1, e2, w1, w2

=============================================================================
