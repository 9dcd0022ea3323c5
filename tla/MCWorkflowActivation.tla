------------------------- MODULE MCWorkflowActivation -------------------------
EXTENDS WorkflowActivation

CONSTANTS m1, m2, v1, v2

=============================================================================
