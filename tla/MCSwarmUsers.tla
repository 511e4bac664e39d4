--------------------------- MODULE MCSwarmUsers ---------------------------
EXTENDS SwarmUsers

MCApiUsers == {"a1", "a2"}
MCWSUsers == {"w1", "w2"}
MCStatuses == {0, 201, 500}

=============================================================================
