--------------------------- MODULE MCVirtualUser ---------------------------
EXTENDS VirtualUser

\* Two users; the service answers 200, 401, 403, 500, or times out (0).
MCUsers == {"u1", "u2"}
MCStatuses == {0, 200, 401, 403, 500}
MCOneUser == {"u1"}

=============================================================================
