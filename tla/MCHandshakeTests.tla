------------------------- MODULE MCHandshakeTests -------------------------
EXTENDS HandshakeTests

\* The reactions after which the SUT keeps the test moving: the two valid
\* ones and the immediate reply, which the tests must catch.
MCAnsweringReactions == {"ignore", "terminate", "respond"}
=============================================================================
