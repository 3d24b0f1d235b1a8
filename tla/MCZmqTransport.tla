---------------------------- MODULE MCZmqTransport ----------------------------
EXTENDS ZmqTransport

\* The containers of the checked instances.
Two == {"w1", "w2"}
=============================================================================
