------------------------------- MODULE MCHook -------------------------------
\* Model values for TLC: the calls of the workloads.
EXTENDS Hook

AllOps == {"hook", "sleep", "socket", "open", "timeout", "setfl", "getfl",
           "ioctl", "close", "read", "write", "accept", "connect"}
=============================================================================
