--------------------------- MODULE MCSipTransactions ---------------------------
(* One connection for TLC: its first registration and one refresh, a door     *)
(* release and a monitoring call.                                             *)
EXTENDS SipTransactions

CONSTANTS reg, refresh, door, call

=============================================================================
