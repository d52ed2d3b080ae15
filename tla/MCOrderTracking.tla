--------------------------- MODULE MCOrderTracking ---------------------------
(* Small instances of OrderTracking: two orders, one bought at entry and one  *)
(* sold at exit, each document written at most twice after the stream opened. *)
EXTENDS OrderTracking

CONSTANTS entry, exit

MCOrders == {entry, exit}
MCEntryOrders == {entry}
MCBuyOrders == {entry}
=============================================================================
