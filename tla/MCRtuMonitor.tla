----------------------------- MODULE MCRtuMonitor -----------------------------
(* Reads of one slave that begin at the same register, overlap, or miss    *)
(* half a value, and a read of coils with three data bytes; one tag of one *)
(* register, one of two, and a coil.                                       *)
EXTENDS RtuMonitor

Read(code, start, quantity) == [unit |-> 1, code |-> code, start |-> start, quantity |-> quantity]

MCQueries == {Read(3, 0, 1), Read(3, 0, 2), Read(3, 1, 2), Read(1, 0, 20)}

Tag(code, address, count) == [unit |-> 0, code |-> code, address |-> address, count |-> count]

MCTags == {Tag(3, 1, 1), Tag(3, 1, 2), Tag(1, 0, 1)}
==============================================================================
