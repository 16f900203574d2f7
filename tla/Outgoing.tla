------------------------------ MODULE Outgoing ------------------------------
(***************************************************************************)
(* Commands on their way out of memory, to the log or to the wire.         *)
(***************************************************************************)
EXTENDS Ascii

CONSTANT Crc32(_)  \* the checksum that records of the log and frames carry

VARIABLES
    batch,  \* the commands being written
    cut     \* how many bytes are out
=============================================================================
