--------------------------- MODULE MCReceivePath ---------------------------
(* A scaled-down receive path: a 3-byte length field, 4-byte units.        *)
(* Messages are as short as the length field or several units long, so    *)
(* that puts grows the buffer more than once.                              *)
EXTENDS ReceivePath

MCLengths == {3, 9}
=============================================================================
