------------------------------ MODULE MCPosix -------------------------------
(***************************************************************************)
(* Instance of Posix for TLC: a sleep that fits a word, two that wrap to   *)
(* none and to one count, and one out of range; a device without           *)
(* operations and one beyond the table.                                    *)
(***************************************************************************)
EXTENDS Posix

MCSleeps == {<<1, 3>>, <<6, 0>>, <<6, 3>>, <<0, 5>>}
MCInstalls == {<<3, "DEVICE", {}>>, <<4, "DEVICE", {}>>}
=============================================================================
