-------------------------------- MODULE Enums --------------------------------
(***************************************************************************)
(* The casts between the enumerations of the wire, which are ints, and the *)
(* SDK's copies of them, which are based on char (ivi-enum.h).             *)
(***************************************************************************)
EXTENDS Integers

Char == -128..127     \* char where it is signed, as on x86

\* static_cast from int to an enumeration whose underlying type is char; the
\* cast back keeps the value
ECast(state) == ((state + 128) % 256) - 128
=============================================================================
