------------------------------ MODULE SsidName ------------------------------
(***************************************************************************)
(* When a name found in a frame replaces the name stored for its access    *)
(* point (user/src/ie_iter.c).                                             *)
(***************************************************************************)
EXTENDS Integers, Sequences

CONSTANTS
  Char,       \* octets
  Printable   \* the octets 32..126

\* memcmp over the new name's length only: s agrees with the start of old.
Matches(s, old) == Len(s) <= Len(old) /\ \A n \in 1 .. Len(s) : s[n] = old[n]

is_printable(s) == \A n \in 1 .. Len(s) : s[n] \in Printable

\* The stored name after the SSID element s.
Renamed(old, s) == IF ~Matches(s, old) /\ is_printable(s) THEN s ELSE old
=============================================================================
