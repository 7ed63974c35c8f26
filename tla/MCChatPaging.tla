---------------------------- MODULE MCChatPaging ----------------------------
(* Dates before and after 2001, in an int64 of six bits with three           *)
(* nanoseconds to a second: the zero time overflows, as it does in 64 bits.  *)
EXTENDS ChatPaging

MCZeroSeconds == -24

MCDates == {Null, -1, 4}
=============================================================================
