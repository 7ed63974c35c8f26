------------------------------- MODULE Cocoa -------------------------------
(***************************************************************************)
(* internal/cocoa: Apple timestamps, counted from 2001, as times counted     *)
(* from 1970, and back.  A time.Time is [sec, nsec], what its Unix() and      *)
(* Nanosecond() return.  Go's integers wrap; the constants stand for 10^9,    *)
(* 978307200, 2^63 and the Unix() of the zero time.Time, and are small where  *)
(* TLC evaluates them.                                                     *)
(***************************************************************************)
EXTENDS Integers

CONSTANTS
  PerSecond,    (* nanoseconds in a second                                 *)
  UnixDelta,    (* seconds from the Unix epoch to the Cocoa epoch           *)
  HalfRange,    (* an int64 is in -HalfRange .. HalfRange - 1               *)
  ZeroSeconds   (* the first second of year 1                              *)

ASSUME CocoaAssumption ==
  /\ PerSecond \in Nat \ {0} /\ HalfRange \in Nat \ {0}
  /\ UnixDelta \in Int
  /\ ZeroSeconds \in Int /\ -HalfRange <= ZeroSeconds /\ ZeroSeconds < HalfRange

Int64 == {n \in Int : -HalfRange <= n /\ n < HalfRange}

Wrap(n) == ((n + HalfRange) % (2 * HalfRange)) - HalfRange

Times == [sec : Int64, nsec : 0 .. PerSecond - 1]

ZeroTime == [sec |-> ZeroSeconds, nsec |-> 0]

(* time.Unix: nanoseconds beyond a second, or below none, move the second.  *)
Unix(sec, nsec) ==
  [sec |-> Wrap(sec + nsec \div PerSecond), nsec |-> nsec % PerSecond]

FromSeconds(s) == Unix(Wrap(s + UnixDelta), 0)

(* Mutants of FromNanoseconds: the part of a second is lost; or more than a *)
(* second of nanoseconds is kept.                                          *)
FromNanosecondsWhole(n) == [Unix(UnixDelta, n) EXCEPT !.nsec = 0]
FromNanosecondsRaw(n) == [sec |-> UnixDelta, nsec |-> n]

FromNanoseconds(n) == Unix(UnixDelta, n)

(* int64(x) of a float drops its fraction, whatever the sign.              *)
Truncated(num, den) == IF num >= 0 THEN num \div den ELSE -((-num) \div den)

(* The float num / den, of a size int64 holds: a date before 2001 with a    *)
(* fraction has a negative nsec, which time.Unix normalises.               *)
FromSecondsFloat(num, den) ==
  LET sec == Truncated(num, den)
      nsec == Truncated((num - sec * den) * PerSecond, den)
  IN  Unix(Wrap(sec + UnixDelta), nsec)

(* safari's unixFromFloat: the same for a column that counts from 1970.     *)
UnixFromFloat(num, den) ==
  LET sec == Truncated(num, den)
  IN  Unix(sec, Truncated((num - sec * den) * PerSecond, den))

(* Mutant of ToNanoseconds: UnixNano, which counts from 1970.              *)
ToNanosecondsUnix(t) == Wrap(Wrap(t.sec * PerSecond) + t.nsec)

ToNanoseconds(t) ==
  Wrap(Wrap(Wrap(t.sec * PerSecond) - Wrap(UnixDelta * PerSecond)) + t.nsec)
=============================================================================
