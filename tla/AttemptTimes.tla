---------------------------- MODULE AttemptTimes ----------------------------
(***************************************************************************)
(* When the scheduled attempts of a day are due (schedule.py).  A day has  *)
(* Slots instants, numbered through from day 1; an attempt is due at some  *)
(* of them.  The local calendar and the market's are the same here.        *)
(***************************************************************************)
EXTENDS Integers, FiniteSetsExt

CONSTANTS
  Slots,     \* the instants of a day
  Daytime,   \* those of the daytime attempts
  Evening    \* those of the evening retries

ASSUME AttemptTimesAssumption ==
  /\ Slots \in Nat \ {0} /\ Daytime # {}
  /\ Daytime \subseteq 0..(Slots - 1) /\ Evening \subseteq 0..(Slots - 1)
  /\ \A d \in Daytime, e \in Evening : d < e
  \* An evening retry is hours after the attempt before it; a run takes two instants at most.
  /\ \A s \in Daytime \cup Evening, e \in Evening : s < e => s + 1 < e

DayOf(time) == (time \div Slots) + 1

\* The attempts of a day, with or without its evening retries.
AttemptsOn(day, evening) ==
  {(day - 1) * Slots + s : s \in Daytime \cup (IF evening THEN Evening ELSE {})}

LastDaytime(day) == Max(AttemptsOn(day, FALSE))

\* The first attempt after a time; evening retries count only on its own day.
NextAttempt(time, evening) ==
  Min({t \in UNION {AttemptsOn(DayOf(time) + n, evening /\ n = 0) : n \in 0..2} : t > time})

\* The last daytime attempt (any time before the first evening retry), or the last of all.
IsFinal(when) ==
  LET day == DayOf(when)
      later == {t \in AttemptsOn(day, TRUE) : t > LastDaytime(day)} IN
  \/ when >= Max(AttemptsOn(day, TRUE))
  \/ when >= LastDaytime(day) /\ \A t \in later : when < t

EveningRetryAfter(time) == \E t \in AttemptsOn(DayOf(time), TRUE) : t > time
=============================================================================
