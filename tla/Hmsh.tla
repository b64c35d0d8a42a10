-------------------------------- MODULE Hmsh --------------------------------
(***************************************************************************)
(* Times of day in hours, minutes, seconds and hundredths, as the clock     *)
(* programs advance and print them (the MenageHmsh functions of             *)
(* user/sem_clock/dispclk.c).                                               *)
(***************************************************************************)
EXTENDS Integers, Sequences

Hour == [hours : 0 .. 23, minutes : 0 .. 59, seconds : 0 .. 59,
         hundredthes : 0 .. 99]

Initialise == [hours |-> 0, minutes |-> 0, seconds |-> 0, hundredthes |-> 0]

WrapsLate(h) == [h EXCEPT !.hours = (@ + 1) % 25]
AdvanceHours(h) == [h EXCEPT !.hours = (@ + 1) % 24]
AdvanceMinutes(h) == [h EXCEPT !.minutes = (@ + 1) % 60]
AdvanceSeconds(h) == [h EXCEPT !.seconds = (@ + 1) % 60]

\* The hour is carried only when the minutes have come round as well.
LosesHour(h) ==
  LET s == AdvanceSeconds(h)
  IN  IF s.seconds = 0 THEN AdvanceMinutes(s) ELSE s
PlusOneSecond(h) ==
  LET s == AdvanceSeconds(h)
      m == AdvanceMinutes(s)
  IN  IF s.seconds # 0 THEN s
      ELSE IF m.minutes # 0 THEN m ELSE AdvanceHours(m)

PlusNSeconds(n, h) ==
  LET P[i \in 0 .. n] == IF i = 0 THEN h ELSE PlusOneSecond(P[i - 1])
  IN  P[n]

\* The unit is a hundredth; a complete second is reported.
PlusOneUnit(h) ==
  LET u == [h EXCEPT !.hundredthes = (@ + 1) % 100]
  IN  IF u.hundredthes = 0 THEN PlusOneSecond(u) ELSE u
reportSeconds(h) == (h.hundredthes + 1) % 100 = 0

\* chain[1] to chain[8], or to chain[11] with the hundredths.
Blank == " "
TwoDigits(n) == <<n \div 10, n % 10>>
Convert(h, hundredthes) ==
  TwoDigits(h.hours) \o <<":">> \o TwoDigits(h.minutes) \o <<":">>
    \o TwoDigits(h.seconds)
    \o IF hundredthes THEN <<".">> \o TwoDigits(h.hundredthes)
                      ELSE <<Blank, Blank, Blank>>

\* The reference: hundredths since midnight, and what a printed line says.
DAY == 24 * 60 * 60 * 100
Units(h) == ((h.hours * 60 + h.minutes) * 60 + h.seconds) * 100 + h.hundredthes
Said(c) ==
  LET num(i) == 10 * c[i] + c[i + 1]
  IN  ((num(1) * 60 + num(4)) * 60 + num(7)) * 100
        + IF c[9] = "." THEN num(10) ELSE 0
=============================================================================
