------------------------------ MODULE Results -------------------------------
(***************************************************************************)
(* What result.c makes of the time stamps of one host (calc_time).         *)
(*                                                                         *)
(* A struct timeval is one number of microseconds; Second of them make a   *)
(* second, so that its tv_sec is tv \div Second and its tv_usec            *)
(* tv % Second.  The zeroed timeval of bzero is 0.                         *)
(***************************************************************************)
EXTENDS Integers, FiniteSets, FiniteSetsExt

CONSTANTS
  g_count,    \* requests per address (-c), as args_init leaves it
  MAX_COUNT,  \* size of the array results[] of a host
  Second,     \* microseconds in a second: 1000000 in the code
  IntLim      \* 2^31: an int holds -IntLim .. IntLim - 1

ASSUME CountAssumption == /\ MAX_COUNT \in Nat
                          /\ g_count \in 1 .. MAX_COUNT

ASSUME TimeAssumption == Second \in Nat \ {0} /\ IntLim \in Nat \ {0}

Rounds == 0 .. g_count - 1

\* The time stamps of a host: results[0 .. MAX_COUNT - 1], and at MAX_COUNT
\* the bytes right behind the array.
Slots == 0 .. MAX_COUNT

\* The values a reader can see of a timeval that is being overwritten: each of
\* its two fields is the old or the new one.
Torn(old, new) == {s * Second + u : s \in {old \div Second, new \div Second},
                                    u \in {old % Second, new % Second}}

\* Conversion of a long to int.
ToInt(n) == ((n + IntLim) % (2 * IntLim)) - IntLim

\* C division, which rounds towards zero.
Quotient(n, d) == IF n >= 0 THEN n \div d ELSE -((-n) \div d)

\* Mutated: tv_usec is tested.
HasSample_Usec(sent, recv, i) == recv[i] % Second # 0 /\ sent[i] % Second # 0

\* A slot counts when both of its tv_sec are set.
HasSample(sent, recv, i) == recv[i] \div Second # 0 /\ sent[i] \div Second # 0

\* The slots that count for the average
Samples(sent, recv) == {i \in Rounds : HasSample(sent, recv, i)}

\* Their round trips, added up without the width of an int
RoundTrips(sent, recv) == MapThenSumSet(LAMBDA i : recv[i] - sent[i], Samples(sent, recv))

\* The average round trip in microseconds, or -1 without a sample.
calc_time(sent, recv) ==
  IF Samples(sent, recv) = {} THEN -1
  ELSE Quotient(ToInt(RoundTrips(sent, recv)), Cardinality(Samples(sent, recv)))

=============================================================================
