------------------------------- MODULE Options -------------------------------
(***************************************************************************)
(* The command line: what args_init (main.c) makes of the options, one     *)
(* after the other, and of the debug level in the environment (log_init of *)
(* log.c).  An option is a letter and what atoi makes of its argument; a   *)
(* letter that is none of the program's, or has no argument, is one that   *)
(* getopt_long returns as '?', after a message of its own.                 *)
(***************************************************************************)
EXTENDS Integers, Sequences, SequencesExt, FiniteSets

CONSTANTS
  Numbers,    \* values of atoi, beside a negative one
  MAX_COUNT, DEF_COUNT, DEF_WAIT, DEF_SEND_DELAY

ASSUME OptionsAssumption ==
  /\ Numbers \subseteq Nat /\ MAX_COUNT \in Nat
  /\ DEF_COUNT \in 1..MAX_COUNT /\ DEF_WAIT \in Nat /\ DEF_SEND_DELAY \in Nat

LL_ERROR == 1
Levels == 0..5  \* "F", "E", "W", "I", "D", "V"

Letters == {"c", "w", "s", "d", "f"}
Values == {-1} \cup Numbers
Option == (Letters \X Values) \cup ({"help", "unknown"} \X {0})

VARIABLES
  argv,  \* the options that are left
  given, \* those that were processed
  g_count, g_wait, g_send_delay,
  m_debug,
  code   \* "none", "ok", what args_init complains of, or "usage" for exit(0)

argVars == <<argv, given, g_count, g_wait, g_send_delay, m_debug, code>>

\* log_init: the default, or a level of the environment by its letter or its number
FirstLevels == {LL_ERROR} \cup Levels \cup Values

ArgsGiven(args, levels) ==
  /\ argv \in args /\ given = <<>>
  /\ g_count = DEF_COUNT /\ g_wait = DEF_WAIT /\ g_send_delay = DEF_SEND_DELAY
  /\ m_debug \in levels
  /\ code = "none"

BadCount(n) == n <= 0

Is(letter) == code = "none" /\ argv # <<>> /\ argv[1][1] = letter
Value == argv[1][2]
Done == argv' = Tail(argv) /\ given' = Append(given, argv[1])

Count ==
  /\ Is("c") /\ Done /\ g_count' = Value
  /\ code' = IF BadCount(Value) THEN "count" ELSE "none"
  /\ UNCHANGED <<g_wait, g_send_delay, m_debug>>

WaitCode(n) == IF n < 0 THEN "wait" ELSE "none"

Wait ==
  /\ Is("w") /\ Done /\ g_wait' = Value /\ code' = WaitCode(Value)
  /\ UNCHANGED <<g_count, g_send_delay, m_debug>>

Delay ==
  /\ Is("s") /\ Done /\ g_send_delay' = Value
  /\ code' = IF Value < 0 THEN "delay" ELSE "none"
  /\ UNCHANGED <<g_count, g_wait, m_debug>>

\* log_set_level
Debug ==
  /\ Is("d") /\ Done /\ m_debug' = Value
  /\ UNCHANGED <<g_count, g_wait, g_send_delay, code>>

\* The name of the file is not looked at.
File == Is("f") /\ Done /\ UNCHANGED <<g_count, g_wait, g_send_delay, m_debug, code>>

\* case '?': usage and exit(0)
Usage ==
  /\ Is("help") \/ Is("unknown")
  /\ Done /\ code' = "usage"
  /\ UNCHANGED <<g_count, g_wait, g_send_delay, m_debug>>

\* Mutated: the largest number of requests is refused.
GoodCount_Less(n) == n > 0 /\ n < MAX_COUNT

GoodCount(n) == n > 0 /\ n <= MAX_COUNT

\* After the last option: a count that is too large becomes the default.
Finish ==
  /\ code = "none" /\ argv = <<>> /\ code' = "ok"
  /\ g_count' = IF GoodCount(g_count) THEN g_count ELSE DEF_COUNT
  /\ UNCHANGED <<argv, given, g_wait, g_send_delay, m_debug>>

args_init == Count \/ Wait \/ Delay \/ Debug \/ File \/ Usage \/ Finish

-----------------------------------------------------------------------------
(* Properties. *)

\* What the threads rely on: there are as many slots for results as requests, and no
\* time to wait is negative, whatever was given how often.
LimitsKept == code = "ok" => g_count \in 1..MAX_COUNT /\ g_wait >= 0 /\ g_send_delay >= 0

Wrong(o) == \/ o[1] = "c" /\ o[2] <= 0
            \/ o[1] \in {"w", "s"} /\ o[2] < 0
            \/ o[1] \in {"help", "unknown"}

\* The first wrong option ends the program, and none is passed over in silence.
FirstWrongEnds ==
  \A i \in DOMAIN given : Wrong(given[i]) <=> i = Len(given) /\ code \notin {"none", "ok"}

LastOf(letter, default) ==
  LET at == {i \in DOMAIN given : given[i][1] = letter}
  IN  IF at = {} THEN default ELSE given[CHOOSE i \in at : \A j \in at : j <= i][2]

\* An option that is given twice has its last value; a count above the limit becomes
\* the default, even after a smaller one.
LastValueCounts ==
  code = "ok" =>
    /\ g_wait = LastOf("w", DEF_WAIT) /\ g_send_delay = LastOf("s", DEF_SEND_DELAY)
    /\ LET c == LastOf("c", DEF_COUNT) IN g_count = IF c > MAX_COUNT THEN DEF_COUNT ELSE c

\* What args_init returns as good is good, is what was asked for, and nothing wrong
\* was passed over on the way.
OptionsTaken == LimitsKept /\ FirstWrongEnds /\ LastValueCounts
=============================================================================
