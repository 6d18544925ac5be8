---------------------------- MODULE StartProofs -----------------------------
(***************************************************************************)
(* Proofs about the start of the program, for command lines of any length  *)
(* with any numbers, and for any file read through a buffer of any size:   *)
(* args_init keeps what was asked for or ends the program, result_new      *)
(* takes its input line by line, and a packet with its checksum is good    *)
(* for whoever receives it.                                                *)
(***************************************************************************)
EXTENDS Start, FiniteSetTheorems, SequenceTheorems, WellFoundedInduction, TLAPS

-----------------------------------------------------------------------------
(* The options. *)

Codes == {"none", "ok", "count", "wait", "delay", "usage"}

\* The options, those processed and those not, and the numbers
ArgsInv ==
  /\ argv \in Seq(Option) /\ given \in Seq(Option)
  /\ {g_count, g_wait, g_send_delay} \subseteq Int
  /\ code \in Codes

At(letter) == {i \in DOMAIN given : given[i][1] = letter}

\* An option that was given has a last occurrence.
LastInv == \A l \in Letters :
             At(l) # {} => \E m \in At(l) : \A j \in At(l) : j <= m

\* While nothing was wrong each variable has the last value given for it, and all are
\* within their limits but the upper one of the count.
ValueInv ==
  /\ code = "none" =>
       /\ g_count = LastOf("c", DEF_COUNT) /\ g_wait = LastOf("w", DEF_WAIT)
       /\ g_send_delay = LastOf("s", DEF_SEND_DELAY)
       /\ g_count > 0 /\ g_wait >= 0 /\ g_send_delay >= 0
  /\ OptionsTaken

OptionsInv == ArgsInv /\ LastInv /\ ValueInv

LEMMA OptionType ==
  ASSUME NEW o \in Option
  PROVE  o[2] \in Int
<1>1. Values \subseteq Int
  BY OptionsAssumption DEF Values
<1>2. CASE o \in Letters \X Values
  BY <1>1, <1>2
<1>3. CASE o \in {"help", "unknown"} \X {0}
  BY <1>3
<1>. QED
  BY <1>2, <1>3 DEF Option

\* The next option goes from one sequence to the other.
LEMMA DoneStep ==
  ASSUME ArgsInv, LastInv, argv # <<>>, Done
  PROVE  /\ argv' \in Seq(Option) /\ given' \in Seq(Option)
         /\ argv[1] \in Option /\ Value \in Int
         /\ DOMAIN given = 1 .. Len(given) /\ Len(given) \in Nat
         /\ DOMAIN given' = 1 .. Len(given) + 1 /\ Len(given') = Len(given) + 1
         /\ \A i \in DOMAIN given : given'[i] = given[i]
         /\ given'[Len(given) + 1] = argv[1]
<1>1. argv[1] \in Option /\ Tail(argv) \in Seq(Option)
  BY DEF ArgsInv
<1>2. given \in Seq(Option) /\ given' = Append(given, argv[1])
  BY DEF ArgsInv, Done
<1>. QED
  BY <1>1, <1>2, OptionType DEF Done, Value

LEMMA LastStep ==
  ASSUME ArgsInv, LastInv, argv # <<>>, Done
  PROVE  LastInv'
<1>. SUFFICES ASSUME NEW l \in Letters, At(l)' # {}
              PROVE  \E m \in At(l)' : \A j \in At(l)' : j <= m
  BY DEF LastInv
<1>1. CASE argv[1][1] = l
  <2>1. Len(given) + 1 \in At(l)' /\ \A j \in At(l)' : j <= Len(given) + 1
    BY <1>1, DoneStep DEF At
  <2>. QED
    BY <2>1
<1>2. CASE argv[1][1] # l
  <2>1. At(l)' = At(l)
    BY <1>2, DoneStep DEF At
  <2>. QED
    BY <2>1 DEF LastInv
<1>. QED
  BY <1>1, <1>2

\* What a further option does to the last value of each letter
LEMMA LastOfStep ==
  ASSUME ArgsInv, LastInv, argv # <<>>, Done, NEW l \in Letters, NEW d
  PROVE  LastOf(l, d)' = IF argv[1][1] = l THEN Value ELSE LastOf(l, d)
<1>. DEFINE Top(at) == CHOOSE i \in at : \A j \in at : j <= i
<1>1. LastOf(l, d) = IF At(l) = {} THEN d ELSE given[Top(At(l))][2]
  BY DEF LastOf, At
<1>2. LastOf(l, d)' = IF At(l)' = {} THEN d ELSE given'[Top(At(l)')][2]
  BY DEF LastOf, At
<1>3. CASE argv[1][1] = l
  <2>1. Len(given) + 1 \in At(l)' /\ \A j \in At(l)' : j <= Len(given) + 1
    BY <1>3, DoneStep DEF At
  <2>2. \A i \in At(l)' : i \in Nat
    BY DoneStep DEF At
  <2>3. Top(At(l)') = Len(given) + 1
    BY <2>1, <2>2
  <2>. QED
    BY <1>2, <1>3, <2>1, <2>3, DoneStep DEF Value
<1>4. CASE argv[1][1] # l
  <2>1. At(l)' = At(l)
    BY <1>4, DoneStep DEF At
  <2>2. At(l) # {} => Top(At(l)) \in At(l)
    BY DEF LastInv
  <2>3. At(l) # {} => given'[Top(At(l))] = given[Top(At(l))]
    BY <2>2, DoneStep DEF At
  <2>. QED
    BY <1>1, <1>2, <1>4, <2>1, <2>3
<1>. QED
  BY <1>3, <1>4

-----------------------------------------------------------------------------
(* Each turn of args_init keeps the invariant. *)

\* The last option is the only wrong one when it ends the program.
LEMMA WrongStep ==
  ASSUME ArgsInv, LastInv, FirstWrongEnds, code = "none", argv # <<>>, Done,
         code' # "ok", code' # "none" <=> Wrong(argv[1])
  PROVE  FirstWrongEnds'
<1>1. \A i \in DOMAIN given : ~Wrong(given[i])
  BY DEF FirstWrongEnds
<1>. SUFFICES ASSUME NEW i \in DOMAIN given'
              PROVE  Wrong(given'[i]) <=> i = Len(given') /\ code' \notin {"none", "ok"}
  BY DEF FirstWrongEnds
<1>2. CASE i = Len(given')
  BY <1>2, DoneStep
<1>3. CASE i # Len(given')
  <2>1. i \in DOMAIN given /\ given'[i] = given[i]
    BY <1>3, DoneStep
  <2>. QED
    BY <1>1, <1>3, <2>1
<1>. QED
  BY <1>2, <1>3

LEMMA OptionStep ==
  ASSUME OptionsInv, Count \/ Wait \/ Delay \/ Debug \/ File \/ Usage
  PROVE  OptionsInv'
<1>. USE DEF OptionsInv
<1>1. code = "none" /\ argv # <<>> /\ Done /\ code' # "ok"
  BY DEF Count, Wait, Delay, Debug, File, Usage, Is, WaitCode
<1>2. ArgsInv'
  <2>1. Value \in Int /\ argv' \in Seq(Option) /\ given' \in Seq(Option)
    BY <1>1, DoneStep
  <2>. QED
    BY <2>1 DEF ArgsInv, Codes, Count, Wait, Delay, Debug, File, Usage, WaitCode
<1>3. LastInv'
  BY <1>1, LastStep
<1>4. Value \in Int
  BY <1>1, DoneStep
<1>5. code' # "none" <=> Wrong(argv[1])
  BY <1>1, <1>4 DEF Count, Wait, Delay, Debug, File, Usage, Is, WaitCode, BadCount, Wrong, Value
<1>6. FirstWrongEnds'
  BY <1>1, <1>5, WrongStep DEF ValueInv, OptionsTaken
<1>7. ASSUME code' = "none"
      PROVE  /\ g_count' = LastOf("c", DEF_COUNT)' /\ g_wait' = LastOf("w", DEF_WAIT)'
             /\ g_send_delay' = LastOf("s", DEF_SEND_DELAY)'
             /\ g_count' > 0 /\ g_wait' >= 0 /\ g_send_delay' >= 0
  <2>1. /\ LastOf("c", DEF_COUNT)' = IF argv[1][1] = "c" THEN Value ELSE g_count
        /\ LastOf("w", DEF_WAIT)' = IF argv[1][1] = "w" THEN Value ELSE g_wait
        /\ LastOf("s", DEF_SEND_DELAY)' = IF argv[1][1] = "s" THEN Value ELSE g_send_delay
    BY <1>1, LastOfStep DEF Letters, ValueInv
  <2>2. g_count > 0 /\ g_wait >= 0 /\ g_send_delay >= 0
    BY <1>1 DEF ValueInv
  <2>. QED
    BY <1>1, <1>4, <1>7, <2>1, <2>2
       DEF Count, Wait, Delay, Debug, File, Usage, Is, WaitCode, BadCount
<1>8. LimitsKept' /\ LastValueCounts'
  BY <1>1 DEF LimitsKept, LastValueCounts
<1>. QED
  BY <1>2, <1>3, <1>6, <1>7, <1>8 DEF ValueInv, OptionsTaken

LEMMA FinishStep ==
  ASSUME OptionsInv, Finish
  PROVE  OptionsInv'
<1>. USE DEF OptionsInv
<1>1. ArgsInv'
  BY OptionsAssumption DEF Finish, ArgsInv, Codes
<1>2. LastInv'
  BY DEF Finish, LastInv, At
<1>3. FirstWrongEnds'
  BY DEF Finish, FirstWrongEnds, ValueInv, OptionsTaken, Wrong
<1>4. LimitsKept'
  BY OptionsAssumption DEF Finish, LimitsKept, ValueInv, GoodCount, ArgsInv
<1>5. LastValueCounts'
  <2>1. /\ g_count = LastOf("c", DEF_COUNT) /\ g_wait = LastOf("w", DEF_WAIT)
        /\ g_send_delay = LastOf("s", DEF_SEND_DELAY) /\ g_count > 0
    BY DEF Finish, ValueInv
  <2>2. \A l, d : LastOf(l, d)' = LastOf(l, d)
    BY DEF Finish, LastOf
  <2>. QED
    BY <2>1, <2>2, OptionsAssumption DEF Finish, LastValueCounts, GoodCount, ArgsInv
<1>. QED
  BY <1>1, <1>2, <1>3, <1>4, <1>5 DEF Finish, ValueInv, OptionsTaken

LEMMA OptionsInit == Init => OptionsInv
<1>. SUFFICES ASSUME Init
              PROVE  OptionsInv
  OBVIOUS
<1>1. argv \in Seq(Option)
  <2>1. argv \in BoundedSeq(Option, MaxOptions) \/ argv = <<>>
    BY DEF Init, ArgsGiven
  <2>2. ASSUME argv \in BoundedSeq(Option, MaxOptions)
        PROVE  argv \in Seq(Option)
    <3>1. PICK n \in 0..MaxOptions : argv \in [1..n -> Option]
      BY <2>2 DEF BoundedSeq, SeqOf
    <3>2. n \in Nat
      BY <3>1, StartAssumption
    <3>. QED
      BY <3>1, <3>2
  <2>3. <<>> \in Seq(Option)
    OBVIOUS
  <2>. QED
    BY <2>1, <2>2, <2>3
<1>2. /\ given = <<>> /\ code = "none" /\ g_count = DEF_COUNT /\ g_wait = DEF_WAIT
      /\ g_send_delay = DEF_SEND_DELAY
  BY DEF Init, ArgsGiven
<1>3. DOMAIN given = {}
  BY <1>2
<1>4. \A l, d : LastOf(l, d) = d
  BY <1>3 DEF LastOf
<1>. QED
  BY <1>1, <1>2, <1>3, <1>4, OptionsAssumption
     DEF OptionsInv, ArgsInv, Codes, LastInv, At, ValueInv, OptionsTaken, LimitsKept,
         FirstWrongEnds, LastValueCounts

\* Whatever the command line, args_init accepts it only with limits kept and the last
\* value of each option in place, and passes over nothing wrong.
THEOREM AllOptions == Spec => []OptionsTaken
<1>1. OptionsInv /\ [Next]_vars => OptionsInv'
  <2>. SUFFICES ASSUME OptionsInv, [Next]_vars
                PROVE  OptionsInv'
    OBVIOUS
  <2>1. CASE UNCHANGED argVars
    <3>1. ArgsInv' /\ LastInv' /\ LimitsKept' /\ FirstWrongEnds'
      BY <2>1 DEF argVars, OptionsInv, ArgsInv, LastInv, At, ValueInv, OptionsTaken,
         LimitsKept, FirstWrongEnds
    <3>2. \A l, d : LastOf(l, d)' = LastOf(l, d)
      BY <2>1 DEF argVars, LastOf
    <3>3. LastValueCounts'
      BY <2>1, <3>2 DEF argVars, OptionsInv, ValueInv, OptionsTaken, LastValueCounts
    <3>. QED
      BY <2>1, <3>1, <3>2, <3>3 DEF argVars, OptionsInv, ValueInv, OptionsTaken
  <2>. QED
    BY <2>1, OptionStep, FinishStep DEF Next, args_init, vars
<1>2. OptionsInv => OptionsTaken
  BY DEF OptionsInv, ValueInv
<1>. QED
  BY <1>1, <1>2, OptionsInit, PTL DEF Spec

-----------------------------------------------------------------------------
(* Numbers. *)

\* A nonempty set of numbers has a least one.
LEMMA LeastNumber ==
  ASSUME NEW T \in SUBSET Nat, T # {}
  PROVE  \E least \in T : \A m \in T : least <= m
<1> DEFINE R == OpToRel(<, Nat)
<1>1. IsWellFoundedOn(R, Nat)
  BY NatLessThanWellFounded
<1> HIDE DEF R
<1>2. PICK least \in T : \A m \in T : ~(<<m, least>> \in R)
  BY <1>1, WFMin
<1>3. \A m, k \in Nat : <<m, k>> \in R <=> m < k
  BY DEF R, OpToRel
<1>4. ASSUME NEW m \in T PROVE least <= m
  <2>1. ~(<<m, least>> \in R) /\ m \in Nat /\ least \in Nat
    BY <1>2
  <2> QED
    BY <1>3, <2>1
<1> QED
  BY <1>4

\* Min and Max are what their names say.
LEMMA MinOfNumbers ==
  ASSUME NEW T \in SUBSET Nat, T # {}
  PROVE  Min(T) \in T /\ \A m \in T : Min(T) <= m
<1>1. \E x \in T : \A y \in T : x =< y
  BY LeastNumber
<1> QED
  BY <1>1 DEF Min

LEMMA MaxOfNumbers ==
  ASSUME NEW n \in Nat, NEW T \in SUBSET (0..n), T # {}
  PROVE  Max(T) \in T /\ \A m \in T : m <= Max(T)
<1> DEFINE U == {b \in Nat : \A m \in T : m <= b}
<1>1. n \in U
  OBVIOUS
<1>2. PICK b \in U : \A c \in U : b <= c
  BY <1>1, LeastNumber
<1>3. b \in T
  <2>1. SUFFICES ASSUME b \notin T PROVE FALSE
    OBVIOUS
  <2>2. \A m \in T : m <= b /\ m # b /\ m \in Nat
    BY <2>1
  <2>3. b \in Nat /\ b > 0
    <3>1. PICK x \in T : TRUE
      OBVIOUS
    <3>2. b \in Nat /\ x \in Nat /\ x <= b /\ x # b
      BY <2>2, <3>1
    <3> QED
      BY <3>2
  <2>4. \A m \in T : m <= b - 1
    BY <2>2, <2>3
  <2>5. b - 1 \in U
    BY <2>3, <2>4
  <2> QED
    BY <1>2, <2>3, <2>5
<1>4. \E x \in T : \A y \in T : x >= y
  BY <1>2, <1>3
<1>5. Max(T) \in T /\ \A y \in T : Max(T) >= y
  BY <1>4 DEF Max
<1> QED
  BY <1>5

-----------------------------------------------------------------------------
(* strip *)

\* The first word begins and is followed where strip finds it.
FirstOf(s) == Min({i \in DOMAIN s : s[i] \notin Space} \cup {Len(s) + 1})
EndOf(s) == Min({i \in FirstOf(s)..Len(s) : s[i] \in Space} \cup {Len(s) + 1})

LEMMA StripBounds ==
  ASSUME NEW s \in Seq(Chars)
  PROVE  /\ FirstOf(s) \in 1..Len(s) + 1 /\ EndOf(s) \in FirstOf(s)..Len(s) + 1
         /\ \A j \in 1..Len(s) : j < FirstOf(s) => s[j] \in Space
         /\ FirstOf(s) <= Len(s) => s[FirstOf(s)] \notin Space
         /\ \A j \in FirstOf(s)..Len(s) : j < EndOf(s) => s[j] \notin Space
         /\ EndOf(s) <= Len(s) => s[EndOf(s)] \in Space
         /\ strip(s) = SubSeq(s, FirstOf(s), EndOf(s) - 1)
         /\ strip(s) \in Seq(Chars)
         /\ Len(strip(s)) = EndOf(s) - FirstOf(s)
         /\ \A j \in 1..EndOf(s) - FirstOf(s) : strip(s)[j] = s[FirstOf(s) + j - 1]
<1> DEFINE F == {i \in DOMAIN s : s[i] \notin Space} \cup {Len(s) + 1}
           E == {i \in FirstOf(s)..Len(s) : s[i] \in Space} \cup {Len(s) + 1}
<1>1. Len(s) \in Nat /\ DOMAIN s = 1..Len(s)
  OBVIOUS
<1>2. F \in SUBSET Nat /\ F # {}
  BY <1>1
<1>3. Min(F) \in F /\ \A m \in F : Min(F) <= m
  BY <1>2, MinOfNumbers
<1>4. FirstOf(s) = Min(F)
  BY DEF FirstOf
<1> HIDE DEF F
<1>5. FirstOf(s) \in F /\ \A m \in F : FirstOf(s) <= m
  BY <1>3, <1>4
<1>6. /\ FirstOf(s) \in 1..Len(s) + 1
      /\ \A j \in 1..Len(s) : j < FirstOf(s) => s[j] \in Space
      /\ FirstOf(s) <= Len(s) => s[FirstOf(s)] \notin Space
  BY <1>1, <1>5 DEF F
<1>7. E \in SUBSET Nat /\ E # {}
  BY <1>1, <1>6
<1>8. Min(E) \in E /\ \A m \in E : Min(E) <= m
  BY <1>7, MinOfNumbers
<1>9. EndOf(s) = Min(E)
  BY DEF EndOf
<1> HIDE DEF E
<1>10. EndOf(s) \in E /\ \A m \in E : EndOf(s) <= m
  BY <1>8, <1>9
<1>11. /\ EndOf(s) \in FirstOf(s)..Len(s) + 1
       /\ \A j \in FirstOf(s)..Len(s) : j < EndOf(s) => s[j] \notin Space
       /\ EndOf(s) <= Len(s) => s[EndOf(s)] \in Space
  BY <1>1, <1>6, <1>10 DEF E
<1>12. strip(s) = SubSeq(s, FirstOf(s), EndOf(s) - 1)
  BY DEF strip, FirstOf, EndOf
<1>13. \A i \in FirstOf(s)..EndOf(s) - 1 : s[i] \in Chars
  BY <1>1, <1>6, <1>11
<1>14. /\ SubSeq(s, FirstOf(s), EndOf(s) - 1) \in Seq(Chars)
       /\ Len(SubSeq(s, FirstOf(s), EndOf(s) - 1)) =
            IF FirstOf(s) <= EndOf(s) - 1 THEN (EndOf(s) - 1) - FirstOf(s) + 1 ELSE 0
       /\ \A i \in 1..(EndOf(s) - 1) - FirstOf(s) + 1 :
            SubSeq(s, FirstOf(s), EndOf(s) - 1)[i] = s[FirstOf(s) + i - 1]
  BY <1>6, <1>11, <1>13, SubSeqProperties
<1> QED
  BY <1>1, <1>6, <1>11, <1>12, <1>14

\* What strip leaves, when it leaves something, is the first word of the line
LEMMA StripIsFirst ==
  ASSUME NEW s \in Seq(Chars), strip(s) # <<>>
  PROVE  IsFirstWord(strip(s), s)
<1> DEFINE w == strip(s)
<1>1. /\ w \in Seq(Chars) /\ Len(w) = EndOf(s) - FirstOf(s) /\ Len(w) \in Nat
      /\ DOMAIN w = 1..Len(w) /\ Len(s) \in Nat
      /\ FirstOf(s) \in 1..Len(s) + 1 /\ EndOf(s) \in FirstOf(s)..Len(s) + 1
      /\ \A j \in 1..Len(s) : j < FirstOf(s) => s[j] \in Space
      /\ \A j \in FirstOf(s)..Len(s) : j < EndOf(s) => s[j] \notin Space
      /\ EndOf(s) <= Len(s) => s[EndOf(s)] \in Space
      /\ \A j \in 1..Len(w) : w[j] = s[FirstOf(s) + j - 1]
  <2>1. strip(s) \in Seq(Chars) /\ Len(strip(s)) = EndOf(s) - FirstOf(s)
    BY StripBounds
  <2>2. \A j \in 1..EndOf(s) - FirstOf(s) : strip(s)[j] = s[FirstOf(s) + j - 1]
    BY StripBounds
  <2>3. /\ FirstOf(s) \in 1..Len(s) + 1 /\ EndOf(s) \in FirstOf(s)..Len(s) + 1
        /\ \A j \in 1..Len(s) : j < FirstOf(s) => s[j] \in Space
        /\ \A j \in FirstOf(s)..Len(s) : j < EndOf(s) => s[j] \notin Space
        /\ EndOf(s) <= Len(s) => s[EndOf(s)] \in Space
    BY StripBounds
  <2>4. Len(w) \in Nat /\ DOMAIN w = 1..Len(w) /\ Len(s) \in Nat
    BY <2>1
  <2> QED
    BY <2>1, <2>2, <2>3, <2>4
<1>2. Len(w) # 0
  BY <1>1
<1> HIDE DEF w
<1>3. ToSet(w) \cap Space = {}
  <2>1. \A j \in 1..Len(w) : /\ FirstOf(s) + j - 1 \in FirstOf(s)..Len(s)
                             /\ FirstOf(s) + j - 1 < EndOf(s)
    BY <1>1
  <2> QED
    <3>1. \A j \in 1..Len(w) : w[j] \notin Space
      BY <1>1, <2>1
    <3>2. \A c \in ToSet(w) : c \notin Space
      BY <1>1, <3>1 DEF ToSet
    <3> QED
      BY <3>2
<1>4. FirstOf(s) - 1 \in 0..Len(s) - Len(w)
  BY <1>1, <1>2
<1>5. \A j \in 1..FirstOf(s) - 1 : s[j] \in Space
  BY <1>1, <1>4
<1>6. \A j \in DOMAIN w : w[j] = s[FirstOf(s) - 1 + j]
  <2>1. \A j \in DOMAIN w : FirstOf(s) + j - 1 = FirstOf(s) - 1 + j
    BY <1>1
  <2> QED
    BY <1>1, <2>1
<1>7. FirstOf(s) - 1 + Len(w) < Len(s) => s[FirstOf(s) - 1 + Len(w) + 1] \in Space
  <2>1. FirstOf(s) - 1 + Len(w) + 1 = EndOf(s)
    BY <1>1
  <2> QED
    BY <1>1, <2>1
<1>8. \E i \in 0..Len(s) - Len(w) :
       /\ \A j \in 1..i : s[j] \in Space
       /\ \A j \in DOMAIN w : w[j] = s[i + j]
       /\ i + Len(w) < Len(s) => s[i + Len(w) + 1] \in Space
  BY <1>4, <1>5, <1>6, <1>7
<1>9. IsFirstWord(w, s)
  <2>1. w # <<>>
    BY <1>2
  <2> QED
    BY <1>3, <1>8, <2>1 DEF IsFirstWord
<1> QED
  BY <1>9 DEF w

\* and there is only one.
LEMMA FirstIsStrip ==
  ASSUME NEW s \in Seq(Chars), NEW w \in Seq(Chars), IsFirstWord(w, s)
  PROVE  strip(s) = w
<1>1. PICK i \in 0..Len(s) - Len(w) :
       /\ \A j \in 1..i : s[j] \in Space
       /\ \A j \in DOMAIN w : w[j] = s[i + j]
       /\ i + Len(w) < Len(s) => s[i + Len(w) + 1] \in Space
  BY DEF IsFirstWord
<1>2. /\ Len(s) \in Nat /\ Len(w) \in Nat \ {0} /\ DOMAIN w = 1..Len(w) /\ i \in Nat
      /\ i + Len(w) <= Len(s)
  BY <1>1 DEF IsFirstWord
<1>3. \A j \in i + 1..i + Len(w) : s[j] \notin Space
  <2>1. SUFFICES ASSUME NEW j \in i + 1..i + Len(w) PROVE s[j] \notin Space
    OBVIOUS
  <2>2. j - i \in DOMAIN w /\ i + (j - i) = j
    BY <1>2
  <2>3. w[j - i] = s[j] /\ w[j - i] \in ToSet(w)
    BY <1>1, <2>2 DEF ToSet
  <2> QED
    BY <2>3 DEF IsFirstWord
<1>4. /\ FirstOf(s) \in 1..Len(s) + 1 /\ EndOf(s) \in FirstOf(s)..Len(s) + 1
      /\ \A j \in 1..Len(s) : j < FirstOf(s) => s[j] \in Space
      /\ FirstOf(s) <= Len(s) => s[FirstOf(s)] \notin Space
      /\ \A j \in FirstOf(s)..Len(s) : j < EndOf(s) => s[j] \notin Space
      /\ EndOf(s) <= Len(s) => s[EndOf(s)] \in Space
      /\ strip(s) \in Seq(Chars)
      /\ Len(strip(s)) = EndOf(s) - FirstOf(s)
      /\ \A j \in 1..EndOf(s) - FirstOf(s) : strip(s)[j] = s[FirstOf(s) + j - 1]
  BY StripBounds
<1>5. FirstOf(s) = i + 1
  <2>1. ~(FirstOf(s) <= i)
    <3>1. FirstOf(s) <= i => FirstOf(s) \in 1..i /\ FirstOf(s) <= Len(s)
      BY <1>2, <1>4
    <3> QED
      BY <1>1, <1>4, <3>1
  <2>2. ~(FirstOf(s) > i + 1)
    <3>1. i + 1 \in 1..Len(s) /\ i + 1 \in i + 1..i + Len(w)
      BY <1>2
    <3> QED
      BY <1>3, <1>4, <3>1
  <2> QED
    BY <1>2, <1>4, <2>1, <2>2
<1>6. EndOf(s) = i + Len(w) + 1
  <2>1. ~(EndOf(s) <= i + Len(w))
    <3>1. EndOf(s) <= i + Len(w) => EndOf(s) \in i + 1..i + Len(w) /\ EndOf(s) <= Len(s)
      BY <1>2, <1>4, <1>5
    <3> QED
      BY <1>3, <1>4, <3>1
  <2>2. ~(EndOf(s) > i + Len(w) + 1)
    <3>1. EndOf(s) > i + Len(w) + 1 =>
            i + Len(w) < Len(s) /\ i + Len(w) + 1 \in FirstOf(s)..Len(s)
      BY <1>2, <1>4, <1>5
    <3> QED
      BY <1>1, <1>4, <3>1
  <2> QED
    <3>1. EndOf(s) \in Int /\ i + Len(w) \in Int
      BY <1>2, <1>4, <1>5
    <3> QED
      BY <2>1, <2>2, <3>1
<1>7. Len(strip(s)) = Len(w)
  BY <1>2, <1>4, <1>5, <1>6
<1>8. \A j \in 1..Len(strip(s)) : strip(s)[j] = w[j]
  <2>1. SUFFICES ASSUME NEW j \in 1..Len(w) PROVE strip(s)[j] = w[j]
    BY <1>7
  <2>2. j \in 1..EndOf(s) - FirstOf(s) /\ FirstOf(s) + j - 1 = i + j
    BY <1>2, <1>5, <1>6
  <2>3. strip(s)[j] = s[FirstOf(s) + j - 1]
    BY <1>4, <2>2
  <2> QED
    BY <1>1, <1>2, <2>2, <2>3
<1> QED
  BY <1>4, <1>7, <1>8, SeqEqual

-----------------------------------------------------------------------------
(* Lines and what is read of them. *)

\* How far the file has been read, the line that ends at j, a word of n digits
ReadTo == Len(file) - Len(rest)
LineAt(j) == SubSeq(file, StartOf(j), j)
Ones(n) == [i \in 1..n |-> "1"]

\* The rest is the end of the file.
FileInv ==
  /\ file \in Seq(Chars) /\ rest \in Seq(Chars) /\ Len(rest) <= Len(file)
  /\ \A i \in 1..Len(rest) : rest[i] = file[ReadTo + i]
  /\ done => rest = <<>>

\* Only a line that is too long is ever read in part.
CutInv == \A j \in Ends : StartOf(j) <= ReadTo /\ ReadTo < j => ~Fits(LineAt(j))

\* LinesStayApart, for the lines read
TakenInv ==
  \A j \in Ends : j <= ReadTo /\ Fits(LineAt(j)) =>
    \A n \in 1..Len(LineAt(j)) : IsFirstWord(Ones(n), LineAt(j)) => Ones(n) \in keys

\* EveryLineOnce, for the lines read
CountInv ==
  (\A l \in Lines : Fits(l)) =>
    (\A k \in keys : Listed(k)) /\ lineno = Cardinality({j \in Ends : j <= ReadTo})

InputInv == FileInv /\ CutInv /\ TakenInv /\ CountInv

\* A line begins behind the line before it.
LEMMA LineBounds ==
  ASSUME file \in Seq(Chars), NEW j \in Ends
  PROVE  /\ j \in 1..Len(file) /\ Len(file) \in Nat
         /\ StartOf(j) \in 1..j
         /\ StartOf(j) = 1 \/ StartOf(j) - 1 \in Ends
         /\ \A i \in Ends : i < j => i < StartOf(j)
         /\ LineAt(j) \in Seq(Chars)
         /\ Len(LineAt(j)) = j - StartOf(j) + 1
         /\ \A i \in 1..j - StartOf(j) + 1 : LineAt(j)[i] = file[StartOf(j) + i - 1]
<1> DEFINE T == {0} \cup {i \in Ends : i < j}
<1>1. Len(file) \in Nat /\ DOMAIN file = 1..Len(file)
  OBVIOUS
<1>2. j \in 1..Len(file) /\ Ends \subseteq 1..Len(file)
  BY <1>1 DEF Ends
<1>3. j - 1 \in Nat /\ T \in SUBSET (0..j - 1) /\ T # {}
  <2>1. \A i \in Ends : i \in Nat /\ (i < j => i \in 0..j - 1)
    BY <1>1, <1>2
  <2>2. j - 1 \in Nat /\ 0 \in 0..j - 1
    BY <1>1, <1>2
  <2> QED
    BY <2>1, <2>2
<1>4. Max(T) \in T /\ \A m \in T : m <= Max(T)
  <2> HIDE DEF T
  <2> QED
    BY <1>3, MaxOfNumbers
<1>5. StartOf(j) = Max(T) + 1
  BY DEF StartOf
<1> HIDE DEF T
<1>6. Max(T) \in 0..j - 1 /\ (Max(T) = 0 \/ Max(T) \in Ends)
  BY <1>3, <1>4 DEF T
<1>7. \A i \in Ends : i < j => i <= Max(T)
  BY <1>4 DEF T
<1>8. /\ StartOf(j) \in 1..j
      /\ StartOf(j) = 1 \/ StartOf(j) - 1 \in Ends
      /\ \A i \in Ends : i < j => i < StartOf(j)
  BY <1>2, <1>5, <1>6, <1>7
<1>9. \A i \in StartOf(j)..j : file[i] \in Chars
  BY <1>1, <1>2, <1>8
<1>10. /\ SubSeq(file, StartOf(j), j) \in Seq(Chars)
       /\ Len(SubSeq(file, StartOf(j), j)) = IF StartOf(j) <= j THEN j - StartOf(j) + 1 ELSE 0
       /\ \A i \in 1..j - StartOf(j) + 1 :
            SubSeq(file, StartOf(j), j)[i] = file[StartOf(j) + i - 1]
  BY <1>2, <1>8, <1>9, SubSeqProperties
<1> QED
  BY <1>1, <1>2, <1>8, <1>10 DEF LineAt

\* What fgets reads ends where the line ends, or fills the buffer before that.
LEMMA ReadFacts ==
  ASSUME FileInv, rest # <<>>
  PROVE  LET n == ReadLength(rest)
             read == SubSeq(rest, 1, n)
         IN  /\ ReadTo \in Nat /\ n \in 1..Len(rest) /\ ReadTo + n <= Len(file)
             /\ read \in Seq(Chars) /\ Len(read) = n
             /\ \A i \in 1..n : read[i] = file[ReadTo + i]
             /\ \E j \in Ends :
                  /\ ReadTo < j /\ \A i \in Ends : ReadTo < i => j <= i
                  /\ ReadTo + n = j \/ (ReadTo + n < j /\ n = BufSize - 1)
<1> DEFINE n == ReadLength(rest)
           read == SubSeq(rest, 1, n)
           M == {Len(rest), BufSize - 1} \cup {i \in DOMAIN rest : rest[i] = Newline}
           After == {i \in Ends : ReadTo < i}
<1>1. /\ file \in Seq(Chars) /\ rest \in Seq(Chars) /\ Len(rest) <= Len(file)
      /\ \A i \in 1..Len(rest) : rest[i] = file[ReadTo + i]
  BY DEF FileInv
<1>2. /\ Len(rest) \in Nat /\ Len(rest) > 0 /\ Len(file) \in Nat /\ DOMAIN rest = 1..Len(rest)
      /\ DOMAIN file = 1..Len(file)
  BY <1>1
<1>3. ReadTo \in Nat /\ ReadTo + Len(rest) = Len(file) /\ ReadTo < Len(file)
  BY <1>1, <1>2 DEF ReadTo
<1>4. Len(file) \in Ends /\ Ends \subseteq 1..Len(file)
  <2>1. Len(file) \in 1..Len(file)
    BY <1>2, <1>3
  <2> QED
    BY <1>2, <2>1 DEF Ends
<1>5. Len(file) \in After /\ After \in SUBSET Nat
  <2>1. \A i \in Ends : i \in Nat
    BY <1>2, <1>4
  <2> QED
    BY <1>3, <1>4, <2>1
<1>6. PICK j \in After : \A i \in After : j <= i
  BY <1>5, LeastNumber
<1>7. j \in Ends /\ ReadTo < j /\ \A i \in Ends : ReadTo < i => j <= i
  BY <1>6
<1>8. M \in SUBSET Nat /\ M # {} /\ \A i \in M : i > 0
  BY <1>2, InputAssumption
<1>9. Min(M) \in M /\ \A m \in M : Min(M) <= m
  <2> HIDE DEF M
  <2> QED
    BY <1>8, MinOfNumbers
<1>10. n = Min(M)
  BY DEF ReadLength
<1> HIDE DEF n, M, After
<1>11. n \in M /\ \A m \in M : n <= m
  BY <1>9, <1>10
<1>12. n \in 1..Len(rest) /\ n <= BufSize - 1
  <2>1. Len(rest) \in M /\ BufSize - 1 \in M
    BY DEF M
  <2>2. n \in Nat /\ n > 0 /\ n <= Len(rest) /\ n <= BufSize - 1
    BY <1>8, <1>11, <2>1
  <2> QED
    BY <1>2, <2>2
<1>13. j \in 1..Len(file) /\ j - ReadTo \in 1..Len(rest) /\ ReadTo + (j - ReadTo) = j
  BY <1>2, <1>3, <1>4, <1>7
<1>14. j - ReadTo \in M
  <2>1. rest[j - ReadTo] = file[j]
    BY <1>1, <1>13
  <2>2. CASE j = Len(file)
    <3>1. j - ReadTo = Len(rest)
      BY <1>2, <2>2 DEF ReadTo
    <3> QED
      BY <3>1 DEF M
  <2>3. CASE file[j] = Newline
    BY <1>2, <1>13, <2>1, <2>3 DEF M
  <2> QED
    BY <1>7, <2>2, <2>3 DEF Ends
<1>15. n # BufSize - 1 => n >= j - ReadTo
  <2>1. SUFFICES ASSUME n # BufSize - 1 PROVE n >= j - ReadTo
    OBVIOUS
  <2>2. ReadTo + n \in Ends
    <3>1. CASE n = Len(rest)
      BY <1>3, <1>4, <3>1
    <3>2. CASE n \in DOMAIN rest /\ rest[n] = Newline
      <4>1. ReadTo + n \in 1..Len(file) /\ file[ReadTo + n] = Newline
        BY <1>1, <1>2, <1>3, <1>12, <3>2
      <4> QED
        BY <1>2, <4>1 DEF Ends
    <3> QED
      BY <1>11, <2>1, <3>1, <3>2 DEF M
  <2>3. ReadTo < ReadTo + n
    BY <1>3, <1>12
  <2>4. j <= ReadTo + n
    BY <1>7, <2>2, <2>3
  <2> QED
    BY <1>3, <1>12, <1>13, <2>4
<1>16. ReadTo + n = j \/ (ReadTo + n < j /\ n = BufSize - 1)
  <2>1. n <= j - ReadTo
    BY <1>11, <1>14
  <2>2. n \in Nat /\ j \in Nat /\ ReadTo \in Nat /\ n <= BufSize - 1 /\ BufSize \in Nat
    BY <1>2, <1>3, <1>12, <1>13, InputAssumption
  <2>3. n # BufSize - 1 => ReadTo + n = j
    BY <1>15, <2>1, <2>2
  <2>4. ReadTo + n = j \/ ReadTo + n < j
    BY <2>1, <2>2
  <2> QED
    BY <2>3, <2>4
<1>17. \A i \in 1..n : rest[i] \in Chars
  BY <1>1, <1>2, <1>12
<1>18. /\ read \in Seq(Chars) /\ Len(read) = (IF 1 <= n THEN n - 1 + 1 ELSE 0)
       /\ \A i \in 1..n - 1 + 1 : read[i] = rest[1 + i - 1]
  BY <1>12, <1>17, SubSeqProperties
<1> HIDE DEF read
<1>19. Len(read) = n /\ \A i \in 1..n : read[i] = file[ReadTo + i]
  <2>1. \A i \in 1..n : 1 + i - 1 = i /\ i \in 1..Len(rest) /\ i \in 1..n - 1 + 1
    BY <1>2, <1>12
  <2> QED
    BY <1>1, <1>12, <1>18, <2>1
<1>20. ReadTo + n <= Len(file)
  BY <1>3, <1>12, <1>2
<1> QED
  BY <1>3, <1>7, <1>12, <1>16, <1>18, <1>19, <1>20 DEF read, n

-----------------------------------------------------------------------------
(* Each line read keeps the invariant. *)

\* What is left of a sequence behind its n-th element
LEMMA RestOf ==
  ASSUME NEW s \in Seq(Chars), NEW n \in 0..Len(s)
  PROVE  /\ SubSeq(s, n + 1, Len(s)) \in Seq(Chars)
         /\ Len(SubSeq(s, n + 1, Len(s))) = Len(s) - n
         /\ \A i \in 1..Len(s) - n : SubSeq(s, n + 1, Len(s))[i] = s[n + i]
<1>1. Len(s) \in Nat /\ DOMAIN s = 1..Len(s) /\ n \in Nat /\ n <= Len(s)
  OBVIOUS
<1>2. \E a \in Int, b \in Nat : a = n + 1 /\ b = Len(s) /\ n <= b
  <2>1. n + 1 \in Int /\ Len(s) \in Nat /\ n <= Len(s)
    BY <1>1
  <2> QED
    BY <2>1
<1>3. PICK a \in Int, b \in Nat : a = n + 1 /\ b = Len(s) /\ n <= b
  BY <1>2
<1>4. \A i \in a..b : s[i] \in Chars
  BY <1>1, <1>3
<1>5. /\ SubSeq(s, a, b) \in Seq(Chars)
      /\ Len(SubSeq(s, a, b)) = IF a <= b THEN b - a + 1 ELSE 0
      /\ \A i \in 1..b - a + 1 : SubSeq(s, a, b)[i] = s[a + i - 1]
  BY <1>4, SubSeqProperties
<1>6. n \in Nat /\ a = n + 1 /\ n <= b
  BY <1>1, <1>3
<1>7. (IF a <= b THEN b - a + 1 ELSE 0) = b - n
  BY <1>6
<1>8. \A i \in 1..b - n : i \in 1..b - a + 1 /\ a + i - 1 = n + i
  BY <1>6
<1>9. \A i \in 1..b - n : SubSeq(s, a, b)[i] = s[n + i]
  BY <1>5, <1>8
<1>10. Len(SubSeq(s, a, b)) = b - n
  BY <1>5, <1>7
<1> QED
  BY <1>3, <1>5, <1>9, <1>10

\* A read that begins a line ends it or cuts it; one that begins inside a line is part
\* of a line too long for the buffer, of which InputInv says nothing.
LEMMA LineStep ==
  ASSUME InputInv, Line
  PROVE  InputInv'
<1> DEFINE n == ReadLength(rest)
           read == SubSeq(rest, 1, n)
           word == strip(read)
<1> USE DEF InputInv
<1>1. /\ file' = file /\ done' = done /\ rest # <<>> /\ lineno' = lineno + 1
      /\ rest' = SubSeq(rest, n + 1, Len(rest))
      /\ keys' = IF IsAddress(word) THEN keys \cup {word} ELSE keys
  BY DEF Line
<1>2. /\ ReadTo \in Nat /\ n \in 1..Len(rest) /\ ReadTo + n <= Len(file)
      /\ read \in Seq(Chars) /\ Len(read) = n
      /\ \A i \in 1..n : read[i] = file[ReadTo + i]
  BY <1>1, ReadFacts
<1>3. PICK j \in Ends :
       /\ ReadTo < j /\ \A i \in Ends : ReadTo < i => j <= i
       /\ ReadTo + n = j \/ (ReadTo + n < j /\ n = BufSize - 1)
  BY <1>1, ReadFacts
<1> HIDE DEF n, read, word
<1>4. /\ file \in Seq(Chars) /\ rest \in Seq(Chars) /\ Len(rest) <= Len(file)
      /\ \A i \in 1..Len(rest) : rest[i] = file[ReadTo + i]
  BY DEF FileInv
<1>5. Len(rest) \in Nat /\ DOMAIN rest = 1..Len(rest) /\ Len(file) \in Nat /\ n \in Nat
  BY <1>2, <1>4
<1>6. /\ Ends' = Ends /\ Lines' = Lines /\ \A i : StartOf(i)' = StartOf(i)
      /\ \A i : LineAt(i)' = LineAt(i)
      /\ \A k : Listed(k)' = Listed(k)
  BY <1>1 DEF Ends, Lines, StartOf, LineAt, Listed
<1>7. /\ rest' \in Seq(Chars) /\ Len(rest') = Len(rest) - n
      /\ \A i \in 1..Len(rest) - n : rest'[i] = rest[n + i]
  <2>1. n \in 0..Len(rest)
    BY <1>2, <1>5
  <2>2. /\ SubSeq(rest, n + 1, Len(rest)) \in Seq(Chars)
        /\ Len(SubSeq(rest, n + 1, Len(rest))) = Len(rest) - n
        /\ \A i \in 1..Len(rest) - n : SubSeq(rest, n + 1, Len(rest))[i] = rest[n + i]
    BY <1>4, <2>1, RestOf
  <2> QED
    BY <1>1, <2>2
<1>8. ReadTo' = ReadTo + n
  <2>1. Len(file') = Len(file) /\ Len(rest') = Len(rest) - n
    BY <1>1, <1>7
  <2>2. ReadTo' = Len(file) - (Len(rest) - n)
    BY <2>1 DEF ReadTo
  <2> QED
    BY <1>5, <2>2 DEF ReadTo
<1>9. FileInv'
  <2>1. Len(rest') <= Len(file')
    <3>1. Len(rest) - n <= Len(file)
      BY <1>4, <1>5
    <3> QED
      BY <1>1, <1>7, <3>1
  <2>2. \A i \in 1..Len(rest') : rest'[i] = file'[ReadTo' + i]
    <3>1. SUFFICES ASSUME NEW i \in 1..Len(rest) - n PROVE rest'[i] = file[ReadTo + n + i]
      BY <1>1, <1>7, <1>8
    <3>2. n + i \in 1..Len(rest) /\ ReadTo + (n + i) = ReadTo + n + i
      BY <1>2, <1>5
    <3>3. rest[n + i] = file[ReadTo + (n + i)]
      BY <1>4, <3>2
    <3> QED
      BY <1>7, <3>2, <3>3
  <2>3. done' = FALSE
    BY <1>1 DEF FileInv, Line
  <2> QED
    BY <1>1, <1>4, <1>7, <2>1, <2>2, <2>3 DEF FileInv
<1>10. /\ j \in 1..Len(file)
       /\ StartOf(j) \in 1..j
       /\ StartOf(j) = 1 \/ StartOf(j) - 1 \in Ends
       /\ LineAt(j) \in Seq(Chars)
       /\ Len(LineAt(j)) = j - StartOf(j) + 1
       /\ \A i \in 1..j - StartOf(j) + 1 : LineAt(j)[i] = file[StartOf(j) + i - 1]
  BY <1>4, LineBounds
<1>11. StartOf(j) <= ReadTo + 1
  <2>1. CASE StartOf(j) = 1
    BY <1>2, <2>1
  <2>2. CASE StartOf(j) - 1 \in Ends
    <3>1. ~(ReadTo < StartOf(j) - 1)
      <4>1. j \in Nat /\ StartOf(j) \in Nat /\ StartOf(j) <= j
        BY <1>10
      <4>2. ~(j <= StartOf(j) - 1)
        BY <4>1
      <4> QED
        BY <1>3, <2>2, <4>2
    <3> QED
      BY <1>2, <1>10, <3>1
  <2> QED
    BY <1>10, <2>1, <2>2
<1>12. ReadTo + n < j => ~Fits(LineAt(j))
  <2>1. SUFFICES ASSUME ReadTo + n < j PROVE ~(Len(LineAt(j)) < BufSize)
    BY DEF Fits
  <2>2. n = BufSize - 1
    BY <1>2, <1>3, <1>5, <1>10, <2>1
  <2>3. j \in Int /\ StartOf(j) \in Int /\ BufSize \in Int
    BY <1>10, InputAssumption
  <2> QED
    BY <1>2, <1>5, <1>10, <1>11, <2>1, <2>2, <2>3
<1>13. ASSUME NEW i \in Ends, ReadTo < i PROVE i = j \/ (i > j /\ StartOf(i) > ReadTo + n)
  <2>1. j <= i
    BY <1>3, <1>13
  <2>2. i \in Nat /\ StartOf(i) \in Nat /\ (j < i => j < StartOf(i))
    BY <1>4, LineBounds
  <2>3. ReadTo + n \in Nat /\ j \in Nat
    BY <1>2, <1>5, <1>10
  <2>4. ReadTo + n <= j
    BY <1>3, <2>3
  <2> QED
    BY <2>1, <2>2, <2>3, <2>4
<1>14. CutInv'
  <2>1. SUFFICES ASSUME NEW i \in Ends, StartOf(i) <= ReadTo + n, ReadTo + n < i
                 PROVE  ~Fits(LineAt(i))
    BY <1>6, <1>8 DEF CutInv, Fits
  <2>2. i \in Nat /\ StartOf(i) \in Nat
    BY <1>4, LineBounds
  <2>3. ReadTo < i
    BY <1>2, <1>5, <2>1, <2>2
  <2>4. i = j
    BY <1>2, <1>5, <1>13, <2>1, <2>2, <2>3
  <2> QED
    BY <1>12, <2>1, <2>4
<1>15. ReadTo + n = j /\ StartOf(j) = ReadTo + 1 => read = LineAt(j)
  <2>1. SUFFICES ASSUME ReadTo + n = j, StartOf(j) = ReadTo + 1 PROVE read = LineAt(j)
    OBVIOUS
  <2>2. j - StartOf(j) + 1 = n
    BY <1>2, <1>5, <2>1
  <2>3. \A i \in 1..n : StartOf(j) + i - 1 = ReadTo + i
    BY <1>2, <2>1
  <2>4. \A i \in 1..Len(read) : read[i] = LineAt(j)[i]
    BY <1>2, <1>10, <2>2, <2>3
  <2> QED
    BY <1>2, <1>10, <2>2, <2>4, SeqEqual
<1>16. TakenInv'
  <2>1. SUFFICES ASSUME NEW i \in Ends, i <= ReadTo + n, Fits(LineAt(i)),
                        NEW m \in 1..Len(LineAt(i)), IsFirstWord(Ones(m), LineAt(i))
                 PROVE  Ones(m) \in keys'
    <3>1. SUFFICES ASSUME NEW i \in Ends', i <= ReadTo', Fits(LineAt(i))',
                          NEW m \in (1..Len(LineAt(i)))', IsFirstWord(Ones(m), LineAt(i))'
                   PROVE  (Ones(m) \in keys)'
      BY DEF TakenInv
    <3>2. LineAt(i)' = LineAt(i)
      BY <1>6
    <3>3. i \in Ends /\ i <= ReadTo + n /\ m \in 1..Len(LineAt(i))
      BY <1>6, <1>8, <3>1, <3>2
    <3>4. Fits(LineAt(i))
      BY <3>1, <3>2 DEF Fits
    <3>5. IsFirstWord(Ones(m), LineAt(i))
      BY <3>1, <3>2 DEF IsFirstWord, Ones, ToSet
    <3> QED
      BY <2>1, <3>3, <3>4, <3>5 DEF Ones
  <2>2. CASE i <= ReadTo
    <3>1. Ones(m) \in keys
      BY <2>1, <2>2 DEF TakenInv
    <3> QED
      BY <1>1, <3>1
  <2>3. CASE ~(i <= ReadTo)
    <3>1. i \in Nat /\ ReadTo < i
      BY <1>2, <1>4, <2>3, LineBounds
    <3>2. i = j /\ ReadTo + n = j
      BY <1>2, <1>3, <1>5, <1>10, <1>13, <2>1, <3>1
    <3>3. StartOf(j) = ReadTo + 1
      <4>1. ~(StartOf(j) <= ReadTo)
        BY <1>3, <2>1, <3>2 DEF CutInv
      <4> QED
        BY <1>2, <1>10, <1>11, <4>1
    <3>4. read = LineAt(j)
      BY <1>15, <3>2, <3>3
    <3>5. m \in Nat /\ m > 0
      BY <1>4, <2>1, LineBounds
    <3>6. Ones(m) \in Seq(Chars) /\ ToSet(Ones(m)) = {"1"} /\ Ones(m) # <<>>
      <4>1. Ones(m) \in [1..m -> Chars]
        BY DEF Ones, Chars
      <4>2. Ones(m) \in Seq(Chars) /\ DOMAIN Ones(m) = 1..m
        BY <3>5, <4>1
      <4>3. \A k \in 1..m : Ones(m)[k] = "1"
        BY DEF Ones
      <4>4. 1 \in DOMAIN Ones(m)
        BY <3>5, <4>2
      <4> QED
        BY <4>2, <4>3, <4>4 DEF ToSet
    <3>7. word = Ones(m)
      BY <1>2, <2>1, <3>2, <3>4, <3>6, FirstIsStrip DEF word
    <3> QED
      BY <1>1, <3>6, <3>7 DEF IsAddress
  <2> QED
    BY <2>2, <2>3
<1>17. CountInv'
  <2>1. SUFFICES ASSUME \A l \in Lines : Fits(l)
                 PROVE  /\ \A k \in keys' : Listed(k)
                        /\ lineno' = Cardinality({i \in Ends : i <= ReadTo + n})
    BY <1>6, <1>8 DEF CountInv, Fits
  <2>2. (\A k \in keys : Listed(k)) /\ lineno = Cardinality({i \in Ends : i <= ReadTo})
    BY <2>1 DEF CountInv
  <2>3. LineAt(j) \in Lines
    BY DEF Lines, LineAt
  <2>4. ReadTo + n = j
    BY <1>3, <1>12, <2>1, <2>3
  <2>5. StartOf(j) = ReadTo + 1
    <3>1. ~(StartOf(j) <= ReadTo)
      BY <1>3, <2>1, <2>3 DEF CutInv
    <3> QED
      BY <1>2, <1>10, <1>11, <3>1
  <2>6. read = LineAt(j)
    BY <1>15, <2>4, <2>5
  <2>7. IsAddress(word) => Listed(word)
    <3>1. IsAddress(word) => IsFirstWord(word, LineAt(j))
      BY <1>2, <2>6, StripIsFirst DEF IsAddress, word
    <3> QED
      BY <2>3, <3>1 DEF Listed
  <2>8. \A k \in keys' : Listed(k)
    BY <1>1, <2>2, <2>7
  <2>9. {i \in Ends : i <= ReadTo + n} = {i \in Ends : i <= ReadTo} \cup {j}
    <3>1. \A i \in Ends : i \in Nat
      BY <1>4, <1>5 DEF Ends
    <3>2. \A i \in Ends : i <= j <=> i <= ReadTo \/ i = j
      <4>1. SUFFICES ASSUME NEW i \in Ends PROVE i <= j <=> i <= ReadTo \/ i = j
        OBVIOUS
      <4>2. i \in Nat /\ j \in Nat /\ ReadTo \in Nat /\ ReadTo < j
        BY <1>2, <1>3, <1>10, <3>1
      <4>3. ReadTo < i => j <= i
        BY <1>3
      <4> QED
        BY <4>2, <4>3
    <3> QED
      BY <2>4, <3>2
  <2>10. IsFiniteSet({i \in Ends : i <= ReadTo}) /\ j \notin {i \in Ends : i <= ReadTo}
    <3>1. Ends \subseteq 1..Len(file)
      BY <1>4, <1>5 DEF Ends
    <3>2. IsFiniteSet(1..Len(file))
      BY <1>5, FS_Interval
    <3>3. {i \in Ends : i <= ReadTo} \in SUBSET (1..Len(file))
      BY <3>1
    <3>4. ~(j <= ReadTo)
      BY <1>2, <1>3, <1>10
    <3> QED
      BY <3>2, <3>3, <3>4, FS_Subset
  <2>11. Cardinality({i \in Ends : i <= ReadTo} \cup {j}) =
           Cardinality({i \in Ends : i <= ReadTo}) + 1
    BY <2>10, FS_AddElement
  <2> QED
    BY <1>1, <2>2, <2>8, <2>9, <2>11
<1> QED
  BY <1>9, <1>14, <1>16, <1>17

LEMMA InputKept ==
  ASSUME InputInv, UNCHANGED <<file, rest, lineno, keys>>, done' = done \/ rest = <<>>
  PROVE  InputInv'
<1>1. /\ Ends' = Ends /\ Lines' = Lines /\ \A i : StartOf(i)' = StartOf(i)
      /\ \A i : LineAt(i)' = LineAt(i)
      /\ \A k : Listed(k)' = Listed(k)
      /\ ReadTo' = ReadTo
  BY DEF Ends, Lines, StartOf, LineAt, Listed, ReadTo
<1>2. FileInv'
  BY <1>1 DEF InputInv, FileInv
<1>3. CutInv'
  BY <1>1 DEF InputInv, CutInv, Fits
<1>4. TakenInv'
  <2>1. SUFFICES ASSUME NEW i \in Ends', i <= ReadTo', Fits(LineAt(i))',
                        NEW m \in (1..Len(LineAt(i)))', IsFirstWord(Ones(m), LineAt(i))'
                 PROVE  (Ones(m) \in keys)'
    BY DEF TakenInv
  <2>2. LineAt(i)' = LineAt(i)
    BY <1>1
  <2>3. i \in Ends /\ i <= ReadTo /\ m \in 1..Len(LineAt(i))
    BY <1>1, <2>1, <2>2
  <2>4. Fits(LineAt(i))
    BY <2>1, <2>2 DEF Fits
  <2>5. IsFirstWord(Ones(m), LineAt(i))
    BY <2>1, <2>2 DEF IsFirstWord, Ones, ToSet
  <2> QED
    BY <2>3, <2>4, <2>5 DEF InputInv, TakenInv, Ones
<1>5. CountInv'
  BY <1>1 DEF InputInv, CountInv, Fits
<1> QED
  BY <1>2, <1>3, <1>4, <1>5 DEF InputInv

LEMMA InputInit == Init => InputInv
<1> SUFFICES ASSUME Init PROVE InputInv
  OBVIOUS
<1>1. file \in Seq(Chars)
  <2>1. file = <<>> \/ file \in BoundedSeq(Chars, MaxLength)
    BY DEF Init, FileOpened
  <2>2. ASSUME file \in BoundedSeq(Chars, MaxLength) PROVE file \in Seq(Chars)
    <3>1. PICK n \in 0..MaxLength : file \in [1..n -> Chars]
      BY <2>2 DEF BoundedSeq, SeqOf
    <3>2. n \in Nat
      BY <3>1, StartAssumption
    <3> QED
      BY <3>1, <3>2
  <2>3. <<>> \in Seq(Chars)
    OBVIOUS
  <2> QED
    BY <2>1, <2>2, <2>3
<1>2. rest = file /\ lineno = 0 /\ keys = {} /\ done = FALSE
  BY DEF Init, FileOpened
<1>3. ReadTo = 0 /\ Len(file) \in Nat
  BY <1>1, <1>2 DEF ReadTo
<1>4. FileInv
  BY <1>1, <1>2, <1>3 DEF FileInv
<1>5. \A j \in Ends : j \in Nat /\ j > 0 /\ StartOf(j) \in Nat /\ StartOf(j) > 0
  BY <1>1, LineBounds
<1>6. CutInv /\ TakenInv
  BY <1>3, <1>5 DEF CutInv, TakenInv
<1>7. {j \in Ends : j <= ReadTo} = {}
  BY <1>3, <1>5
<1>8. CountInv
  BY <1>2, <1>7, FS_EmptySet DEF CountInv
<1> QED
  BY <1>4, <1>6, <1>8 DEF InputInv

\* At the end of the file all lines have been read.
LEMMA AllRead ==
  ASSUME InputInv
  PROVE  LinesTaken
<1> SUFFICES ASSUME done PROVE LinesTaken
  BY DEF LinesTaken, EveryLineOnce, LinesStayApart
<1>1. file \in Seq(Chars) /\ rest = <<>>
  BY DEF InputInv, FileInv
<1>2. ReadTo = Len(file) /\ Len(file) \in Nat
  BY <1>1 DEF ReadTo
<1>3. \A j \in Ends : j <= ReadTo
  BY <1>1, <1>2, LineBounds
<1>4. EveryLineOnce
  <2>1. {j \in Ends : j <= ReadTo} = Ends
    BY <1>3
  <2> QED
    BY <2>1 DEF EveryLineOnce, InputInv, CountInv
<1>5. LinesStayApart
  <2>1. \A l \in Lines : \E j \in Ends : l = LineAt(j)
    BY DEF Lines, LineAt
  <2> QED
    BY <1>3, <2>1 DEF LinesStayApart, InputInv, TakenInv, Ones
<1> QED
  BY <1>4, <1>5 DEF LinesTaken

\* Whatever the file and the size of the buffer, if every line fits the table gets an entry
\* for each line that begins with an address and for no other; and a line that is too
\* long never costs another line its entry.
THEOREM AllLines == Spec => []LinesTaken
<1>1. InputInv /\ [Next]_vars => InputInv'
  <2> SUFFICES ASSUME InputInv, [Next]_vars
               PROVE  InputInv'
    OBVIOUS
  <2>1. CASE Line
    BY <2>1, LineStep
  <2>2. CASE EndOfFile
    BY <2>2, InputKept DEF EndOfFile
  <2>3. CASE UNCHANGED lineVars
    BY <2>3, InputKept DEF lineVars
  <2> QED
    BY <2>1, <2>2, <2>3 DEF Next, result_new, vars
<1> QED
  BY <1>1, InputInit, AllRead, PTL DEF Spec

-----------------------------------------------------------------------------
(* The checksum. *)

Ring == Word - 1

\* A sum over the words of a packet exists: F says what the next word, at place i, makes of it.
LEMMA RunningSum ==
  ASSUME NEW n \in Nat, NEW F \in [Int \X (1..n) -> Int]
  PROVE  \E g \in [0..n -> Int] : g[0] = 0 /\ \A i \in 1..n : g[i] = F[<<g[i - 1], i>>]
<1> DEFINE IsSum(g, m) == g[0] = 0 /\ \A i \in 1..m : g[i] = F[<<g[i - 1], i>>]
           T == {m \in 0..n : \A g \in [0..m -> Int] : ~IsSum(g, m)}
<1> SUFFICES T = {}
  <2>1. n \in 0..n
    OBVIOUS
  <2> QED
    BY <2>1
<1> SUFFICES ASSUME T # {} PROVE FALSE
  <2> HIDE DEF T
  <2> QED
    OBVIOUS
<1>1. PICK m \in T : \A k \in T : m <= k
  <2>1. T \in SUBSET Nat
    OBVIOUS
  <2> HIDE DEF T
  <2> QED
    BY <2>1, LeastNumber
<1>2. m # 0
  <2>1. SUFFICES ASSUME m = 0 PROVE FALSE
    OBVIOUS
  <2>2. [i \in 0..0 |-> 0] \in [0..m -> Int] /\ IsSum([i \in 0..0 |-> 0], m)
    BY <2>1
  <2> QED
    BY <1>1, <2>2
<1>3. m \in 1..n /\ m - 1 \in 0..n /\ ~(m <= m - 1)
  BY <1>1, <1>2
<1>4. PICK g \in [0..m - 1 -> Int] : IsSum(g, m - 1)
  BY <1>1, <1>3
<1> DEFINE h == [i \in 0..m |-> IF i = m THEN F[<<g[m - 1], m>>] ELSE g[i]]
<1>5. F[<<g[m - 1], m>>] \in Int
  BY <1>3
<1>6. h \in [0..m -> Int]
  BY <1>3, <1>5
<1>7. \A i \in 0..m - 1 : h[i] = g[i]
  BY <1>3
<1>8. h[0] = 0
  BY <1>3, <1>4, <1>7
<1>9. h[m] = F[<<h[m - 1], m>>]
  <2>1. h[m - 1] = g[m - 1] /\ m \in 0..m
    BY <1>3, <1>7
  <2>2. h[m] = F[<<g[m - 1], m>>]
    BY <2>1
  <2> HIDE DEF h
  <2> QED
    BY <2>1, <2>2
<1>10. \A i \in 1..m : h[i] = F[<<h[i - 1], i>>]
  <2>1. SUFFICES ASSUME NEW i \in 1..m, i # m PROVE h[i] = F[<<h[i - 1], i>>]
    BY <1>9
  <2>2. i \in 1..m - 1 /\ i \in 0..m - 1 /\ i - 1 \in 0..m - 1
    BY <1>3, <2>1
  <2> HIDE DEF h
  <2> QED
    BY <1>4, <1>7, <2>2
<1> HIDE DEF h
<1> QED
  BY <1>1, <1>6, <1>8, <1>10

\* Words and their numbers
LEMMA WordFacts ==
  /\ Byte \in Nat /\ Byte > 1 /\ Word = Byte * Byte /\ Word \in Nat /\ Word >= 4 /\ Word >= Byte
  /\ Ring \in Nat /\ Ring > 0 /\ Ring = Byte * Byte - 1
  /\ IntLim \in Nat /\ (MaxPacket \div 2 + 2) * Ring < IntLim /\ MaxPacket \in Nat
<1>1. Byte \in Nat /\ Byte > 1 /\ (MaxPacket \div 2 + 2) * (Word - 1) < IntLim
  BY BytesFit
<1> HIDE DEF Byte
<1>2. Byte * Byte \in Nat /\ Byte * Byte >= 4 /\ Byte * Byte >= Byte
  BY <1>1
<1>3. Word * Word \in Nat
  BY <1>2 DEF Word
<1>4. IntLim \in Nat
  BY <1>3 DEF IntLim
<1> QED
  BY <1>1, <1>2, <1>4, ChecksumAssumption DEF Word, Ring

\* A sum that fits is not changed by the width of an int.
LEMMA SmallIsExact ==
  ASSUME NEW x \in Nat, x < IntLim
  PROVE  Int32(x) = x
<1>1. IntLim \in Nat
  BY WordFacts
<1> DEFINE L == IntLim
<1> HIDE DEF L
<1>2. L \in Nat /\ x < L
  BY <1>1 DEF L
<1>3. x + L < 2 * L /\ x + L \in Nat /\ 2 * L \in Nat \ {0}
  BY <1>2
<1>4. (x + L) % (2 * L) = x + L
  BY <1>3
<1>5. ((x + L) % (2 * L)) - L = x
  BY <1>2, <1>4
<1> QED
  BY <1>5 DEF L, Int32

\* The numbers of a byte's bytes
LEMMA HalvesOfWord ==
  ASSUME NEW c \in 0..Ring
  PROVE  /\ c % Byte \in 0..Byte - 1 /\ c \div Byte \in 0..Byte - 1
         /\ c = (c % Byte) + Byte * (c \div Byte)
<1>1. Byte \in Nat /\ Byte > 1 /\ Ring = Byte * Byte - 1 /\ c \in Nat /\ c < Byte * Byte
  BY WordFacts
<1> HIDE DEF Byte, Ring
<1>2. c % Byte \in 0..Byte - 1 /\ c \div Byte \in Nat /\ c = Byte * (c \div Byte) + (c % Byte)
  <2>1. PICK b \in Nat : b = Byte
    BY <1>1
  <2>2. b > 1
    BY <1>1, <2>1
  <2>3. c % b \in 0..b - 1 /\ c \div b \in Nat /\ c = b * (c \div b) + (c % b)
    BY <1>1, <2>2
  <2> QED
    BY <2>1, <2>3
<1>3. c \div Byte < Byte
  <2>1. SUFFICES ASSUME c \div Byte >= Byte PROVE FALSE
    BY <1>1, <1>2
  <2> DEFINE q == c \div Byte
             r == c % Byte
  <2>2. q \in Nat /\ r \in Nat /\ c = Byte * q + r /\ q >= Byte
    BY <1>1, <1>2, <2>1
  <2> HIDE DEF q, r
  <2>3. Byte * q >= Byte * Byte
    BY <1>1, <2>2
  <2> QED
    BY <1>1, <2>2, <2>3
<1> QED
  BY <1>1, <1>2, <1>3

\* After the two additions of halves a sum and its complement add up to a multiple of the ring.
LEMMA ComplementOfFolded ==
  ASSUME NEW s \in Nat, s < IntLim, NEW c, c = Word - 1 - (Folded(s) % Word)
  PROVE  /\ c \in 0..Ring
         /\ \E q \in Nat : q > 0 /\ s + c = Ring * q
<1>1. /\ Word \in Nat /\ Word >= 4 /\ Ring = Word - 1 /\ IntLim = (Word * Word) \div 2
  BY WordFacts DEF Ring, IntLim
<1> DEFINE q == s \div Word
           r == s % Word
           once == q + r
           W == Word
<1> HIDE DEF W
<1>2. q \in Nat /\ r \in Nat /\ r < Word /\ s = Word * q + r
  BY <1>1
<1>3. q < Word
  <2>1. SUFFICES ASSUME q >= Word PROVE FALSE
    BY <1>1, <1>2
  <2> HIDE DEF q, r, Word
  <2>2. Word * q >= Word * Word
    BY <1>1, <1>2, <2>1
  <2>3. Word * Word \in Nat /\ (Word * Word) \div 2 <= Word * Word
    BY <1>1
  <2> QED
    BY <1>1, <1>2, <2>2, <2>3
<1>4. Folded(s) = once + once \div Word
  BY DEF Folded
<1> HIDE DEF q, r, Word
<1>5. once \in Nat /\ once < 2 * Word - 1
  BY <1>1, <1>2, <1>3
<1>6. CASE once < Word
  <2>1. once \div Word = 0 /\ (once + 0) % Word = once
    BY <1>1, <1>5, <1>6
  <2>2. c = Word - 1 - once
    BY <1>4, <2>1
  <2>3. c \in 0..Ring
    BY <1>1, <1>5, <1>6, <2>2
  <2>4. s + c = Ring * (q + 1)
    BY <1>1, <1>2, <2>2
  <2> QED
    BY <1>2, <2>3, <2>4
<1>7. CASE once >= Word
  <2>1. once \div Word = 1
    BY <1>1, <1>5, <1>7
  <2>2. (once + 1) % Word = once + 1 - Word
    <3>1. once + 1 - Word \in Nat /\ once + 1 - Word < Word
      BY <1>1, <1>5, <1>7
    <3> QED
      BY <1>1, <1>5, <3>1
  <2>3. c = Word - 1 - (once + 1 - Word)
    BY <1>4, <2>1, <2>2
  <2>4. c \in 0..Ring
    BY <1>1, <1>5, <1>7, <2>3
  <2>5. s + c = Ring * (q + 2)
    BY <1>1, <1>2, <2>3
  <2> QED
    BY <1>2, <2>4, <2>5
<1> QED
  BY <1>1, <1>5, <1>6, <1>7

LEMMA SumsAreNumbers ==
  ASSUME NEW n \in Nat, NEW g, g[0] \in Int, \A i \in 1..n : g[i - 1] \in Int => g[i] \in Int
  PROVE  \A i \in 0..n : g[i] \in Int
<1> DEFINE T == {i \in 0..n : g[i] \notin Int}
<1>1. SUFFICES ASSUME T # {} PROVE FALSE
  OBVIOUS
<1>2. T \in SUBSET Nat
  OBVIOUS
<1>3. PICK i \in T : \A j \in T : i <= j
  <2> HIDE DEF T
  <2> QED
    BY <1>1, <1>2, LeastNumber
<1>4. i \in 0..n /\ i # 0
  BY <1>3
<1>5. i \in 1..n /\ i - 1 \in 0..n /\ ~(i <= i - 1)
  BY <1>4
<1>6. i - 1 \notin T
  BY <1>3, <1>5
<1>7. g[i - 1] \in Int
  BY <1>5, <1>6
<1> QED
  BY <1>3, <1>5, <1>7

\* A byte of a packet, and a word of two, is a number.
LEMMA WordTypes ==
  ASSUME NEW buf \in Seq(0..Byte - 1), NEW i \in 1..Len(buf) \div 2
  PROVE  WordAt(buf, i) \in Int /\ NetworkWordAt(buf, i) \in Int
<1>1. 2 * i - 1 \in 1..Len(buf) /\ 2 * i \in 1..Len(buf)
  OBVIOUS
<1>2. Byte \in Int /\ \A k \in 1..Len(buf) : buf[k] \in 0..Byte - 1
  BY WordFacts
<1>3. buf[2 * i - 1] \in Int /\ buf[2 * i] \in Int
  BY <1>1, <1>2
<1>4. Byte * buf[2 * i - 1] \in Int /\ Byte * buf[2 * i] \in Int
  <2>1. \A a, b \in Int : a * b \in Int
    OBVIOUS
  <2> QED
    BY <1>2, <1>3, <2>1
<1> QED
  BY <1>3, <1>4 DEF WordAt, NetworkWordAt

\* What the loop of checksum leaves in sum after each word
LEMMA SumOfWords ==
  ASSUME NEW buf \in Seq(0..Byte - 1)
  PROVE  LET m == Len(buf) \div 2
         IN  \E s \in [0..m -> Int] :
               /\ s[0] = 0 /\ \A i \in 1..m : s[i] = Int32(s[i - 1] + WordAt(buf, i))
               /\ SumOf(buf) = Int32(s[m] + (IF Len(buf) % 2 = 1 THEN Last(buf) ELSE 0))
<1> DEFINE m == Len(buf) \div 2
           sum[i \in 0..m] == IF i = 0 THEN 0 ELSE Int32(sum[i - 1] + WordAt(buf, i))
           F == [p \in Int \X (1..m) |-> Int32(p[1] + WordAt(buf, p[2]))]
<1>1. SumOf(buf) = Int32(sum[m] + (IF Len(buf) % 2 = 1 THEN Last(buf) ELSE 0))
  BY DEF SumOf
<1>2. m \in Nat /\ DOMAIN buf = 1..Len(buf) /\ Len(buf) \in Nat
  OBVIOUS
<1>3. \A x \in Int : Int32(x) \in Int
  BY WordFacts DEF Int32
<1>4. \A i \in 1..m : WordAt(buf, i) \in Int
  BY WordTypes
<1> HIDE DEF m
<1>5. F \in [Int \X (1..m) -> Int]
  BY <1>3, <1>4
<1>6. PICK g \in [0..m -> Int] : g[0] = 0 /\ \A i \in 1..m : g[i] = F[<<g[i - 1], i>>]
  <2> HIDE DEF F
  <2> QED
    BY <1>2, <1>5, RunningSum
<1>7. \A i \in 1..m : g[i] = Int32(g[i - 1] + WordAt(buf, i))
  <2>1. \A i \in 1..m : <<g[i - 1], i>> \in Int \X (1..m)
    BY <1>2
  <2> QED
    BY <1>6, <2>1
<1>8. g = [i \in 0..m |-> IF i = 0 THEN 0 ELSE Int32(g[i - 1] + WordAt(buf, i))]
  <2>1. \A i \in 0..m : g[i] = IF i = 0 THEN 0 ELSE Int32(g[i - 1] + WordAt(buf, i))
    BY <1>2, <1>6, <1>7
  <2> QED
    BY <2>1
<1>9. sum = [i \in 0..m |-> IF i = 0 THEN 0 ELSE Int32(sum[i - 1] + WordAt(buf, i))]
  BY <1>8
<1> HIDE DEF sum
<1>10. sum[0] = 0 /\ \A i \in 1..m : sum[i] = Int32(sum[i - 1] + WordAt(buf, i))
  <2>1. 0 \in 0..m /\ \A i \in 1..m : i \in 0..m /\ i # 0
    BY <1>2
  <2> QED
    BY <1>9, <2>1
<1>11. sum \in [0..m -> Int]
  <2>1. ASSUME NEW i \in 1..m, sum[i - 1] \in Int PROVE sum[i] \in Int
    <3>1. sum[i - 1] + WordAt(buf, i) \in Int
      BY <1>4, <2>1
    <3> QED
      BY <1>3, <1>10, <3>1
  <2>2. m \in Nat /\ sum[0] \in Int /\ \A i \in 1..m : sum[i - 1] \in Int => sum[i] \in Int
    BY <1>2, <1>10, <2>1
  <2>3. \A i \in 0..m : sum[i] \in Int
    BY <2>2, SumsAreNumbers
  <2> QED
    BY <1>9, <2>3
<1> QED
  BY <1>1, <1>10, <1>11 DEF m

\* and what the receiver counts
LEMMA NetworkSumOfWords ==
  ASSUME NEW buf \in Seq(0..Byte - 1)
  PROVE  LET m == Len(buf) \div 2
         IN  \E s \in [0..m -> Int] :
               /\ s[0] = 0 /\ \A i \in 1..m : s[i] = s[i - 1] + NetworkWordAt(buf, i)
               /\ NetworkSum(buf) = s[m]
<1> DEFINE m == Len(buf) \div 2
           sum[i \in 0..m] == IF i = 0 THEN 0 ELSE sum[i - 1] + NetworkWordAt(buf, i)
           F == [p \in Int \X (1..m) |-> p[1] + NetworkWordAt(buf, p[2])]
<1>1. NetworkSum(buf) = sum[m]
  BY DEF NetworkSum
<1>2. m \in Nat /\ DOMAIN buf = 1..Len(buf) /\ Len(buf) \in Nat
  OBVIOUS
<1>3. \A i \in 1..m : NetworkWordAt(buf, i) \in Int
  BY WordTypes
<1> HIDE DEF m
<1>4. F \in [Int \X (1..m) -> Int]
  BY <1>3
<1>5. PICK g \in [0..m -> Int] : g[0] = 0 /\ \A i \in 1..m : g[i] = F[<<g[i - 1], i>>]
  <2> HIDE DEF F
  <2> QED
    BY <1>2, <1>4, RunningSum
<1>6. \A i \in 1..m : g[i] = g[i - 1] + NetworkWordAt(buf, i)
  <2>1. \A i \in 1..m : <<g[i - 1], i>> \in Int \X (1..m)
    BY <1>2
  <2> QED
    BY <1>5, <2>1
<1>7. g = [i \in 0..m |-> IF i = 0 THEN 0 ELSE g[i - 1] + NetworkWordAt(buf, i)]
  <2>1. \A i \in 0..m : g[i] = IF i = 0 THEN 0 ELSE g[i - 1] + NetworkWordAt(buf, i)
    BY <1>2, <1>5, <1>6
  <2> QED
    BY <2>1
<1>8. sum = [i \in 0..m |-> IF i = 0 THEN 0 ELSE sum[i - 1] + NetworkWordAt(buf, i)]
  BY <1>7
<1> HIDE DEF sum
<1>9. sum[0] = 0 /\ \A i \in 1..m : sum[i] = sum[i - 1] + NetworkWordAt(buf, i)
  <2>1. 0 \in 0..m /\ \A i \in 1..m : i \in 0..m /\ i # 0
    BY <1>2
  <2> QED
    BY <1>8, <2>1
<1>10. sum \in [0..m -> Int]
  <2>1. ASSUME NEW i \in 1..m, sum[i - 1] \in Int PROVE sum[i] \in Int
    <3>1. sum[i - 1] + NetworkWordAt(buf, i) \in Int
      BY <1>3, <2>1
    <3> QED
      BY <1>9, <3>1
  <2>2. m \in Nat /\ sum[0] \in Int /\ \A i \in 1..m : sum[i - 1] \in Int => sum[i] \in Int
    BY <1>2, <1>9, <2>1
  <2>3. \A i \in 0..m : sum[i] \in Int
    BY <2>2, SumsAreNumbers
  <2> QED
    BY <1>8, <2>3
<1> QED
  BY <1>1, <1>9, <1>10 DEF m

\* Turning the bytes of a word round multiplies it by Byte in the ring.
LEMMA TurnedWord ==
  ASSUME NEW lo \in 0..Byte - 1, NEW hi \in 0..Byte - 1,
         NEW x \in Nat, NEW y \in Nat, NEW k \in Int, Byte * x = y + Ring * k
  PROVE  /\ lo + Byte * hi \in 0..Ring /\ Byte * lo + hi \in Nat
         /\ Byte * (x + (lo + Byte * hi)) = (y + (Byte * lo + hi)) + Ring * (k + hi)
         /\ Byte * lo + hi = 0 => lo + Byte * hi = 0
<1>1. Byte \in Nat /\ Byte > 1 /\ Ring = Byte * Byte - 1 /\ Ring \in Nat
  BY WordFacts
<1>2. lo \in Nat /\ hi \in Nat /\ lo <= Byte - 1 /\ hi <= Byte - 1
  BY <1>1
<1> HIDE DEF Byte, Ring
<1>3. Byte * hi \in Nat /\ Byte * hi <= Byte * (Byte - 1) /\ Byte * lo \in Nat
  BY <1>1, <1>2
<1>4. Byte * (Byte - 1) = Byte * Byte - Byte
  BY <1>1
<1>5. lo + Byte * hi \in 0..Ring
  BY <1>1, <1>2, <1>3, <1>4
<1>6. Byte * (x + (lo + Byte * hi)) = Byte * x + Byte * lo + (Byte * Byte) * hi
  BY <1>1, <1>2
<1>7. (Byte * Byte) * hi = Ring * hi + hi
  BY <1>1, <1>2
<1>8. Ring * (k + hi) = Ring * k + Ring * hi
  BY <1>1, <1>2
<1>9. Byte * (x + (lo + Byte * hi)) = (y + (Byte * lo + hi)) + Ring * (k + hi)
  <2>1. Ring * k \in Int /\ Ring * hi \in Int
    BY <1>1, <1>2
  <2> QED
    BY <1>2, <1>3, <1>6, <1>7, <1>8, <2>1
<1>10. Byte * lo + hi = 0 => lo + Byte * hi = 0
  <2>1. SUFFICES ASSUME Byte * lo + hi = 0 PROVE lo = 0 /\ hi = 0
    BY <1>1
  <2>2. hi = 0 /\ Byte * lo = 0
    BY <1>2, <1>3, <2>1
  <2> QED
    BY <1>1, <1>2, <2>2
<1> QED
  BY <1>2, <1>3, <1>5, <1>9, <1>10

\* What the two sums of i words have to do with each other; c is the checksum, which the
\* first lacks.
Agree(c, i, s, t) ==
  /\ s \in Nat /\ t \in Nat /\ s <= (i - 1) * Ring
  /\ \E k \in Int : Byte * (s + c) = t + Ring * k
  /\ t = 0 => s = 0 /\ c = 0

LEMMA AgreeStep ==
  ASSUME NEW c \in 0..Ring, NEW i \in Nat \ {0}, NEW s, NEW t, Agree(c, i, s, t),
         NEW lo \in 0..Byte - 1, NEW hi \in 0..Byte - 1
  PROVE  Agree(c, i + 1, s + (lo + Byte * hi), t + (Byte * lo + hi))
<1>1. s \in Nat /\ t \in Nat /\ s <= (i - 1) * Ring /\ Ring \in Nat /\ c \in Nat
  BY WordFacts DEF Agree
<1>2. PICK k \in Int : Byte * (s + c) = t + Ring * k
  BY DEF Agree
<1>3. s + c \in Nat
  BY <1>1
<1>4. /\ lo + Byte * hi \in 0..Ring /\ Byte * lo + hi \in Nat
      /\ Byte * ((s + c) + (lo + Byte * hi)) = (t + (Byte * lo + hi)) + Ring * (k + hi)
      /\ Byte * lo + hi = 0 => lo + Byte * hi = 0
  <2>1. PICK x \in Nat : x = s + c
    BY <1>3
  <2>2. Byte * x = t + Ring * k /\ t \in Nat
    BY <1>1, <1>2, <2>1
  <2> HIDE DEF Byte, Ring
  <2>3. /\ lo + Byte * hi \in 0..Ring /\ Byte * lo + hi \in Nat
        /\ Byte * (x + (lo + Byte * hi)) = (t + (Byte * lo + hi)) + Ring * (k + hi)
        /\ Byte * lo + hi = 0 => lo + Byte * hi = 0
    BY <2>2, TurnedWord
  <2> QED
    BY <2>1, <2>3
<1> DEFINE word == lo + Byte * hi
           turned == Byte * lo + hi
<1>5. /\ word \in 0..Ring /\ turned \in Nat /\ (turned = 0 => word = 0)
      /\ Byte * ((s + c) + word) = (t + turned) + Ring * (k + hi)
  BY <1>4
<1>6. k + hi \in Int
  BY WordFacts
<1> HIDE DEF word, turned, Byte, Ring
<1>7. (s + c) + word = (s + word) + c
  BY <1>1, <1>5
<1>8. s + word \in Nat /\ t + turned \in Nat
  BY <1>1, <1>5
<1>9. s + word <= ((i + 1) - 1) * Ring
  <2>1. ((i + 1) - 1) * Ring = (i - 1) * Ring + Ring
    BY <1>1
  <2>2. (i - 1) * Ring \in Nat
    BY <1>1
  <2> QED
    BY <1>1, <1>5, <2>1, <2>2
<1>10. t + turned = 0 => s + word = 0 /\ c = 0
  BY <1>1, <1>5 DEF Agree
<1>11. Agree(c, i + 1, s + word, t + turned)
  BY <1>5, <1>6, <1>7, <1>8, <1>9, <1>10 DEF Agree
<1> QED
  BY <1>11 DEF word, turned

\* The end of it: what the receiver adds up is a multiple of the ring, and not nothing.
LEMMA AgreeEnd ==
  ASSUME NEW c \in 0..Ring, NEW i \in Nat, NEW s, NEW t, Agree(c, i, s, t),
         NEW q \in Nat, q > 0, s + c = Ring * q
  PROVE  t % Ring = 0 /\ t # 0
<1>1. s \in Nat /\ t \in Nat /\ Ring \in Nat /\ Ring > 0 /\ c \in Nat /\ Byte \in Nat
  BY WordFacts DEF Agree
<1>2. PICK k \in Int : Byte * (s + c) = t + Ring * k
  BY DEF Agree
<1> HIDE DEF Byte, Ring
<1>3. Byte * (Ring * q) = Ring * (Byte * q)
  BY <1>1
<1>4. PICK x \in Int : t = Ring * x
  <2>1. Byte * q - k \in Int
    BY <1>1
  <2>2. Ring * (Byte * q - k) = Ring * (Byte * q) - Ring * k
    BY <1>1
  <2>3. t = Ring * (Byte * q - k)
    <3>1. Ring * k \in Int /\ Ring * (Byte * q) \in Int
      BY <1>1
    <3> QED
      BY <1>1, <1>2, <1>3, <2>2, <3>1
  <2> QED
    BY <2>1, <2>3
<1>5. t % Ring = 0
  <2>1. (Ring * x) % Ring = 0
    BY <1>1
  <2> QED
    BY <1>4, <2>1
<1>6. t # 0
  <2>1. SUFFICES ASSUME t = 0 PROVE FALSE
    OBVIOUS
  <2>2. s + c = 0
    BY <2>1 DEF Agree
  <2>3. Ring * q > 0
    BY <1>1
  <2> QED
    BY <2>2, <2>3
<1> QED
  BY <1>5, <1>6

\* The packet with a field of zeros in front, or with the checksum there
LEMMA Headed ==
  ASSUME NEW b \in Seq(0..Byte - 1), NEW x \in 0..Byte - 1, NEW y \in 0..Byte - 1
  PROVE  /\ <<x, y>> \o b \in Seq(0..Byte - 1) /\ Len(<<x, y>> \o b) = Len(b) + 2
         /\ (<<x, y>> \o b)[1] = x /\ (<<x, y>> \o b)[2] = y
         /\ \A i \in 3..Len(b) + 2 : (<<x, y>> \o b)[i] = b[i - 2] /\ b[i - 2] \in 0..Byte - 1
<1> DEFINE B == 0..Byte - 1
<1> HIDE DEF B
<1>1. x \in B /\ y \in B /\ b \in Seq(B)
  BY DEF B
<1>2. <<x, y>> \in Seq(B) /\ Len(<<x, y>>) = 2 /\ Len(b) \in Nat
  BY <1>1
<1>3. /\ <<x, y>> \o b \in Seq(B) /\ Len(<<x, y>> \o b) = 2 + Len(b)
      /\ \A i \in 1..2 + Len(b) :
           (<<x, y>> \o b)[i] = IF i <= 2 THEN <<x, y>>[i] ELSE b[i - 2]
  BY <1>1, <1>2, ConcatProperties
<1>4. \A i \in 3..Len(b) + 2 : i \in 1..2 + Len(b) /\ ~(i <= 2) /\ i - 2 \in 1..Len(b)
  BY <1>2
<1>5. \A i \in 1..Len(b) : b[i] \in B
  BY <1>1
<1>6. 1 \in 1..2 + Len(b) /\ 2 \in 1..2 + Len(b) /\ 2 + Len(b) = Len(b) + 2
  BY <1>2
<1>7. (<<x, y>> \o b)[1] = x /\ (<<x, y>> \o b)[2] = y
  BY <1>3, <1>6
<1>8. \A i \in 3..Len(b) + 2 : (<<x, y>> \o b)[i] = b[i - 2] /\ b[i - 2] \in B
  BY <1>3, <1>4, <1>5
<1> QED
  BY <1>3, <1>6, <1>7, <1>8 DEF B

\* A sum of as many words as a packet has fits an int.
LEMMA WordsFit ==
  ASSUME NEW j \in Nat, j <= MaxPacket \div 2 + 2
  PROVE  j * Ring < IntLim
<1>1. /\ Ring \in Nat /\ MaxPacket \in Nat /\ IntLim \in Nat
      /\ (MaxPacket \div 2 + 2) * Ring < IntLim
  BY WordFacts
<1> DEFINE most == MaxPacket \div 2 + 2
           L == IntLim
           R == Ring
<1>2. R \in Nat /\ most \in Nat /\ L \in Nat /\ j <= most /\ most * R < L
  BY <1>1
<1> HIDE DEF most, L, R
<1>3. j * R <= most * R /\ j * R \in Nat /\ most * R \in Nat
  BY <1>2
<1>4. j * R < L
  BY <1>2, <1>3
<1> QED
  BY <1>4 DEF R, L

LEMMA ChecksumInRing ==
  ASSUME NEW b \in Seq(0..Byte - 1)
  PROVE  checksum(b) \in 0..Ring
<1>1. SumOf(b) \in Int
  <2>1. \A x \in Int : Int32(x) \in Int
    BY WordFacts DEF Int32
  <2> DEFINE m == Len(b) \div 2
             last == IF Len(b) % 2 = 1 THEN Last(b) ELSE 0
  <2>2. PICK s \in [0..m -> Int] : SumOf(b) = Int32(s[m] + last)
    BY SumOfWords
  <2>3. Len(b) \in Nat /\ m \in Nat /\ m \in 0..m
    OBVIOUS
  <2>4. last \in Int
    <3>1. Len(b) % 2 = 1 => Len(b) \in 1..Len(b)
      BY <2>3
    <3>2. \A i \in 1..Len(b) : b[i] \in Int
      BY WordFacts
    <3> QED
      BY <3>1, <3>2 DEF Last
  <2> HIDE DEF m, last
  <2>5. s[m] \in Int
    BY <2>3
  <2> QED
    BY <2>1, <2>2, <2>4, <2>5
<1>2. Word \in Nat /\ Word > 0 /\ Ring = Word - 1
  BY WordFacts DEF Ring
<1> DEFINE S == SumOf(b)
<1> HIDE DEF S, Word
<1>3. S \in Int
  BY <1>1 DEF S
<1>4. S \div Word \in Int /\ S % Word \in Int
  BY <1>2, <1>3
<1>5. (S \div Word) + (S % Word) \in Int
  BY <1>4
<1>6. Folded(S) \in Int
  <2> DEFINE once == (S \div Word) + (S % Word)
  <2>1. Folded(S) = once + once \div Word
    BY DEF Folded
  <2> HIDE DEF once
  <2>2. once \in Int
    BY <1>5 DEF once
  <2>3. once \div Word \in Int
    BY <1>2, <2>2
  <2> QED
    BY <2>1, <2>2, <2>3
<1> DEFINE f == Folded(S)
<1> HIDE DEF f
<1>7. f \in Int
  BY <1>6 DEF f
<1>8. Word - 1 - (f % Word) \in 0..Ring
  BY <1>2, <1>7
<1> QED
  BY <1>8 DEF f, S, checksum

LEMMA FirstWordAgrees ==
  ASSUME NEW c \in 0..Ring
  PROVE  Agree(c, 1, 0, Byte * (c % Byte) + (c \div Byte))
<1> DEFINE lo == c % Byte
           hi == c \div Byte
<1>1. lo \in 0..Byte - 1 /\ hi \in 0..Byte - 1 /\ c = lo + Byte * hi
  BY HalvesOfWord
<1>2. Byte \in Nat /\ Ring \in Nat
  BY WordFacts
<1> HIDE DEF lo, hi, Byte, Ring
<1>3. 0 \in Nat /\ 0 \in Int /\ Byte * 0 = 0 + Ring * 0
  BY <1>2
<1>4. /\ Byte * lo + hi \in Nat
      /\ Byte * (0 + (lo + Byte * hi)) = (0 + (Byte * lo + hi)) + Ring * (0 + hi)
      /\ Byte * lo + hi = 0 => lo + Byte * hi = 0
  BY <1>1, <1>3, TurnedWord
<1> DEFINE t == Byte * lo + hi
<1>5. t \in Nat /\ (t = 0 => c = 0) /\ Byte * (0 + c) = (0 + t) + Ring * (0 + hi)
  BY <1>1, <1>4
<1> HIDE DEF t
<1>6. hi \in Int /\ 0 + c = c /\ 0 + t = t /\ 0 + hi = hi /\ 0 <= (1 - 1) * Ring
  BY <1>1, <1>2, <1>5
<1>7. Agree(c, 1, 0, t)
  BY <1>5, <1>6 DEF Agree
<1> QED
  BY <1>7 DEF t, lo, hi

\* The two sums agree after every word that the packet and the packet with its checksum have
\* in full; the first words are the empty field and the checksum.
LEMMA WordsAgree ==
  ASSUME NEW c \in 0..Ring, NEW m \in Nat, m <= MaxPacket \div 2 + 1,
         NEW s, NEW t, s[1] = 0, t[1] = Byte * (c % Byte) + (c \div Byte),
         \A i \in 2..m : \E lo, hi \in 0..Byte - 1 :
           /\ s[i] = Int32(s[i - 1] + (lo + Byte * hi))
           /\ t[i] = t[i - 1] + (Byte * lo + hi)
  PROVE  \A i \in 1..m : Agree(c, i, s[i], t[i])
<1> DEFINE T == {i \in 1..m : ~Agree(c, i, s[i], t[i])}
<1> SUFFICES ASSUME T # {} PROVE FALSE
  OBVIOUS
<1>1. PICK i \in T : \A j \in T : i <= j
  <2>1. T \in SUBSET Nat
    OBVIOUS
  <2> HIDE DEF T
  <2> QED
    BY <2>1, LeastNumber
<1>2. i \in 1..m /\ ~Agree(c, i, s[i], t[i])
  BY <1>1
<1>3. i # 1
  BY <1>2, FirstWordAgrees
<1>4. PICK j \in 1..m : j + 1 = i /\ j = i - 1 /\ ~(i <= j) /\ i \in 2..m
  <2>1. i - 1 \in 1..m /\ (i - 1) + 1 = i /\ ~(i <= i - 1) /\ i \in 2..m
    BY <1>2, <1>3
  <2> QED
    BY <2>1
<1>5. Agree(c, j, s[j], t[j])
  BY <1>1, <1>4
<1>6. PICK lo \in 0..Byte - 1, hi \in 0..Byte - 1 :
        /\ s[i] = Int32(s[j] + (lo + Byte * hi)) /\ t[i] = t[j] + (Byte * lo + hi)
  BY <1>4
<1>7. Agree(c, j + 1, s[j] + (lo + Byte * hi), t[j] + (Byte * lo + hi))
  <2>1. j \in Nat \ {0}
    BY <1>4
  <2> QED
    BY <1>5, <2>1, AgreeStep
<1> DEFINE x == s[j] + (lo + Byte * hi)
<1>8. Int32(x) = x
  <2>1. x \in Nat /\ x <= ((j + 1) - 1) * Ring
    BY <1>7 DEF Agree
  <2>2. j \in Nat /\ j <= MaxPacket \div 2 + 2 /\ (j + 1) - 1 = j
    BY <1>4, WordFacts
  <2>3. j * Ring < IntLim
    BY <2>2, WordsFit
  <2>4. IntLim \in Nat /\ j * Ring \in Nat
    BY <2>2, WordFacts
  <2> HIDE DEF x
  <2>5. x <= j * Ring
    BY <2>1, <2>2
  <2>6. x < IntLim
    BY <2>1, <2>3, <2>4, <2>5
  <2> QED
    BY <2>1, <2>6, SmallIsExact
<1>9. Agree(c, i, s[i], t[i])
  BY <1>4, <1>6, <1>7, <1>8
<1> QED
  BY <1>2, <1>9

LEMMA PaddedBytes ==
  ASSUME NEW w \in Seq(0..Byte - 1)
  PROVE  /\ Padded(w) \in Seq(0..Byte - 1)
         /\ \A i \in 1..Len(w) : Padded(w)[i] = w[i]
         /\ Len(w) % 2 = 0 => Len(Padded(w)) = Len(w)
         /\ Len(w) % 2 = 1 => Len(Padded(w)) = Len(w) + 1 /\ Padded(w)[Len(w) + 1] = 0
<1>1. 0 \in 0..Byte - 1
  BY WordFacts
<1> DEFINE B == 0..Byte - 1
<1>2. 0 \in B /\ w \in Seq(B)
  BY <1>1
<1> HIDE DEF B
<1>3. Len(w) \in Nat
  BY <1>2
<1>4. CASE Len(w) % 2 = 1
  <2>1. Padded(w) = Append(w, 0)
    BY <1>4 DEF Padded
  <2>2. /\ Append(w, 0) \in Seq(B) /\ Len(Append(w, 0)) = Len(w) + 1
        /\ \A i \in 1..Len(w) : Append(w, 0)[i] = w[i]
        /\ Append(w, 0)[Len(w) + 1] = 0
    BY <1>2, AppendProperties
  <2> QED
    BY <1>4, <2>1, <2>2 DEF B
<1>5. CASE Len(w) % 2 # 1
  <2>1. Padded(w) = w
    BY <1>5 DEF Padded
  <2> QED
    BY <1>2, <1>5, <2>1 DEF B
<1> QED
  BY <1>4, <1>5

\* What the sender and the receiver add up, in terms of the words that they share
LEMMA SumsOfPacket ==
  ASSUME NEW b \in Seq(0..Byte - 1), Len(b) <= MaxPacket,
         NEW c \in 0..Ring
  PROVE  \E i \in Nat, s, t \in Int :
           /\ i <= MaxPacket \div 2 + 2 /\ Agree(c, i, s, t)
           /\ SumOf(<<0, 0>> \o b) = Int32(s)
           /\ NetworkSum(Padded(<<c % Byte, c \div Byte>> \o b)) = t
<1> DEFINE z == <<0, 0>> \o b
           w == <<c % Byte, c \div Byte>> \o b
           p == Padded(w)
           n == Len(b) + 2
           m == n \div 2
           B == 0..Byte - 1
<1>1. c % Byte \in B /\ c \div Byte \in B /\ 0 \in B
  <2>1. Byte \in Nat /\ Byte > 1
    BY WordFacts
  <2>2. c % Byte \in 0..Byte - 1 /\ c \div Byte \in 0..Byte - 1
    BY HalvesOfWord
  <2> HIDE DEF Byte
  <2>3. 0 \in 0..Byte - 1
    BY <2>1
  <2> QED
    BY <2>2, <2>3
<1>2. /\ z \in Seq(B) /\ Len(z) = n /\ z[1] = 0 /\ z[2] = 0
      /\ \A i \in 3..n : z[i] = b[i - 2] /\ z[i] \in B
  <2>1. PICK o \in 0..Byte - 1 : o = 0
    BY <1>1
  <2>2. /\ <<o, o>> \o b \in Seq(B) /\ Len(<<o, o>> \o b) = n
        /\ (<<o, o>> \o b)[1] = o /\ (<<o, o>> \o b)[2] = o
        /\ \A i \in 3..n : (<<o, o>> \o b)[i] = b[i - 2] /\ b[i - 2] \in B
    BY Headed
  <2>3. z = <<o, o>> \o b
    BY <2>1
  <2> HIDE DEF z
  <2> QED
    BY <2>1, <2>2, <2>3
<1>3. /\ w \in Seq(B) /\ Len(w) = n /\ w[1] = c % Byte /\ w[2] = c \div Byte
      /\ \A i \in 3..n : w[i] = b[i - 2]
  BY <1>1, Headed
<1>4. /\ p \in Seq(B) /\ \A i \in 1..n : p[i] = w[i]
      /\ n % 2 = 0 => Len(p) = n
      /\ n % 2 = 1 => Len(p) = n + 1 /\ p[n + 1] = 0
  BY <1>3, PaddedBytes
<1>5. Len(b) \in Nat /\ MaxPacket \in Nat
  BY WordFacts
<1> HIDE DEF z, w, p
<1>6. /\ n \in Nat /\ n >= 2 /\ m \in Nat /\ m >= 1 /\ m <= MaxPacket \div 2 + 1
      /\ n - 2 * m \in {0, 1} /\ n % 2 = n - 2 * m
  BY <1>5
<1> HIDE DEF n, B
<1>7. PICK s \in [0..m -> Int] :
        /\ s[0] = 0 /\ \A i \in 1..m : s[i] = Int32(s[i - 1] + WordAt(z, i))
        /\ SumOf(z) = Int32(s[m] + (IF n % 2 = 1 THEN Last(z) ELSE 0))
  BY <1>2, SumOfWords DEF B
<1>8. PICK t \in [0..Len(p) \div 2 -> Int] :
        /\ t[0] = 0 /\ \A i \in 1..Len(p) \div 2 : t[i] = t[i - 1] + NetworkWordAt(p, i)
        /\ NetworkSum(p) = t[Len(p) \div 2]
  BY <1>4, NetworkSumOfWords DEF B
<1>9. /\ p[1] = c % Byte /\ p[2] = c \div Byte /\ \A i \in 3..n : p[i] = z[i] /\ z[i] \in B
  <2>1. 1 \in 1..n /\ 2 \in 1..n /\ \A i \in 3..n : i \in 1..n
    BY <1>6
  <2> QED
    BY <1>2, <1>3, <1>4, <2>1
<1>10. Len(p) \div 2 = IF n % 2 = 1 THEN m + 1 ELSE m
  <2>1. CASE n % 2 = 1
    <3>1. Len(p) = 2 * m + 2
      BY <1>4, <1>6, <2>1
    <3> QED
      BY <1>6, <2>1, <3>1
  <2>2. CASE n % 2 = 0
    BY <1>4, <2>2
  <2> QED
    BY <1>6, <2>1, <2>2
<1> HIDE DEF m
<1>11. \A i \in 1..m : Agree(c, i, s[i], t[i])
  <2>1. 1 \in 1..m /\ 1 \in 1..Len(p) \div 2 /\ 1 - 1 = 0 /\ 2 * 1 - 1 = 1 /\ 2 * 1 = 2
    BY <1>6, <1>10
  <2>2. Byte \in Nat /\ c % Byte \in Nat /\ c \div Byte \in Nat
    BY <1>1, WordFacts DEF B
  <2>3. WordAt(z, 1) = 0
    BY <1>2, <2>1, <2>2 DEF WordAt
  <2>4. NetworkWordAt(p, 1) = Byte * (c % Byte) + (c \div Byte)
    BY <1>9, <2>1 DEF NetworkWordAt
  <2>5. s[1] = 0
    <3>1. s[1] = Int32(0)
      BY <1>7, <2>1, <2>3
    <3>2. 0 < IntLim
      <4>1. 0 * Ring < IntLim /\ Ring \in Nat
        BY WordFacts, WordsFit
      <4> QED
        BY <4>1
    <3> QED
      BY <3>1, <3>2, SmallIsExact
  <2>6. t[1] = Byte * (c % Byte) + (c \div Byte)
    <3> DEFINE word == Byte * (c % Byte) + (c \div Byte)
    <3>1. word \in Nat
      BY <2>2
    <3>2. t[1] = 0 + word
      BY <1>8, <2>1, <2>4
    <3> HIDE DEF word
    <3>3. t[1] = word
      BY <3>1, <3>2
    <3> QED
      BY <3>3 DEF word
  <2>7. ASSUME NEW i \in 2..m
        PROVE  \E lo, hi \in 0..Byte - 1 : /\ s[i] = Int32(s[i - 1] + (lo + Byte * hi))
                                           /\ t[i] = t[i - 1] + (Byte * lo + hi)
    <3>1. /\ i \in 1..m /\ i \in 1..Len(p) \div 2 /\ 2 * i - 1 \in 3..n /\ 2 * i \in 3..n
      BY <1>6, <1>10
    <3>2. /\ z[2 * i - 1] \in B /\ z[2 * i] \in B
          /\ p[2 * i - 1] = z[2 * i - 1] /\ p[2 * i] = z[2 * i]
      BY <1>9, <3>1
    <3>3. /\ s[i] = Int32(s[i - 1] + (z[2 * i - 1] + Byte * z[2 * i]))
          /\ t[i] = t[i - 1] + (Byte * z[2 * i - 1] + z[2 * i])
      BY <1>7, <1>8, <3>1, <3>2 DEF WordAt, NetworkWordAt
    <3> QED
      BY <3>2, <3>3 DEF B
  <2> QED
    BY <1>6, <2>5, <2>6, <2>7, WordsAgree
<1>12. m \in 1..m /\ m \in 0..m
  BY <1>6
<1>13. Agree(c, m, s[m], t[m]) /\ s[m] \in Int
  BY <1>11, <1>12
<1>14. CASE n % 2 = 0
  <2>1. Len(p) \div 2 = m /\ t[m] \in Int
    BY <1>10, <1>14
  <2>2. SumOf(z) = Int32(s[m]) /\ NetworkSum(p) = t[m]
    <3>1. s[m] + 0 = s[m]
      BY <1>13
    <3> QED
      BY <1>7, <1>8, <1>14, <2>1, <3>1
  <2>3. m <= MaxPacket \div 2 + 2
    BY <1>5, <1>6
  <2> QED
    BY <1>6, <1>13, <2>1, <2>2, <2>3 DEF z, w, p
<1>15. CASE n % 2 = 1
  <2>1. n = 2 * m + 1 /\ Len(p) \div 2 = m + 1 /\ n \in 3..n
    BY <1>6, <1>10, <1>15
  <2> DEFINE lo == z[n]
  <2>2. lo \in B /\ p[n] = lo /\ p[n + 1] = 0 /\ Last(z) = lo
    BY <1>2, <1>4, <1>9, <1>15, <2>1 DEF Last
  <2>3. lo \in Nat /\ Byte \in Nat
    BY <2>2, WordFacts DEF B
  <2> HIDE DEF lo
  <2>4. Agree(c, m + 1, s[m] + (lo + Byte * 0), t[m] + (Byte * lo + 0))
    BY <1>1, <1>6, <1>13, <2>2, AgreeStep DEF B
  <2>5. lo + Byte * 0 = lo
    BY <2>3
  <2>6. NetworkWordAt(p, m + 1) = Byte * lo + 0
    <3>1. 2 * (m + 1) - 1 = n /\ 2 * (m + 1) = n + 1
      BY <1>6, <2>1
    <3> QED
      BY <2>2, <3>1 DEF NetworkWordAt
  <2>7. t[m + 1] = t[m] + (Byte * lo + 0)
    <3>1. m + 1 \in 1..Len(p) \div 2 /\ (m + 1) - 1 = m
      BY <1>6, <2>1
    <3> QED
      BY <1>8, <2>6, <3>1
  <2>8. m + 1 \in 0..Len(p) \div 2 /\ t[m + 1] \in Int /\ s[m] + lo \in Int
    BY <1>6, <1>13, <2>1, <2>3
  <2>9. SumOf(z) = Int32(s[m] + lo) /\ NetworkSum(p) = t[m + 1]
    BY <1>7, <1>8, <1>15, <2>1, <2>2
  <2>10. m + 1 \in Nat /\ m + 1 <= MaxPacket \div 2 + 2
    BY <1>5, <1>6
  <2>11. Agree(c, m + 1, s[m] + lo, t[m + 1])
    BY <2>4, <2>5, <2>7
  <2> QED
    BY <2>8, <2>9, <2>10, <2>11 DEF z, w, p
<1> QED
  BY <1>6, <1>14, <1>15

\* Every packet is accepted with the checksum that the code gives it.
LEMMA ChecksumAccepted ==
  ASSUME NEW b \in Seq(0..Byte - 1), Len(b) <= MaxPacket
  PROVE  LET sum == NetworkSum(Padded(WithChecksum(b)))
         IN  sum % Ring = 0 /\ sum # 0
<1> DEFINE z == <<0, 0>> \o b
           c == checksum(z)
<1>1. c \in 0..Ring
  <2>1. z \in Seq(0..Byte - 1)
    <3>1. 0 \in 0..Byte - 1
      BY WordFacts
    <3> QED
      BY <3>1, Headed
  <2> HIDE DEF z
  <2> QED
    BY <2>1, ChecksumInRing
<1>2. WithChecksum(b) = <<c % Byte, c \div Byte>> \o b
  BY DEF WithChecksum
<1> HIDE DEF c
<1>3. PICK i \in Nat, s \in Int, t \in Int :
        /\ i <= MaxPacket \div 2 + 2 /\ Agree(c, i, s, t)
        /\ SumOf(z) = Int32(s)
        /\ NetworkSum(Padded(<<c % Byte, c \div Byte>> \o b)) = t
  BY <1>1, SumsOfPacket
<1>4. s \in Nat /\ s < IntLim
  <2>1. s \in Nat /\ s <= (i - 1) * Ring /\ Ring \in Nat /\ IntLim \in Nat
    BY <1>3, WordFacts DEF Agree
  <2>2. i * Ring < IntLim
    BY <1>3, WordsFit
  <2> HIDE DEF Ring, IntLim
  <2>3. (i - 1) * Ring = i * Ring - Ring /\ i * Ring \in Nat
    BY <2>1
  <2> QED
    BY <2>1, <2>2, <2>3
<1>5. SumOf(z) = s
  BY <1>3, <1>4, SmallIsExact
<1>6. c = Word - 1 - (Folded(s) % Word)
  BY <1>5 DEF c, checksum
<1>7. PICK q \in Nat : q > 0 /\ s + c = Ring * q
  BY <1>4, <1>6, ComplementOfFolded
<1>8. t % Ring = 0 /\ t # 0
  BY <1>1, <1>3, <1>7, AgreeEnd
<1> QED
  BY <1>2, <1>3, <1>8

PacketInv == packet \in Seq(0..Byte - 1) /\ Len(packet) <= MaxPacket

\* Whatever packet of the size that it can have is sent, with an odd number of bytes too, the
\* receiver's sum over it comes out as it should: no request of fping is dropped on its way as
\* damaged.
THEOREM PacketsAccepted == Spec => []ReceiverAccepts
<1>1. Init => PacketInv
  BY WordFacts DEF Init, PacketInv
<1>2. PacketInv /\ [Next]_vars => PacketInv'
  <2> SUFFICES ASSUME PacketInv, [Next]_vars PROVE PacketInv'
    OBVIOUS
  <2>1. CASE UNCHANGED packet
    BY <2>1 DEF PacketInv
  <2>2. CASE Fill
    <3>1. PICK x \in 0..Byte - 1 : packet' = Append(packet, x)
      BY <2>2 DEF Fill
    <3>2. Len(packet) < MaxPacket /\ Len(packet) \in Nat /\ MaxPacket \in Nat
      BY <2>2, WordFacts DEF Fill, PacketInv
    <3> DEFINE B == 0..Byte - 1
    <3>3. packet \in Seq(B) /\ x \in B
      BY DEF PacketInv
    <3> HIDE DEF B
    <3>4. Append(packet, x) \in Seq(B) /\ Len(Append(packet, x)) = Len(packet) + 1
      BY <3>3, AppendProperties
    <3> QED
      BY <3>1, <3>2, <3>4 DEF B, PacketInv
  <2> QED
    BY <2>1, <2>2 DEF Next, vars
<1>3. PacketInv => ReceiverAccepts
  BY ChecksumAccepted DEF PacketInv, ReceiverAccepts, Ring
<1> QED
  BY <1>1, <1>2, <1>3, PTL DEF Spec

=============================================================================
