-------------------------------- MODULE Input --------------------------------
(***************************************************************************)
(* How result_new (result.c) cuts its input into lines: fgets fills a      *)
(* buffer, strip (utils.c) leaves the first word of it, and inet_addr says *)
(* whether that is an address.  A file is a sequence of characters; "1"    *)
(* stands for what addresses are made of, "x" for anything else.  Shorter  *)
(* numbers are addresses too: inet_addr takes "12" for 0.0.0.12.           *)
(* What happens when memory runs out is in Fping.                          *)
(***************************************************************************)
EXTENDS Integers, SequencesExt, FiniteSetsExt

CONSTANTS
  BufSize  \* sizeof(buf): 64 in the code

ASSUME InputAssumption == BufSize \in Nat /\ BufSize > 1

Newline == "n"
Space == {" ", Newline}  \* isspace
Chars == {"1", "x"} \cup Space

VARIABLES
  file,   \* the whole input
  rest,   \* what has not been read of it
  lineno,
  keys,   \* the keys of the table
  done

lineVars == <<file, rest, lineno, keys, done>>

\* Mutated: a line ends only with the buffer.
ReadLength_Full(s) == Min({Len(s), BufSize - 1})

\* fgets: up to and with a newline, at most all of the buffer but its last byte
ReadLength(s) ==
  Min({Len(s), BufSize - 1} \cup {i \in DOMAIN s : s[i] = Newline})

\* The first word
strip(s) ==
  LET start == Min({i \in DOMAIN s : s[i] \notin Space} \cup {Len(s) + 1})
      end == Min({i \in start..Len(s) : s[i] \in Space} \cup {Len(s) + 1})
  IN  SubSeq(s, start, end - 1)

IsAddress(word) == word # <<>> /\ ToSet(word) = {"1"}

FileOpened(files) ==
  /\ file \in files
  /\ rest = file /\ lineno = 0 /\ keys = {} /\ done = FALSE

\* A blank line and one that is no address are ignored; table_add refuses a key it has.
Line ==
  /\ rest # <<>>
  /\ LET n == ReadLength(rest)
         line == strip(SubSeq(rest, 1, n))
     IN  /\ rest' = SubSeq(rest, n + 1, Len(rest))
         /\ keys' = IF IsAddress(line) THEN keys \cup {line} ELSE keys
  /\ lineno' = lineno + 1
  /\ UNCHANGED <<file, done>>

EndOfFile ==
  /\ rest = <<>> /\ ~done /\ done' = TRUE
  /\ UNCHANGED <<file, rest, lineno, keys>>

result_new == Line \/ EndOfFile

-----------------------------------------------------------------------------
(* Properties. *)

Ends == {i \in DOMAIN file : file[i] = Newline \/ i = Len(file)}
StartOf(j) == Max({0} \cup {i \in Ends : i < j}) + 1
Lines == {SubSeq(file, StartOf(j), j) : j \in Ends}


IsFirstWord(w, l) ==
  /\ w # <<>> /\ ToSet(w) \cap Space = {}
  /\ \E i \in 0..Len(l) - Len(w) :
       /\ \A j \in 1..i : l[j] \in Space
       /\ \A j \in DOMAIN w : l[i + j] = w[j]
       /\ i + Len(w) < Len(l) => l[i + Len(w) + 1] \in Space

Fits(l) == Len(l) < BufSize
Listed(k) == IsAddress(k) /\ \E l \in Lines : IsFirstWord(k, l)

\* If every line fits into the buffer, the table has an entry for each line that
\* begins with an address, and no other.
EveryLineOnce ==
  done /\ (\A l \in Lines : Fits(l)) =>
    (\A k \in keys : Listed(k)) /\ lineno = Cardinality(Ends)

\* A line too long for the buffer, which is cut, does no harm to the others: an
\* address in a line that fits is asked, whatever stands before it.
LinesStayApart ==
  done => \A l \in Lines : Fits(l) =>
            \A n \in 1..Len(l) : LET w == [i \in 1..n |-> "1"] IN IsFirstWord(w, l) => w \in keys

\* A file is taken line by line, whatever the buffer does to long ones.
LinesTaken == EveryLineOnce /\ LinesStayApart
=============================================================================
