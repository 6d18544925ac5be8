------------------------------- MODULE Fping --------------------------------
(***************************************************************************)
(* The running program: the main thread (main.c), the thread that sends    *)
(* echo requests (send.c) and the one that stores the answers (recv.c),    *)
(* which share the table of results without a lock.  Each action is a      *)
(* stretch of one thread between two points where another thread can make  *)
(* a difference.                                                           *)
(*                                                                         *)
(* A table entry is its key, the text of an input line.  The order in      *)
(* which table_for_each visits the entries is left open; that it visits    *)
(* each of them once is the business of the tree.                          *)
(***************************************************************************)
EXTENDS Icmp, Results

CONSTANTS
  Null,          \* no address, no packet, no entry
  Texts,         \* words an input line can be, spellings of addresses or not
  Input,         \* the words of the input file
  InetAddr,      \* inet_addr: a text to its address, Null for INADDR_NONE
  InetNtoa,      \* inet_ntoa: an address to its dotted text
  Answers,       \* per address, the sources its answers come from
  Foreign,       \* packets of other programs and routers
  g_wait, g_send_delay,  \* seconds and microseconds of the options -w and -s
  Verbose,       \* the log level makes log_verbose print
  Faults,        \* calls that may fail in this run
  Slack,         \* bound: how far the clock runs past the last timer
  MaxArrivals    \* bound: packets read by the receive thread

FaultKinds == {"setup", "table", "alloc", "socket", "thread", "sendto"}

ASSUME NullAssumption == Null \notin Texts \cup Addrs \cup Packets

ASSUME TextAssumption ==
  /\ Input \subseteq Texts
  /\ InetAddr \in [Texts -> Addrs \cup {Null}]
  /\ InetNtoa \in [Addrs -> Texts]
  /\ \A a \in Addrs : InetAddr[InetNtoa[a]] = a

ASSUME NetworkAssumption ==
  /\ Answers \in [Addrs -> SUBSET Addrs]
  /\ Foreign \subseteq Packets

ASSUME OptionAssumption ==
  /\ g_wait \in Nat /\ g_send_delay \in Nat
  /\ Verbose \in BOOLEAN /\ Faults \subseteq FaultKinds
  /\ Slack \in Nat /\ MaxArrivals \in Nat

VARIABLES
  main,       \* where the main thread is
  e,          \* its exit code
  pool,       \* the nedmalloc pool with the table and the results
  table,      \* keys of the table
  nameless,   \* its only entry has no key: nedpstrdup failed
  mwake,      \* when the main thread's sleep ends
  unprinted,  \* entries result_output has not reached yet
  report,     \* the time printed for an entry
  spc,        \* where the send thread is
  round,      \* i of send_loop
  todo,       \* entries table_for_each has not visited in this round
  cur,        \* entry whose request was sent and not yet stamped
  swake,      \* when the send thread's usleep ends
  tvSent,     \* tv_sent of every entry and slot
  rpc,        \* where the receive thread is
  rpkt, rtv,  \* the packet it holds and its time stamp
  cancelled,  \* pthread_cancel was called on it
  tvRecv,     \* tv_recv of every entry and slot
  sent,       \* requests on the wire: <<address, sequence number>>
  now,        \* the clock, in microseconds
  arrivals    \* packets read by the receive thread

mainVars == <<main, e, pool, table, nameless, mwake, unprinted, report>>
sendVars == <<spc, round, todo, cur, swake, tvSent, sent>>
recvVars == <<rpc, rpkt, rtv, cancelled, tvRecv, arrivals>>
vars     == <<mainVars, sendVars, recvVars, now>>

MainPoints == {"setup", "result_new", "recv_init", "send_init", "send_wait",
               "recv_wait", "output", "quit", "return", "exit", "crashed"}
SendPoints == {"none", "send", "stamp", "done"}
RecvPoints == {"none", "recvfrom", "stamp", "lookup", "memcpy", "dead"}

NoTimes == [k \in Texts |-> [s \in Slots |-> 0]]

Init ==
  /\ main = "setup" /\ e = 0 /\ pool = "none" /\ table = {} /\ nameless = FALSE
  /\ mwake = Second /\ unprinted = {} /\ report = [k \in Texts |-> 0]
  /\ spc = "none" /\ round = 0 /\ todo = {} /\ cur = Null /\ swake = Second
  /\ tvSent = NoTimes /\ sent = {}
  /\ rpc = "none" /\ rpkt = Null /\ rtv = 0 /\ cancelled = FALSE
  /\ tvRecv = NoTimes /\ arrivals = 0
  /\ now = Second

Running == main \notin {"exit", "crashed"}

-----------------------------------------------------------------------------
(* The main thread. *)

\* geteuid, args_init, fopen and result_init: nothing to free if one fails,
\* and option -? leaves with 0.
setup ==
  /\ main = "setup"
  /\ \/ main' = "result_new" /\ pool' = "live" /\ UNCHANGED e
     \/ /\ "setup" \in Faults
        /\ main' = "exit" /\ e' \in -3 .. 0 /\ UNCHANGED pool
  /\ UNCHANGED <<table, nameless, mwake, unprinted, report, sendVars, recvVars, now>>

\* Mutated: return instead of goto quit.
OnError_Return == "exit"

\* goto quit
OnError == "quit"

\* The lines that make an entry.
Hosts == {k \in Input : InetAddr[k] # Null}

\* One entry per line that inet_addr accepts; equal lines share an entry.
\* No failed allocation of an entry is looked at: bzero crashes, or strcmp does on
\* a missing key, unless its entry is the only one.
result_new ==
  /\ main = "result_new"
  /\ \/ /\ table' = Hosts
        /\ main' = "recv_init" /\ UNCHANGED <<e, nameless>>
     \/ "table" \in Faults /\ main' = OnError /\ e' = -4 /\ UNCHANGED <<table, nameless>>
     \/ /\ "alloc" \in Faults /\ (\E k \in Hosts : Hosts = {k})
        /\ table' = Hosts /\ nameless' = TRUE
        /\ main' = "recv_init" /\ UNCHANGED e
     \/ /\ "alloc" \in Faults /\ Hosts # {}
        /\ main' = "crashed" /\ UNCHANGED <<e, table, nameless>>
  /\ UNCHANGED <<pool, mwake, unprinted, report, sendVars, recvVars, now>>

\* pthread_create reports failure with a positive number, which is taken for
\* success.
recv_init ==
  /\ main = "recv_init"
  /\ \/ main' = "send_init" /\ rpc' = "recvfrom" /\ UNCHANGED e
     \/ "thread" \in Faults /\ main' = "send_init" /\ UNCHANGED <<rpc, e>>
     \/ "socket" \in Faults /\ main' = OnError /\ e' = -5 /\ UNCHANGED rpc
  /\ UNCHANGED <<pool, table, nameless, mwake, unprinted, report, sendVars,
                 rpkt, rtv, cancelled, tvRecv, arrivals, now>>

\* Mutated: usleep is left out.
UsleepUntil_None == now

\* if (g_send_delay) usleep(g_send_delay), ahead of every request
UsleepUntil == now + g_send_delay

send_init ==
  /\ main = "send_init"
  /\ \/ /\ main' = "send_wait" /\ UNCHANGED e
        /\ spc' = IF table = {} THEN "done" ELSE "send"
        /\ todo' = table /\ swake' = UsleepUntil
     \/ /\ "thread" \in Faults
        /\ main' = "send_wait" /\ UNCHANGED <<e, spc, todo, swake>>
     \/ /\ "socket" \in Faults
        /\ main' = OnError /\ e' = -6 /\ UNCHANGED <<spc, todo, swake>>
  /\ UNCHANGED <<pool, table, nameless, mwake, unprinted, report, round, cur, tvSent,
                 sent, recvVars, now>>

\* Mutated: send_wait joins the other thread.
Joined_Other == rpc = "dead"

Joined == spc = "done"

\* pthread_join, then the sleep of recv_wait begins.  Joining a thread that was
\* never created returns at once or crashes.
send_wait ==
  /\ main = "send_wait"
  /\ \/ Joined /\ main' = "recv_wait"
     \/ spc = "none" /\ main' \in {"recv_wait", "crashed"}
  /\ mwake' = now + g_wait * Second
  /\ UNCHANGED <<e, pool, table, nameless, unprinted, report, sendVars, recvVars, now>>

\* Mutated: the receive thread is left alone.
CancelRequested_Not == FALSE

CancelRequested == rpc # "none"

\* sleep(g_wait), pthread_cancel and icmp_close; nobody joins the receive
\* thread.  Cancelling a thread that was never created does nothing or crashes.
recv_wait ==
  /\ main = "recv_wait"
  /\ now >= mwake
  /\ \/ main' = IF table = {} THEN "quit" ELSE "output"
     \/ rpc = "none" /\ main' = "crashed"
  /\ cancelled' = CancelRequested
  /\ unprinted' = table
  /\ UNCHANGED <<e, pool, table, nameless, mwake, report, sendVars,
                 rpc, rpkt, rtv, tvRecv, arrivals, now>>

\* Mutated: answers are matched by address, whatever its spelling.
EntryOf_ByAddress(m) == CHOOSE k \in Texts :
  InetAddr[k] = m.src /\ (table = {} \/ k \in table \/ \A l \in table : InetAddr[l] # m.src)

\* The entry a packet belongs to, if the table has one: table_get compares the
\* text of the input line with what inet_ntoa writes.
EntryOf(m) == InetNtoa[m.src]

\* What the main thread can read of an entry's answers: a memcpy of the receive
\* thread may be under way.
Views(k) ==
  IF rpc = "memcpy" /\ EntryOf(rpkt) = k
  THEN {[tvRecv[k] EXCEPT ![rpkt.seq] = t] : t \in Torn(tvRecv[k][rpkt.seq], rtv)}
  ELSE {tvRecv[k]}

LastPrinted(k) == unprinted = {k}

\* One turn of the loop of result_output.
result_output ==
  /\ main = "output"
  /\ \E k \in unprinted :
       /\ \E recv \in Views(k) :
            report' = [report EXCEPT ![k] = calc_time(tvSent[k], recv)]
       /\ unprinted' = unprinted \ {k}
       /\ main' = IF LastPrinted(k) THEN "quit" ELSE "output"
  /\ UNCHANGED <<e, pool, table, nameless, mwake, sendVars, recvVars, now>>

\* neddestroypool, on the way out of every path that created the pool
result_free ==
  /\ main = "quit"
  /\ main' = "return" /\ pool' = "freed"
  /\ UNCHANGED <<e, table, nameless, mwake, unprinted, report, sendVars, recvVars, now>>

\* Returning from main ends the process and its threads.
return ==
  /\ main = "return"
  /\ main' = "exit"
  /\ UNCHANGED <<e, pool, table, nameless, mwake, unprinted, report, sendVars, recvVars, now>>

MainStep ==
  \/ setup \/ result_new \/ recv_init \/ send_init \/ send_wait \/ recv_wait
  \/ result_output \/ result_free \/ return

-----------------------------------------------------------------------------
(* The send thread. *)

\* Mutated: one round too many, one too few.
LastRound_Late == round = g_count
LastRound_Early == round + 2 >= g_count

LastRound == round + 1 = g_count

\* send_loop after the request to k: the next entry, the next round, or the end.
NextRequest(k) ==
  \/ /\ todo # {k}
     /\ todo' = todo \ {k} /\ spc' = "send" /\ swake' = UsleepUntil
     /\ UNCHANGED round
  \/ /\ todo = {k} /\ ~LastRound
     /\ todo' = table /\ spc' = "send" /\ swake' = UsleepUntil
     /\ round' = round + 1
  \/ /\ todo = {k} /\ LastRound
     /\ todo' = {} /\ spc' = "done" /\ UNCHANGED <<round, swake>>

\* usleep, then sendto.  A request that cannot be sent is logged and skipped.
icmp_send ==
  /\ Running /\ spc = "send" /\ now >= swake
  /\ \E k \in todo :
       \/ /\ sent' = sent \cup {<<InetAddr[k], round>>}
          /\ cur' = k /\ spc' = "stamp"
          /\ UNCHANGED <<round, todo, swake>>
       \/ "sendto" \in Faults /\ NextRequest(k) /\ UNCHANGED <<cur, sent>>
  /\ UNCHANGED <<mainVars, tvSent, recvVars, now>>

\* Mutated: the stamp goes to the first slot in every round.
SentSlot_First == 0

SentSlot == round

\* gettimeofday(&pr->results[i].tv_sent), after the request is on its way
StampSent ==
  /\ Running /\ spc = "stamp"
  /\ tvSent' = [tvSent EXCEPT ![cur][SentSlot] = now]
  /\ NextRequest(cur) /\ cur' = Null
  /\ UNCHANGED <<mainVars, sent, recvVars, now>>

SendStep == icmp_send \/ StampSent

-----------------------------------------------------------------------------
(* The receive thread and the network. *)

\* Packets the socket can deliver: answers to requests on the wire, any number
\* of times, in any order or never, and what is not meant for this process.
Arriving ==
  (UNION {{EchoReply(a, p[2]) : a \in Answers[p[1]]} : p \in sent}) \cup Foreign

\* The loop of recv_loop goes round.
BackToRecvfrom == rpc' = "recvfrom" /\ rpkt' = Null /\ rtv' = 0

\* recvfrom is a cancellation point: a cancelled thread reads nothing more.
icmp_recv ==
  /\ Running /\ rpc = "recvfrom" /\ ~cancelled /\ arrivals < MaxArrivals
  /\ \E m \in Arriving :
       \/ IsOurs(m) /\ rpc' = "stamp" /\ rpkt' = m
       \/ ~IsOurs(m) /\ UNCHANGED <<rpc, rpkt>>
  /\ arrivals' = arrivals + 1
  /\ UNCHANGED <<mainVars, sendVars, rtv, cancelled, tvRecv, now>>

\* gettimeofday(&tv)
StampRecv ==
  /\ Running /\ rpc = "stamp"
  /\ rpc' = "lookup" /\ rtv' = now
  /\ UNCHANGED <<mainVars, sendVars, rpkt, cancelled, tvRecv, arrivals, now>>

\* Mutated: no sequence number is refused.
GoodSeq_Any(s) == TRUE

\* if (seq > g_count) ignore
GoodSeq(s) == s <= g_count

\* The check of the sequence number and table_get.
table_get ==
  /\ Running /\ rpc = "lookup"
  /\ \/ ~GoodSeq(rpkt.seq) /\ BackToRecvfrom
     \/ /\ GoodSeq(rpkt.seq) /\ pool = "live" /\ ~nameless
        /\ EntryOf(rpkt) \notin table /\ BackToRecvfrom
     \/ /\ GoodSeq(rpkt.seq) /\ pool = "live" /\ ~nameless
        /\ EntryOf(rpkt) \in table
        /\ rpc' = "memcpy" /\ UNCHANGED <<rpkt, rtv>>
  /\ UNCHANGED <<mainVars, sendVars, cancelled, tvRecv, arrivals, now>>

\* memcpy(&pr->results[seq].tv_recv, &tv)
memcpy ==
  /\ Running /\ rpc = "memcpy" /\ pool = "live"
  /\ tvRecv' = [tvRecv EXCEPT ![EntryOf(rpkt)][rpkt.seq] = rtv]
  /\ BackToRecvfrom
  /\ UNCHANGED <<mainVars, sendVars, cancelled, arrivals, now>>

\* The receive thread is about to touch the table or the results.
TouchesTable == rpc = "memcpy" \/ (rpc = "lookup" /\ GoodSeq(rpkt.seq))

\* The pool is gone, or strcmp gets the key that is missing.
SegmentationFault ==
  /\ Running /\ TouchesTable /\ (pool = "freed" \/ nameless)
  /\ main' = "crashed"
  /\ UNCHANGED <<e, pool, table, nameless, mwake, unprinted, report, sendVars, recvVars, now>>

\* The pending cancellation takes effect at recvfrom and where a log line is
\* written.
RecvDies ==
  /\ Running /\ cancelled
  /\ rpc = "recvfrom" \/ (Verbose /\ rpc = "lookup")
  /\ rpc' = "dead" /\ rpkt' = Null /\ rtv' = 0
  /\ UNCHANGED <<mainVars, sendVars, cancelled, tvRecv, arrivals, now>>

RecvStep == StampRecv \/ table_get \/ memcpy \/ SegmentationFault \/ RecvDies

-----------------------------------------------------------------------------
(* Time, and the whole program. *)

Horizon == (IF swake >= mwake THEN swake ELSE mwake) + Slack

Tick ==
  /\ Running /\ now < Horizon
  /\ now' = now + 1
  /\ UNCHANGED <<mainVars, sendVars, recvVars>>

\* The process is gone.
Ended == ~Running /\ UNCHANGED vars

Next == MainStep \/ SendStep \/ icmp_recv \/ RecvStep \/ Tick \/ Ended

\* Every thread of the process is scheduled and the clock goes on; nothing is
\* asked of the network.
Fairness == WF_vars(MainStep) /\ WF_vars(SendStep) /\ WF_vars(RecvStep) /\ WF_vars(Tick)

Spec == Init /\ [][Next]_vars /\ Fairness

-----------------------------------------------------------------------------
(* Properties. *)

Times == [Texts -> [Slots -> Nat]]

TypeOK ==
  /\ main \in MainPoints /\ e \in -6 .. 0 /\ pool \in {"none", "live", "freed"}
  /\ table \subseteq Input /\ nameless \in BOOLEAN /\ mwake \in Nat /\ unprinted \subseteq table
  /\ DOMAIN report = Texts
  /\ spc \in SendPoints /\ round \in Rounds /\ todo \subseteq table
  /\ cur \in table \cup {Null} /\ swake \in Nat /\ tvSent \in Times
  /\ sent \subseteq Addrs \X Rounds
  /\ rpc \in RecvPoints /\ rpkt \in Packets \cup {Null} /\ rtv \in Nat
  /\ cancelled \in BOOLEAN /\ tvRecv \in Times /\ arrivals \in Nat
  /\ now \in Nat

\* The send thread walks the table and writes the results only while they
\* exist: the main thread joins it before it can reach result_free.
SenderSeesLiveTable == spc \in {"send", "stamp"} => pool = "live"

\* The receive thread is cancelled but not joined, so it can meet a freed table.
\* On a successful run that is at most the packet it held when it was cancelled.
StrayPacketIsLast ==
  pool = "freed" /\ e = 0 /\ rpc \in {"stamp", "lookup", "memcpy"} => cancelled

\* If no call fails, the process can only die of that race, after every entry
\* has been printed.
CrashIsLate == main = "crashed" /\ Faults = {} => cancelled /\ unprinted = {}

\* A host that is asked last still gets g_wait seconds to answer: sleep starts
\* when all requests are stamped.
WaitAfterSend ==
  cancelled => \A k \in Texts, s \in Slots :
                 tvSent[k][s] # 0 => tvSent[k][s] + g_wait * Second <= now

\* Requests leave one round after the other, and the stamps of any two of them are
\* g_send_delay apart.
RequestsPaced ==
  \A k, l \in Texts, i, j \in Slots :
    /\ <<k, i>> # <<l, j>> /\ i <= j
    /\ tvSent[k][i] # 0 /\ tvSent[l][j] # 0
    => \/ tvSent[k][i] + g_send_delay <= tvSent[l][j]
       \/ i = j /\ tvSent[l][j] + g_send_delay <= tvSent[k][i]

\* When the answers stop being read every entry has had its g_count requests
\* (unless a sendto failed).
EveryoneAsked ==
  cancelled /\ spc = "done" /\ "sendto" \notin Faults
  => \A k \in table, i \in Rounds : tvSent[k][i] # 0

\* An answer stored for an entry comes from its address and repeats the sequence
\* number of a request on the wire (no other program uses our id).
StoredWasAsked ==
  \A k \in Texts, s \in Slots :
    tvRecv[k][s] # 0 => \E p \in sent : p[2] = s /\ InetAddr[k] \in Answers[p[1]]

\* A host reported alive was asked in some round and has answered in this round;
\* the answer is stored, or was being stored when the report was made.
AliveMeansAnswered ==
  \A k \in table \ unprinted :
    main \in {"output", "quit", "return", "exit"} /\ cancelled /\ report[k] >= 0
    => \/ rpc = "memcpy" /\ EntryOf(rpkt) = k
       \/ \E i \in Rounds, p \in sent :
            /\ tvSent[k][i] # 0 /\ tvRecv[k][i] # 0
            /\ p[2] = i /\ InetAddr[k] \in Answers[p[1]]

\* A slot with an answer has its request stamped, or is about to: the send thread
\* is between sendto and gettimeofday (one entry per address, answers from there).
AnswerHasRequest ==
  \A k \in Texts, s \in Slots :
    tvRecv[k][s] # 0 => \/ tvSent[k][s] # 0
                        \/ spc = "stamp" /\ cur = k /\ round = s

\* An entry is printed as dead only if no answer is stored, one overtook the time
\* stamp of its request, one is being stored at that moment, or the round trips add
\* up to more than an int holds.
DeadIsJustified ==
  [][\A k \in unprinted \ unprinted' :
       report'[k] < 0 =>
         \/ \A i \in Rounds : tvRecv[k][i] = 0
         \/ \E i \in Rounds : 0 < tvRecv[k][i] /\ tvRecv[k][i] < tvSent[k][i]
         \/ rpc = "memcpy" /\ EntryOf(rpkt) = k
         \/ RoundTrips(tvSent[k], tvRecv[k]) >= IntLim]_vars

\* A request is stamped once; nothing changes the stamp afterwards.
StampedOnce ==
  [][\A k \in Texts, s \in Slots :
       tvSent[k][s] # 0 => tvSent'[k][s] = tvSent[k][s]]_vars

\* An error exit leaves nothing behind: the pool is released and no request has
\* been sent.
ErrorExitIsClean == main = "exit" /\ e < 0 => pool # "live" /\ spc = "none" /\ sent = {}

\* What can kill the process: the packet that is left when all is printed; the
\* receive thread that send_init's error exit leaves running, before any request; a
\* failed allocation of an entry that nobody looked at; a thread never created.
CrashHasReason ==
  main = "crashed" =>
    \/ cancelled /\ unprinted = {}
    \/ "socket" \in Faults /\ e = -6 /\ pool = "freed" /\ rpc # "none" /\ sent = {}
    \/ "alloc" \in Faults /\ (table = {} \/ nameless)
    \/ "thread" \in Faults /\ (spc = "none" \/ rpc = "none")

\* No failing call does more harm than that, in whatever order the calls fail.
FailureIsContained == ErrorExitIsClean /\ CrashHasReason

\* An entry spelled in another way than inet_ntoa's never gets an answer, even if
\* its host answers.
OtherSpellingUnanswered ==
  \A k \in table : k # InetNtoa[InetAddr[k]] => \A s \in Slots : tvRecv[k][s] = 0

\* The program comes to an end, whatever the network does.
Termination == <>~Running

\* The bytes behind results[] stay as they are while g_count < MAX_COUNT, even
\* if another program's echo replies carry our id.
InBounds == g_count < MAX_COUNT => \A k \in Texts : tvRecv[k][MAX_COUNT] = 0

\* "ignore for bad seq" (recv.c): no request has the number g_count or above.
BadSeqIgnored == \A k \in Texts : tvRecv[k][g_count] = 0

\* The id that goes into the requests is the one that identifies the answers.
AnswersAreOurs ==
  \A p \in sent, a \in Addrs : a \in Answers[p[1]] => IsOurs(EchoReply(a, p[2]))

\* The pool is there for whoever uses it: for the send thread always, and for the
\* receive thread, which nobody joins, until it was cancelled and all is printed.
PoolOutlivesUse == SenderSeesLiveTable /\ StrayPacketIsLast /\ CrashIsLate

\* -s and -w do what they say: requests keep their distance, and the last one is
\* waited for as long as any other.
Timed == RequestsPaced /\ WaitAfterSend

\* No answer is there without its request, and no host alive without an answer.
ReportIsTrue == AnswerHasRequest /\ AliveMeansAnswered
=============================================================================
