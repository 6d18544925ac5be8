---------------------------- MODULE FpingProofs -----------------------------
(***************************************************************************)
(* Proofs about Fping, for any number of hosts, requests and packets and   *)
(* any timers.  IInv is the inductive invariant; it is built from parts    *)
(* that are proved one after the other, each from those before it.  What   *)
(* Fping reports follows: everyone was asked, an answer has its request,   *)
(* and a host reported alive has answered.                                 *)
(***************************************************************************)
EXTENDS Fping, FiniteSetTheorems, NaturalsInduction, WellFoundedInduction, TLAPS

-----------------------------------------------------------------------------
(* Types, and what the program points say about the local variables. *)

\* A thread that is past a call holds what the call returned.
TypeInv ==
  /\ TypeOK
  /\ \A k \in table : InetAddr[k] # Null
  /\ spc = "stamp" => cur # Null
  /\ rpc \in {"stamp", "lookup", "memcpy"} => rpkt # Null
  /\ rpc = "memcpy" => rpkt.seq <= g_count

\* The echo id of every process fits the header, so what comes from the network
\* is a packet.
LEMMA ArrivingArePackets ==
  ASSUME TypeInv
  PROVE  Arriving \subseteq Packets
<1>1. EchoId \in Nat
  BY PidAssumption DEF EchoId
<1>2. ASSUME NEW p \in sent, NEW a \in Answers[p[1]]
      PROVE  EchoReply(a, p[2]) \in Packets
  <2>1. p \in Addrs \X Rounds
    BY DEF TypeInv, TypeOK
  <2>2. p[1] \in Addrs /\ p[2] \in Nat
    BY <2>1, CountAssumption DEF Rounds
  <2>3. a \in Addrs
    BY <2>2, NetworkAssumption
  <2>. QED
    BY <1>1, <2>2, <2>3 DEF EchoReply, Packets, PacketTypes
<1>. QED
  BY <1>2, NetworkAssumption DEF Arriving

LEMMA NextRequestType ==
  ASSUME TypeInv, NEW k \in Texts, NextRequest(k)
  PROVE  /\ spc' \in {"send", "done"} /\ round' \in Rounds
         /\ todo' \subseteq table /\ swake' \in Nat
<1>1. now + g_send_delay \in Nat
  BY OptionAssumption DEF TypeInv, TypeOK
<1>2. ~LastRound => round + 1 \in Rounds
  BY CountAssumption DEF TypeInv, TypeOK, LastRound, Rounds
<1>. QED
  BY <1>1, <1>2 DEF TypeInv, TypeOK, NextRequest, UsleepUntil

\* Every step keeps the types, whatever arrives and whatever fails.
LEMMA TypeStep ==
  ASSUME TypeInv, [Next]_vars
  PROVE  TypeInv'
<1>. USE DEF TypeInv, TypeOK
<1>1. CASE setup
  BY <1>1 DEF setup, MainPoints, sendVars, recvVars
<1>2. CASE result_new
  <2>1. table \subseteq Hosts /\ Hosts \subseteq Input /\ \A k \in Hosts : InetAddr[k] # Null
    BY DEF Hosts
  <2>2. /\ table' \in {table, Hosts} /\ nameless' \in BOOLEAN /\ e' \in {e, -4}
        /\ main' \in {"recv_init", "quit", "crashed"}
        /\ UNCHANGED <<pool, mwake, unprinted, report, sendVars, recvVars, now>>
    BY <1>2 DEF result_new, OnError
  <2>3. /\ table \subseteq table' /\ table' \subseteq Input /\ \A k \in table' : InetAddr[k] # Null
        /\ nameless' \in BOOLEAN /\ e' \in -6 .. 0 /\ main' \in MainPoints
    BY <2>1, <2>2 DEF MainPoints
  <2>. QED
    BY <2>2, <2>3 DEF sendVars, recvVars
<1>3. CASE recv_init
  BY <1>3 DEF recv_init, OnError, MainPoints, RecvPoints, sendVars
<1>4. CASE send_init
  <2>1. now + g_send_delay \in Nat
    BY OptionAssumption
  <2>. QED
    BY <1>4, <2>1 DEF send_init, OnError, UsleepUntil, MainPoints, SendPoints, recvVars
<1>5. CASE send_wait
  <2>1. now + g_wait * Second \in Nat
    BY OptionAssumption, TimeAssumption
  <2>. QED
    BY <1>5, <2>1 DEF send_wait, MainPoints, sendVars, recvVars
<1>6. CASE recv_wait
  BY <1>6 DEF recv_wait, CancelRequested, MainPoints, sendVars
<1>7. CASE result_output
  BY <1>7 DEF result_output, MainPoints, sendVars, recvVars
<1>8. CASE result_free
  BY <1>8 DEF result_free, MainPoints, sendVars, recvVars
<1>9. CASE return
  BY <1>9 DEF return, MainPoints, sendVars, recvVars
<1>10. CASE icmp_send
  <2>1. PICK k \in todo :
          \/ /\ sent' = sent \cup {<<InetAddr[k], round>>}
             /\ cur' = k /\ spc' = "stamp"
             /\ UNCHANGED <<round, todo, swake>>
          \/ NextRequest(k) /\ UNCHANGED <<cur, sent>>
    BY <1>10 DEF icmp_send
  <2>2. k \in table /\ k \in Texts
    BY TextAssumption
  <2>3. InetAddr[k] \in Addrs
    BY <2>2, TextAssumption
  <2>4. k # Null
    BY <2>2, NullAssumption
  <2>5. UNCHANGED <<mainVars, tvSent, recvVars, now>>
    BY <1>10 DEF icmp_send
  <2>6. CASE NextRequest(k) /\ UNCHANGED <<cur, sent>>
    BY <2>2, <2>5, <2>6, NextRequestType DEF SendPoints, mainVars, recvVars
  <2>. QED
    BY <2>1, <2>2, <2>3, <2>4, <2>5, <2>6 DEF SendPoints, mainVars, recvVars
<1>11. CASE StampSent
  <2>1. cur \in table /\ cur \in Texts
    BY <1>11, TextAssumption DEF StampSent
  <2>2. round \in Slots
    BY CountAssumption DEF Rounds, Slots
  <2>3. tvSent' \in Times
    BY <1>11, <2>1, <2>2 DEF StampSent, SentSlot, Times
  <2>. QED
    BY <1>11, <2>1, <2>3, NextRequestType DEF StampSent, SendPoints, mainVars, recvVars
<1>12. CASE icmp_recv
  <2>1. Arriving \subseteq Packets
    BY ArrivingArePackets
  <2>. QED
    BY <1>12, <2>1, NullAssumption DEF icmp_recv, RecvPoints, mainVars, sendVars
<1>13. CASE StampRecv
  BY <1>13 DEF StampRecv, RecvPoints, mainVars, sendVars
<1>14. CASE table_get
  BY <1>14 DEF table_get, GoodSeq, BackToRecvfrom, RecvPoints, mainVars, sendVars
<1>15. CASE memcpy
  <2>1. rpkt \in Packets /\ rpkt.seq <= g_count
    BY <1>15 DEF memcpy
  <2>2. EntryOf(rpkt) \in Texts
    BY <2>1, TextAssumption DEF EntryOf, Packets
  <2>3. rpkt.seq \in Slots
    BY <2>1, CountAssumption DEF Packets, Slots
  <2>4. tvRecv' \in Times
    BY <1>15, <2>2, <2>3 DEF memcpy, Times
  <2>. QED
    BY <1>15, <2>4 DEF memcpy, BackToRecvfrom, RecvPoints, mainVars, sendVars
<1>16. CASE SegmentationFault
  BY <1>16 DEF SegmentationFault, MainPoints, sendVars, recvVars
<1>17. CASE RecvDies
  BY <1>17 DEF RecvDies, RecvPoints, mainVars, sendVars
<1>18. CASE Tick
  BY <1>18 DEF Tick, mainVars, sendVars, recvVars
<1>19. CASE UNCHANGED vars
  BY <1>19 DEF vars, mainVars, sendVars, recvVars
<1>. QED
  BY <1>1, <1>2, <1>3, <1>4, <1>5, <1>6, <1>7, <1>8, <1>9, <1>10, <1>11, <1>12,
     <1>13, <1>14, <1>15, <1>16, <1>17, <1>18, <1>19
     DEF Next, MainStep, SendStep, RecvStep, Ended

LEMMA TypeInit == Init => TypeInv
<1>1. NoTimes \in Times
  BY CountAssumption DEF NoTimes, Times, Slots
<1>2. 0 \in Rounds
  BY CountAssumption DEF Rounds
<1>3. Second \in Nat
  BY TimeAssumption
<1>. SUFFICES ASSUME Init
              PROVE  TypeInv
  OBVIOUS
<1>4. main \in MainPoints /\ spc \in SendPoints /\ rpc \in RecvPoints
  BY DEF Init, MainPoints, SendPoints, RecvPoints
<1>5. TypeOK
  <2>1. /\ main \in MainPoints /\ e \in -6 .. 0 /\ pool \in {"none", "live", "freed"}
        /\ table \subseteq Input /\ mwake \in Nat /\ unprinted \subseteq table
    BY <1>3, <1>4 DEF Init
  <2>2. DOMAIN report = Texts /\ nameless \in BOOLEAN
    BY DEF Init
  <2>3. /\ spc \in SendPoints /\ round \in Rounds /\ todo \subseteq table
        /\ cur \in table \cup {Null} /\ swake \in Nat /\ tvSent \in Times
        /\ sent \subseteq Addrs \X Rounds
    BY <1>1, <1>2, <1>3, <1>4 DEF Init
  <2>4. /\ rpc \in RecvPoints /\ rpkt \in Packets \cup {Null} /\ rtv \in Nat
        /\ cancelled \in BOOLEAN /\ tvRecv \in Times /\ arrivals \in Nat
        /\ now \in Nat
    BY <1>1, <1>3, <1>4 DEF Init
  <2>. QED
    BY <2>1, <2>2, <2>3, <2>4 DEF TypeOK
<1>. QED
  BY <1>5 DEF Init, TypeInv

-----------------------------------------------------------------------------
(* Where the threads are: what protects the table, and what does not. *)

BeforeRecv == {"setup", "result_new", "recv_init"}
BeforeSend == BeforeRecv \cup {"send_init"}
Working    == BeforeSend \cup {"send_wait", "recv_wait", "output"}

ThreadInv ==
  /\ main \in BeforeRecv => rpc = "none"
  /\ main \in BeforeSend => spc = "none"
  /\ spc \in {"send", "stamp"} => main \in {"send_wait", "crashed"} /\ pool = "live"
  /\ spc = "none" => sent = {} /\ round = 0 /\ tvSent = NoTimes
  /\ main = "setup" => pool = "none"
  /\ main \in (Working \ {"setup"}) \cup {"quit"} => pool = "live"
  /\ main \in {"return", "exit"} => pool # "live"
  /\ pool = "freed" => main \in {"return", "exit", "crashed"}
  /\ e # 0 => main \notin Working /\ spc = "none"
  /\ cancelled => main \in {"output", "quit", "return", "exit", "crashed"}
  /\ e = 0 /\ rpc # "none" /\ (main \in {"output", "quit"} \/ pool = "freed") => cancelled

LEMMA ThreadStep ==
  ASSUME TypeInv, ThreadInv, [Next]_vars
  PROVE  ThreadInv'
<1>. USE DEF TypeInv, TypeOK, ThreadInv, BeforeRecv, BeforeSend, Working, MainPoints
<1>1. CASE setup
  BY <1>1 DEF setup, sendVars, recvVars
<1>2. CASE result_new
  BY <1>2 DEF result_new, OnError, sendVars, recvVars
<1>3. CASE recv_init
  BY <1>3 DEF recv_init, OnError, sendVars
<1>4. CASE send_init
  BY <1>4 DEF send_init, OnError, recvVars
<1>5. CASE send_wait
  BY <1>5 DEF send_wait, Joined, sendVars, recvVars
<1>6. CASE recv_wait
  BY <1>6 DEF recv_wait, CancelRequested, sendVars
<1>7. CASE result_output
  BY <1>7 DEF result_output, sendVars, recvVars
<1>8. CASE result_free
  BY <1>8 DEF result_free, sendVars, recvVars
<1>9. CASE return
  BY <1>9 DEF return, sendVars, recvVars
<1>10. CASE icmp_send
  BY <1>10 DEF icmp_send, NextRequest, mainVars, recvVars
<1>11. CASE StampSent
  BY <1>11 DEF StampSent, NextRequest, mainVars, recvVars
<1>12. CASE icmp_recv
  BY <1>12 DEF icmp_recv, mainVars, sendVars
<1>13. CASE StampRecv
  BY <1>13 DEF StampRecv, mainVars, sendVars
<1>14. CASE table_get
  BY <1>14 DEF table_get, BackToRecvfrom, mainVars, sendVars
<1>15. CASE memcpy
  BY <1>15 DEF memcpy, BackToRecvfrom, mainVars, sendVars
<1>16. CASE SegmentationFault
  BY <1>16 DEF SegmentationFault, Running, sendVars, recvVars
<1>17. CASE RecvDies
  BY <1>17 DEF RecvDies, mainVars, sendVars
<1>18. CASE Tick
  BY <1>18 DEF Tick, mainVars, sendVars, recvVars
<1>19. CASE UNCHANGED vars
  BY <1>19 DEF vars, mainVars, sendVars, recvVars
<1>. QED
  BY <1>1, <1>2, <1>3, <1>4, <1>5, <1>6, <1>7, <1>8, <1>9, <1>10, <1>11, <1>12,
     <1>13, <1>14, <1>15, <1>16, <1>17, <1>18, <1>19
     DEF Next, MainStep, SendStep, RecvStep, Ended

LEMMA ThreadInit == Init => ThreadInv
  BY DEF Init, ThreadInv, BeforeRecv, BeforeSend, Working

\* What a thread that was not created, a socket that failed and an allocation that
\* failed leave behind, up to the crash they may cause.
FaultInv ==
  /\ nameless => "alloc" \in Faults
  /\ e = -6 => "socket" \in Faults
  /\ e \notin {0, -6} => rpc = "none"
  /\ main \in {"send_init", "send_wait", "recv_wait"} => rpc # "none" \/ "thread" \in Faults
  /\ main = "send_wait" => spc # "none" \/ "thread" \in Faults
  /\ main \in {"quit", "return"} /\ e = 0 => unprinted = {}
  /\ main \in {"setup", "result_new"} => table = {}
  /\ CrashHasReason

LEMMA FaultStep ==
  ASSUME TypeInv, ThreadInv, FaultInv, [Next]_vars
  PROVE  FaultInv'
<1>. USE DEF TypeInv, TypeOK, FaultInv, CrashHasReason
<1>1. CASE setup
  BY <1>1 DEF setup, ThreadInv, BeforeRecv, BeforeSend, Working, sendVars, recvVars
<1>2. CASE result_new
  BY <1>2 DEF result_new, OnError, ThreadInv, BeforeRecv, BeforeSend, Working, sendVars, recvVars
<1>3. CASE recv_init
  BY <1>3 DEF recv_init, OnError, ThreadInv, BeforeRecv, BeforeSend, Working, sendVars
<1>4. CASE send_init
  BY <1>4 DEF send_init, OnError, ThreadInv, BeforeRecv, BeforeSend, Working, recvVars
<1>5. CASE send_wait
  BY <1>5 DEF send_wait, sendVars, recvVars
<1>6. CASE recv_wait
  BY <1>6 DEF recv_wait, CancelRequested, sendVars
<1>7. CASE result_output
  BY <1>7 DEF result_output, LastPrinted, sendVars, recvVars
<1>8. CASE result_free
  BY <1>8 DEF result_free, sendVars, recvVars
<1>9. CASE return
  BY <1>9 DEF return, sendVars, recvVars
<1>10. CASE icmp_send
  BY <1>10 DEF icmp_send, Running, NextRequest, mainVars, recvVars
<1>11. CASE StampSent
  BY <1>11 DEF StampSent, Running, NextRequest, mainVars, recvVars
<1>12. CASE icmp_recv
  BY <1>12 DEF icmp_recv, mainVars, sendVars
<1>13. CASE StampRecv
  BY <1>13 DEF StampRecv, mainVars, sendVars
<1>14. CASE table_get
  BY <1>14 DEF table_get, BackToRecvfrom, mainVars, sendVars
<1>15. CASE memcpy
  BY <1>15 DEF memcpy, BackToRecvfrom, mainVars, sendVars
<1>16. CASE SegmentationFault
  <2>1. rpc # "none"
    BY <1>16 DEF SegmentationFault, TouchesTable
  <2>2. pool = "freed" => main = "return"
    BY <1>16 DEF SegmentationFault, Running, ThreadInv
  <2>. QED
    BY <1>16, <2>1, <2>2 DEF SegmentationFault, ThreadInv, sendVars, recvVars
<1>17. CASE RecvDies
  BY <1>17 DEF RecvDies, mainVars, sendVars
<1>18. CASE Tick
  BY <1>18 DEF Tick, mainVars, sendVars, recvVars
<1>19. CASE UNCHANGED vars
  BY <1>19 DEF vars, mainVars, sendVars, recvVars
<1>. QED
  BY <1>1, <1>2, <1>3, <1>4, <1>5, <1>6, <1>7, <1>8, <1>9, <1>10, <1>11, <1>12,
     <1>13, <1>14, <1>15, <1>16, <1>17, <1>18, <1>19
     DEF Next, MainStep, SendStep, RecvStep, Ended

LEMMA FaultInit == Init => FaultInv
  BY DEF Init, FaultInv, CrashHasReason

-----------------------------------------------------------------------------
(* The time stamps of the requests. *)

\* Who writes what the send thread works with.
LEMMA SendVarsStep ==
  ASSUME [Next]_vars
  PROVE  send_init \/ icmp_send \/ StampSent \/ UNCHANGED sendVars
  BY DEF Next, MainStep, SendStep, RecvStep, Ended, vars, setup, result_new,
         recv_init, send_wait, recv_wait, result_output, result_free, return,
         icmp_recv, StampRecv, table_get, memcpy, SegmentationFault, RecvDies, Tick

\* The slots that are stamped are those of earlier rounds, and in this round those
\* of the entries table_for_each is through with.
OnceInv ==
  /\ spc = "stamp" => cur \in todo
  /\ \A k \in Texts, s \in Slots :
       tvSent[k][s] # 0 => s < round \/ (s = round /\ k \notin todo)

LEMMA OnceStep ==
  ASSUME TypeInv, ThreadInv, OnceInv, [Next]_vars
  PROVE  OnceInv'
<1>. USE DEF TypeInv, TypeOK, OnceInv
<1>1. CASE send_init
  BY <1>1 DEF send_init, ThreadInv, BeforeSend, NoTimes
<1>2. CASE icmp_send
  BY <1>2 DEF icmp_send, NextRequest, Slots, Rounds
<1>3. CASE StampSent
  <2>1. spc = "stamp" /\ cur \in todo /\ round \in Slots /\ NextRequest(cur)
    BY <1>3, CountAssumption DEF StampSent, Slots, Rounds
  <2>2. \A k \in Texts, s \in Slots :
          tvSent'[k][s] # 0 => tvSent[k][s] # 0 \/ (k = cur /\ s = round)
    BY <1>3 DEF StampSent, SentSlot, Times
  <2>3. spc' # "stamp"
    BY <2>1 DEF NextRequest
  <2>4. ASSUME NEW k \in Texts, NEW s \in Slots, tvSent'[k][s] # 0
        PROVE  s < round' \/ (s = round' /\ k \notin todo')
    <3>1. s < round \/ (s = round /\ (k \notin todo \/ k = cur))
      BY <2>2, <2>4
    <3>. QED
      BY <2>1, <3>1 DEF NextRequest, Slots, Rounds
  <2>. QED
    BY <2>3, <2>4
<1>4. CASE UNCHANGED sendVars
  BY <1>4 DEF sendVars
<1>. QED
  BY <1>1, <1>2, <1>3, <1>4, SendVarsStep

LEMMA OnceInit == Init => OnceInv
  BY DEF Init, OnceInv, NoTimes

\* Where the clock and the main thread's timer go.
LEMMA TimersStep ==
  ASSUME TypeInv, [Next]_vars
  PROVE  /\ now' \in Nat /\ now <= now'
         /\ \/ send_wait \/ recv_wait
            \/ /\ UNCHANGED <<mwake, cancelled>>
               /\ main' = "recv_wait" => main = "recv_wait"
  BY DEF TypeInv, TypeOK, Next, MainStep, SendStep, RecvStep, Ended, vars, mainVars,
         sendVars, recvVars, setup, result_new, OnError, recv_init, send_init,
         send_wait, recv_wait, result_output, result_free, return, icmp_send,
         StampSent, icmp_recv, StampRecv, table_get, memcpy, SegmentationFault,
         RecvDies, Tick

\* No stamp lies in the future, and the sleep of recv_wait counts from the last one.
TimeInv ==
  \A k \in Texts, s \in Slots :
    /\ tvSent[k][s] <= now
    /\ main = "recv_wait" => tvSent[k][s] + g_wait * Second <= mwake
    /\ cancelled => tvSent[k][s] + g_wait * Second <= now

LEMMA TimeStep ==
  ASSUME TypeInv, ThreadInv, TimeInv, [Next]_vars
  PROVE  TimeInv'
<1>. USE DEF TypeInv, TypeOK, TimeInv
<1>. DEFINE W == g_wait * Second
<1>1. W \in Nat
  BY OptionAssumption, TimeAssumption
<1>. HIDE DEF W
<1>2. \A k \in Texts, s \in Slots : tvSent[k][s] \in Nat
  BY DEF Times
<1>3. CASE StampSent
  <2>1. spc = "stamp" /\ main = "send_wait" /\ ~cancelled
    BY <1>3 DEF StampSent, Running, ThreadInv
  <2>2. UNCHANGED <<main, cancelled, now>>
    BY <1>3 DEF StampSent, mainVars, recvVars
  <2>3. \A k \in Texts, s \in Slots : tvSent'[k][s] <= now
    BY <1>3, <1>2 DEF StampSent, Times
  <2>. QED
    BY <2>1, <2>2, <2>3
<1>4. CASE send_wait
  BY <1>1, <1>2, <1>4 DEF send_wait, W, sendVars, recvVars, ThreadInv
<1>5. CASE recv_wait
  BY <1>1, <1>2, <1>5 DEF recv_wait, W, sendVars
<1>6. CASE ~StampSent /\ ~send_wait /\ ~recv_wait
  <2>1. UNCHANGED tvSent
    BY <1>6, SendVarsStep DEF send_init, icmp_send, sendVars
  <2>2. /\ now' \in Nat /\ now <= now' /\ UNCHANGED <<mwake, cancelled>>
        /\ main' = "recv_wait" => main = "recv_wait"
    BY <1>6, TimersStep
  <2>. QED
    BY <1>1, <1>2, <2>1, <2>2 DEF W
<1>. QED
  BY <1>3, <1>4, <1>5, <1>6

LEMMA TimeInit == Init => TimeInv
<1>1. g_wait * Second \in Nat
  BY OptionAssumption, TimeAssumption
<1>. QED
  BY <1>1, TimeAssumption DEF Init, TimeInv, NoTimes

\* The next request waits for swake, and once it is out the stamp it will get is
\* far enough from all others.
PaceInv ==
  /\ \A k \in Texts, s \in Slots :
       tvSent[k][s] # 0 =>
         /\ spc = "send" => tvSent[k][s] + g_send_delay <= swake
         /\ spc = "stamp" => tvSent[k][s] + g_send_delay <= now
  /\ RequestsPaced

LEMMA PaceStep ==
  ASSUME TypeInv, ThreadInv, OnceInv, TimeInv, PaceInv, [Next]_vars
  PROVE  PaceInv'
<1>. USE DEF TypeInv, TypeOK, PaceInv
<1>1. \A k \in Texts, s \in Slots : tvSent[k][s] \in Nat /\ tvSent[k][s] <= now
  BY DEF Times, TimeInv
<1>2. g_send_delay \in Nat
  BY OptionAssumption
<1>3. CASE send_init
  BY <1>3 DEF send_init, ThreadInv, BeforeSend, NoTimes, RequestsPaced
<1>4. CASE icmp_send
  <2>1. UNCHANGED <<tvSent, now>>
    BY <1>4 DEF icmp_send
  <2>2. spc = "send" /\ now >= swake
    BY <1>4 DEF icmp_send
  <2>3. spc' \in {"stamp", "done"} \/ (spc' = "send" /\ swake' = now + g_send_delay)
    BY <1>4 DEF icmp_send, NextRequest, UsleepUntil
  <2>. QED
    BY <1>1, <1>2, <2>1, <2>2, <2>3 DEF RequestsPaced
<1>5. CASE StampSent
  <2>1. spc = "stamp" /\ cur \in Texts /\ round \in Slots /\ UNCHANGED now
    BY <1>5, TextAssumption, CountAssumption DEF StampSent, Rounds, Slots
  <2>2. tvSent' = [tvSent EXCEPT ![cur][round] = now]
    BY <1>5 DEF StampSent, SentSlot
  <2>3. spc' = "done" \/ (spc' = "send" /\ swake' = now + g_send_delay)
    BY <1>5 DEF StampSent, NextRequest, UsleepUntil
  <2>4. \A k \in Texts, s \in Slots :
          tvSent'[k][s] = IF k = cur /\ s = round THEN now ELSE tvSent[k][s]
    BY <2>1, <2>2 DEF Times
  <2>5. \A k \in Texts, s \in Slots :
          tvSent[k][s] # 0 => s <= round /\ tvSent[k][s] + g_send_delay <= now
    BY <2>1 DEF OnceInv, Slots, Rounds
  <2>6. RequestsPaced'
    <3>. SUFFICES ASSUME NEW k \in Texts, NEW l \in Texts, NEW i \in Slots, NEW j \in Slots,
                         <<k, i>> # <<l, j>>, i <= j, tvSent'[k][i] # 0, tvSent'[l][j] # 0
                  PROVE  \/ tvSent'[k][i] + g_send_delay <= tvSent'[l][j]
                         \/ i = j /\ tvSent'[l][j] + g_send_delay <= tvSent'[k][i]
      BY DEF RequestsPaced
    <3>1. CASE k = cur /\ i = round
      BY <1>1, <2>4, <2>5, <3>1 DEF Slots
    <3>2. CASE l = cur /\ j = round
      BY <1>1, <2>4, <2>5, <3>2 DEF Slots
    <3>3. CASE ~(k = cur /\ i = round) /\ ~(l = cur /\ j = round)
      BY <2>4, <3>3 DEF RequestsPaced
    <3>. QED
      BY <3>1, <3>2, <3>3
  <2>. QED
    BY <1>1, <1>2, <2>1, <2>3, <2>4, <2>6
<1>6. CASE UNCHANGED sendVars
  <2>1. UNCHANGED <<tvSent, spc, swake>> /\ now' \in Nat /\ now <= now'
    BY <1>6, TimersStep DEF sendVars
  <2>. QED
    BY <1>1, <1>2, <2>1 DEF RequestsPaced
<1>. QED
  BY <1>3, <1>4, <1>5, <1>6, SendVarsStep

LEMMA PaceInit == Init => PaceInv
  BY DEF Init, PaceInv, RequestsPaced, NoTimes

-----------------------------------------------------------------------------
(* What the receive thread stores. *)

\* Who writes what the receive thread works with.
LEMMA RecvVarsStep ==
  ASSUME [Next]_vars
  PROVE  /\ recv_init \/ icmp_recv \/ StampRecv \/ table_get \/ RecvDies
            \/ memcpy \/ UNCHANGED <<rpc, rpkt>>
         /\ memcpy \/ UNCHANGED tvRecv
         /\ sent \subseteq sent'
  BY DEF Next, MainStep, SendStep, RecvStep, Ended, vars, mainVars, sendVars, recvVars,
         setup, result_new, recv_init, send_init, send_wait, recv_wait, result_output,
         result_free, return, icmp_send, StampSent, icmp_recv, StampRecv, table_get,
         memcpy, SegmentationFault, RecvDies, Tick

\* What memcpy does to the slots.
LEMMA MemcpyStep ==
  ASSUME TypeInv, memcpy
  PROVE  /\ rpc = "memcpy" /\ rpkt \in Packets /\ rpkt.seq <= g_count
         /\ \A k \in Texts, s \in Slots :
              tvRecv'[k][s] # tvRecv[k][s] => k = EntryOf(rpkt) /\ s = rpkt.seq
<1>1. rpc = "memcpy" /\ rpkt \in Packets /\ rpkt.seq <= g_count
  BY DEF memcpy, TypeInv, TypeOK
<1>2. EntryOf(rpkt) \in Texts /\ rpkt.seq \in Slots
  BY <1>1, TextAssumption, CountAssumption DEF EntryOf, Packets, Slots
<1>. QED
  BY <1>1, <1>2 DEF memcpy, TypeInv, TypeOK, Times

\* A packet the receive thread works on is an answer to a request on the wire, and
\* so is what it has stored; the spelling is always that of inet_ntoa.
StoredInv ==
  /\ g_count < MAX_COUNT => \A k \in Texts : tvRecv[k][MAX_COUNT] = 0
  /\ \A k \in Texts, s \in Slots : tvRecv[k][s] # 0 => k = InetNtoa[InetAddr[k]]
  /\ (\A m \in Foreign : ~IsOurs(m)) =>
       /\ rpc \in {"stamp", "lookup", "memcpy"} =>
            \E p \in sent : p[2] = rpkt.seq /\ rpkt.src \in Answers[p[1]]
       /\ StoredWasAsked

LEMMA StoredStep ==
  ASSUME TypeInv, ThreadInv, StoredInv, [Next]_vars
  PROVE  StoredInv'
<1>1. (g_count < MAX_COUNT => \A k \in Texts : tvRecv[k][MAX_COUNT] = 0)'
  <2>1. MAX_COUNT \in Slots /\ g_count \in Nat
    BY CountAssumption DEF Slots
  <2>. QED
    BY <2>1, RecvVarsStep, MemcpyStep, CountAssumption DEF StoredInv, Packets
<1>2. (\A k \in Texts, s \in Slots : tvRecv[k][s] # 0 => k = InetNtoa[InetAddr[k]])'
  <2>1. CASE memcpy
    <3>1. rpkt.src \in Addrs
      BY <2>1, MemcpyStep DEF Packets
    <3>. QED
      BY <2>1, <3>1, MemcpyStep, TextAssumption DEF StoredInv, EntryOf
  <2>2. CASE UNCHANGED tvRecv
    BY <2>2 DEF StoredInv
  <2>. QED
    BY <2>1, <2>2, RecvVarsStep
<1>3. ASSUME \A m \in Foreign : ~IsOurs(m)
      PROVE  (rpc \in {"stamp", "lookup", "memcpy"} =>
                \E p \in sent : p[2] = rpkt.seq /\ rpkt.src \in Answers[p[1]])'
  <2>1. CASE icmp_recv
    <3>1. sent' = sent
      BY <2>1 DEF icmp_recv, sendVars
    <3>2. CASE UNCHANGED <<rpc, rpkt>>
      BY <1>3, <3>1, <3>2 DEF StoredInv
    <3>3. CASE \E m \in Arriving : IsOurs(m) /\ rpkt' = m
      <4>1. PICK m \in Arriving : IsOurs(m) /\ rpkt' = m
        BY <3>3
      <4>2. PICK p \in sent : \E a \in Answers[p[1]] : m = EchoReply(a, p[2])
        BY <1>3, <4>1 DEF Arriving
      <4>. QED
        BY <3>1, <4>1, <4>2 DEF EchoReply
    <3>. QED
      BY <2>1, <3>2, <3>3 DEF icmp_recv
  <2>2. CASE StampRecv \/ table_get
    BY <1>3, <2>2 DEF StampRecv, table_get, BackToRecvfrom, StoredInv, sendVars
  <2>3. CASE recv_init
    BY <1>3, <2>3 DEF recv_init, StoredInv, ThreadInv, BeforeRecv, sendVars
  <2>4. CASE RecvDies \/ memcpy
    BY <2>4 DEF RecvDies, memcpy, BackToRecvfrom
  <2>5. CASE UNCHANGED <<rpc, rpkt>>
    BY <1>3, <2>5, RecvVarsStep DEF StoredInv
  <2>. QED
    BY <2>1, <2>2, <2>3, <2>4, <2>5, RecvVarsStep
<1>4. ASSUME \A m \in Foreign : ~IsOurs(m)
      PROVE  StoredWasAsked'
  <2>1. CASE memcpy
    <3>1. PICK p \in sent : p[2] = rpkt.seq /\ rpkt.src \in Answers[p[1]]
      BY <1>4, <2>1, MemcpyStep DEF StoredInv
    <3>2. InetAddr[EntryOf(rpkt)] = rpkt.src
      BY <2>1, MemcpyStep, TextAssumption DEF EntryOf, Packets
    <3>3. sent \subseteq sent'
      BY RecvVarsStep
    <3>. QED
      BY <1>4, <2>1, <3>1, <3>2, <3>3, MemcpyStep DEF StoredInv, StoredWasAsked
  <2>2. CASE UNCHANGED tvRecv
    BY <1>4, <2>2, RecvVarsStep DEF StoredInv, StoredWasAsked
  <2>. QED
    BY <2>1, <2>2, RecvVarsStep
<1>. QED
  BY <1>1, <1>2, <1>3, <1>4 DEF StoredInv

LEMMA StoredInit == Init => StoredInv
  BY CountAssumption DEF Init, StoredInv, StoredWasAsked, NoTimes, Slots

-----------------------------------------------------------------------------
(* The theorems. *)

IInv ==
  /\ TypeInv /\ ThreadInv /\ FaultInv /\ OnceInv
  /\ TimeInv /\ PaceInv /\ StoredInv

\* IInv holds in every state of every execution.
THEOREM Invariance == Spec => []IInv
<1>1. Init => IInv
  BY TypeInit, ThreadInit, FaultInit, OnceInit, TimeInit, PaceInit, StoredInit DEF IInv
<1>2. IInv /\ [Next]_vars => IInv'
  BY TypeStep, ThreadStep, FaultStep, OnceStep, TimeStep, PaceStep, StoredStep DEF IInv
<1>. QED
  BY <1>1, <1>2, PTL DEF Spec

\* Every variable keeps its type: in particular every index into results[] that is
\* written is within 0 .. MAX_COUNT.
THEOREM Typed == Spec => []TypeOK
<1>1. IInv => TypeOK
  BY DEF IInv, TypeInv
<1>. QED
  BY <1>1, Invariance, PTL

\* pthread_join in send_wait is enough to keep the table alive for the send thread:
\* it runs only while main is at send_wait, and the error exits come before it starts.
THEOREM LiveTable == Spec => []SenderSeesLiveTable
<1>1. IInv => SenderSeesLiveTable
  BY DEF IInv, ThreadInv, Working, BeforeSend, BeforeRecv, SenderSeesLiveTable
<1>. QED
  BY <1>1, Invariance, PTL

\* On a successful run the receive thread was cancelled before the pool is freed.
THEOREM OneStrayPacket == Spec => []StrayPacketIsLast
<1>1. IInv => StrayPacketIsLast
  BY DEF IInv, ThreadInv, StrayPacketIsLast
<1>. QED
  BY <1>1, Invariance, PTL

\* When no call fails the report is complete before the process can crash.
THEOREM LateCrash == Spec => []CrashIsLate
<1>1. IInv => CrashIsLate
  BY DEF IInv, FaultInv, CrashHasReason, CrashIsLate
<1>. QED
  BY <1>1, Invariance, PTL

\* Whoever reads the table finds it, up to the race the code leaves open at the end.
THEOREM PoolKept == Spec => []PoolOutlivesUse
<1>1. SenderSeesLiveTable /\ StrayPacketIsLast /\ CrashIsLate => PoolOutlivesUse
  BY DEF PoolOutlivesUse
<1>. QED
  BY <1>1, LiveTable, OneStrayPacket, LateCrash, PTL

\* Every error exit releases the pool and sends nothing, whatever call failed.
THEOREM CleanErrorExit == Spec => []ErrorExitIsClean
<1>1. IInv => ErrorExitIsClean
  BY DEF IInv, TypeInv, TypeOK, ThreadInv, ErrorExitIsClean
<1>. QED
  BY <1>1, Invariance, PTL

\* Whatever calls fail, and in whatever order, the process is killed only for the
\* reasons the code leaves open, and its error exits are clean.
THEOREM FailuresContained == Spec => []FailureIsContained
<1>1. IInv => CrashHasReason
  BY DEF IInv, FaultInv
<1>2. ErrorExitIsClean /\ CrashHasReason => FailureIsContained
  BY DEF FailureIsContained
<1>. QED
  BY <1>1, <1>2, CleanErrorExit, Invariance, PTL

\* Every request gets the full waiting time, for any -w.
THEOREM WaitsAfterSend == Spec => []WaitAfterSend
<1>1. IInv => WaitAfterSend
  BY DEF IInv, TimeInv, WaitAfterSend
<1>. QED
  BY <1>1, Invariance, PTL

\* Rounds never overlap and the stamps keep the distance -s asks for, for any number
\* of hosts and rounds.
THEOREM Paced == Spec => []RequestsPaced
<1>1. IInv => RequestsPaced
  BY DEF IInv, PaceInv
<1>. QED
  BY <1>1, Invariance, PTL

\* -s and -w are kept together, for any of their values.
THEOREM InTime == Spec => []Timed
<1>1. RequestsPaced /\ WaitAfterSend => Timed
  BY DEF Timed
<1>. QED
  BY <1>1, Paced, WaitsAfterSend, PTL

\* Only the spelling of inet_ntoa gets answers, for any input and any network.
THEOREM SpellingMatters == Spec => []OtherSpellingUnanswered
<1>1. IInv => OtherSpellingUnanswered
  BY TextAssumption DEF IInv, StoredInv, TypeInv, TypeOK, OtherSpellingUnanswered
<1>. QED
  BY <1>1, Invariance, PTL

\* No packet, even a foreign one with our id, is stored behind results[] as long as
\* fewer requests than slots are sent.
THEOREM NoOverrun == Spec => []InBounds
<1>1. IInv => InBounds
  BY DEF IInv, StoredInv, InBounds
<1>. QED
  BY <1>1, Invariance, PTL

\* If no other program's replies carry our id, whatever is stored answers a request.
THEOREM StoredAnswersAsked ==
  ASSUME \A m \in Foreign : ~IsOurs(m)
  PROVE  Spec => []StoredWasAsked
<1>1. IInv => StoredWasAsked
  BY DEF IInv, StoredInv
<1>. QED
  BY <1>1, Invariance, PTL

\* A stamp is written once and stays: the send thread never comes back to a slot.
THEOREM Stamped == Spec => StampedOnce
<1>1. ASSUME IInv, [Next]_vars
      PROVE  [\A k \in Texts, s \in Slots : tvSent[k][s] # 0 => tvSent'[k][s] = tvSent[k][s]]_vars
  <2>. USE DEF IInv, TypeInv, TypeOK
  <2>1. CASE send_init \/ icmp_send \/ UNCHANGED sendVars
    BY <2>1 DEF send_init, icmp_send, sendVars
  <2>2. CASE StampSent
    <3>1. tvSent[cur][round] = 0
      BY <1>1, <2>2, TextAssumption, CountAssumption DEF StampSent, OnceInv, Rounds, Slots
    <3>. QED
      BY <1>1, <2>2, <3>1, CountAssumption DEF StampSent, SentSlot, Times, Rounds, Slots
  <2>. QED
    BY <1>1, <2>1, <2>2, SendVarsStep
<1>. QED
  BY <1>1, Invariance, PTL DEF Spec, StampedOnce

-----------------------------------------------------------------------------
(* Everyone was asked. *)

\* The clock never shows zero, which calc_time takes for "no stamp".
ClockInv == now # 0 /\ (rpc \in {"lookup", "memcpy"} => rtv # 0)

\* The slots send_loop is through with are stamped, unless a sendto failed.
AskedInv ==
  "sendto" \notin Faults =>
    \A k \in table, i \in Rounds :
      \/ spc \in {"send", "stamp"} /\ (i < round \/ (i = round /\ k \notin todo))
      \/ spc = "done"
      => tvSent[k][i] # 0

LEMMA ClockStep ==
  ASSUME IInv, ClockInv, [Next]_vars
  PROVE  ClockInv'
<1>1. now' # 0
  BY TimersStep DEF IInv, TypeInv, TypeOK, ClockInv
<1>2. (rpc \in {"lookup", "memcpy"} => rtv # 0)'
  BY DEF ClockInv, Next, MainStep, SendStep, RecvStep, Ended, vars, mainVars, sendVars,
         recvVars, setup, result_new, recv_init, send_init, send_wait, recv_wait,
         result_output, result_free, return, icmp_send, StampSent, icmp_recv, StampRecv,
         table_get, BackToRecvfrom, memcpy, SegmentationFault, RecvDies, Tick
<1>. QED
  BY <1>1, <1>2 DEF ClockInv

\* The table is made before the threads.
LEMMA TableStep ==
  ASSUME IInv, [Next]_vars
  PROVE  \/ UNCHANGED table
         \/ /\ main = "result_new" /\ spc = "none" /\ rpc = "none" /\ ~cancelled
            /\ UNCHANGED <<sendVars, recvVars>>
  BY DEF IInv, ThreadInv, BeforeRecv, BeforeSend, Next, MainStep, SendStep, RecvStep, Ended,
         vars, mainVars, sendVars, recvVars, setup, result_new, recv_init, send_init,
         send_wait, recv_wait, result_output, result_free, return, icmp_send, StampSent,
         icmp_recv, StampRecv, table_get, memcpy, SegmentationFault, RecvDies, Tick

\* A stamp is written to the slot of the request that was just sent, and no stamp
\* becomes zero again.
LEMMA StampStep ==
  ASSUME IInv, ClockInv, [Next]_vars
  PROVE  /\ \A k \in Texts, s \in Slots : tvSent[k][s] # 0 => tvSent'[k][s] # 0
         /\ StampSent => /\ cur \in todo /\ cur \in table /\ round \in Slots
                         /\ tvSent'[cur][round] # 0
<1>. USE DEF IInv, TypeInv, TypeOK
<1>1. CASE StampSent
  <2>1. cur \in todo /\ cur \in table /\ cur \in Texts /\ round \in Slots
    BY <1>1, TextAssumption, CountAssumption DEF StampSent, OnceInv, Rounds, Slots
  <2>. QED
    BY <1>1, <2>1 DEF StampSent, SentSlot, Times, ClockInv
<1>2. CASE send_init \/ icmp_send \/ UNCHANGED sendVars
  <2>1. UNCHANGED tvSent
    BY <1>2 DEF send_init, icmp_send, sendVars
  <2>2. StampSent => spc = "stamp" /\ spc' # "stamp" /\ UNCHANGED <<sent, main>>
    BY DEF StampSent, NextRequest, mainVars
  <2>3. ~StampSent
    BY <1>2, <2>2 DEF send_init, icmp_send, sendVars, ThreadInv, BeforeSend, BeforeRecv
  <2>. QED
    BY <2>1, <2>3
<1>. QED
  BY <1>1, <1>2, SendVarsStep

LEMMA AskedStep ==
  ASSUME IInv, ClockInv, AskedInv, [Next]_vars
  PROVE  AskedInv'
<1>. SUFFICES ASSUME "sendto" \notin Faults, NEW k \in table', NEW i \in Rounds,
                     (\/ spc \in {"send", "stamp"} /\ (i < round \/ (i = round /\ k \notin todo))
                      \/ spc = "done")'
              PROVE  tvSent'[k][i] # 0
  BY DEF AskedInv
<1>. USE DEF IInv, TypeInv, TypeOK
<1>1. i \in Slots /\ k \in Texts
  BY TypeStep, TextAssumption, CountAssumption DEF Rounds, Slots
<1>2. CASE send_init
  BY <1>2 DEF send_init, ThreadInv, BeforeSend, BeforeRecv, Rounds
<1>3. CASE icmp_send
  BY <1>3 DEF icmp_send, AskedInv, mainVars
<1>4. CASE StampSent
  <2>1. k \in table /\ spc = "stamp"
    BY <1>4 DEF StampSent, mainVars
  <2>2. i < round \/ (i = round /\ (k \notin todo \/ k = cur))
    <3>1. round \in Nat /\ i \in Nat /\ i < g_count /\ g_count \in Nat
      BY CountAssumption DEF Rounds
    <3>2. CASE todo # {cur} /\ todo' = todo \ {cur} /\ spc' = "send" /\ UNCHANGED round
      BY <3>2
    <3>3. CASE todo = {cur} /\ spc' = "send" /\ todo' = table /\ round' = round + 1
      BY <2>1, <3>1, <3>3
    <3>4. CASE todo = {cur} /\ LastRound
      BY <3>1, <3>4 DEF LastRound
    <3>. QED
      BY <1>4, <3>2, <3>3, <3>4 DEF StampSent, NextRequest
  <2>. QED
    BY <1>1, <1>4, <2>1, <2>2, StampStep DEF AskedInv
<1>5. CASE UNCHANGED sendVars
  BY <1>5, TableStep DEF sendVars, AskedInv
<1>. QED
  BY <1>2, <1>3, <1>4, <1>5, SendVarsStep

\* When the answers stop being read every entry has had all its requests, for any
\* number of hosts and rounds (send_loop).
THEOREM AllAsked == Spec => []EveryoneAsked
<1>1. Init => ClockInv /\ AskedInv
  BY TimeAssumption DEF Init, ClockInv, AskedInv
<1>2. IInv /\ ClockInv /\ AskedInv /\ [Next]_vars => (ClockInv /\ AskedInv)'
  BY ClockStep, AskedStep
<1>3. AskedInv => EveryoneAsked
  BY DEF AskedInv, EveryoneAsked
<1>. QED
  BY <1>1, <1>2, <1>3, Invariance, PTL DEF Spec

-----------------------------------------------------------------------------
(* A host reported alive has answered. *)

\* calc_time gives a time only if some slot has both stamps.
LEMMA TimeNeedsSample ==
  ASSUME NEW a \in [Slots -> Nat], NEW b, calc_time(a, b) >= 0
  PROVE  \E i \in Rounds : a[i] # 0 /\ b[i] # 0
<1>1. PICK i \in Samples(a, b) : TRUE
  BY DEF calc_time
<1>2. i \in Rounds /\ a[i] \div Second # 0 /\ b[i] \div Second # 0
  BY <1>1 DEF Samples, HasSample
<1>3. 0 \div Second = 0
  BY TimeAssumption
<1>. QED
  BY <1>2, <1>3

\* What is printed as alive has a slot with both stamps, or with one that is being
\* written: result_output may be in the middle of a memcpy.
ReportInv ==
  cancelled =>
    \A k \in table \ unprinted :
      report[k] >= 0 =>
        \E i \in Rounds :
          /\ tvSent[k][i] # 0
          /\ tvRecv[k][i] # 0 \/ (rpc = "memcpy" /\ EntryOf(rpkt) = k /\ rpkt.seq = i)

\* An answer is neither lost from its slot nor on its way to it.
LEMMA AnswerStep ==
  ASSUME IInv, ClockInv, [Next]_vars, NEW k \in Texts, NEW i \in Slots,
         tvRecv[k][i] # 0 \/ (rpc = "memcpy" /\ EntryOf(rpkt) = k /\ rpkt.seq = i)
  PROVE  (tvRecv[k][i] # 0 \/ (rpc = "memcpy" /\ EntryOf(rpkt) = k /\ rpkt.seq = i))'
<1>1. CASE memcpy
  BY <1>1 DEF memcpy, IInv, TypeInv, TypeOK, Times, ClockInv
<1>2. CASE ~memcpy
  <2>1. UNCHANGED tvRecv
    BY <1>2, RecvVarsStep
  <2>2. rpc = "memcpy" => UNCHANGED <<rpc, rpkt>>
    BY <1>2, RecvVarsStep DEF recv_init, icmp_recv, StampRecv, table_get, RecvDies,
       IInv, ThreadInv, BeforeRecv
  <2>. QED
    BY <2>1, <2>2 DEF EntryOf
<1>. QED
  BY <1>1, <1>2

\* Who writes the report
LEMMA ReportVarsStep ==
  ASSUME [Next]_vars
  PROVE  recv_wait \/ result_output \/ (UNCHANGED <<cancelled, unprinted, report>>)
  BY DEF Next, MainStep, SendStep, RecvStep, Ended, vars, mainVars, sendVars, recvVars,
         setup, result_new, recv_init, send_init, send_wait, result_free, return,
         icmp_send, StampSent, icmp_recv, StampRecv, table_get, memcpy, SegmentationFault,
         RecvDies, Tick

LEMMA ReportStep ==
  ASSUME IInv, ClockInv, ReportInv, [Next]_vars
  PROVE  ReportInv'
<1>. USE DEF IInv, TypeInv, TypeOK
<1>. DEFINE Answer(k, i) ==
       tvRecv[k][i] # 0 \/ (rpc = "memcpy" /\ EntryOf(rpkt) = k /\ rpkt.seq = i)
<1>1. Rounds \subseteq Slots /\ table \subseteq Texts
  BY TextAssumption, CountAssumption DEF Rounds, Slots
<1>2. \A k \in table, i \in Rounds :
        tvSent[k][i] # 0 /\ Answer(k, i) => tvSent'[k][i] # 0 /\ Answer(k, i)'
  BY <1>1, StampStep, AnswerStep
<1>3. CASE recv_wait
  BY <1>3 DEF recv_wait, ReportInv
<1>4. CASE result_output
  <2>1. PICK k \in unprinted : \E recv \in Views(k) :
          /\ report' = [report EXCEPT ![k] = calc_time(tvSent[k], recv)]
          /\ unprinted' = unprinted \ {k}
    BY <1>4 DEF result_output
  <2>2. PICK recv \in Views(k) : report' = [report EXCEPT ![k] = calc_time(tvSent[k], recv)]
    BY <2>1
  <2>3. k \in table /\ k \in Texts /\ tvSent[k] \in [Slots -> Nat] /\ tvRecv[k] \in [Slots -> Nat]
    BY <1>1 DEF Times
  <2>4. UNCHANGED <<table, tvSent, tvRecv, rpc, rpkt, cancelled>>
    BY <1>4 DEF result_output, sendVars, recvVars
  <2>5. \A i \in Rounds : recv[i] # 0 => Answer(k, i)
    BY <1>1, <2>2, <2>3 DEF Views
  <2>6. calc_time(tvSent[k], recv) >= 0 => \E i \in Rounds : tvSent[k][i] # 0 /\ Answer(k, i)
    BY <2>3, <2>5, TimeNeedsSample
  <2>7. report'[k] = calc_time(tvSent[k], recv)
    BY <2>2, <2>3
  <2>8. \A l \in table \ unprinted : report'[l] = report[l]
    BY <1>1, <2>1, <2>2
  <2>9. \A l \in table' \ unprinted' : l = k \/ l \in table \ unprinted
    BY <2>1, <2>4
  <2>. QED
    BY <2>4, <2>6, <2>7, <2>8, <2>9 DEF ReportInv, EntryOf
<1>5. CASE UNCHANGED <<cancelled, unprinted, report>>
  <2>1. cancelled => UNCHANGED table
    BY TableStep
  <2>. QED
    BY <1>2, <1>5, <2>1 DEF ReportInv
<1>. QED
  BY <1>3, <1>4, <1>5, ReportVarsStep

\* If no other program's replies carry our id, a host reported alive was asked in
\* some round and has answered in it.
THEOREM AliveAnswered ==
  ASSUME \A m \in Foreign : ~IsOurs(m)
  PROVE  Spec => []AliveMeansAnswered
<1>1. Init => ClockInv /\ ReportInv
  BY TimeAssumption DEF Init, ClockInv, ReportInv
<1>2. IInv /\ ClockInv /\ ReportInv /\ [Next]_vars => (ClockInv /\ ReportInv)'
  BY ClockStep, ReportStep
<1>3. IInv /\ ReportInv => AliveMeansAnswered
  <2>1. ASSUME IInv, ReportInv, NEW k \in table \ unprinted, cancelled, report[k] >= 0
        PROVE  \/ rpc = "memcpy" /\ EntryOf(rpkt) = k
               \/ \E i \in Rounds, p \in sent :
                    /\ tvSent[k][i] # 0 /\ tvRecv[k][i] # 0
                    /\ p[2] = i /\ InetAddr[k] \in Answers[p[1]]
    <3>1. k \in Texts /\ Rounds \subseteq Slots
      BY <2>1, TextAssumption, CountAssumption DEF IInv, TypeInv, TypeOK, Rounds, Slots
    <3>2. StoredWasAsked
      BY <2>1 DEF IInv, StoredInv
    <3>. QED
      BY <2>1, <3>1, <3>2 DEF ReportInv, StoredWasAsked
  <2>. QED
    BY <2>1 DEF AliveMeansAnswered
<1>. QED
  BY <1>1, <1>2, <1>3, Invariance, PTL DEF Spec

-----------------------------------------------------------------------------
(* An answer has its request. *)

\* Hosts answer from the address that was asked, and no two lines of the input are
\* spellings of one address.
OwnAnswers == \A a \in Addrs : Answers[a] \subseteq {a}

OneSpelling ==
  \A k, l \in Input : InetAddr[k] # Null /\ InetAddr[k] = InetAddr[l] => k = l

\* Every request on the wire is that of an entry, which has its stamp or is the one the
\* send thread is about to stamp.
SentInv ==
  \A p \in sent :
    \E k \in table : /\ InetAddr[k] = p[1]
                     /\ tvSent[k][p[2]] # 0 \/ (spc = "stamp" /\ cur = k /\ round = p[2])

\* Answers are stored for entries only.
EntryInv ==
  /\ rpc = "none" => tvRecv = NoTimes
  /\ rpc = "memcpy" => EntryOf(rpkt) \in table
  /\ \A k \in Texts, s \in Slots : tvRecv[k][s] # 0 => k \in table

LEMMA SentStep ==
  ASSUME IInv, ClockInv, SentInv, [Next]_vars
  PROVE  SentInv'
<1>. USE DEF IInv, TypeInv, TypeOK
<1>. DEFINE Known(p, k) ==
       /\ InetAddr[k] = p[1]
       /\ tvSent[k][p[2]] # 0 \/ (spc = "stamp" /\ cur = k /\ round = p[2])
<1>1. table \subseteq Texts /\ \A p \in sent : p[2] \in Slots
  BY TextAssumption, CountAssumption DEF Rounds, Slots
<1>2. CASE icmp_send
  <2>1. PICK k \in todo :
          \/ /\ sent' = sent \cup {<<InetAddr[k], round>>}
             /\ cur' = k /\ spc' = "stamp" /\ UNCHANGED <<round, todo, swake>>
          \/ UNCHANGED sent
    BY <1>2 DEF icmp_send
  <2>2. UNCHANGED <<table, tvSent>> /\ spc = "send"
    BY <1>2 DEF icmp_send, mainVars
  <2>3. \A p \in sent : \E l \in table' : Known(p, l)'
    BY <2>2 DEF SentInv
  <2>4. ASSUME sent' = sent \cup {<<InetAddr[k], round>>}, cur' = k, spc' = "stamp",
               UNCHANGED round
        PROVE  Known(<<InetAddr[k], round>>, k)'
    BY <2>4
  <2>5. k \in table'
    BY <2>2
  <2>. QED
    BY <2>1, <2>3, <2>4, <2>5 DEF SentInv
<1>3. CASE StampSent
  <2>1. /\ cur \in table /\ tvSent'[cur][round] # 0 /\ UNCHANGED <<table, sent>>
    BY <1>3, StampStep DEF StampSent, mainVars
  <2>2. \A k \in Texts, s \in Slots : tvSent[k][s] # 0 => tvSent'[k][s] # 0
    BY StampStep
  <2>3. ASSUME NEW p \in sent, NEW k \in table, Known(p, k)
        PROVE  InetAddr[k] = p[1] /\ tvSent'[k][p[2]] # 0
    BY <1>1, <2>1, <2>2, <2>3
  <2>. QED
    BY <2>1, <2>3 DEF SentInv
<1>4. CASE send_init
  BY <1>4 DEF send_init, SentInv, ThreadInv, BeforeSend
<1>5. CASE UNCHANGED sendVars
  <2>1. UNCHANGED table \/ sent = {}
    BY TableStep DEF ThreadInv
  <2>. QED
    BY <1>5, <2>1 DEF SentInv, sendVars
<1>. QED
  BY <1>2, <1>3, <1>4, <1>5, SendVarsStep

LEMMA EntryStep ==
  ASSUME IInv, EntryInv, [Next]_vars
  PROVE  EntryInv'
<1>1. CASE UNCHANGED table
  <2>1. (rpc = "none" => tvRecv = NoTimes)'
    BY RecvVarsStep DEF EntryInv, recv_init, icmp_recv, StampRecv, table_get, RecvDies,
       memcpy, BackToRecvfrom
  <2>2. (rpc = "memcpy" => EntryOf(rpkt) \in table)'
    BY <1>1, RecvVarsStep DEF EntryInv, EntryOf, recv_init, icmp_recv, StampRecv, table_get,
       RecvDies, memcpy, BackToRecvfrom
  <2>3. (\A k \in Texts, s \in Slots : tvRecv[k][s] # 0 => k \in table)'
    BY <1>1, RecvVarsStep, MemcpyStep DEF EntryInv, IInv
  <2>. QED
    BY <2>1, <2>2, <2>3 DEF EntryInv
<1>2. CASE rpc = "none" /\ UNCHANGED recvVars
  BY <1>2 DEF EntryInv, NoTimes, recvVars
<1>. QED
  BY <1>1, <1>2, TableStep

\* What is stored has its stamp, or will get it with the next step of the send thread.
LEMMA AnswersRequested ==
  ASSUME IInv, SentInv, EntryInv, \A m \in Foreign : ~IsOurs(m), OwnAnswers, OneSpelling
  PROVE  AnswerHasRequest
<1>. SUFFICES ASSUME NEW k \in Texts, NEW s \in Slots, tvRecv[k][s] # 0
              PROVE  tvSent[k][s] # 0 \/ (spc = "stamp" /\ cur = k /\ round = s)
  BY DEF AnswerHasRequest
<1>. USE DEF IInv, TypeInv, TypeOK
<1>1. PICK p \in sent : p[2] = s /\ InetAddr[k] \in Answers[p[1]]
  BY DEF StoredInv, StoredWasAsked
<1>2. InetAddr[k] = p[1]
  BY <1>1 DEF OwnAnswers
<1>3. PICK l \in table : /\ InetAddr[l] = p[1]
                         /\ tvSent[l][p[2]] # 0 \/ (spc = "stamp" /\ cur = l /\ round = p[2])
  BY DEF SentInv
<1>4. k \in table
  BY DEF EntryInv
<1>5. k = l
  BY <1>2, <1>3, <1>4 DEF OneSpelling
<1>. QED
  BY <1>1, <1>3, <1>5

\* The report is true for any number of hosts, rounds and packets, whatever is lost,
\* late or repeated: no answer without its request, no host alive without an answer.
THEOREM TrueReport ==
  ASSUME \A m \in Foreign : ~IsOurs(m), OwnAnswers, OneSpelling
  PROVE  Spec => []ReportIsTrue
<1>1. Init => ClockInv /\ SentInv /\ EntryInv
  BY TimeAssumption DEF Init, ClockInv, SentInv, EntryInv, NoTimes
<1>2. IInv /\ ClockInv /\ SentInv /\ EntryInv /\ [Next]_vars => (ClockInv /\ SentInv /\ EntryInv)'
  BY ClockStep, SentStep, EntryStep
<1>3. IInv /\ SentInv /\ EntryInv => AnswerHasRequest
  BY AnswersRequested
<1>4. AnswerHasRequest /\ AliveMeansAnswered => ReportIsTrue
  BY DEF ReportIsTrue
<1>. QED
  BY <1>1, <1>2, <1>3, <1>4, Invariance, AliveAnswered, PTL DEF Spec

-----------------------------------------------------------------------------
(* A host reported dead is dead, or the report says why not. *)

\* A nonempty set of numbers has a least one.
LEMMA LeastNumber ==
  ASSUME NEW T \in SUBSET Nat, T # {}
  PROVE  \E least \in T : \A m \in T : least <= m
<1> DEFINE R == OpToRel(<, Nat)
<1>1. IsWellFoundedOn(R, Nat)
  BY NatLessThanWellFounded
<1> HIDE DEF R
<1>2. PICK least \in T : \A m \in T : ~(<<m, least>> \in R)
  BY <1>1, WFMin
<1>3. \A m, k \in Nat : <<m, k>> \in R <=> m < k
  BY DEF R, OpToRel
<1>4. ASSUME NEW m \in T PROVE least <= m
  <2>1. ~(<<m, least>> \in R) /\ m \in Nat /\ least \in Nat
    BY <1>2
  <2> QED
    BY <1>3, <2>1
<1> QED
  BY <1>4

\* The element that the sum over a set takes next
First(s) == CHOOSE x \in s : TRUE

\* f is the sum of the terms F over the sets of D.
SumsOver(f, D, F) ==
  f = [s \in D |-> IF s = {} THEN 0 ELSE F[First(s)] + f[s \ {First(s)}]]

\* Without its next element a set is smaller.
LEMMA Remaining ==
  ASSUME NEW S, IsFiniteSet(S), NEW s \in SUBSET S, s # {}
  PROVE  /\ First(s) \in s /\ s \ {First(s)} \in SUBSET S
         /\ Cardinality(s) \in Nat /\ Cardinality(s) # 0
         /\ Cardinality(s \ {First(s)}) = Cardinality(s) - 1
<1>1. First(s) \in s
  BY DEF First
<1>2. IsFiniteSet(s)
  BY FS_Subset
<1>3. Cardinality(s) \in Nat /\ Cardinality(s) # 0
  BY <1>2, FS_CardinalityType, FS_EmptySet
<1>4. Cardinality(s \ {First(s)}) = Cardinality(s) - 1
  BY <1>1, <1>2, FS_RemoveElement
<1>. QED
  BY <1>1, <1>3, <1>4

\* The sum over the subsets of a finite set exists.
LEMMA SumExists ==
  ASSUME NEW S, IsFiniteSet(S), NEW F \in [S -> Nat]
  PROVE  \E f : SumsOver(f, SUBSET S, F)
<1>. DEFINE Upto(n) == {s \in SUBSET S : Cardinality(s) <= n}
            T == {n \in Nat : ~\E f \in [Upto(n) -> Nat] : SumsOver(f, Upto(n), F)}
<1>1. \A s \in SUBSET S : Cardinality(s) \in Nat /\ (Cardinality(s) = 0 => s = {})
  BY FS_Subset, FS_CardinalityType, FS_EmptySet
<1>2. Cardinality(S) \in Nat /\ Upto(Cardinality(S)) = SUBSET S
  <2>1. \A s \in SUBSET S : Cardinality(s) <= Cardinality(S)
    BY FS_Subset
  <2>. QED
    BY <1>1, <2>1
<1>3. SUFFICES T = {}
  <2>1. SUFFICES ASSUME T = {} PROVE \E f : SumsOver(f, SUBSET S, F)
    OBVIOUS
  <2>2. \E f \in [Upto(Cardinality(S)) -> Nat] : SumsOver(f, Upto(Cardinality(S)), F)
    BY <1>2, <2>1
  <2>. HIDE DEF Upto
  <2>. QED
    BY <1>2, <2>2
<1>4. SUFFICES ASSUME T # {} PROVE FALSE
  <2>. HIDE DEF T
  <2>. QED
    OBVIOUS
<1>5. PICK m \in T : \A k \in T : m <= k
  <2>1. T \in SUBSET Nat
    OBVIOUS
  <2>. HIDE DEF T
  <2>. QED
    BY <1>4, <2>1, LeastNumber
<1>6. m \in Nat /\ ~\E f \in [Upto(m) -> Nat] : SumsOver(f, Upto(m), F)
  BY <1>5
<1>7. m # 0
  <2>1. SUFFICES ASSUME m = 0 PROVE FALSE
    OBVIOUS
  <2>2. Upto(m) = {{}}
    <3>1. {} \in SUBSET S /\ Cardinality({}) = 0
      BY FS_EmptySet
    <3>. QED
      BY <1>1, <2>1, <3>1
  <2>. DEFINE f == [s \in {{}} |-> 0]
  <2>3. SumsOver(f, {{}}, F)
    BY DEF SumsOver
  <2>4. f \in [{{}} -> Nat]
    OBVIOUS
  <2>. HIDE DEF Upto, f
  <2>. QED
    BY <1>6, <2>2, <2>3, <2>4
<1>8. PICK g \in [Upto(m - 1) -> Nat] : SumsOver(g, Upto(m - 1), F)
  <2>1. m - 1 \in Nat /\ ~(m <= m - 1)
    BY <1>6, <1>7
  <2>. QED
    BY <1>5, <2>1
<1>. DEFINE h == [s \in Upto(m) |-> IF s = {} THEN 0 ELSE F[First(s)] + g[s \ {First(s)}]]
<1>9. ASSUME NEW s \in Upto(m), s # {}
      PROVE  s \ {First(s)} \in Upto(m - 1) /\ First(s) \in S
  <2>1. s \in SUBSET S /\ Cardinality(s) <= m
    OBVIOUS
  <2>2. /\ First(s) \in s /\ s \ {First(s)} \in SUBSET S
        /\ Cardinality(s) \in Nat
        /\ Cardinality(s \ {First(s)}) = Cardinality(s) - 1
    BY <1>9, <2>1, Remaining
  <2>. QED
    BY <1>6, <2>1, <2>2
<1>10. ASSUME NEW s \in Upto(m - 1)
       PROVE  s \in Upto(m) /\ h[s] = g[s]
  <2>1. s \in Upto(m)
    BY <1>1, <1>6
  <2>2. h[s] = IF s = {} THEN 0 ELSE F[First(s)] + g[s \ {First(s)}]
    BY <2>1
  <2>3. g[s] = IF s = {} THEN 0 ELSE F[First(s)] + g[s \ {First(s)}]
    BY <1>8 DEF SumsOver
  <2>. HIDE DEF h, Upto
  <2>. QED
    BY <2>1, <2>2, <2>3
<1>11. h \in [Upto(m) -> Nat]
  <2>1. ASSUME NEW s \in Upto(m), s # {}
        PROVE  F[First(s)] + g[s \ {First(s)}] \in Nat
    <3>. HIDE DEF Upto
    <3>1. F[First(s)] \in Nat /\ g[s \ {First(s)}] \in Nat
      BY <1>8, <1>9, <2>1
    <3>. QED
      BY <3>1
  <2>. HIDE DEF Upto
  <2>. QED
    BY <2>1
<1>12. SumsOver(h, Upto(m), F)
  <2>1. ASSUME NEW s \in Upto(m), s # {}
        PROVE  F[First(s)] + g[s \ {First(s)}] = F[First(s)] + h[s \ {First(s)}]
    <3>. HIDE DEF Upto, h
    <3>. QED
      BY <1>9, <1>10, <2>1
  <2>. DEFINE N(s) == IF s = {} THEN 0 ELSE F[First(s)] + h[s \ {First(s)}]
  <2>2. \A s \in Upto(m) : h[s] = N(s)
    <3>1. \A s \in Upto(m) : h[s] = IF s = {} THEN 0 ELSE F[First(s)] + g[s \ {First(s)}]
      OBVIOUS
    <3>. HIDE DEF Upto, h
    <3>. QED
      BY <2>1, <3>1
  <2>. HIDE DEF h, Upto, N
  <2>3. h = [s \in Upto(m) |-> N(s)]
    BY <1>11, <2>2
  <2>. QED
    BY <2>3 DEF SumsOver, N
<1>. HIDE DEF h, Upto
<1>. QED
  BY <1>6, <1>11, <1>12

\* A sum of numbers is a number.
LEMMA SumIsNumber ==
  ASSUME NEW S, IsFiniteSet(S), NEW F \in [S -> Nat], NEW f, SumsOver(f, SUBSET S, F)
  PROVE  f[S] \in Nat
<1>. DEFINE Bad == {s \in SUBSET S : f[s] \notin Nat}
            T == {Cardinality(s) : s \in Bad}
<1>1. SUFFICES ASSUME Bad # {} PROVE FALSE
  OBVIOUS
<1>2. \A s \in SUBSET S : Cardinality(s) \in Nat
  BY FS_Subset, FS_CardinalityType
<1>3. PICK m \in T : \A k \in T : m <= k
  <2>1. T \in SUBSET Nat
    BY <1>2
  <2>2. T # {}
    BY <1>1
  <2>. HIDE DEF T
  <2>. QED
    BY <2>1, <2>2, LeastNumber
<1>4. PICK s \in Bad : m = Cardinality(s)
  OBVIOUS
<1>5. f[s] = IF s = {} THEN 0 ELSE F[First(s)] + f[s \ {First(s)}]
  BY <1>4 DEF SumsOver
<1>6. s \in SUBSET S /\ s # {}
  BY <1>4, <1>5
<1>7. /\ First(s) \in s /\ s \ {First(s)} \in SUBSET S
      /\ Cardinality(s) \in Nat
      /\ Cardinality(s \ {First(s)}) = Cardinality(s) - 1
  BY <1>6, Remaining
<1>8. s \ {First(s)} \notin Bad
  <2>1. Cardinality(s \ {First(s)}) \notin T
    BY <1>3, <1>4, <1>7
  <2>. QED
    BY <2>1
<1>9. f[s \ {First(s)}] \in Nat /\ F[First(s)] \in Nat
  BY <1>6, <1>7, <1>8
<1>. QED
  BY <1>4, <1>5, <1>6, <1>9

\* Answers that come after their requests have a round trip of zero or more in all.
LEMMA RoundTripsAreTimes ==
  ASSUME NEW a \in [Slots -> Nat], NEW b \in [Slots -> Nat],
         \A i \in Samples(a, b) : a[i] <= b[i]
  PROVE  /\ IsFiniteSet(Samples(a, b))
         /\ RoundTrips(a, b) \in Nat
<1>. DEFINE S == Samples(a, b)
            F == [i \in S |-> b[i] - a[i]]
            Sum(f) == f = [s \in SUBSET S |-> IF s = {} THEN 0
                             ELSE (b[First(s)] - a[First(s)]) + f[s \ {First(s)}]]
            f == CHOOSE f : Sum(f)
<1>1. IsFiniteSet(S) /\ S \subseteq Slots
  <2>1. IsFiniteSet(Rounds)
    BY CountAssumption, FS_Interval DEF Rounds
  <2>2. Rounds \subseteq Slots
    BY CountAssumption DEF Rounds, Slots
  <2>3. S \subseteq Rounds
    BY DEF Samples
  <2>. HIDE DEF S
  <2>. QED
    BY <2>1, <2>2, <2>3, FS_Subset
<1>2. F \in [S -> Nat]
  BY <1>1
<1>3. \A g : SumsOver(g, SUBSET S, F) <=> Sum(g)
  <2>1. \A s \in SUBSET S : s # {} => F[First(s)] = b[First(s)] - a[First(s)]
    BY DEF First
  <2>. HIDE DEF S, F
  <2>. QED
    BY <2>1 DEF SumsOver
<1>4. SumsOver(f, SUBSET S, F)
  <2>1. \E g : Sum(g)
    <3>. HIDE DEF S, F, Sum
    <3>. QED
      BY <1>1, <1>2, <1>3, SumExists
  <2>. HIDE DEF S, F, Sum
  <2>. QED
    BY <1>3, <2>1
<1>5. f[S] \in Nat
  <2>. HIDE DEF S, F, f
  <2>. QED
    BY <1>1, <1>2, <1>4, SumIsNumber
<1>6. RoundTrips(a, b) = f[S]
  BY DEF RoundTrips, MapThenSumSet, MapThenFoldSet, First
<1>. QED
  BY <1>1, <1>5, <1>6

\* Every stamp is a time at which the program ran: its seconds are not zero.
FloorInv ==
  /\ Second <= now
  /\ rpc \in {"lookup", "memcpy"} => Second <= rtv
  /\ \A k \in Texts, s \in Slots :
       /\ tvSent[k][s] # 0 => Second <= tvSent[k][s]
       /\ tvRecv[k][s] # 0 => Second <= tvRecv[k][s]

LEMMA FloorStep ==
  ASSUME IInv, FloorInv, [Next]_vars
  PROVE  FloorInv'
<1>. USE DEF IInv, TypeInv, TypeOK
<1>1. Second \in Nat /\ now \in Nat /\ now' \in Nat /\ now <= now' /\ Second <= now
  BY TimersStep, TimeAssumption DEF FloorInv
<1>2. (rpc \in {"lookup", "memcpy"} => Second <= rtv)'
  BY DEF FloorInv, Next, MainStep, SendStep, RecvStep, Ended, vars, mainVars, sendVars,
         recvVars, setup, result_new, recv_init, send_init, send_wait, recv_wait,
         result_output, result_free, return, icmp_send, StampSent, icmp_recv, StampRecv,
         table_get, BackToRecvfrom, memcpy, SegmentationFault, RecvDies, Tick
<1>3. \A k \in Texts, s \in Slots : tvSent'[k][s] # 0 => Second <= tvSent'[k][s]
  <2>1. CASE StampSent
    <3>1. \A k \in Texts, s \in Slots : tvSent'[k][s] \in {tvSent[k][s], now}
      BY <2>1 DEF StampSent, Times
    <3>. QED
      BY <1>1, <3>1 DEF FloorInv
  <2>2. CASE UNCHANGED tvSent
    BY <2>2 DEF FloorInv
  <2>. QED
    BY <2>1, <2>2, SendVarsStep DEF send_init, icmp_send, sendVars
<1>4. \A k \in Texts, s \in Slots : tvRecv'[k][s] # 0 => Second <= tvRecv'[k][s]
  <2>1. CASE memcpy
    <3>1. \A k \in Texts, s \in Slots : tvRecv'[k][s] \in {tvRecv[k][s], rtv}
      BY <2>1 DEF memcpy, Times
    <3>2. Second <= rtv
      BY <2>1 DEF memcpy, FloorInv
    <3>. QED
      BY <3>1, <3>2 DEF FloorInv
  <2>2. CASE UNCHANGED tvRecv
    BY <2>2 DEF FloorInv
  <2>. QED
    BY <2>1, <2>2, RecvVarsStep
<1>. QED
  BY <1>1, <1>2, <1>3, <1>4 DEF FloorInv

\* A slot with both stamps counts.
LEMMA StampsCount ==
  ASSUME NEW a \in [Slots -> Nat], NEW b \in [Slots -> Nat], NEW i \in Rounds,
         Second <= a[i], Second <= b[i]
  PROVE  i \in Samples(a, b)
<1>1. Second \in Nat \ {0} /\ i \in Slots
  BY TimeAssumption, CountAssumption DEF Rounds, Slots
<1>2. \A n \in Nat : Second <= n => n \div Second # 0
  BY <1>1
<1>3. a[i] \in Nat /\ b[i] \in Nat
  BY <1>1
<1>. QED
  BY <1>2, <1>3 DEF Samples, HasSample

\* With a sample, and a sum of round trips that an int holds, the average is a time.
LEMMA TimesAreTimes ==
  ASSUME NEW a, NEW b, IsFiniteSet(Samples(a, b)), Samples(a, b) # {},
         RoundTrips(a, b) \in Nat, RoundTrips(a, b) < IntLim
  PROVE  calc_time(a, b) \in Nat
<1>. DEFINE R == RoundTrips(a, b)
            C == Cardinality(Samples(a, b))
<1>1. C \in Nat /\ C # 0
  BY FS_CardinalityType, FS_EmptySet
<1>2. R \in Nat /\ R < IntLim /\ IntLim \in Nat \ {0}
  BY TimeAssumption
<1>3. calc_time(a, b) = Quotient(ToInt(R), C)
  BY DEF calc_time
<1>. HIDE DEF R, C
<1>4. ToInt(R) = R
  <2>1. (R + IntLim) % (2 * IntLim) = R + IntLim
    BY <1>2
  <2>. QED
    BY <1>2, <2>1 DEF ToInt
<1>5. R \div C \in Nat
  BY <1>1, <1>2
<1>. QED
  BY <1>2, <1>3, <1>4, <1>5 DEF Quotient

\* One line of the report: a negative time has one of the four reasons.
LEMMA DeadStep ==
  ASSUME IInv, FloorInv, AnswerHasRequest, result_output,
         NEW k \in unprinted \ unprinted', report'[k] < 0
  PROVE  \/ \A i \in Rounds : tvRecv[k][i] = 0
         \/ \E i \in Rounds : 0 < tvRecv[k][i] /\ tvRecv[k][i] < tvSent[k][i]
         \/ rpc = "memcpy" /\ EntryOf(rpkt) = k
         \/ RoundTrips(tvSent[k], tvRecv[k]) >= IntLim
<1>. DEFINE a == tvSent[k]
            b == tvRecv[k]
<1>1. SUFFICES ASSUME NEW i \in Rounds, b[i] # 0,
                      \A j \in Rounds : ~(0 < b[j] /\ b[j] < a[j]),
                      ~(rpc = "memcpy" /\ EntryOf(rpkt) = k),
                      ~(RoundTrips(a, b) >= IntLim)
               PROVE  FALSE
  OBVIOUS
<1>. USE DEF IInv, TypeInv, TypeOK
<1>2. k \in Texts /\ Rounds \subseteq Slots
  BY TextAssumption, CountAssumption DEF Rounds, Slots
<1>3. a \in [Slots -> Nat] /\ b \in [Slots -> Nat]
  BY <1>2 DEF Times
<1>4. spc # "stamp"
  BY DEF result_output, ThreadInv
<1>5. i \in Samples(a, b)
  <2>1. a[i] # 0
    BY <1>1, <1>2, <1>4 DEF AnswerHasRequest
  <2>2. Second <= a[i] /\ Second <= b[i]
    BY <1>1, <1>2, <2>1 DEF FloorInv
  <2>. HIDE DEF a, b
  <2>. QED
    BY <1>3, <2>2, StampsCount
<1>6. \A j \in Samples(a, b) : a[j] <= b[j]
  <2>1. 0 \div Second = 0
    BY TimeAssumption
  <2>. HIDE DEF a, b
  <2>2. \A j \in Samples(a, b) : j \in Rounds /\ b[j] # 0 /\ a[j] \in Nat /\ b[j] \in Nat
    BY <1>2, <1>3, <2>1 DEF Samples, HasSample
  <2>. QED
    BY <1>1, <2>2
<1>7. RoundTrips(a, b) \in Nat /\ IsFiniteSet(Samples(a, b))
  <2>. HIDE DEF a, b
  <2>. QED
    BY <1>3, <1>6, RoundTripsAreTimes
<1>8. calc_time(a, b) \in Nat
  <2>1. RoundTrips(a, b) < IntLim
    BY <1>1, <1>7, TimeAssumption
  <2>. HIDE DEF a, b
  <2>. QED
    BY <1>5, <1>7, <2>1, TimesAreTimes
<1>9. report'[k] = calc_time(a, b)
  <2>1. PICK l \in unprinted :
          /\ \E recv \in Views(l) :
               report' = [report EXCEPT ![l] = calc_time(tvSent[l], recv)]
          /\ unprinted' = unprinted \ {l}
    BY DEF result_output
  <2>2. l = k
    BY <2>1
  <2>3. Views(k) = {b}
    BY <1>1 DEF Views
  <2>4. report' = [report EXCEPT ![k] = calc_time(a, b)]
    BY <2>1, <2>2, <2>3
  <2>. QED
    BY <1>2, <2>4
<1>. QED
  BY <1>8, <1>9

\* If no other program's replies carry our id, hosts answer from the address that was
\* asked and each has one spelling, a host is printed as dead only if no answer of it
\* is stored, one overtook its time stamp or is being stored at that moment, or the sum
\* of the round trips is beyond an int: for any number of hosts and rounds.
THEOREM JustDead ==
  ASSUME \A m \in Foreign : ~IsOurs(m), OwnAnswers, OneSpelling
  PROVE  Spec => DeadIsJustified
<1>1. Init => FloorInv /\ ClockInv /\ SentInv /\ EntryInv
  BY TimeAssumption DEF Init, FloorInv, ClockInv, SentInv, EntryInv, NoTimes
<1>2. IInv /\ FloorInv /\ ClockInv /\ SentInv /\ EntryInv /\ [Next]_vars
        => (FloorInv /\ ClockInv /\ SentInv /\ EntryInv)'
  BY FloorStep, ClockStep, SentStep, EntryStep
<1>. DEFINE Justified(k) ==
       report'[k] < 0 =>
         \/ \A i \in Rounds : tvRecv[k][i] = 0
         \/ \E i \in Rounds : 0 < tvRecv[k][i] /\ tvRecv[k][i] < tvSent[k][i]
         \/ rpc = "memcpy" /\ EntryOf(rpkt) = k
         \/ RoundTrips(tvSent[k], tvRecv[k]) >= IntLim
<1>3. IInv /\ FloorInv /\ SentInv /\ EntryInv /\ [Next]_vars
        => [\A k \in unprinted \ unprinted' : Justified(k)]_vars
  <2>1. SUFFICES ASSUME IInv, FloorInv, SentInv, EntryInv, [Next]_vars,
                        NEW k \in unprinted \ unprinted'
                 PROVE  Justified(k)
    OBVIOUS
  <2>2. AnswerHasRequest
    BY <2>1, AnswersRequested
  <2>3. CASE result_output
    BY <2>1, <2>2, <2>3, DeadStep
  <2>4. CASE recv_wait
    <3>1. unprinted' = table /\ unprinted \subseteq table
      BY <2>1, <2>4 DEF recv_wait, IInv, TypeInv, TypeOK
    <3>. QED
      BY <3>1
  <2>5. CASE UNCHANGED unprinted
    BY <2>5
  <2>. QED
    BY <2>1, <2>3, <2>4, <2>5, ReportVarsStep
<1>. HIDE DEF Justified
<1>4. DeadIsJustified <=> [][\A k \in unprinted \ unprinted' : Justified(k)]_vars
  BY DEF DeadIsJustified, Justified
<1>. QED
  BY <1>1, <1>2, <1>3, <1>4, Invariance, PTL DEF Spec
=============================================================================
