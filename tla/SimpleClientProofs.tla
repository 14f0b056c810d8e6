------------------------ MODULE SimpleClientProofs -------------------------
(* Proofs about simple_client.c, for responses of any length, any idle     *)
(* timeout, and any number of arrivals.                                    *)
EXTENDS SimpleClient, SequenceTheorems, TLAPS

(* The types of the variables, in two parts. *)
Flags ==
  /\ greeted \in BOOLEAN /\ flushed \in BOOLEAN /\ armed \in BOOLEAN
  /\ wantwrite \in BOOLEAN /\ inLoop \in BOOLEAN /\ brk \in BOOLEAN /\ sockErr \in BOOLEAN

Acquiring == {"socket", "config", "tls", "endpoint", "connect"}

Thread ==
  /\ pc \in Acquiring \cup {"process", "start", "poll", "dispatch", "read", "exit", "done", "crashed"}
  /\ owned \subseteq Resources
  /\ sock \in {"garbage", "zero", "positive"}
  /\ exitAt \in 1..7
  /\ pending \subseteq {"read", "timer"}

Connection ==
  /\ conn \in {"none", "handshake", "established", "closing", "draining", "dead", "closed"}
  /\ out \subseteq Messages /\ flown \subseteq Messages
  /\ arrived \subseteq Streams \X (1..RespLen)
  /\ printed \in [Streams -> 0..RespLen]
  /\ reset \in [Streams -> {"none", "ready", "collected"}]
  /\ idle \in 0..IdleTicks

Network ==
  rx \in Seq(Datagrams) /\ Len(rx) <= RxMax /\ budget \in 0..MaxArrivals

Types == Flags /\ Thread /\ Connection /\ Network

(* Nothing has happened on the wire while main acquires. *)
Unconnected ==
  pc \in Acquiring =>
    /\ ~inLoop /\ exitAt = 1 /\ pending = {}
    /\ conn = "none" /\ out = {} /\ flown = {}

(* What the client has not been told of outside process_connections came   *)
(* after the last timeout.                                                 *)
Fresh == Untold => pc = "process" \/ idle = IdleTicks

(* The timer is armed before the loop is entered. *)
Timer == pc \in {"start", "poll", "dispatch", "read"} => armed

(* Only the report of the close asks to leave a loop that was entered. *)
Leaving ==
  /\ brk => conn = "closed"
  /\ pc \in {"exit", "done"} => (inLoop => conn = "closed") /\ pending = {}

(* Of the resources that EXIT has been at, none is left but the socket     *)
(* that client.sock does not name.                                         *)
Releasing ==
  /\ pc \notin {"exit", "done"} => exitAt = 1
  /\ pc = "exit" => exitAt \in 1..6
  /\ pc = "done" => exitAt = 7
  /\ \A i \in 1..6 : i < exitAt /\ ExitOrder[i] \in owned
                       => ExitOrder[i] = "fd" /\ sock # "positive"

IInv == Types /\ Unconnected /\ Fresh /\ Timer /\ Leaving /\ Releasing

(* The order of releases, one by one. *)
LEMMA Order ==
  /\ ExitOrder[1] = "peer" /\ ExitOrder[2] = "tls" /\ ExitOrder[3] = "fd"
  /\ ExitOrder[4] = "endpoint" /\ ExitOrder[5] = "loop" /\ ExitOrder[6] = "config"
  /\ Len(ExitOrder) = 6
BY DEF ExitOrder

(* What the client has been told depends on these variables only. *)
LEMMA UntoldStays ==
  ASSUME conn' = conn, greeted' = greeted, arrived' = arrived, printed' = printed,
         reset' = reset, Untold'
  PROVE  Untold
<1>1. ASSUME NEW s \in Streams, Readable(s)' PROVE Readable(s)
  BY <1>1 DEF Readable
<1>2. QED
  BY <1>1 DEF Untold

(* Types, what came since the last timeout, the timer, the way out of the loop and the         *)
(* releases are preserved by every step of the thread and of the network.  *)
THEOREM Invariance == Spec => []IInv
<1>1. Init => IInv
  <2> SUFFICES ASSUME Init PROVE IInv OBVIOUS
  <2> USE SimpleClientAssumption DEF Init
  <2>1. Flags BY Zenon DEF Flags
  <2>2. Thread BY DEF Thread, Acquiring
  <2>3. Connection BY DEF Connection
  <2>4. Network BY DEF Network
  <2>5. QED
    BY <2>1, <2>2, <2>3, <2>4 DEF IInv, Types, Unconnected, Fresh, Untold,
                                  Timer, Leaving, Releasing
<1>2. IInv /\ [Next]_vars => IInv'
  <2> SUFFICES ASSUME IInv, [Next]_vars PROVE IInv'
    OBVIOUS
  <2> USE SimpleClientAssumption DEF IInv, Types, Acquiring, program, endpoint, network
  <2>1. CASE CreateSocket
    <3> USE <2>1 DEF CreateSocket
    <3>1. Flags' BY Zenon DEF Flags
    <3>2. Thread' BY DEF Thread, Resources
    <3>3. Connection' BY DEF Connection, Messages
    <3>4. Network' BY DEF Network
    <3>5. Unconnected' BY DEF Thread, Unconnected
    <3>6. Fresh' BY DEF Unconnected, Fresh, Untold, Readable
    <3>7. Timer' BY DEF Timer
    <3>8. Leaving' BY DEF Flags, Thread, Unconnected, Leaving
    <3>9. Releasing' BY DEF Thread, Unconnected, Releasing
    <3>10. QED BY <3>1, <3>2, <3>3, <3>4, <3>5, <3>6, <3>7, <3>8, <3>9
  <2>2. CASE NewConfig
    <3> USE <2>2 DEF NewConfig, Acquire
    <3>1. Flags' BY Zenon DEF Flags
    <3>2. Thread' BY DEF Thread, Resources
    <3>3. Connection' BY DEF Connection, Messages
    <3>4. Network' BY DEF Network
    <3>5. Unconnected' BY DEF Thread, Unconnected
    <3>6. Fresh' BY DEF Unconnected, Fresh, Untold, Readable
    <3>7. Timer' BY DEF Timer
    <3>8. Leaving' BY DEF Flags, Thread, Unconnected, Leaving
    <3>9. Releasing' BY DEF Thread, Unconnected, Releasing
    <3>10. QED BY <3>1, <3>2, <3>3, <3>4, <3>5, <3>6, <3>7, <3>8, <3>9
  <2>3. CASE NewTlsConfig
    <3> USE <2>3 DEF NewTlsConfig, Acquire
    <3>1. Flags' BY Zenon DEF Flags
    <3>2. Thread' BY DEF Thread, Resources
    <3>3. Connection' BY DEF Connection, Messages
    <3>4. Network' BY DEF Network
    <3>5. Unconnected' BY DEF Thread, Unconnected
    <3>6. Fresh' BY DEF Unconnected, Fresh, Untold, Readable
    <3>7. Timer' BY DEF Timer
    <3>8. Leaving' BY DEF Flags, Thread, Unconnected, Leaving
    <3>9. Releasing' BY DEF Thread, Unconnected, Releasing
    <3>10. QED BY <3>1, <3>2, <3>3, <3>4, <3>5, <3>6, <3>7, <3>8, <3>9
  <2>4. CASE NewEndpoint
    <3> USE <2>4 DEF NewEndpoint, Acquire
    <3>1. Flags' BY Zenon DEF Flags
    <3>2. Thread' BY DEF Thread, Resources
    <3>3. Connection' BY DEF Connection, Messages
    <3>4. Network' BY DEF Network
    <3>5. Unconnected' BY DEF Thread, Unconnected
    <3>6. Fresh' BY DEF Unconnected, Fresh, Untold, Readable
    <3>7. Timer' BY DEF Timer
    <3>8. Leaving' BY DEF Flags, Thread, Unconnected, Leaving
    <3>9. Releasing' BY DEF Thread, Unconnected, Releasing
    <3>10. QED BY <3>1, <3>2, <3>3, <3>4, <3>5, <3>6, <3>7, <3>8, <3>9
  <2>5. CASE Connect
    <3> USE <2>5 DEF Connect
    <3>1. Flags' BY Zenon DEF Flags
    <3>2. Thread' BY DEF Thread, Resources
    <3>3. Connection' BY DEF Connection, Messages
    <3>4. Network' BY DEF Network
    <3>5. Unconnected' BY DEF Thread, Unconnected
    <3>6. Fresh' BY DEF Unconnected, Fresh, Untold, Readable
    <3>7. Timer' BY DEF Timer
    <3>8. Leaving' BY DEF Flags, Thread, Unconnected, Leaving
    <3>9. Releasing' BY DEF Thread, Unconnected, Releasing
    <3>10. QED BY <3>1, <3>2, <3>3, <3>4, <3>5, <3>6, <3>7, <3>8, <3>9
  <2>6. CASE StartLoop
    <3> USE <2>6 DEF StartLoop
    <3>1. Flags' BY Zenon DEF Flags
    <3>2. Thread' BY DEF Thread, Resources
    <3>3. Connection' BY DEF Connection, Messages
    <3>4. Network' BY DEF Network
    <3>5. Unconnected' BY DEF Thread, Unconnected
    <3>6. Fresh' BY DEF Unconnected, Fresh, Untold, Readable
    <3>7. Timer' BY DEF Timer
    <3>8. Leaving' BY DEF Flags, Thread, Unconnected, Leaving
    <3>9. Releasing' BY DEF Thread, Unconnected, Releasing
    <3>10. QED BY <3>1, <3>2, <3>3, <3>4, <3>5, <3>6, <3>7, <3>8, <3>9
  <2>7. CASE Exit
    <3> USE <2>7 DEF Exit
    <3>a. exitAt \in 1..6 /\ exitAt' = exitAt + 1 /\ owned' \subseteq owned
          /\ pc' = (IF exitAt = 6 THEN "done" ELSE "exit")
      BY Order DEF Releasing
    <3>b. ExitOrder[exitAt] \in owned' => ExitOrder[exitAt] = "fd" /\ sock # "positive"
      OBVIOUS
    <3>1. Flags' BY Zenon DEF Flags
    <3>2. Thread' BY <3>a DEF Thread
    <3>3. Connection' BY DEF Connection, Messages
    <3>4. Network' BY DEF Network
    <3>5. Unconnected' BY DEF Thread, Unconnected
    <3>6. Fresh' BY DEF Unconnected, Fresh, Untold, Readable
    <3>7. Timer' BY DEF Timer
    <3>8. Leaving' BY DEF Flags, Thread, Unconnected, Leaving
    <3>9. Releasing'
      <4>1. ASSUME NEW j \in 1..6, j < exitAt', ExitOrder[j] \in owned'
            PROVE  ExitOrder[j] = "fd" /\ sock # "positive"
        <5>1. CASE j < exitAt BY <3>a, <4>1, <5>1 DEF Releasing
        <5>2. CASE j = exitAt BY <3>b, <4>1, <5>2
        <5>3. QED BY <3>a, <4>1, <5>1, <5>2
      <4>2. sock' = sock OBVIOUS
      <4>3. QED BY <4>1, <4>2, <3>a DEF Releasing
    <3>10. QED BY <3>1, <3>2, <3>3, <3>4, <3>5, <3>6, <3>7, <3>8, <3>9
  <2>8. CASE OnEstablished
    <3> USE <2>8 DEF OnEstablished
    <3>1. Flags' BY Zenon DEF Flags
    <3>2. Thread' BY DEF Thread, Resources
    <3>3. Connection' BY DEF Connection, Messages
    <3>4. Network' BY DEF Network
    <3>5. Unconnected' BY DEF Thread, Unconnected
    <3>6. Fresh' BY DEF Unconnected, Fresh, Untold, Readable
    <3>7. Timer' BY DEF Timer
    <3>8. Leaving' BY DEF Flags, Thread, Unconnected, Leaving
    <3>9. Releasing' BY DEF Thread, Unconnected, Releasing
    <3>10. QED BY <3>1, <3>2, <3>3, <3>4, <3>5, <3>6, <3>7, <3>8, <3>9
  <2>9. ASSUME NEW s \in Streams, OnReadable(s) PROVE IInv'
    <3> USE <2>9 DEF OnReadable
    <3>1. Flags' BY Zenon DEF Flags
    <3>2. Thread' BY DEF Thread, Resources
    <3>3. Connection'
      <4>1. printed' \in [Streams -> 0..RespLen]
        <5>1. CASE UNCHANGED printed BY <5>1 DEF Connection
        <5>2. CASE printed' = [printed EXCEPT ![s] = @ + 1] /\ <<s, printed[s] + 1>> \in arrived
          <6>1. printed[s] + 1 \in 1..RespLen BY <5>2 DEF Connection
          <6>2. QED BY <5>2, <6>1 DEF Connection
        <5>3. QED BY <5>1, <5>2 DEF Readable
      <4>2. out' \subseteq Messages BY DEF Connection, Messages
      <4>3. reset' \in [Streams -> {"none", "ready", "collected"}]
        BY DEF Connection
      <4>4. conn' \in {conn, "closing"} OBVIOUS
      <4>5. QED BY <4>1, <4>2, <4>3, <4>4 DEF Connection
    <3>4. Network' BY DEF Network
    <3>5. Unconnected' BY DEF Thread, Unconnected
    <3>6. Fresh' BY DEF Unconnected, Fresh, Untold, Readable
    <3>7. Timer' BY DEF Timer
    <3>8. Leaving' BY DEF Flags, Thread, Unconnected, Leaving, Readable
    <3>9. Releasing' BY DEF Thread, Unconnected, Releasing
    <3>10. QED BY <3>1, <3>2, <3>3, <3>4, <3>5, <3>6, <3>7, <3>8, <3>9
  <2>10. CASE OnClosed
    <3> USE <2>10 DEF OnClosed
    <3>1. Flags' BY Zenon DEF Flags
    <3>2. Thread' BY DEF Thread, Resources
    <3>3. Connection' BY DEF Connection, Messages
    <3>4. Network' BY DEF Network
    <3>5. Unconnected' BY DEF Thread, Unconnected
    <3>6. Fresh' BY DEF Unconnected, Fresh, Untold, Readable
    <3>7. Timer' BY DEF Timer
    <3>8. Leaving' BY DEF Flags, Thread, Unconnected, Leaving
    <3>9. Releasing' BY DEF Thread, Unconnected, Releasing
    <3>10. QED BY <3>1, <3>2, <3>3, <3>4, <3>5, <3>6, <3>7, <3>8, <3>9
  <2>11. CASE OnPacketsSend
    <3> USE <2>11 DEF OnPacketsSend
    <3>1. Flags' BY Zenon DEF Flags
    <3>2. Thread' BY DEF Thread, Resources
    <3>3. Connection' BY DEF Connection, Messages
    <3>4. Network' BY DEF Network
    <3>5. Unconnected' BY DEF Thread, Unconnected
    <3>6. Fresh' BY DEF Unconnected, Fresh, Untold, Readable
    <3>7. Timer' BY DEF Timer
    <3>8. Leaving' BY DEF Flags, Thread, Unconnected, Leaving
    <3>9. Releasing' BY DEF Thread, Unconnected, Releasing
    <3>10. QED BY <3>1, <3>2, <3>3, <3>4, <3>5, <3>6, <3>7, <3>8, <3>9
  <2>12. CASE ProcessDone
    <3> USE <2>12 DEF ProcessDone, Repeat
    <3>0. armed' = ("loop" \in owned)
      <4>1. PICK timeout \in 0..2 : armed' = ("loop" \in owned /\ Repeat(timeout) > 0)
        BY DEF ProcessDone
      <4>2. Repeat(timeout) > 0 OBVIOUS
      <4>3. QED BY <4>1, <4>2
    <3>1. Flags' BY <3>0, Zenon DEF Flags
    <3>2. Thread' BY DEF Thread, Resources
    <3>3. Connection' BY DEF Connection, Messages
    <3>4. Network' BY DEF Network
    <3>5. Unconnected' BY DEF Thread, Unconnected
    <3>6. Fresh' BY DEF Fresh, Untold, Readable, CallbackPending
    <3>7. Timer' BY <3>0 DEF Timer
    <3>8. Leaving' BY DEF Flags, Thread, Unconnected, Leaving
    <3>9. Releasing' BY DEF Thread, Unconnected, Releasing
    <3>10. QED BY <3>1, <3>2, <3>3, <3>4, <3>5, <3>6, <3>7, <3>8, <3>9
  <2>13. CASE Poll
    <3> USE <2>13 DEF Poll, Ready
    <3>1. Flags' BY Zenon DEF Flags
    <3>2. Thread' BY DEF Thread, Resources
    <3>3. Connection' BY DEF Connection, Messages
    <3>4. Network' BY DEF Network
    <3>5. Unconnected' BY DEF Thread, Unconnected
    <3>6. Fresh' BY DEF Unconnected, Fresh, Untold, Readable
    <3>7. Timer' BY DEF Timer
    <3>8. Leaving' BY DEF Flags, Thread, Unconnected, Leaving
    <3>9. Releasing' BY DEF Thread, Unconnected, Releasing
    <3>10. QED BY <3>1, <3>2, <3>3, <3>4, <3>5, <3>6, <3>7, <3>8, <3>9
  <2>14. CASE EndIteration
    <3> USE <2>14 DEF EndIteration
    <3>1. Flags' BY Zenon DEF Flags
    <3>2. Thread' BY DEF Thread, Resources
    <3>3. Connection' BY DEF Connection, Messages
    <3>4. Network' BY DEF Network
    <3>5. Unconnected' BY DEF Thread, Unconnected
    <3>6. Fresh' BY DEF Unconnected, Fresh, Untold, Readable
    <3>7. Timer' BY DEF Timer
    <3>8. Leaving' BY DEF Flags, Thread, Unconnected, Leaving
    <3>9. Releasing' BY DEF Thread, Unconnected, Releasing
    <3>10. QED BY <3>1, <3>2, <3>3, <3>4, <3>5, <3>6, <3>7, <3>8, <3>9
  <2>15. CASE ReadCallback
    <3> USE <2>15 DEF ReadCallback
    <3>1. Flags' BY Zenon DEF Flags
    <3>2. Thread' BY DEF Thread, Resources
    <3>3. Connection' BY DEF Connection, Messages
    <3>4. Network' BY DEF Network
    <3>5. Unconnected' BY DEF Thread, Unconnected
    <3>6. Fresh' BY DEF Unconnected, Fresh, Untold, Readable
    <3>7. Timer' BY DEF Timer
    <3>8. Leaving' BY DEF Flags, Thread, Unconnected, Leaving
    <3>9. Releasing' BY DEF Thread, Unconnected, Releasing
    <3>10. QED BY <3>1, <3>2, <3>3, <3>4, <3>5, <3>6, <3>7, <3>8, <3>9
  <2>16. CASE TimeoutCallback
    <3> USE <2>16 DEF TimeoutCallback, GivenUp
    <3>1. Flags' BY Zenon DEF Flags
    <3>2. Thread' BY DEF Thread, Resources
    <3>3. Connection'
      <4>1. idle' \in 0..IdleTicks BY DEF Connection
      <4>2. out' \subseteq Messages BY DEF Connection
      <4>3. conn' \in {conn, "dead"} OBVIOUS
      <4>4. QED BY <4>1, <4>2, <4>3 DEF Connection
    <3>4. Network' BY DEF Network
    <3>5. Unconnected' BY DEF Thread, Unconnected
    <3>6. Fresh' BY DEF Unconnected, Fresh, Untold, Readable
    <3>7. Timer' BY DEF Timer
    <3>8. Leaving' BY DEF Flags, Thread, Unconnected, Leaving
    <3>9. Releasing' BY DEF Thread, Unconnected, Releasing
    <3>10. QED BY <3>1, <3>2, <3>3, <3>4, <3>5, <3>6, <3>7, <3>8, <3>9
  <2>17. CASE RecvError
    <3> USE <2>17 DEF RecvError
    <3>1. Flags' BY Zenon DEF Flags
    <3>2. Thread' BY DEF Thread, Resources
    <3>3. Connection' BY DEF Connection, Messages
    <3>4. Network' BY DEF Network
    <3>5. Unconnected' BY DEF Thread, Unconnected
    <3>6. Fresh' BY DEF Unconnected, Fresh, Untold, Readable
    <3>7. Timer' BY DEF Timer
    <3>8. Leaving' BY DEF Flags, Thread, Unconnected, Leaving
    <3>9. Releasing' BY DEF Thread, Unconnected, Releasing
    <3>10. QED BY <3>1, <3>2, <3>3, <3>4, <3>5, <3>6, <3>7, <3>8, <3>9
  <2>18. CASE RecvWouldBlock
    <3> USE <2>18 DEF RecvWouldBlock
    <3>1. Flags' BY Zenon DEF Flags
    <3>2. Thread' BY DEF Thread, Resources
    <3>3. Connection' BY DEF Connection, Messages
    <3>4. Network' BY DEF Network
    <3>5. Unconnected' BY DEF Thread, Unconnected
    <3>6. Fresh' BY DEF Unconnected, Fresh, Untold, Readable
    <3>7. Timer' BY DEF Timer
    <3>8. Leaving' BY DEF Flags, Thread, Unconnected, Leaving
    <3>9. Releasing' BY DEF Thread, Unconnected, Releasing
    <3>10. QED BY <3>1, <3>2, <3>3, <3>4, <3>5, <3>6, <3>7, <3>8, <3>9
  <2>19. CASE RecvDatagram
    <3> USE <2>19 DEF RecvDatagram
    <3>1. Flags' BY Zenon DEF Flags
    <3>2. Thread' BY DEF Thread, Resources
    <3>3. Connection'
      <4> DEFINE d == Head(rx)
      <4>1. d \in Datagrams BY DEF Network
      <4>2. d[1] = "piece" => <<d[2], d[3]>> \in Streams \X (1..RespLen)
        BY <4>1 DEF Datagrams
      <4>3. arrived' \subseteq Streams \X (1..RespLen) BY <4>2 DEF Connection
      <4>4. idle' \in 0..IdleTicks BY DEF Connection
      <4>5. conn' \in {conn, "established", "draining"} OBVIOUS
      <4>6. reset' \in [Streams -> {"none", "ready", "collected"}] BY DEF Connection
      <4>7. UNCHANGED <<out, flown, printed>> OBVIOUS
      <4>8. QED BY <4>3, <4>4, <4>5, <4>6, <4>7 DEF Connection
    <3>4. Network' BY DEF Network
    <3>5. Unconnected' BY DEF Thread, Unconnected
    <3>6. Fresh'
      <4>1. CASE idle' = IdleTicks BY <4>1 DEF Fresh
      <4>2. CASE idle' # IdleTicks
        <5>1. Head(rx)[1] = "junk" \/ conn \notin {"handshake", "established"}
          BY <4>2
        <5>2. /\ conn' = conn /\ greeted' = greeted /\ arrived' = arrived
              /\ printed' = printed /\ reset' = reset /\ pc' = pc /\ idle' = idle
          BY <5>1
        <5>3. ASSUME Untold' PROVE Untold BY <5>2, <5>3, UntoldStays
        <5>4. QED BY <5>2, <5>3 DEF Fresh
      <4>3. QED BY <4>1, <4>2
    <3>7. Timer' BY DEF Timer
    <3>8. Leaving' BY DEF Flags, Thread, Unconnected, Leaving
    <3>9. Releasing' BY DEF Thread, Unconnected, Releasing
    <3>10. QED BY <3>1, <3>2, <3>3, <3>4, <3>5, <3>6, <3>7, <3>8, <3>9
  <2>20. CASE ArriveError
    <3> USE <2>20 DEF ArriveError
    <3>1. Flags' BY Zenon DEF Flags
    <3>2. Thread' BY DEF Thread, Resources
    <3>3. Connection' BY DEF Connection, Messages
    <3>4. Network' BY DEF Network
    <3>5. Unconnected' BY DEF Thread, Unconnected
    <3>6. Fresh' BY DEF Unconnected, Fresh, Untold, Readable
    <3>7. Timer' BY DEF Timer
    <3>8. Leaving' BY DEF Flags, Thread, Unconnected, Leaving
    <3>9. Releasing' BY DEF Thread, Unconnected, Releasing
    <3>10. QED BY <3>1, <3>2, <3>3, <3>4, <3>5, <3>6, <3>7, <3>8, <3>9
  <2>21. ASSUME NEW d \in Datagrams, Arrive(d) PROVE IInv'
    <3> USE <2>21 DEF Arrive, Answers
    <3>1. Flags' BY Zenon DEF Flags
    <3>2. Thread' BY DEF Thread, Resources
    <3>3. Connection' BY DEF Connection, Messages
    <3>4. Network' BY DEF Network
    <3>5. Unconnected' BY DEF Thread, Unconnected
    <3>6. Fresh' BY DEF Unconnected, Fresh, Untold, Readable
    <3>7. Timer' BY DEF Timer
    <3>8. Leaving' BY DEF Flags, Thread, Unconnected, Leaving
    <3>9. Releasing' BY DEF Thread, Unconnected, Releasing
    <3>10. QED BY <3>1, <3>2, <3>3, <3>4, <3>5, <3>6, <3>7, <3>8, <3>9
  <2>22. CASE UNCHANGED vars
    <3> USE <2>22 DEF vars
    <3>1. Flags' BY Zenon DEF Flags
    <3>2. Thread' BY DEF Thread, Resources
    <3>3. Connection' BY DEF Connection, Messages
    <3>4. Network' BY DEF Network
    <3>5. Unconnected' BY DEF Thread, Unconnected
    <3>6. Fresh' BY DEF Unconnected, Fresh, Untold, Readable
    <3>7. Timer' BY DEF Timer
    <3>8. Leaving' BY DEF Flags, Thread, Unconnected, Leaving
    <3>9. Releasing' BY DEF Thread, Unconnected, Releasing
    <3>10. QED BY <3>1, <3>2, <3>3, <3>4, <3>5, <3>6, <3>7, <3>8, <3>9
  <2>23. CASE OnWritable
    <3> USE <2>23 DEF OnWritable
    <3>1. Flags' BY Zenon DEF Flags
    <3>2. Thread' BY DEF Thread, Resources
    <3>3. Connection' BY DEF Connection, Messages
    <3>4. Network' BY DEF Network
    <3>5. Unconnected' BY DEF Thread, Unconnected
    <3>6. Fresh' BY DEF Unconnected, Fresh, Untold, Readable
    <3>7. Timer' BY DEF Timer
    <3>8. Leaving' BY DEF Flags, Thread, Unconnected, Leaving
    <3>9. Releasing' BY DEF Thread, Unconnected, Releasing
    <3>10. QED BY <3>1, <3>2, <3>3, <3>4, <3>5, <3>6, <3>7, <3>8, <3>9
  <2>24. QED
    BY <2>1, <2>2, <2>3, <2>4, <2>5, <2>6, <2>7, <2>8, <2>9, <2>10, <2>11,
       <2>12, <2>13, <2>14, <2>15, <2>16, <2>17, <2>18, <2>19, <2>20, <2>21, <2>22, <2>23
       DEF Next, Client, Done
<1>3. QED
  BY <1>1, <1>2, PTL DEF Spec

(* The types. *)
THEOREM TypeCorrect == Spec => []TypeOK
<1>1. IInv => TypeOK
  <2> SUFFICES ASSUME IInv PROVE TypeOK OBVIOUS
  <2>1. {greeted, wantwrite, flushed, armed, inLoop, brk, sockErr} \subseteq BOOLEAN
    BY DEF IInv, Types, Flags
  <2>2. QED
    BY <2>1, Order DEF IInv, Types, Thread, Connection, Network, Acquiring, TypeOK
<1>2. QED
  BY <1>1, Invariance, PTL

(* No connection is given up as idle with something the client was not     *)
(* told of.                                                                *)
THEOREM IdleNeverLoses == Spec => IdleLosesNothing
<1>1. IInv /\ [Next]_vars
        => [pc = "dispatch" /\ conn = "established" /\ conn' = "dead" => ~Untold]_vars
  <2> SUFFICES ASSUME IInv, Next, pc = "dispatch", conn = "established", conn' = "dead"
               PROVE  ~Untold
    OBVIOUS
  <2>1. TimeoutCallback
    BY DEF Next, Client, Done, program, endpoint, network, vars, Arrive, ArriveError,
           CreateSocket, NewConfig, NewTlsConfig, NewEndpoint, Acquire, Connect,
           StartLoop, Exit, OnEstablished, OnWritable, OnReadable, OnClosed,
           OnPacketsSend, ProcessDone, Poll, EndIteration, ReadCallback, RecvError,
           RecvWouldBlock, RecvDatagram
  <2>2. idle = 0 BY <2>1 DEF TimeoutCallback, GivenUp
  <2>3. QED BY <2>2, SimpleClientAssumption DEF IInv, Fresh
<1>2. QED
  BY <1>1, Invariance, PTL DEF Spec, IdleLosesNothing

(* The loop never waits with the timer stopped. *)
THEOREM TimerAlwaysRunsInLoop == Spec => []TimerRunsInLoop
<1>1. IInv => TimerRunsInLoop
  BY DEF IInv, Timer, TimerRunsInLoop
<1>2. QED
  BY <1>1, Invariance, PTL

(* The loop is left only once the close was reported, with no event left.  *)
THEOREM AlwaysLeavesLoopWhenClosed == Spec => []LeavesLoopWhenClosed
<1>1. IInv => LeavesLoopWhenClosed
  BY DEF IInv, Leaving, LeavesLoopWhenClosed
<1>2. QED
  BY <1>1, Invariance, PTL

(* main leaks nothing but a socket that client.sock does not name. *)
THEOREM AlwaysLeaksOnlyUnnamedSocket == Spec => []LeaksOnlyUnnamedSocket
<1>1. IInv => LeaksOnlyUnnamedSocket
  <2> SUFFICES ASSUME IInv, pc = "done", NEW r \in owned
               PROVE  r = "fd" /\ sock # "positive"
    BY DEF LeaksOnlyUnnamedSocket
  <2>1. r \in Resources BY DEF IInv, Types, Thread
  <2>2. PICK i \in 1..6 : ExitOrder[i] = r BY <2>1, Order DEF Resources
  <2>3. QED BY <2>2 DEF IInv, Releasing
<1>2. QED
  BY <1>1, Invariance, PTL
=============================================================================
