---------------------------- MODULE SimpleClient ----------------------------
(***************************************************************************)
(* The HTTP/0.9-over-QUIC client of TQUICTest/TQUICTest/simple_client.c:   *)
(* main acquires its resources one by one, runs a libev loop whose two     *)
(* callbacks drive a QUIC endpoint, and releases everything at EXIT.  The  *)
(* endpoint calls back into the client from process_connections.           *)
(*                                                                         *)
(* External, as simple_client.c uses them: the QUIC endpoint (tquic.h),    *)
(* libev, the kernel's socket, and the server behind a network that loses, *)
(* duplicates and reorders datagrams.  A loss is an arrival that never     *)
(* happens; retransmission by the server is a repeated arrival.            *)
(***************************************************************************)
EXTENDS Naturals, Sequences

CONSTANTS
  RespLen,      \* the response, in pieces of at most READ_BUF_SIZE bytes
  ServerStreams, \* streams that the server opens, of one piece each
  IdleTicks,    \* timeouts without a packet that make the idle timeout: the
                \* first after a packet may have been set before it arrived
  MaxArrivals,  \* bound: arrivals at the socket in one behaviour
  RxMax         \* bound: datagrams waiting in the socket

ASSUME SimpleClientAssumption ==
  /\ RespLen \in Nat \ {0}
  /\ ServerStreams \in Nat
  /\ IdleTicks \in Nat \ {0}
  /\ MaxArrivals \in Nat
  /\ RxMax \in Nat

VARIABLES
  pc,         \* where the one thread is
  owned,      \* the resources acquired and not yet released
  sock,       \* what client.sock holds: main leaves it uninitialised
  exitAt,     \* the next entry of ExitOrder, once at EXIT
  conn,       \* the endpoint's connection
  greeted,    \* whether on_conn_established has been called
  out,        \* messages the endpoint has yet to put on the wire
  flown,      \* messages put on the wire at least once
  arrived,    \* the pieces of each stream the endpoint holds
  printed,    \* how many pieces of each stream the client has printed
  reset,      \* an error of a stream: none, ready, or collected
  wantwrite,  \* whether the endpoint reports stream 0 writable
  idle,       \* timeouts left before the idle timeout
  flushed,    \* whether this process_connections has sent its packets
  armed,      \* whether the timer runs
  inLoop,     \* whether ev_loop has been entered
  brk,        \* libev's request to leave the loop
  pending,    \* the events of this loop iteration not yet dispatched
  rx,         \* datagrams in the socket
  sockErr,    \* whether the socket has a pending error (an ICMP answer)
  budget      \* arrivals left

program == <<pc, owned, sock, exitAt, armed, inLoop, brk, pending>>
endpoint == <<conn, greeted, out, flown, arrived, printed, reset, wantwrite, idle,
              flushed>>
network == <<rx, sockErr, budget>>
vars == <<program, endpoint, network>>

Resources == {"peer", "fd", "config", "tls", "endpoint", "loop"}
(* Fault: EXIT forgets the TLS configuration. *)
ExitOrderWithoutTls == <<"peer", "fd", "endpoint", "loop", "config">>

ExitOrder == <<"peer", "tls", "fd", "endpoint", "loop", "config">>
Messages == {"hello", "get", "close"}

(* Stream 0 is the request's (line 54), the others are the server's. *)
Streams == 0..ServerStreams
Pieces(s) == IF s = 0 THEN RespLen ELSE 1

Datagrams == {<<kind, 0, 0>> : kind \in {"handshake", "bye", "junk"}}
             \cup {<<"reset", s, 0>> : s \in Streams}
             \cup {d \in {"piece"} \X Streams \X (1..RespLen) : d[3] <= Pieces(d[2])}

Init ==
  /\ pc = "socket" /\ owned = {} /\ sock = "garbage" /\ exitAt = 1
  /\ conn = "none" /\ greeted = FALSE /\ out = {} /\ flown = {}
  /\ arrived = {} /\ printed = [s \in Streams |-> 0]
  /\ reset = [s \in Streams |-> "none"] /\ wantwrite = FALSE
  /\ idle = IdleTicks /\ flushed = FALSE
  /\ armed = FALSE /\ inLoop = FALSE /\ brk = FALSE /\ pending = {}
  /\ rx = <<>> /\ sockErr = FALSE /\ budget = MaxArrivals

-----------------------------------------------------------------------------
(* main: acquisition.  Every failure goes to EXIT.                         *)

(* Fault: the result of socket is stored in client.sock before it is checked. *)
CreateSocketUnchecked ==
  /\ pc = "socket"
  /\ \/ owned' = {"peer"} /\ pc' = "exit" /\ sock' = "negative"
     \/ owned' = {"peer", "fd"} /\ pc' = "config" /\ sock' \in {"zero", "positive"}
  /\ UNCHANGED <<exitAt, armed, inLoop, brk, pending, endpoint, network>>

(* create_socket: resolving fails; socket fails; fcntl or getsockname      *)
(* fails, with the descriptor open and client.sock still unassigned; or    *)
(* all succeed.  Descriptor 0 is possible when standard input is closed.   *)
CreateSocket ==
  /\ pc = "socket"
  /\ \/ /\ owned' \in {{}, {"peer"}, {"peer", "fd"}}
        /\ pc' = "exit"
        /\ UNCHANGED sock
     \/ /\ owned' = {"peer", "fd"}
        /\ pc' = "config"
        /\ sock' \in {"zero", "positive"}
  /\ UNCHANGED <<exitAt, armed, inLoop, brk, pending, endpoint, network>>

Acquire(here, resource, after) ==
  /\ pc = here
  /\ \/ owned' = owned \cup {resource} /\ pc' = after
     \/ owned' = owned /\ pc' = "exit"
  /\ UNCHANGED <<sock, exitAt, armed, inLoop, brk, pending, endpoint, network>>

NewConfig == Acquire("config", "config", "tls")
NewTlsConfig == Acquire("tls", "tls", "endpoint")
NewEndpoint == Acquire("endpoint", "endpoint", "connect")

(* The default loop, which nobody checks is not NULL, and, when            *)
(* quic_endpoint_connect accepts, a connection (on_conn_created only       *)
(* stores a pointer nobody reads).                                         *)
Connect ==
  /\ pc = "connect"
  /\ owned' \in {owned, owned \cup {"loop"}}
  /\ \/ /\ pc' = "process"
        /\ conn' = "handshake"
        /\ out' = {"hello"}
     \/ /\ pc' = "exit"
        /\ UNCHANGED <<conn, out>>
  /\ UNCHANGED <<sock, exitAt, armed, inLoop, brk, pending, network, greeted,
                 flown, arrived, printed, reset, wantwrite, idle, flushed>>

(* ev_loop starts by forgetting an ev_break made before it. *)
StartLoop ==
  /\ pc = "start"
  /\ pc' = "poll" /\ inLoop' = TRUE /\ brk' = FALSE
  /\ UNCHANGED <<owned, sock, exitAt, armed, pending, endpoint, network>>

(* EXIT: one release, in the order of the source.  A resource is released  *)
(* when its pointer is set; the socket when client.sock > 0, which for the *)
(* uninitialised field is anybody's guess, and so is what that closes.     *)
Exit ==
  /\ pc = "exit"
  /\ LET r == ExitOrder[exitAt]
     IN  IF r # "fd" \/ sock = "positive" THEN owned' = owned \ {r}
         ELSE IF sock = "zero" THEN owned' = owned
         ELSE owned' \in {owned, owned \ {r}}
  /\ exitAt' = exitAt + 1
  /\ pc' = IF exitAt = Len(ExitOrder) THEN "done" ELSE "exit"
  /\ UNCHANGED <<sock, armed, inLoop, brk, pending, endpoint, network>>

Done == pc \in {"done", "crashed"} /\ UNCHANGED vars

-----------------------------------------------------------------------------
(* process_connections: the endpoint makes its pending callbacks and sends *)
(* its packets, in any order, then the timer is re-armed.                  *)

(* The result of quic_stream_write is ignored: at an error nothing is      *)
(* queued.  Of a short write nothing that follows tells the difference.    *)
OnEstablished ==
  /\ pc = "process" /\ conn = "established" /\ ~greeted
  /\ greeted' = TRUE
  /\ out' \in {out, out \cup {"get"}}
  /\ wantwrite' = TRUE
  /\ UNCHANGED <<program, network, conn, flown, arrived, printed, reset,
                 idle, flushed>>

OnWritable ==
  /\ pc = "process" /\ conn = "established" /\ wantwrite
  /\ wantwrite' = FALSE
  /\ UNCHANGED <<program, network, conn, greeted, out, flown, arrived, printed,
                 reset, idle, flushed>>

Readable(s) ==
  /\ conn = "established"
  /\ reset[s] = "ready" \/ (reset[s] = "none" /\ <<s, printed[s] + 1>> \in arrived)

(* Fault: at its end the stream leaves the loop instead of closing. *)
OnReadableBreaking(s) ==
  /\ pc = "process" /\ Readable(s) /\ reset[s] = "none"
  /\ printed' = [printed EXCEPT ![s] = @ + 1]
  /\ brk' = (brk \/ printed'[s] = Pieces(s))
  /\ UNCHANGED <<pc, owned, sock, exitAt, armed, inLoop, pending, network, conn,
                 greeted, out, flown, arrived, reset, wantwrite, idle, flushed>>

(* One read of at most READ_BUF_SIZE bytes.  An error is reported and      *)
(* nothing else; the end of a stream, whichever it is, closes the          *)
(* connection.                                                             *)
OnReadable(s) ==
  /\ pc = "process" /\ Readable(s)
  /\ IF reset[s] = "ready"
     THEN /\ reset' = [reset EXCEPT ![s] = "collected"]
          /\ UNCHANGED <<printed, conn, out>>
     ELSE /\ printed' = [printed EXCEPT ![s] = @ + 1]
          /\ IF printed'[s] = Pieces(s)
             THEN conn' = "closing" /\ out' = out \cup {"close"}
             ELSE UNCHANGED <<conn, out>>
          /\ UNCHANGED reset
  /\ UNCHANGED <<program, network, greeted, flown, arrived, wantwrite, idle, flushed>>

(* Fault: the closed connection does not ask to leave the loop. *)
OnClosedQuietly ==
  /\ pc = "process" /\ conn = "dead"
  /\ conn' = "closed"
  /\ UNCHANGED <<program, network, greeted, out, flown, arrived, printed, reset,
                 wantwrite, idle, flushed>>

(* libev dereferences a loop that is NULL. *)
OnClosed ==
  /\ pc = "process" /\ conn = "dead"
  /\ conn' = "closed"
  /\ IF "loop" \in owned THEN brk' = TRUE /\ UNCHANGED pc
     ELSE pc' = "crashed" /\ UNCHANGED brk
  /\ UNCHANGED <<owned, sock, exitAt, armed, inLoop, pending, network, greeted,
                 out, flown, arrived, printed, reset, wantwrite, idle, flushed>>

(* client_on_packets_send: the messages of sent leave.  With all sent, or  *)
(* at the first that would block, the endpoint is told how many and keeps  *)
(* the rest.  At another error it is told -1: it keeps all of them, or     *)
(* gives the connection up.  A message is one iovec: each is sent as a     *)
(* datagram, so a packet of several would not survive, and sent_count,     *)
(* which counts iovecs, would not be the number of packets.                *)
OnPacketsSend ==
  /\ pc = "process" /\ out # {} /\ ~flushed /\ conn \notin {"dead", "closed"}
  /\ flushed' = TRUE
  /\ \E sent \in SUBSET out :
       /\ flown' = flown \cup sent
       /\ \/ out' = out \ sent /\ UNCHANGED conn
          \/ sent # out /\ out' = out /\ conn' \in {conn, "dead"}
  /\ UNCHANGED <<program, network, greeted, arrived, printed, reset, wantwrite, idle>>

CallbackPending ==
  \/ conn = "established" /\ ~greeted
  \/ \E s \in Streams : Readable(s)
  \/ conn = "dead"
  \/ out # {} /\ ~flushed /\ conn # "closed"

(* Fault: a timeout of 0 is handed to the timer as it is. *)
RepeatUnclamped(timeout) == timeout

(* The repeat interval is the endpoint's timeout, which may be 0, but at   *)
(* least 0.0001; ev_timer_again would stop a timer whose repeat is 0.      *)
Repeat(timeout) == IF timeout = 0 THEN 1 ELSE timeout

ProcessDone ==
  /\ pc = "process" /\ ~CallbackPending
  /\ \E timeout \in 0..2 : armed' = ("loop" \in owned /\ Repeat(timeout) > 0)
  /\ flushed' = FALSE
  /\ pc' = IF "loop" \notin owned THEN "crashed"
           ELSE IF inLoop THEN "dispatch" ELSE "start"
  /\ UNCHANGED <<owned, sock, exitAt, inLoop, brk, pending, network, conn, greeted,
                 out, flown, arrived, printed, reset, wantwrite, idle>>

-----------------------------------------------------------------------------
(* The event loop: an iteration collects the events that are ready and     *)
(* dispatches each of them; only then is a request to break looked at.     *)

Ready == (IF rx # <<>> \/ sockErr THEN {"read"} ELSE {})
         \cup (IF armed THEN {"timer"} ELSE {})

Poll ==
  /\ pc = "poll"
  /\ \E events \in SUBSET Ready \ {{}} : pending' = events
  /\ pc' = "dispatch"
  /\ UNCHANGED <<owned, sock, exitAt, armed, inLoop, brk, endpoint, network>>

EndIteration ==
  /\ pc = "dispatch" /\ pending = {}
  /\ pc' = IF brk THEN "exit" ELSE "poll"
  /\ UNCHANGED <<owned, sock, exitAt, armed, inLoop, brk, pending, endpoint, network>>

ReadCallback ==
  /\ pc = "dispatch" /\ "read" \in pending
  /\ pending' = pending \ {"read"}
  /\ pc' = "read"
  /\ UNCHANGED <<owned, sock, exitAt, armed, inLoop, brk, endpoint, network>>

(* Whether the endpoint's timeout ends the connection. *)
GivenUp == conn \in {"closing", "draining"} \/ idle = 0

(* Fault: the timeouts are handled without process_connections. *)
TimeoutCallbackAlone ==
  /\ pc = "dispatch" /\ "timer" \in pending
  /\ pending' = pending \ {"timer"}
  /\ IF conn \in {"dead", "closed"}
     THEN UNCHANGED <<conn, out, idle>>
     ELSE /\ out' \in {out, out \cup flown}
          /\ IF GivenUp
             THEN conn' = "dead" /\ UNCHANGED idle
             ELSE idle' = idle - 1 /\ UNCHANGED conn
  /\ UNCHANGED <<pc, owned, sock, exitAt, armed, inLoop, brk, network, greeted, flown,
                 arrived, printed, reset, wantwrite, flushed>>

(* timeout_callback: the endpoint's timeouts, then process_connections.    *)
(* Lost messages may be due again; a connection that either side closed    *)
(* has drained; one that has been idle too long is given up.               *)
TimeoutCallback ==
  /\ pc = "dispatch" /\ "timer" \in pending
  /\ pending' = pending \ {"timer"}
  /\ pc' = "process"
  /\ IF conn \in {"dead", "closed"}
     THEN UNCHANGED <<conn, out, idle>>
     ELSE /\ out' \in {out, out \cup flown}
          /\ IF GivenUp
             THEN conn' = "dead" /\ UNCHANGED idle
             ELSE idle' = idle - 1 /\ UNCHANGED conn
  /\ UNCHANGED <<owned, sock, exitAt, armed, inLoop, brk, network, greeted, flown,
                 arrived, printed, reset, wantwrite, flushed>>

(* read_callback's loop, one recvfrom at a time.  An error other than      *)
(* EAGAIN leaves the callback without process_connections.                 *)
RecvError ==
  /\ pc = "read" /\ sockErr
  /\ sockErr' = FALSE
  /\ pc' = "dispatch"
  /\ UNCHANGED <<owned, sock, exitAt, armed, inLoop, brk, pending, endpoint, rx, budget>>

RecvWouldBlock ==
  /\ pc = "read" /\ ~sockErr /\ rx = <<>>
  /\ pc' = "process"
  /\ UNCHANGED <<owned, sock, exitAt, armed, inLoop, brk, pending, endpoint, network>>

(* quic_endpoint_recv; the loop goes on whether or not it fails. *)
RecvDatagram ==
  /\ pc = "read" /\ ~sockErr /\ rx # <<>>
  /\ rx' = Tail(rx)
  /\ LET d == Head(rx)
         live == conn \in {"handshake", "established"}
     IN  /\ conn' = IF d[1] = "handshake" /\ conn = "handshake" THEN "established"
                    ELSE IF d[1] = "bye" /\ live THEN "draining" ELSE conn
         /\ arrived' = IF d[1] = "piece" /\ live
                       THEN arrived \cup {<<d[2], d[3]>>} ELSE arrived
         /\ reset' = IF d[1] = "reset" /\ conn = "established" /\ reset[d[2]] = "none"
                     THEN [reset EXCEPT ![d[2]] = "ready"] ELSE reset
         /\ idle' = IF d[1] # "junk" /\ live THEN IdleTicks ELSE idle
  /\ UNCHANGED <<program, greeted, out, flown, printed, wantwrite, flushed, sockErr,
                 budget>>

-----------------------------------------------------------------------------
(* The network: anything the server may have answered to what has flown,   *)
(* on the stream of the request or one of its own, as often as it likes,   *)
(* or a datagram that is no answer at all.                                 *)
Answers(d) ==
  \/ d[1] = "junk"
  \/ d[1] \in {"handshake", "bye"} /\ "hello" \in flown
  \/ d[1] \in {"piece", "reset"} /\ (IF d[2] = 0 THEN "get" ELSE "hello") \in flown

Arrive(d) ==
  /\ "fd" \in owned /\ budget > 0 /\ Len(rx) < RxMax /\ Answers(d)
  /\ rx' = Append(rx, d)
  /\ budget' = budget - 1
  /\ UNCHANGED <<program, endpoint, sockErr>>

ArriveError ==
  /\ "fd" \in owned /\ budget > 0 /\ flown # {}
  /\ sockErr' = TRUE
  /\ budget' = budget - 1
  /\ UNCHANGED <<program, endpoint, rx>>

Client ==
  \/ CreateSocket \/ NewConfig \/ NewTlsConfig \/ NewEndpoint \/ Connect
  \/ StartLoop \/ Exit
  \/ OnEstablished \/ OnWritable \/ OnClosed \/ OnPacketsSend \/ ProcessDone
  \/ \E s \in Streams : OnReadable(s)
  \/ Poll \/ EndIteration \/ ReadCallback \/ TimeoutCallback
  \/ RecvError \/ RecvWouldBlock \/ RecvDatagram

Next == Client \/ Done \/ ArriveError \/ \E d \in Datagrams : Arrive(d)

Spec == Init /\ [][Next]_vars

(* The thread keeps running and time passes: no fairness of the network. *)
FairSpec == Spec /\ WF_vars(Client)

-----------------------------------------------------------------------------
(* Every variable has its type. *)
TypeOK ==
  /\ pc \in {"socket", "config", "tls", "endpoint", "connect", "process", "start",
             "poll", "dispatch", "read", "exit", "done", "crashed"}
  /\ owned \subseteq Resources
  /\ sock \in {"garbage", "zero", "positive"}
  /\ exitAt \in 1..(Len(ExitOrder) + 1)
  /\ conn \in {"none", "handshake", "established", "closing", "draining", "dead",
               "closed"}
  /\ out \subseteq Messages /\ flown \subseteq Messages
  /\ arrived \subseteq Streams \X (1..RespLen)
  /\ printed \in [Streams -> 0..RespLen]
  /\ reset \in [Streams -> {"none", "ready", "collected"}]
  /\ idle \in 0..IdleTicks
  /\ {greeted, wantwrite, flushed, armed, inLoop, brk, sockErr} \subseteq BOOLEAN
  /\ pending \subseteq {"read", "timer"}
  /\ rx \in Seq(Datagrams) /\ Len(rx) <= RxMax
  /\ budget \in 0..MaxArrivals

(* The handshake or a piece of a stream that the client has not been told  *)
(* of yet.                                                                 *)
Untold == conn = "established" /\ (~greeted \/ \E s \in Streams : Readable(s))

(* A connection is not given up as idle with something in hand that the    *)
(* client was never told: read_callback may return at a read error without *)
(* process_connections (line 161), and ev_loop may dispatch the timer      *)
(* next, but the timeout that follows what was received comes too early to *)
(* give up, and is itself followed by process_connections (line 185).      *)
IdleLosesNothing ==
  [][pc = "dispatch" /\ conn = "established" /\ conn' = "dead" => ~Untold]_vars

(* While the loop may wait for an event the timer runs: with no watcher    *)
(* for writability it is the only way out of a send that would have        *)
(* blocked, and the only way to the idle timeout (lines 134 to 162).       *)
TimerRunsInLoop == inLoop /\ pc \in {"poll", "dispatch", "read"} => armed

(* The loop is left only when the endpoint has reported the connection     *)
(* closed, and no callback runs after that: what EXIT releases is not in   *)
(* use.                                                                    *)
LeavesLoopWhenClosed == inLoop /\ pc \in {"exit", "done"} => conn = "closed" /\ pending = {}

(* Whatever failed on the way, the end of main holds no resource, except   *)
(* the socket when client.sock does not name it: descriptor 0, or a        *)
(* descriptor that create_socket opened and did not store.                 *)
LeaksOnlyUnnamedSocket ==
  pc = "done" => owned \subseteq (IF sock = "positive" THEN {} ELSE {"fd"})

(* The program ends, be it by a crash, also when the request was never     *)
(* written: a stream ends, or the server closes, or the idle timeout       *)
(* strikes.  The one exception is a connection that closed before ev_loop  *)
(* begins, whose ev_break ev_loop forgets (296 and 303).                   *)
EndsUnlessBreakForgotten ==
  <>(pc \in {"done", "crashed"} \/ (pc = "start" /\ conn = "closed"))

(* "The endpoint doesn't own the underlying resources provided by the C    *)
(* caller.  It is the responsibility of the caller to ensure that these    *)
(* resources outlive the endpoint" (tquic.h, quic_endpoint_new).  The      *)
(* TLS configuration and the socket it sends through are such resources.   *)
ResourcesOutliveEndpoint ==
  "endpoint" \in owned => "tls" \in owned /\ (sock = "positive" => "fd" \in owned)
=============================================================================
